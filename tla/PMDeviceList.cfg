SPECIFICATION Spec
CONSTANTS
    b1 = b1
    b2 = b2
    b3 = b3
    Block = {b1, b2, b3}
    NoBlock = NoBlock
    network = network
    block = block
    bus = bus
    card = card
    disk = disk
    Name <- ThreeNames
    Class <- BothClasses
    ClassOf <- BusOfBoth
    ParentNames = {bus}
    pnp = pnp
    drv = drv
    pm = pm
    Pnp = {pnp}
    Client = {drv}
    Reader = {pm}
    MaxCalls = 4
INVARIANTS
    RefsExact
    PointersValid
    
    WalkMissesNobody
SYMMETRY BlockSymmetry
CHECK_DEADLOCK FALSE
