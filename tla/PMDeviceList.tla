---------------------------- MODULE PMDeviceList ----------------------------
(***************************************************************************)
(* The lists of power managed devices, one for each class (pmutils.cpp,    *)
(* pmdevice.cpp, pmrelation.cpp): arrival and removal of devices, parents  *)
(* and their children, the walk that updates all devices of a class, and   *)
(* the reference counts that keep a device's block while somebody uses it. *)
(*                                                                         *)
(* A thread is a stack of frames, because RemoveDevice calls itself for    *)
(* children and the last DecRef destroys a block, which drops its parent.  *)
(* A step is what happens between two points where the PM lock is free, or *)
(* one look at a device without the lock.  What a driver does with a new   *)
(* power state is the matter of PMDevicePower.                             *)
(***************************************************************************)
EXTENDS Naturals, Sequences, FiniteSets, SequencesExt

CONSTANTS
    Block,          \* memory for DEVICE_STATE structures
    NoBlock,        \* NULL
    Name,           \* names of devices
    Class,          \* the classes, in the order of gpDeviceLists
    ClassOf,        \* the class of each name
    ParentNames,    \* names of devices that answer POWER_CAP_PARENT
    Pnp,            \* threads that hear of devices: PnpThreadProc
    Client,         \* drivers that register and release children
    Reader,         \* threads that ask for devices or change the system power state
    MaxCalls        \* bound: calls and messages

Classes == ToSet(Class)
Thread == Pnp \cup Client \cup Reader
ASSUME ClassAssumption ==
    /\ Class \in Seq(Classes) /\ ClassOf \in [Name -> Classes]
    /\ Name # {} /\ ParentNames \subseteq Name
ASSUME ThreadAssumption ==
    /\ IsFiniteSet(Thread)
    /\ Pnp \cap Client = {} /\ Pnp \cap Reader = {} /\ Client \cap Reader = {}
    /\ MaxCalls \in Nat
ASSUME BlockAssumption == NoBlock \notin Block /\ IsFiniteSet(Block)

VARIABLES
    list,       \* pList of each class and the pNext of its members
    ref,        \* dwRefCount, zero for free memory
    alive,      \* the blocks that are allocated
    name,       \* pszName
    parent,     \* pParent
    stack,      \* the frames of each thread, the running one first
    handle,     \* what PmRegisterPowerRelationship returned to a client, and for whom
    unseen,     \* history: devices listed since a walk began, and not yet updated
    overlap,    \* history: devices were added or removed by two threads at a time
    calls

blockVars == <<ref, alive, name, parent>>
callVars == <<overlap, calls>>
vars == <<list, blockVars, stack, handle, unseen, callVars>>

NoHandle == [dev |-> NoBlock, name |-> CHOOSE n \in Name : TRUE]

Init ==
    /\ list = [c \in Classes |-> <<>>]
    /\ ref = [b \in Block |-> 0] /\ alive = {}
    /\ name = [b \in Block |-> NoHandle.name]
    /\ parent = [b \in Block |-> NoBlock]
    /\ stack = [t \in Thread |-> <<>>]
    /\ handle = [t \in Client |-> NoHandle]
    /\ unseen = [t \in Reader |-> {}]
    /\ overlap = FALSE /\ calls = 0

-----------------------------------------------------------------------------
(***************************************************************************)
(* A frame: where a function stands, and its locals: pszName, the name of  *)
(* the parent, pds, pdsParent, the place in the list of classes and the    *)
(* device that a walk looks at.                                            *)
(***************************************************************************)
Frame(pc, n) ==
    [pc |-> pc, name |-> n, of |-> n, dev |-> NoBlock, parent |-> NoBlock,
     class |-> 0, cur |-> NoBlock]
At(t, pc) == stack[t] # <<>> /\ Head(stack[t]).pc = pc
Me(t) == Head(stack[t])
Rest(t) == Tail(stack[t])
Goto(t, pc) == <<[Me(t) EXCEPT !.pc = pc]>> \o Rest(t)
Using(t, pc, b) == <<[Me(t) EXCEPT !.pc = pc, !.dev = b]>> \o Rest(t)
Resume(t, fs) == stack' = [stack EXCEPT ![t] = fs]

Members(k) == list[Class[k]]
Listed == UNION {ToSet(list[c]) : c \in Classes}
First(s) == IF s = <<>> THEN NoBlock ELSE s[1]

(* DeviceStateFindList, which adds a reference to what it finds *)
Named(n) == {i \in DOMAIN list[ClassOf[n]] : name[list[ClassOf[n]][i]] = n}
Find(n) == IF Named(n) = {} THEN NoBlock ELSE list[ClassOf[n]][Min(Named(n))]

(* pNext, which DeviceStateRemList clears *)
PlaceOf(b, s) == CHOOSE j \in DOMAIN s : s[j] = b
NextOf(b) ==
    LET s == list[ClassOf[name[b]]]
    IN IF b \notin Listed \/ PlaceOf(b, s) = Len(s) THEN NoBlock ELSE s[PlaceOf(b, s) + 1]

(* One reference more to every block of plus, one less to every block of minus. *)
Count(plus, minus) ==
    ref' = [b \in Block |-> (ref[b] + (IF b \in plus THEN 1 ELSE 0))
                                    - (IF b \in minus THEN 1 ELSE 0)]

(* The last DecRef of a block makes its thread destroy it before it goes   *)
(* on; that a walk keeps the lock meanwhile is left out.                   *)
Destroying(b) ==
    IF b \in Block /\ ref[b] = 1
      THEN <<[Frame("destroy", name[b]) EXCEPT !.dev = b]>> ELSE <<>>
DeviceStateDecRef(t, b, fs) ==
    /\ Count({}, {b})
    /\ Resume(t, Destroying(b) \o fs)

(* DeviceStateRemList, called for a device on a list only *)
DeviceStateRemList(b) ==
    /\ b \in Listed
    /\ list' = [list EXCEPT ![ClassOf[name[b]]] = RemoveAt(@, PlaceOf(b, @))]
    /\ unseen' = [w \in Reader |-> unseen[w] \ {b}]
    /\ Count({}, {b})

-----------------------------------------------------------------------------
(* Calls. *)
Begin(t, f) ==
    /\ stack[t] = <<>> /\ calls < MaxCalls
    /\ calls' = calls + 1
    /\ overlap' = (overlap \/ (t \notin Reader /\ \E u \in Thread \ Reader : stack[u] # <<>>))
    /\ Resume(t, <<f>>)

(* ProcessPnPMsgQueue: a device was attached, or removed. *)
ProcessPnPMsgQueue(t, n) ==
    /\ \E attached \in BOOLEAN : Begin(t, Frame(IF attached THEN "add" ELSE "remove", n))
    /\ UNCHANGED <<list, blockVars, handle, unseen>>

Registration(n, p) == [Frame("register", n) EXCEPT !.of = p]
PmRegisterPowerRelationship(t, n, p) ==
    /\ n # p /\ p \in ParentNames /\ handle[t].dev = NoBlock
    /\ Begin(t, Registration(n, p))
    /\ UNCHANGED <<list, blockVars, handle, unseen>>

(* CheckDevicePointer: the handle is good if some list has such a device. *)
PmReleasePowerRelationship(t) ==
    LET h == handle[t] IN
    /\ h.dev # NoBlock
    /\ handle' = [handle EXCEPT ![t] = NoHandle]
    /\ IF h.dev \in Listed
         THEN /\ Count({h.dev}, {})
              /\ Begin(t, [Frame("release", h.name) EXCEPT !.dev = h.dev])
         ELSE UNCHANGED <<ref, stack, callVars>>
    /\ UNCHANGED <<list, alive, name, parent, unseen>>

PmGetDevicePower(t, n) ==
    /\ Find(n) # NoBlock
    /\ Count({Find(n)}, {})
    /\ Begin(t, [Frame("drop", n) EXCEPT !.dev = Find(n)])
    /\ UNCHANGED <<list, alive, name, parent, handle, unseen>>

UpdateAllDeviceStates(t) ==
    /\ Begin(t, [Frame("class", NoHandle.name) EXCEPT !.class = 1])
    /\ UNCHANGED <<list, blockVars, handle, unseen>>

-----------------------------------------------------------------------------
(* AddDevice. *)

(* A device that is on its list already is only looked at; otherwise a     *)
(* block is allocated, if there is one, and holds a reference to its parent. *)
FindDuplicate(t) ==
    LET n == Me(t).name
        p == Me(t).parent
    IN /\ At(t, "add")
       /\ \/ /\ Find(n) # NoBlock
             /\ Count({Find(n)}, {})
             /\ Resume(t, Using(t, "drop", Find(n)))
             /\ UNCHANGED <<alive, name, parent>>
          \/ /\ Find(n) = NoBlock
             /\ \E b \in Block \ alive :
                  /\ alive' = alive \cup {b}
                  /\ name' = [name EXCEPT ![b] = n]
                  /\ parent' = [parent EXCEPT ![b] = p]
                  /\ Count({b, p}, {})
                  /\ Resume(t, Using(t, "insert", b))
          \/ /\ Find(n) = NoBlock
             /\ Resume(t, Rest(t))
             /\ UNCHANGED blockVars
       /\ UNCHANGED <<list, handle, unseen, callVars>>

DeviceStateAddList(t) ==
    LET b == Me(t).dev IN
    /\ At(t, "insert")
    /\ list' = [list EXCEPT ![ClassOf[name[b]]] = <<b>> \o @]
    /\ Count({b}, {})
    /\ Resume(t, Goto(t, "probe"))
    /\ UNCHANGED <<alive, name, parent, handle, unseen, callVars>>

(* The driver is opened and tells its capabilities, or does not.  A parent *)
(* is asked to register its children, and may do so on the spot.           *)
ProbeDevice(t) ==
    /\ At(t, "probe")
    /\ \/ Resume(t, Goto(t, "discard"))
       \/ Resume(t, Goto(t, "drop"))
       \/ /\ Me(t).name \in ParentNames
          /\ \E n \in Name \ {Me(t).name} :
               Resume(t, <<Registration(n, Me(t).name)>> \o Goto(t, "drop"))
    /\ UNCHANGED <<list, blockVars, handle, unseen, callVars>>

Discard(t) ==
    /\ At(t, "discard")
    /\ DeviceStateRemList(Me(t).dev)
    /\ Resume(t, Goto(t, "drop"))
    /\ UNCHANGED <<alive, name, parent, handle, callVars>>

(* The caller is done with the device. *)
Drop(t) ==
    /\ At(t, "drop")
    /\ DeviceStateDecRef(t, Me(t).dev, Rest(t))
    /\ UNCHANGED <<list, alive, name, parent, handle, unseen, callVars>>

DeviceStateDestroyAlone(t) ==                                       \* a slip
    /\ At(t, "destroy")
    /\ alive' = alive \ {Me(t).dev}
    /\ parent' = [parent EXCEPT ![Me(t).dev] = NoBlock]
    /\ Resume(t, Rest(t))
    /\ UNCHANGED <<list, ref, name, handle, unseen, callVars>>
DeviceStateDestroy(t) ==
    LET b == Me(t).dev IN
    /\ At(t, "destroy")
    /\ alive' = alive \ {b}
    /\ parent' = [parent EXCEPT ![b] = NoBlock]
    /\ DeviceStateDecRef(t, parent[b], Rest(t))
    /\ UNCHANGED <<list, name, handle, unseen, callVars>>

-----------------------------------------------------------------------------
(* RemoveDevice. *)

FindDevice(t) ==
    LET b == Find(Me(t).name) IN
    /\ At(t, "remove")
    /\ Count({b}, {})
    /\ Resume(t, IF b = NoBlock THEN Rest(t) ELSE Using(t, "unlink", b))
    /\ UNCHANGED <<list, alive, name, parent, handle, unseen, callVars>>

Unlink(t) ==
    /\ At(t, "unlink")
    /\ DeviceStateRemList(Me(t).dev)
    /\ Resume(t, Goto(t, "orphan"))
    /\ UNCHANGED <<alive, name, parent, handle, callVars>>

AfterUnlinkNoWalk(b) == "drop"                                      \* a slip
AfterUnlink(b) == IF name[b] \in ParentNames THEN "walk" ELSE "drop"

(* A child forgets its parent; a parent goes on to look for its children. *)
LeaveParent(t) ==
    LET b == Me(t).dev IN
    /\ At(t, "orphan")
    /\ parent' = [parent EXCEPT ![b] = NoBlock]
    /\ DeviceStateDecRef(t, parent[b], Goto(t, AfterUnlink(b)))
    /\ UNCHANGED <<list, alive, name, handle, unseen, callVars>>

NextClass(t) ==
    LET k == Me(t).class + 1 IN
    /\ At(t, "walk") /\ Me(t).cur = NoBlock
    /\ Resume(t, IF k > Len(Class) THEN Goto(t, "drop")
                 ELSE <<[Me(t) EXCEPT !.class = k, !.cur = First(Members(k))]>> \o Rest(t))
    /\ UNCHANGED <<list, blockVars, handle, unseen, callVars>>

(* The walk takes no lock and no reference, and remembers the next device  *)
(* over the removal of a child.                                            *)
VisitDeviceAgain(t) ==                                              \* a slip
    LET c == Me(t).cur IN
    /\ At(t, "walk") /\ c \in alive
    /\ Resume(t, IF parent[c] = Me(t).dev THEN <<Frame("remove", name[c])>> \o stack[t]
                 ELSE <<[Me(t) EXCEPT !.cur = NextOf(c)]>> \o Rest(t))
    /\ UNCHANGED <<list, blockVars, handle, unseen, callVars>>
VisitDevice(t) ==
    LET c == Me(t).cur
        on == <<[Me(t) EXCEPT !.cur = NextOf(c)]>> \o Rest(t)
    IN /\ At(t, "walk") /\ c \in alive
       /\ Resume(t, IF parent[c] = Me(t).dev THEN <<Frame("remove", name[c])>> \o on ELSE on)
       /\ UNCHANGED <<list, blockVars, handle, unseen, callVars>>

-----------------------------------------------------------------------------
(* PmRegisterPowerRelationship and PmReleasePowerRelationship. *)

(* What a driver that registers from inside the announcement of a parent   *)
(* gets is not followed.                                                   *)
Remember(t, b) ==
    handle' = [c \in Client |-> IF c = t THEN [dev |-> b, name |-> Me(t).name] ELSE handle[c]]

(* A child that is there already is an error, but its pointer is returned. *)
CheckChild(t) ==
    LET b == Find(Me(t).name) IN
    /\ At(t, "register")
    /\ Count({b}, {})
    /\ IF b = NoBlock
         THEN Resume(t, Goto(t, "parent")) /\ UNCHANGED handle
         ELSE /\ Resume(t, Using(t, "drop", b))
              /\ Remember(t, b)
    /\ UNCHANGED <<list, alive, name, parent, unseen, callVars>>

(* A parent that is a child itself is reported, and taken nevertheless. *)
FindParent(t) ==
    LET p == Find(Me(t).of) IN
    /\ At(t, "parent")
    /\ Count({p}, {})
    /\ Resume(t, IF p = NoBlock THEN Rest(t)
                 ELSE <<[Frame("add", Me(t).name) EXCEPT !.parent = p],
                        [Me(t) EXCEPT !.pc = "registered", !.parent = p]>> \o Rest(t))
    /\ UNCHANGED <<list, alive, name, parent, handle, unseen, callVars>>

FindChild(t) ==
    LET b == Find(Me(t).name)
        release == Using(t, "drop", Me(t).parent)
    IN /\ At(t, "registered")
       /\ Count({b}, {})
       /\ IF b = NoBlock
            THEN Resume(t, release) /\ UNCHANGED handle
            ELSE /\ Resume(t, <<[Me(t) EXCEPT !.pc = "drop", !.dev = b]>> \o release)
                 /\ Remember(t, b)
       /\ UNCHANGED <<list, alive, name, parent, unseen, callVars>>

(* The class is read from the list that the device is on. *)
ReleaseDevice(t) ==
    /\ At(t, "release")
    /\ Me(t).dev \in Listed
    /\ Resume(t, <<Frame("remove", name[Me(t).dev])>> \o Goto(t, "drop"))
    /\ UNCHANGED <<list, blockVars, handle, unseen, callVars>>

-----------------------------------------------------------------------------
(* UpdateAllDeviceStates and UpdateClassDeviceStates. *)

StartClass(t) ==
    LET k == Me(t).class
        b == First(Members(k))
    IN /\ At(t, "class")
       /\ IF k > Len(Class)
            THEN Resume(t, Rest(t)) /\ UNCHANGED <<ref, unseen>>
            ELSE IF b = NoBlock
            THEN /\ Resume(t, <<[Me(t) EXCEPT !.class = k + 1]>> \o Rest(t))
                 /\ UNCHANGED <<ref, unseen>>
            ELSE /\ Resume(t, Using(t, "update", b))
                 /\ Count({b}, {})
                 /\ unseen' = [unseen EXCEPT ![t] = ToSet(Members(k))]
       /\ UNCHANGED <<list, alive, name, parent, handle, callVars>>

(* UpdateDeviceState, without the lock: the driver is passed the parent. *)
EnterUpdate(t) ==
    /\ At(t, "update")
    /\ Resume(t, <<[Me(t) EXCEPT !.pc = "driver", !.parent = parent[Me(t).dev]]>> \o Rest(t))
    /\ UNCHANGED <<list, blockVars, handle, unseen, callVars>>

(* A device that was removed meanwhile makes the walk start again. *)
NextAfterAnyway(b, k) == NextOf(b)                                  \* a slip
NextAfter(b, k) == IF b \in Listed THEN NextOf(b) ELSE First(Members(k))
NextDevice(t) ==
    LET b == Me(t).dev
        next == NextAfter(b, Me(t).class)
    IN /\ At(t, "driver")
       /\ unseen' = [unseen EXCEPT ![t] = @ \ {b}]
       /\ Count({next}, {b})
       /\ Resume(t, Destroying(b) \o
              IF next = NoBlock
                THEN <<[Me(t) EXCEPT !.pc = "class", !.class = @ + 1, !.dev = NoBlock,
                                     !.parent = NoBlock]>> \o Rest(t)
                ELSE <<[Me(t) EXCEPT !.pc = "update", !.dev = next, !.parent = NoBlock]>>
                     \o Rest(t))
       /\ UNCHANGED <<list, alive, name, parent, handle, callVars>>

-----------------------------------------------------------------------------
Change(t) ==
    \/ FindDuplicate(t) \/ DeviceStateAddList(t) \/ ProbeDevice(t) \/ Discard(t)
    \/ FindDevice(t) \/ Unlink(t) \/ LeaveParent(t) \/ NextClass(t) \/ VisitDevice(t)
    \/ CheckChild(t) \/ FindParent(t) \/ FindChild(t) \/ ReleaseDevice(t)
Run(t) ==
    \/ t \in Pnp \cup Client /\ Change(t)
    \/ t \in Reader /\ (StartClass(t) \/ EnterUpdate(t) \/ NextDevice(t))
    \/ Drop(t) \/ DeviceStateDestroy(t)

Next ==
    \/ \E t \in Thread : Run(t)
    \/ \E t \in Pnp, n \in Name : ProcessPnPMsgQueue(t, n)
    \/ \E t \in Client, n, p \in Name : PmRegisterPowerRelationship(t, n, p)
    \/ \E t \in Client : PmReleasePowerRelationship(t)
    \/ \E t \in Reader, n \in Name : PmGetDevicePower(t, n)
    \/ \E t \in Reader : UpdateAllDeviceStates(t)

Spec == Init /\ [][Next]_vars
FairSpec == Spec /\ \A t \in Thread : WF_vars(Run(t))

-----------------------------------------------------------------------------
(***************************************************************************)
(* The reference count of a block is one for its list, one for each child  *)
(* and one for each frame that holds it: it is neither freed too early nor *)
(* kept for ever.                                                          *)
(***************************************************************************)
Holds(f, b) ==
    IF f.pc = "registered" THEN f.parent = b ELSE f.dev = b /\ f.pc # "destroy"
Holders(b) ==
    UNION {{<<t, i>> : i \in {j \in DOMAIN stack[t] : Holds(stack[t][j], b)}} : t \in Thread}
RefsExact ==
    \A b \in Block : ref[b] = Cardinality(Holders(b)) + Cardinality({c \in alive : parent[c] = b})
                             + (IF b \in Listed THEN 1 ELSE 0)

(* What is on a list, a parent or held is allocated; the next device of a  *)
(* walk without references still is when the walk gets there; and a device *)
(* that is about to be taken off its list is on it: as long as devices are *)
(* added and removed one at a time.                                        *)
PointersValid == ~ overlap =>
    /\ Listed \cup {parent[b] : b \in alive} \subseteq alive \cup {NoBlock}
    /\ \A t \in Thread : stack[t] # <<>> =>
         /\ {Me(t).dev, Me(t).cur} \subseteq alive \cup {NoBlock}
         /\ Me(t).pc \in {"unlink", "discard", "release"} => Me(t).dev \in Listed

(* A name is on its list at most once. *)
NamesUnique == ~ overlap => \A b, c \in Listed : name[b] = name[c] => b = c

AtRest == \A t \in Thread : stack[t] = <<>>

(* When nobody is busy with devices, and changes did not overlap, nothing  *)
(* but listed devices takes memory, and no child is without its parent.    *)
NothingLeft ==
    AtRest /\ ~ overlap => /\ alive = Listed
                           /\ \A b \in Listed : parent[b] \in Listed \cup {NoBlock}

(* A walk has updated every device that stayed on the list meanwhile,      *)
(* whatever came and went.                                                 *)
WalkMissesNobody ==
    \A t \in Reader : stack[t] = <<>> \/ At(t, "class") => unseen[t] = {}

(* The driver can use the parent that it is passed, as long as it is in    *)
(* the call: a reference keeps the device, but not its parent.             *)
ParentOutlivesCall ==
    \A t \in Reader : At(t, "driver") => Me(t).parent \in alive \cup {NoBlock}

(* A handle that is released removes the device it was given for. *)
ReleaseHitsChild == \A t \in Client : At(t, "release") => name[Me(t).dev] = Me(t).name

(* Every call returns, unless changes of the lists overlap. *)
EveryCallReturns == \A t \in Thread : []<>(stack[t] = <<>> \/ overlap)
-----------------------------------------------------------------------------
(***************************************************************************)
(* The inductive invariant behind RefsExact and WalkMissesNobody, which    *)
(* hold however the changes of the lists overlap.                          *)
(***************************************************************************)
Pc == {"add", "insert", "probe", "discard", "drop", "destroy", "remove", "unlink", "orphan",
       "walk", "register", "parent", "registered", "release", "class", "update", "driver"}
Pointer == Block \cup {NoBlock}
FrameType == [pc : Pc, name : Name, of : Name, dev : Pointer, parent : Pointer,
              class : Nat, cur : Pointer]

TypeOK ==
    /\ list \in [Classes -> Seq(Block)]
    /\ ref \in [Block -> Nat] /\ alive \in SUBSET Block
    /\ name \in [Block -> Name] /\ parent \in [Block -> Pointer]
    /\ stack \in [Thread -> Seq(FrameType)]
    /\ handle \in [Client -> [dev : Pointer, name : Name]]
    /\ unseen \in [Reader -> SUBSET Block]
    /\ overlap \in BOOLEAN /\ calls \in Nat

(* A device is on the list of its class, once. *)
ListsOK ==
    /\ \A c \in Classes : \A i \in DOMAIN list[c] : ClassOf[name[list[c][i]]] = c
    /\ \A c \in Classes : \A i, j \in DOMAIN list[c] : list[c][i] = list[c][j] => i = j

(***************************************************************************)
(* Which frames hold a device, which are below others, and that a device   *)
(* is only added for a parent that the frame below holds.                  *)
(***************************************************************************)
FrameOK(f) ==
    /\ f.pc \in {"add", "remove", "register", "parent", "class"} => f.dev = NoBlock
    /\ f.pc \in {"insert", "probe", "discard", "destroy", "unlink", "orphan", "walk", "update",
                 "driver"} => f.dev \in Block
    /\ f.pc = "class" => f.class > 0
    /\ f.pc \in {"update", "driver"} => f.class \in DOMAIN Class
Below == {"drop", "walk", "registered", "class", "update"}

StackOK(t) ==
    /\ \A i \in DOMAIN stack[t] : FrameOK(stack[t][i]) /\ (i > 1 => stack[t][i].pc \in Below)
    /\ At(t, "add") /\ Me(t).parent # NoBlock =>
         /\ Len(stack[t]) > 1
         /\ stack[t][2].pc = "registered" /\ stack[t][2].parent = Me(t).parent

(* What is referenced is allocated; what lost its last reference is being  *)
(* destroyed, by one thread; nobody else knows a device that is not on its *)
(* list yet.                                                               *)
LifeOK ==
    /\ \A b \in Block : ref[b] > 0 => b \in alive
    /\ \A b \in alive : ref[b] = 0 => \E t \in Thread : At(t, "destroy") /\ Me(t).dev = b
    /\ \A t \in Thread : At(t, "destroy") => Me(t).dev \in alive /\ ref[Me(t).dev] = 0
    /\ \A t, u \in Thread :
         At(t, "destroy") /\ At(u, "destroy") /\ Me(t).dev = Me(u).dev => t = u
    /\ \A t \in Thread : At(t, "insert") => ref[Me(t).dev] = 1

(***************************************************************************)
(* The devices that a walk has yet to update are not before the one it is  *)
(* at; when that one was removed, they are on the list.                    *)
(***************************************************************************)
Ahead(f) ==
    LET s == Members(f.class)
    IN {s[j] : j \in {k \in DOMAIN s : \A i \in DOMAIN s : s[i] = f.dev => i <= k}}

WalkOK(t) ==
    /\ Len(stack[t]) <= 2
    /\ Len(stack[t]) = 2 => stack[t][1].pc = "destroy"
    /\ \A i \in DOMAIN stack[t] : stack[t][i].pc \in {"update", "driver"} =>
         ClassOf[name[stack[t][i].dev]] = Class[stack[t][i].class]
    /\ unseen[t] # {} =>
         \E i \in DOMAIN stack[t] :
            /\ i = Len(stack[t]) /\ stack[t][i].pc \in {"update", "driver"}
            /\ unseen[t] \subseteq Ahead(stack[t][i])

(* What a list, a child or a frame refers to is allocated. *)
HeldIsAllocated ==
    /\ Listed \subseteq alive
    /\ \A c \in alive : parent[c] \in alive \cup {NoBlock}
    /\ \A t \in Thread : \A i \in DOMAIN stack[t] : \A b \in Block :
         Holds(stack[t][i], b) => b \in alive

Core == TypeOK /\ RefsExact /\ ListsOK /\ LifeOK /\ \A t \in Thread : StackOK(t)
IInv == Core /\ \A t \in Reader : WalkOK(t)
=============================================================================
