SPECIFICATION Spec
CONSTANTS
    r1 = r1
    r2 = r2
    Request = {r1, r2}
    NoRequest = NoRequest
    RetryCount = 1
    HandlesRetry = {r2}
    MaxLock = 1
    Kinds = {"async", "fast"}
    Events = {"cancel", "detach", "host", "slot"}
INVARIANTS
    OwnedIsHead
    HeadAtHC
    
    AcceptedHonest
    AcceptedRetried
    
 
