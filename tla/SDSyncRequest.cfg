SPECIFICATION FairSyncSpec
CONSTANTS
    r1 = r1
    r2 = r2
    c1 = c1
    c2 = c2
    Request = {r1, r2}
    NoRequest = NoRequest
    RetryCount = 0
    HandlesRetry = {}
    MaxLock = 0
    Kinds = {"async"}
    Events = {"host"}
    Caller = {c1}
    NoCaller = NoCaller
    SyncKinds = {"sync", "fast"}
    Registers = {0, 2}
INVARIANTS
    NoLostSignal
    SuccessIsConfirmed
PROPERTIES
    EverySyncCallReturns
    EveryRequestCompletes
