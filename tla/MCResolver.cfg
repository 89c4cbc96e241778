SPECIFICATION FairSpec
CONSTANTS
    Uids = {u1, u2, u3}
    NoUid = NoUid
INVARIANTS TypeOK OneLookupEach NoLostCompletion NoLostNotify
PROPERTIES ServiceKept LookupReturns ShutdownCompletes
