\* The recorder thread sets the filters at any moment, as in the code.
SPECIFICATION Spec
CONSTANTS
    own = own  appA = appA  appB = appB  sidA = sidA  sidB = sidB
    Uids = {own, appA, appB}
    Own = own
    Sids = {sidA, sidB}
    Owner <- MCOwner
    ExcludedPackages = {appB}
    PolicyLogReadable = FALSE
    ContinuousPolling = FALSE
    MaxChanges = 2
INVARIANTS
    TypeOK
    ConfigCurrent
    NothingMutedAfterDestroy
    MutedIsCaptured
\* With nothing to poll and nothing requested the system waits for events.
CHECK_DEADLOCK FALSE
