\* Polling is continuous, and the capture log can be read.
SPECIFICATION FairSpec
CONSTANTS
    own = own  appA = appA  appB = appB  sidA = sidA  sidB = sidB
    Uids = {own, appA}
    Own = own
    Sids = {sidA}
    Owner <- MCOwner1
    ExcludedPackages = {}
    PolicyLogReadable = TRUE
    ContinuousPolling = TRUE
    MaxChanges = 2
PROPERTIES
    RestrictedUnmutedButRaced
    PlayingMuted
\* With nothing to poll and nothing requested the system waits for events.
CHECK_DEADLOCK FALSE
