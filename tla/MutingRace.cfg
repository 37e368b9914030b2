SPECIFICATION FairSpec
CONSTANTS
    own = own  appA = appA  appB = appB  sidA = sidA  sidB = sidB
    Uids = {own, appA}
    Own = own
    Sids = {sidA}
    Owner <- MCOwner1
    ExcludedPackages = {}
    PolicyLogReadable = TRUE
    ContinuousPolling = TRUE
    MaxChanges = 2
PROPERTY
    RestrictedUnmuted
