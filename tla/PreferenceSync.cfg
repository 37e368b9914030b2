SPECIFICATION FairSpec
CONSTANTS
    eq = eq  bass = bass
    Namespaces = {eq, bass}
    KeySeq <- MCKeySeq
    NsOf <- MCNsOf
    Values = {0, 1}
    Absent = Absent
    Rates = {44100, 48000}
    Forced = {bass}
    MaxChanges = 2
INVARIANTS
    TypeOK
    NothingForgotten
    CacheMatchesEngine
PROPERTIES
    EventuallyApplied
\* With nothing to apply the system waits for the user.
CHECK_DEADLOCK FALSE
