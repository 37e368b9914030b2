\* Threads may outlive join(500), as in the code.
SPECIFICATION FairSpec
CONSTANTS
    MaxThreads = 2
    MaxRetries = 1
INVARIANTS
    TypeOK
    OthersAreGivenUp
    FreedUnderGivenUpOnly
    FreeOnlyWhenSyncsLeft
    DeadCaptureMeansStop
    RebuildNotLost
PROPERTIES
    CaptureEnds
    RebuildServed
\* A destroyed service takes no more steps.
CHECK_DEADLOCK FALSE
