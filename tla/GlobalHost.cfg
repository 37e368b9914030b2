SPECIFICATION Spec
CONSTANTS
    Apps = {music, video}
    AllSound = AllSound
    Cap = 1
    None = None
    MaxChanges = 4
    MaxFaults = 1
SYMMETRY Alike
INVARIANTS
    TypeOK
    NoStrayEffect
    SourcesKept
    InStep
    NotBesideCapture
\* A service that is down may stay so.
CHECK_DEADLOCK FALSE
