SPECIFICATION Spec
CONSTANTS
    Apps = {music}
    AllSound = AllSound
    Cap = 1
    None = None
    MaxChanges = 3
    MaxFaults = 0
INVARIANT NeverBesideCapture
\* A service that is down may stay so.
CHECK_DEADLOCK FALSE
