SPECIFICATION Spec
CONSTANTS
    Profiles = {speaker, wired, usb}
    Original = {clarity}
    NonV4a = {tape}
    Presets <- MCPresets
    None = None
    MaxChanges = 6
    MaxFaults = 2
SYMMETRY Alike
INVARIANTS
    TypeOK
    SettingsKept
    NoHiddenEffect
CHECK_DEADLOCK FALSE
