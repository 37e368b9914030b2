SPECIFICATION Spec
CONSTANTS
    Kinds = {"geq", "prog", "ir", "hrir"}
    FilesOf <- MCFilesOf
    Outcome <- MCOutcome
    NoFile = NoFile
    Rates = {44100, 48000}
    StartRate = 48000
    FallbackRate = 48000
    MaxChanges = 3
    MaxFaults = 1
INVARIANTS
    TypeOK
    HashNamesLoaded
    PlaysWhatIsChosen
PROPERTY NeverOnEmpty
\* With nothing to send the system waits for the user.
CHECK_DEADLOCK FALSE
