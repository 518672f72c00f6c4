SPECIFICATION Spec
CONSTANTS
    Contacts = {c1, c2}
    Calls = {"a"}
    None = None
    Crashes = 1
    Faults = 1
    Asks = 2
    Edits = 1
INVARIANTS TypeOK PostedAsAsked CheckedIsOnQrz
PROPERTIES NothingIsLost UploadEnds
