CONSTANTS
    typed = typed
    untyped = untyped
    Classes = {typed, untyped}
    Typed = {typed}
    Untracked = {untyped}
    Generic = "BaseMemoryModel"
    Values = {0, 1}
    Seed <- MCSeed
    MaxObjects = 2
    MaxId = 2
SPECIFICATION Spec
INVARIANTS
    TypeOK
    AddedIdsAreFresh
PROPERTIES
    UntypedRecordsAreFrozen
    SoleCopyIsWritten
