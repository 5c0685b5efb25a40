SPECIFICATION Spec
CONSTANTS
    Namespaces = {"ns"}
    BadNames = {}
    Installed = {}
    Procs = {p1, p2}
    Folds = {"a", "b"}
    BadFolds = {}
    Ids = {i1, i2}
    MaxSerial = 2
    Nil = Nil
    Workload <- AdminCalls
SYMMETRY ProcsAndIds
INVARIANTS
    TypeOK
    GrantedKeysKept
    RevokedKeysGone
    LabelsUnique
    LocksServed
    Inv
PROPERTIES
    InitCompletes
    RefinesRegistry
