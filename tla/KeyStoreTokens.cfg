SPECIFICATION Spec
CONSTANTS
    Namespaces = {"ns", "other"}
    BadNames = {}
    Installed = {"ns", "other"}
    Procs = {p1, p2}
    Folds = {"a", "b"}
    BadFolds = {}
    Ids = {i1, i2}
    MaxSerial = 2
    Nil = Nil
    Workload <- TokenCalls
SYMMETRY ProcsAndIds
PROPERTIES
    AcceptedKeyIsLive
    GrantedKeysAccepted
