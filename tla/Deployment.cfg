SPECIFICATION SystemSpec
CONSTANTS
    Namespaces = {"ns"}
    BadNames = {"bad"}
    Installed = {}
    Procs = {admin, r1}
    Requests = {r1}
    Folds = {"a"}
    BadFolds = {}
    Ids = {i1, i2}
    MaxSerial = 1
    Codes = {}
    MaxConcurrent = 1
    Nil = Nil
    Workload <- Mixed
SYMMETRY AnyId
INVARIANTS
    SystemInv
    RevocationHolds
PROPERTIES
    RefinesServer
