SPECIFICATION LiveSpec
CONSTANTS
    Namespaces = {"ns"}
    BadNames = {".."}
    Installed = {}
    Procs = {p1, p2}
    Folds = {"a", "b", "ctl"}
    BadFolds = {"ctl"}
    Ids = {i1}
    MaxSerial = 2
    Nil = Nil
    Workload <- LockingCalls
PROPERTIES
    CallsReturn
