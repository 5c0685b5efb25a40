SPECIFICATION Spec
CONSTANTS
    Names = {1}
    Namespaces = {"ns"}
    Labels = {"a", "b"}
    Procs = {p1, p2}
    MaxSerial = 2
    Nil = Nil
    Workload <- KeyCommands
SYMMETRY AnyShell
PROPERTY InitReusesKey
