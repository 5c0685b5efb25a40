SPECIFICATION Spec
CONSTANTS
    Names = {1, 2}
    Namespaces = {"ns"}
    Labels = {"a", "b"}
    Procs = {p1, p2}
    MaxSerial = 2
    Nil = Nil
    Workload <- TargetCommands
SYMMETRY AnyShell
INVARIANTS
    TypeOK
    DefaultKept
    TokensDelivered
    Inv
PROPERTIES
    AloneIsExact
