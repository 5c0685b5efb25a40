SPECIFICATION Spec
CONSTANTS
    Runs = {a, b}
    Orders <- Upgrades
    Workstation <- Binaries
    HostArch = "amd64"
    MaxTroubles = 1
    Nil = Nil
SYMMETRY AnyRun
INVARIANTS
    TypeOK
    Converged
    NothingTorn
    ServiceKept
    Inv
PROPERTIES
    RerunSucceeds
