SPECIFICATION Spec
CONSTANTS
    Requests = {r1, r2}
    Namespaces = {"ns"}
    Keys <- OneKey
    Codes = {"error", "unknown"}
    MaxConcurrent = 1
    Nil = Nil
SYMMETRY AnyRequest
INVARIANTS
    TypeOK
    SlotsCounted
    ChildrenBounded
    DefiniteAnswers
    RevokedKeysShutOut
    GracefulExit
    Inv
PROPERTIES
    RefinesService
