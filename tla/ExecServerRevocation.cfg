SPECIFICATION Spec
CONSTANTS
    Requests = {r1, r2}
    Namespaces = {"ns"}
    Keys <- OneKey
    Codes = {"queue_not_found", "no_available_items", "error", "unknown"}
    MaxConcurrent = 1
    Nil = Nil
SYMMETRY AnyRequest
PROPERTY RevocationImmediate
