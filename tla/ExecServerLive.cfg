SPECIFICATION LiveSpec
CONSTANTS
    Requests = {r1, r2}
    Namespaces = {"ns"}
    Keys <- OneKey
    Codes = {}
    MaxConcurrent = 1
    Nil = Nil
PROPERTIES
    RequestsEnd
    CommandsEnd
    ShutdownEnds
