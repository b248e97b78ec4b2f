SPECIFICATION Spec
CONSTANTS
    Conn = {c1, c2}
    Server = {a, b, u}
    MapHost = {a, u}
    BadUrl = {u}
    Client = client
    Request <- MCRequest
    Response <- MCResponse
INVARIANTS ConnectionStops EndToEndPasses TracedAndAddressed
CHECK_DEADLOCK FALSE
