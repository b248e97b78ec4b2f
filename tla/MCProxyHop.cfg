SPECIFICATION Spec
CONSTANTS
    Conn = {c1}
    Server = {a}
    MapHost = {a}
    BadUrl = {}
    Client = client
    Request <- MCPlainRequest
    Response <- MCResponse
INVARIANT HopByHopStops
CHECK_DEADLOCK FALSE
