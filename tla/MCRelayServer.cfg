SPECIFICATION Spec
CONSTANTS
    Conn = {k1, k2, k3}
    NoConn = NoConn
    Id = {d1, d2, d3}
    Fd = {n1, n2, n3}
    MAX_DEVICES = 2
    ReuseNumbers = TRUE
SYMMETRY ConnSymmetry
CHECK_DEADLOCK FALSE
INVARIANTS
    TableSound
