\* Two clients, one row, two nonces remembered; restarts and lost requests.
SPECIFICATION Spec
CONSTANTS
    Callers = {c1, c2}
    Rows = {r1}
    Values = {v1, v2}
    Absent = Absent
    NONCE_VEC_LENGTH = 2
    MaxCalls = 3
SYMMETRY ClientSymmetry
INVARIANTS
    TypeOK
    RefusedWasForgotten
PROPERTIES
    ImplementsRowStore
CHECK_DEADLOCK FALSE
