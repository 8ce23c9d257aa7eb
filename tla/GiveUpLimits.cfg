SPECIFICATION Spec
CONSTANTS
    Thread = {t1, t2, t3}
    Node = {n1, n2, n3}
    NULL = NULL
    Uninit = Uninit
    Key = {1, 2, 3}
    Value = {v1}
    DS = "list"
    Hash <- MCHash
    INT_MIN = 1
    INT_MAX = 3
SYMMETRY Symmetry
INVARIANTS
    LockInv
PROPERTIES
    Linearizable
