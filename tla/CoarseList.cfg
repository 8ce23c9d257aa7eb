SPECIFICATION Spec
CONSTANTS
    Thread = {t1, t2}
    Node = {n1, n2, n3}
    NULL = NULL
    Key = {1, 2, 3}
    Value = {v1, v2}
    DS = "list"
    Hash <- MCHash
SYMMETRY Symmetry
INVARIANTS
    TypeOK
    LockInv
    KeysetInv
PROPERTIES
    Linearizable
