SPECIFICATION Spec
CONSTANTS
    Thread = {t1, t2}
    Node = {n1, n2, n3}
    NULL = NULL
    Uninit = Uninit
    Key = {1, 2, 3}
    Value = {v1, v2}
    DS = "list"
    Hash <- MCHash
    INT_MIN = 0
    INT_MAX = 4
SYMMETRY Symmetry
INVARIANTS
    GiveUpTypeOK
    MutualExclusion
    LockInv
    Published
    KeysetInv
    RangeInv
PROPERTIES
    GiveUpInv
    Linearizable
