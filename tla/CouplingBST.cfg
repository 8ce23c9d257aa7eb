SPECIFICATION Spec
CONSTANTS
    Thread = {t1, t2, t3}
    Node = {n1, n2, n3}
    NULL = NULL
    Uninit = Uninit
    Key = {1, 2, 3}
    Value = {v1}
    DS = "bst"
    Hash <- MCHash
SYMMETRY Symmetry
INVARIANTS
    SearchStructure
    KeysetInv
PROPERTIES
    Linearizable
