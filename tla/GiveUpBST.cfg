SPECIFICATION FairSpec
CONSTANTS
    Thread = {t1, t2}
    Node = {4096, 12320, 20512}
    NULL = 0
    Uninit = Uninit
    Key = {1, 2, 3}
    Value = {v1}
    DS = "bst"
    Hash <- AddressHash
    INT_MIN = 0
    INT_MAX = 4
INVARIANTS
    RangeInv
PROPERTIES
    GiveUpInv
    Linearizable
    Progress
