SPECIFICATION Spec
CONSTANTS
    Thread = {t1, t2}
    Node = {4096, 20480}
    NULL = 0
    Uninit = Uninit
    Key = {1, 2}
    Value = {v1}
    DS = "list"
    Hash <- AddressHash
INVARIANTS
    LocksFound
