SPECIFICATION FairSpec
CONSTANTS
    Thread = {t1, t2}
    Node = {4096, 12320, 20512}
    NULL = 0
    Key = {1, 2, 3}
    Value = {v1}
    DS = "bst"
    Hash <- AddressHash
PROPERTIES
    Linearizable
    Progress
