SPECIFICATION FairSpec
CONSTANTS
    Thread = {t1, t2, t3}
    maker = t1
INVARIANTS
    Exclusive
PROPERTIES
    AtomicAcquire
    Acquired
