\* main returns, and the program stops.
CHECK_DEADLOCK FALSE
SPECIFICATION DemoSpec
CONSTANTS
    main = main
    thread_func = thread_func
    ITEMS = 6
    Thread = {main, thread_func}
    Node = {n1, n2, n3, n4, n5, n6}
    NULL = NULL
    Uninit = Uninit
    Key = {4, 5, 6, 7, 8, 10}
    Value = {"five", "seven", "six", "four", "eight", "ten"}
    DS = "list"
    Hash <- MCHash
INVARIANTS
    JoinInv
    Output
    StackBound
PROPERTIES
    Terminates
