\* Parts end where a bound is reached: keys, opens of the database.
SPECIFICATION MCSpec
CONSTANTS
    Holders = {"a", "b", "c"}
    KeyPoolSize = 1
    Refills = {2}
    Encryption = TRUE
    MaxKeys = 7
    Timeouts = {0, 1, 3}
    Gui = TRUE
    MaxTime = 7
    MaxQueued = 2
    Threads = {"t1", "t2"}
    Early = {"t1", "t2"}
    Records = {"r1", "r2"}
    CanRewrite = FALSE
    MaxOpens = 3
    MaxWrites = 3
    MaxKills = 1
INVARIANTS KeysKept LockArmed
PROPERTIES DatabaseSafe RewrittenFlushed AlwaysRelocked
CHECK_DEADLOCK FALSE
