\* The chains of MainNet and TestNet end at their bound.
SPECIFICATION MCSpec
CONSTANTS
    Txs = {"a", "b", "c", "d", "e", "f"}
    Parents <- ParentsOf
    Peers = {"p", "q"}
    Invalid = {"e"}
    LowFee = {"f"}
    Large = {}
    MaxOrphanTx = 3
    NewBuckets = {1, 2, 3}
    TriedBuckets = {1}
    ADDRMAN_NEW_BUCKET_SIZE = 1
    ADDRMAN_TRIED_BUCKET_SIZE = 1
    ADDRMAN_NEW_BUCKETS_PER_ADDRESS = 2
    ADDRMAN_TRIED_ENTRIES_INSPECT_ON_EVICT = 4
    ADDRMAN_GETADDR_MAX_PCT = 50
    MaxIds = 3
    Times = {1}
INVARIANTS OrphanTxExact AddressesExact TargetsRight
PROPERTIES AddressesSurvive TreesRight
CHECK_DEADLOCK FALSE
