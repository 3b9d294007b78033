\* A part ends when everything was asked for and answered.
SPECIFICATION MCSpec
CONSTANTS
    NULL = NULL
    Heap = {"n"}
    Addrs = {"a"}
    Openers = {"o1", "o2"}
    OneTry = {"o3"}
    MAX_OUTBOUND_CONNECTIONS = 2
    MaxInbound = 1
INVARIANTS ConnectionsExact BuffersBounded
PROPERTIES ImplementsFifo NodesFreed EveryAskAnswered
CHECK_DEADLOCK FALSE
