\* Kills, power losses, a full disk and -reindex, in and after the initial download.
SPECIFICATION Spec
CONSTANTS
    a = a b = b c = c d = d None = None
    Blocks = {a, b, c}
    Parent <- MCParent3
    MaxFile = 1
    MAX_BLOCKFILE_SIZE = 3
    MaxUndo = 3
    Ibd = {TRUE, FALSE}
    Faults = {"kill", "power", "torn", "full", "reindex"}
    MaxFaults = 2
CHECK_DEADLOCK FALSE
INVARIANTS FilesReadable ChainDurable
