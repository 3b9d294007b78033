\* Whether a node can refuse the data directory it wrote.
SPECIFICATION Spec
CONSTANTS
    g = g  a1 = a1  a2 = a2  a3 = a3  b1 = b1  b2 = b2  b3 = b3  c2 = c2
    NoBlock = NoBlock
    Blocks = {g, a1, b1, b2}
    Genesis = g
    Prev <- MCPrev
    Work <- MCWork
    BadContext = {}
    BadConnect = {b2}
    AddrOrders <- MCAddrOrders
    MaxOrphans = 1
    Faults = {"kill"}
    MaxCrashes = 1
INVARIANT OwnDatadirHasGenesis
