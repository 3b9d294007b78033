\* Reorganisations, invalid branches and orphans in a process that never stops.
SPECIFICATION Spec
CONSTANTS
    g = g  a1 = a1  a2 = a2  a3 = a3  b1 = b1  b2 = b2  b3 = b3  c2 = c2
    NoBlock = NoBlock
    Blocks = {g, a1, a2, a3, b1, b2, b3, c2}
    Genesis = g
    Prev <- MCPrev
    Work <- MCWork
    BadContext = {a3}
    BadConnect = {b2}
    AddrOrders <- MCOneAddrOrder
    MaxOrphans = 2
    Faults = {}
    MaxCrashes = 0
INVARIANTS ActiveChainValid BestChainActive OrphansWait
PROPERTIES FirstSeenWins ProcessBlockReturns
