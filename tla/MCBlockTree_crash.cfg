\* Full disks, kills, power losses and restarts around reorganisations.
SPECIFICATION Spec
CONSTANTS
    g = g  a1 = a1  a2 = a2  a3 = a3  b1 = b1  b2 = b2  b3 = b3  c2 = c2
    NoBlock = NoBlock
    Blocks = {g, a1, b1, b2}
    Genesis = g
    Prev <- MCPrev
    Work <- MCWork
    BadContext = {}
    BadConnect = {b2}
    AddrOrders <- MCAddrOrders
    MaxOrphans = 1
    Faults = {"ibd", "diskfull", "kill", "powerloss", "shutdown"}
    MaxCrashes = 2
INVARIANTS TypeOK CandidatesExact PowerLossSafe IndexParentClosed CoinsFollowTip
PROPERTIES ReorgOnlyToBetter
