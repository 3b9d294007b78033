\* Kills at any step; UpdateTip writes the locator at the height of c2, where the branches part.
SPECIFICATION WalletSpec
CONSTANTS
    cb1 = cb1 cb2 = cb2 cb3 = cb3 cb4 = cb4 cb5 = cb5
    t1 = t1 t2 = t2 t3 = t3 t4 = t4 t5 = t5 none = none
    g = g c1 = c1 c2 = c2 a1 = a1 a2 = a2 a3 = a3 b1 = b1 b2 = b2
    Txs = {cb1, cb2, cb3, cb4, cb5, t1, t2, t3, t4, t5}
    CoinBases = {cb1, cb2, cb3, cb4, cb5}
    Vin <- MCVin
    Vout <- MCVout
    Unspendable = {}
    BadScript = {}
    NonStandard = {}
    Blocks = {g, c1, c2, a1, a2, a3, b1, b2}
    Genesis = g
    Prev <- MCPrev
    Vtx <- MCVtx
    Subsidy = 5
    COINBASE_MATURITY = 1
    FlushChoices = {TRUE}
    Mine <- MCMine
    Own = {t1, t2, t3, t5}
    NoBlock = none
    LocatorHeights = {2}
    HashOrder <- MCHashOrder
    Kills = TRUE
INVARIANTS WalletComplete BalanceExact
