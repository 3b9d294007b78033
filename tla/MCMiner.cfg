\* Block templates from every pool two branches can leave behind.  The node may die of one.
SPECIFICATION MinerSpec
CONSTANTS
    cb0 = cb0 cbA1 = cbA1 cbA2 = cbA2 cbA3 = cbA3 cbB2 = cbB2
    t1 = t1 t2 = t2 t3 = t3 t4 = t4 t5 = t5 t6 = t6 t7 = t7
    g = g c1 = c1 a1 = a1 a2 = a2 a3 = a3 b1 = b1 b2 = b2 b3 = b3
    Txs = {cb0, cbA1, cbA2, cbA3, cbB2, t1, t2, t3, t4, t5, t6, t7}
    CoinBases = {cb0, cbA1, cbA2, cbA3, cbB2}
    Vin <- MCVin
    Vout <- MCVout
    Unspendable <- MCUnspendable
    BadScript = {}
    NonStandard = {t3}
    Blocks = {g, c1, a1, a2, a3, b1, b2, b3}
    Genesis = g
    Prev <- MCPrev
    Vtx <- MCVtx
    Subsidy = 5
    COINBASE_MATURITY = 1
    Oversized = {t1}
    FlushChoices = {TRUE, FALSE}
CHECK_DEADLOCK FALSE
INVARIANTS CoinsExact PoolExact ResurrectedIfFlushed TemplateExact
