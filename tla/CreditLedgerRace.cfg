SPECIFICATION Spec
CONSTANTS
    c1 = c1  c2 = c2  c3 = c3  rf = rf  adj = adj  msg = msg  call = call
    Requests <- MCRequests
    Sources <- MCSources
    Ask <- MCAsk
    Prices <- MCPrices
    Unpriced = Unpriced
    InitialBalance = 2
INVARIANT LedgerReconciles
