SPECIFICATION MCSpec
CONSTANTS
    w1 = w1
    f1 = f1
    f2 = f2
    f3 = f3
    p1 = p1
    p2 = p2
    d1 = d1
    Recipients = {w1}
    Amounts = {1}
    SenderBalance = 2
    Topics = {1, 2}
    TransferPages = {f1, f3}
    PortfolioPages = {f2}
    ProviderPages = {p1, p2}
    IssuerPages = {d1}
    MaxRows = 2
    MaxTxs = 3
    MaxFaults = 1
INVARIANTS TypeOK TransferredNamesItsTransfer ClaimHashesFitTheirColumn OpenTwinsOverlapped
PROPERTIES HashStays LogSpec
CHECK_DEADLOCK FALSE
