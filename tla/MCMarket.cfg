SPECIFICATION MCSpec
CONSTANTS
    l1 = l1
    b1 = b1
    b2 = b2
    Listings = {l1}
    Buyers = {b1, b2}
    Lot = 2
    Amounts = {1, 2}
    SellerBalance = 4
    Topics = {1, 2}
    MaxIntents = 2
    MaxTransfers = 2
    MaxFaults = 2
INVARIANTS TypeOK RemainderAccountsForHistory OneDeliveryPerUndisturbedListing TransferredWasDelivered
PROPERTIES LogSpec
SYMMETRY Sym
CHECK_DEADLOCK FALSE
