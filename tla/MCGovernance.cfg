SPECIFICATION GovernanceSpec
CONSTANTS
    w1 = w1
    w2 = w2
    Wallets = {w1, w2}
    MaxProposals = 1
    MaxSlot = 2
    Weights = {1, 2, 7}
    Totals = {3, 7}
    Bps = {5000, 6667, 10001}
    Countries = {}
    MaxU64 = 60000
INVARIANTS TalliesMatchRecords ExecutedIsJustified
PROPERTIES ClosedProposalsAreFrozen
CHECK_DEADLOCK FALSE
