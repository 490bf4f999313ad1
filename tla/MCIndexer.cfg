SPECIFICATION Spec
CONSTANTS
    a = a
    b = b
    w = w
    r1 = r1
    r2 = r2
    Tokens = {a, b}
    ConfigTokens = {a}
    Wallets = {w}
    Runs = {r1, r2}
    Endpoints = 2
    MaxRetries = 1
    MaxChanges = 3
    MaxFaults = 2
PROPERTIES SupplyGoesBackOnlyInOverlap  
CHECK_DEADLOCK FALSE
