SPECIFICATION SettlementSpec
CONSTANTS
    w1 = w1
    w2 = w2
    w3 = w3
    a1 = a1
    a2 = a2
    a3 = a3
    c1 = c1
    c2 = c2
    Wallets = {w1, w2, w3}
    Countries = {c1}
    Accounts = {a1, a2, a3}
    OwnerOf <- ThreeAccounts
    Operators = {op}
    Amounts = {1, 2}
    ModuleAccounts = {"MaxInvestors"}
    max_investors = 2
    max_balance = 2
    max_amount = 2
    lockup_end = 0
    daily_limit = 2
    allowed_countries = {c1}
    country_caps <- NoCaps
    SupplyCaps = {3}
    DaySeconds = 2
    MaxNow = 1
    MaxU64 = 3
INVARIANTS HoldersWithinLimit
