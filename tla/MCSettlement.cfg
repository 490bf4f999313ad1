SPECIFICATION SettlementSpec
CONSTANTS
    w1 = w1
    w2 = w2
    w3 = w3
    a1 = a1
    a2 = a2
    a3 = a3
    c1 = c1
    c2 = c2
    Wallets = {w1, w2}
    Countries = {c1, c2}
    Accounts = {a1, a2}
    OwnerOf <- TwoAccounts
    Operators = {op}
    Amounts = {1, 2}
    ModuleAccounts = {"MaxInvestors", "SupplyCap", "MaxBalance", "CountryCap", "DailyLimit"}
    max_investors = 2
    max_balance = 1
    max_amount = 2
    lockup_end = 0
    daily_limit = 2
    allowed_countries = {c1, c2}
    country_caps <- OneCap
    SupplyCaps = {1, 2}
    DaySeconds = 2
    MaxNow = 3
    MaxU64 = 2
INVARIANTS TypeOK CountersExact SupplyCapHolds MaxBalanceHolds CountryCountsAddUp
PROPERTIES DailyWindowsAreDisjoint
