SPECIFICATION MCSpec
CONSTANTS
    i1 = i1
    i2 = i2
    f1 = f1
    f2 = f2
    p1 = p1
    t1 = t1
    t2 = t2
    Investors = {i1}
    MaxRows = 2
    Amounts = {5}
    Grain = 4
    TokenUnit = 1
    PageUnit = 2
    Forms = {f1}
    ProviderPages = {p1}
    DeskPages = {t1, t2}
    Topics = {1, 2}
    Providers = {1, 2}
    Whitelisted = {i1}
    LegacyClaims <- MCLegacy
    Country <- MCCountry
    AllowedCountries = {1}
    CountryCap = 1
    MaxAmount = 12
    MaxBalance = 24
    MaxInvestors = 2
    MaxSupply = 28
    MaxMints = 2
    MaxCalls = 2
    MaxFaults = 1
INVARIANTS MintedRowsDelivered OneMintPerUndisturbedRow OpenTwinsOverlapped
PROPERTIES LogSpec
CHECK_DEADLOCK FALSE
SYMMETRY Sym
