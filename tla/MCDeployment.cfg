SPECIFICATION MCSpec
CONSTANTS
    q1 = q1
    q2 = q2
    edited = edited
    f1 = f1
    none = none
    x1 = x1
    c1 = c1
    c2 = c2
    Requests = {q1, q2}
    Edited = edited
    Forms = {f1}
    ModuleSeq <- MCModuleSeq
    Stateful = {x1}
    CountryCap = x1
    Countries = {c1, c2}
    CapsOf <- MCCapsOf
    None = none
    MaxOpens = 2
    MaxSubmits = 2
    MaxDecisions = 1
    MaxFaults = 2
    MaxDisturbances = 2
INVARIANTS SuiteIsReady RecordedAsDeployed DeployedNamesItsSuite
PROPERTIES SuiteStays LogSpec
SYMMETRY Sym
CHECK_DEADLOCK FALSE
