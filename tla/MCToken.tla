------------------------------- MODULE MCToken -------------------------------
(***************************************************************************)
(* Model-checking instances of FracksToken.  A full instance multiplies the *)
(* states of the token, the router and the registry; each specification      *)
(* here starts in a reachable state of Spec and takes the steps of Next that *)
(* its question needs.                                                      *)
(***************************************************************************)
EXTENDS FracksToken, TLC

CONSTANTS w1, w2, w3, a1, a2, a3, c1, c2

TwoAccounts == (a1 :> w1) @@ (a2 :> w2)
ThreeAccounts == TwoAccounts @@ (a3 :> w3)
NoCaps == << >>
OneCap == c1 :> 1                             \* one investor in c1, any number in c2

VARIABLE scenario    \* what is going on around the movements; it does not change

(* Every wallet registered, activated and claimed. *)
OnboardedInit ==
    /\ ComplianceInit
    /\ TokenInit
    /\ \E country \in [Wallets -> Countries] :
         identity = [w \in Wallets |->
                       [fid |-> w, country |-> country[w], is_active |-> TRUE]]
    /\ registered_count = Cardinality(Wallets)
    /\ claimed_fids = Wallets

-----------------------------------------------------------------------------
(* Settlement: what holders and issuer do in the normal course, the holders   *)
(* with some of the support accounts,                                        *)
OrdinaryNext(amounts, supports) ==
    \/ \E r \in Routes, n \in amounts, support \in supports :
         Transfer(r[1], r[2], n, FreezeAccounts \cup support)
    \/ \E r \in Routes : ExecuteTransfer(r[1], r[2])
    \/ \E o \in Operators, a \in Accounts, n \in amounts :
         \/ Mint(o, a, n, {"to_frozen"})
         \/ Burn(o, a, n, CountryOf(OwnerOf[a]), TRUE)

BalanceModules == {"MaxInvestors", "SupplyCap", "MaxBalance"}
CountingModules == {"MaxInvestors", "SupplyCap"}
ClockModules == {"CountryCap", "DailyLimit"}

(* ... while modules are bound, unbound, paused and resumed and the supply   *)
(* cap moves;                                                                *)
ModulesInit ==
    /\ scenario = "modules"
    /\ modules = ModuleAccounts \cap BalanceModules
    /\ \A w \in Wallets : identity[w].country = c1

ModulesNext ==
    \/ OrdinaryNext(Amounts, {{}})
    \/ /\ \/ \E m \in ModuleAccounts \cap CountingModules : BindModule(m)
          \/ \E m \in modules : UnbindModule(m)
          \/ \E b \in BOOLEAN : SetModulesPaused(b)
          \/ \E n \in SupplyCaps : SetMaxSupply(n)
       /\ UNCHANGED <<identityVars, tokenVars>>

(* ... or while the clock runs and a wallet moves between countries;         *)
ClockInit ==
    /\ scenario = "clock"
    /\ modules = ModuleAccounts \cap ClockModules
    /\ \A w \in Wallets : identity[w].country = c1
    /\ \A n \in SupplyCaps : n <= max_supply

ClockNext ==
    \/ OrdinaryNext({1}, {SupportAccounts, {}})
    \/ /\ \/ \E w \in Wallets : InitializeWalletUsage(w)
          \/ \E c \in Countries : InitializeCountryCount(c)
          \/ Tick
       /\ UNCHANGED <<identityVars, tokenVars>>
    \/ /\ \E c \in Countries : UpdateCountry(w1, c)
       /\ UNCHANGED <<complianceVars, tokenVars>>

(* ... or while burns name the storage and the router they like and anybody  *)
(* calls the token's, once: after that the modules told are misled for good. *)
StrangersInit ==
    /\ scenario = "strangers"
    /\ modules = ModuleAccounts \cap {"MaxInvestors", "SupplyCap", "CountryCap"}
    /\ \A w \in Wallets : identity[w].country = c1
    /\ \A n \in SupplyCaps : n >= max_supply

StrangersNext ==
    \/ OrdinaryNext({1}, {SupportAccounts})
    \/ \E o \in Operators, a \in Accounts, c \in Countries, told \in BOOLEAN :
         Burn(o, a, 1, c, told)
    \/ /\ \/ \E m \in modules : UnbindModule(m)
          \/ \E b \in BOOLEAN : SetModulesPaused(b)
          \/ \E c \in Countries : InitializeCountryCount(c)
          \/ \E x, y \in {0, 1}, c \in Countries :
               modules \cap misled = {} /\ CallRouter(w1, 1, x, y, c1, c)
       /\ UNCHANGED <<identityVars, tokenVars>>

SettlementInit == OnboardedInit /\ (ModulesInit \/ ClockInit \/ StrangersInit)

SettlementNext ==
    /\ \/ scenario = "modules" /\ ModulesNext
       \/ scenario = "clock" /\ ClockNext
       \/ scenario = "strangers" /\ StrangersNext
    /\ UNCHANGED scenario

SettlementSpec == SettlementInit /\ [][SettlementNext]_<<vars, scenario>>

-----------------------------------------------------------------------------
(* Operators: all movements, their callers naming one of the given sets of    *)
(* optional accounts,                                                        *)
AllAccounts == FreezeAccounts \cup SupportAccounts

Moves(choices) ==
    \/ \E r \in Routes, n \in Amounts, passed \in choices : Transfer(r[1], r[2], n, passed)
    \/ \E r \in Routes : ExecuteTransfer(r[1], r[2])
    \/ \E o \in Operators, n \in Amounts, passed \in {p \cap {"to_frozen"} : p \in choices} :
         \/ \E a \in Accounts : Mint(o, a, n, passed)
         \/ \E r \in Routes : \/ Recovery(o, r[1], r[2], n, passed)
                             \/ \E w \in Wallets : ForcedTransfer(o, r[1], r[2], n, w, passed)
    \/ \E o \in Operators, a \in Accounts, n \in Amounts, c \in Countries : Burn(o, a, n, c, TRUE)
    \/ \E o \in Operators, r \in Routes, w \in Wallets : FinalizeRecovery(o, r[1], r[2], w)

(* ... with pause and freezes, whose accounts the callers name or leave out,  *)
FreezeNext ==
    \/ Moves({AllAccounts \ omitted : omitted \in SUBSET FreezeAccounts})
    \/ /\ \/ \E b \in BOOLEAN : SetPaused(b)
          \/ \E o \in Operators, w \in Wallets : FreezeWallet(o, w) \/ UnfreezeWallet(o, w)
          \/ \E o \in Operators : FreezePartial(o, w1, 1)
       /\ UNCHANGED <<complianceVars, identityVars>>

(* ... or with pause, roles and partial freezes,                             *)
RolesNext ==
    \/ Moves({AllAccounts})
    \/ /\ \/ \E b \in BOOLEAN : SetPaused(b)
          \/ \E o \in Operators : AddAgent(o) \/ RemoveAgent(o) \/ TransferOwnership(o)
          \/ \E o \in Operators, w \in Wallets, n \in Amounts :
               FreezePartial(o, w, n) \/ UnfreezePartial(o, w, n)
       /\ UNCHANGED <<complianceVars, identityVars>>

(* ... or with identities that come and go around transfers and recoveries.  *)
RecoveryNext ==
    \/ Moves({AllAccounts})
    \/ \E b \in BOOLEAN : SetPaused(b) /\ UNCHANGED <<complianceVars, identityVars>>
    \/ IdentityNext /\ UNCHANGED <<complianceVars, tokenVars>>

OperatorsInit ==
    \/ scenario \in {"freezes", "roles"} /\ OnboardedInit /\ modules = {}
    \/ scenario = "recoveries" /\ Init /\ modules = ModuleAccounts

OperatorsNext ==
    /\ \/ scenario = "freezes" /\ FreezeNext
       \/ scenario = "roles" /\ RolesNext
       \/ scenario = "recoveries" /\ RecoveryNext
    /\ UNCHANGED scenario

OperatorsSpec == OperatorsInit /\ [][OperatorsNext]_<<vars, scenario>>

-----------------------------------------------------------------------------
(* What the documents say.  Each of these is refuted by a run. *)

(* TokenState.paused: "ALL transfers, mints, and burns are blocked."  The    *)
(* hook does not look at the flag when it settles an earlier approval.       *)
PauseBlocksAll == [][paused => bal' = bal]_vars

(* MaxInvestorsModule: "Limits the maximum number of unique token holders    *)
(* globally."  holder_count is checked at approval and not at settlement.    *)
HoldersWithinLimit ==
    "MaxInvestors" \notin waived => Cardinality(Holders) <= max_investors
=============================================================================
