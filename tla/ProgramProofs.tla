--------------------------- MODULE ProgramProofs ---------------------------
(***************************************************************************)
(* Proofs about the programs, for every set of wallets, accounts, countries, *)
(* operators and amounts and all module parameters.                          *)
(*                                                                           *)
(* First the token suite (FracksToken): it keeps its types, the counters of  *)
(* mod-max-investors and mod-supply-cap are exact, the supply cap and the    *)
(* balance limit hold, the registry's and the country counts add up, no      *)
(* tokens are created or lost, daily windows do not overlap, and tokens move *)
(* as TokenLedger says.                                                      *)
(*                                                                           *)
(* Then the votes of the same wallets (Governance): types, that the tallies  *)
(* are the sums of the vote records and justify what was executed, and that  *)
(* closed proposals stay as they are.                                        *)
(***************************************************************************)
EXTENDS FracksToken, Governance, FiniteSetTheorems, SumTheorems, TLAPS

(* An active identity is a registered one, so its country is a country. *)
LEMMA ActiveIsRegistered ==
    ASSUME IdentityTypeOK, NEW w \in Wallets, HasActiveIdentity(w)
    PROVE  CountryOf(w) \in Countries
BY DEF IdentityTypeOK, HasActiveIdentity, CountryOf, NoIdentity

(* The accounts of a route are two different token accounts. *)
LEMMA RouteEnds ==
    ASSUME NEW r \in Routes
    PROVE  /\ r[1] \in Accounts /\ r[2] \in Accounts /\ r[1] # r[2]
           /\ <<r[1], r[2]>> = r
           /\ OwnerOf[r[1]] \in Wallets /\ OwnerOf[r[2]] \in Wallets
BY TokenAssumption DEF Routes

-----------------------------------------------------------------------------
(* The updates the router forwards keep the types of the modules' accounts. *)
LEMMA CountHoldersType ==
    ASSUME holder_count \in Nat, NEW told, NEW exits \in BOOLEAN, NEW enters \in BOOLEAN,
           CountHolders(told, exits, enters)
    PROVE  holder_count' \in Nat
BY DEF CountHolders, One

LEMMA CountCountriesType ==
    ASSUME country_count \in [Countries -> Nat \cup {NoCount}], NEW told,
           NEW exits \in BOOLEAN, NEW enters \in BOOLEAN,
           NEW fc \in Countries, NEW tc \in Countries,
           CountCountries(told, exits, enters, fc, tc)
    PROVE  country_count' \in [Countries -> Nat \cup {NoCount}]
<1>1. CASE "CountryCap" \notin told
  BY <1>1 DEF CountCountries
<1>2. CASE "CountryCap" \in told
  <2>1. ASSUME NEW c \in Countries
        PROVE  country_count[c] - One(exits /\ c = fc) + One(enters /\ c = tc)
                 \in Nat \cup {NoCount}
    <3>1. country_count[c] \in Nat \cup {NoCount}
      OBVIOUS
    <3>2. country_count[c] = NoCount => c # fc /\ c # tc
      BY <1>2 DEF CountCountries
    <3>3. exits /\ ~(enters /\ fc = tc) => country_count[fc] > 0
      BY <1>2 DEF CountCountries
    <3> QED BY <3>1, <3>2, <3>3 DEF One, NoCount
  <2> QED BY <1>2, <2>1 DEF CountCountries
<1> QED BY <1>1, <1>2

LEMMA CountUsageType ==
    ASSUME now \in 1..MaxNow, usage \in [Wallets -> [window : Int, volume : Nat]],
           NEW told, NEW w \in Wallets, NEW n \in Nat, CountUsage(told, w, n)
    PROVE  usage' \in [Wallets -> [window : Int, volume : Nat]]
BY ComplianceAssumption DEF CountUsage

LEMMA TransferredType ==
    ASSUME ComplianceTypeOK, NEW w \in Wallets, NEW n \in Nat, NEW fa \in Nat, NEW ta \in Nat,
           NEW fc \in Countries, NEW tc \in Countries,
           Transferred(w, n, fa, ta, fc, tc),
           misled' \subseteq ModuleKinds, waived' \subseteq ModuleKinds
    PROVE  ComplianceTypeOK'
<1> USE DEF ComplianceTypeOK, Transferred
<1>1. Exits(n, fa) \in BOOLEAN /\ Enters(n, ta) \in BOOLEAN
  BY DEF Exits, Enters
<1>2. holder_count' \in Nat
  BY <1>1, CountHoldersType
<1>3. country_count' \in [Countries -> Nat \cup {NoCount}]
  BY <1>1, CountCountriesType
<1>4. usage' \in [Wallets -> [window : Int, volume : Nat]]
  BY CountUsageType
<1> QED BY <1>2, <1>3, <1>4 DEF router

LEMMA CreatedType ==
    ASSUME ComplianceTypeOK, NEW n \in Nat, NEW ta \in Nat, NEW tc \in Countries,
           Created(n, ta, tc), misled' \subseteq ModuleKinds, waived' \subseteq ModuleKinds
    PROVE  ComplianceTypeOK'
<1> USE DEF ComplianceTypeOK, Created
<1>1. Enters(n, ta) \in BOOLEAN
  BY DEF Enters
<1>2. holder_count' \in Nat
  BY <1>1, CountHoldersType
<1>3. country_count' \in [Countries -> Nat \cup {NoCount}]
  BY <1>1, CountCountriesType
<1>4. total_supply' \in Nat
  BY DEF AddSupply
<1> QED BY <1>2, <1>3, <1>4 DEF router

LEMMA DestroyedType ==
    ASSUME ComplianceTypeOK, NEW n \in Nat, NEW fa \in Nat, NEW fc \in Countries,
           Destroyed(n, fa, fc), misled' \subseteq ModuleKinds, waived' \subseteq ModuleKinds
    PROVE  ComplianceTypeOK'
<1> USE DEF ComplianceTypeOK, Destroyed
<1>1. Exits(n, fa) \in BOOLEAN
  BY DEF Exits
<1>2. holder_count' \in Nat
  BY <1>1, CountHoldersType
<1>3. country_count' \in [Countries -> Nat \cup {NoCount}]
  BY <1>1, CountCountriesType
<1>4. total_supply' \in Nat
  BY DEF SubtractSupply
<1> QED BY <1>2, <1>3, <1>4 DEF router

LEMMA SettleType ==
    ASSUME TypeOK, NEW r \in Routes, NEW n \in Nat, NEW fc \in Countries, NEW tc \in Countries,
           Settle(r[1], r[2], n, fc, tc), waived' \subseteq ModuleKinds
    PROVE  ComplianceTypeOK' /\ bal' \in [Accounts -> 0..MaxU64]
<1>1. /\ bal[r[1]] \in 0..MaxU64 /\ bal[r[2]] \in 0..MaxU64
      /\ bal[r[1]] - n \in Nat /\ bal[r[2]] + n \in Nat
  BY RouteEnds, PartiesAssumption DEF TypeOK, TokenTypeOK, Settle
<1>2. ComplianceTypeOK'
  <2>1. misled' \subseteq ModuleKinds
    BY DEF Settle, Reported, TypeOK, ComplianceTypeOK
  <2> QED BY <1>1, <2>1, RouteEnds, TransferredType DEF TypeOK, Settle
<1>3. bal' \in [Accounts -> 0..MaxU64]
  BY <1>1, RouteEnds, PartiesAssumption DEF TypeOK, TokenTypeOK, Settle
<1> QED BY <1>2, <1>3

-----------------------------------------------------------------------------
(* Type correctness, one lemma per group of actions. *)
LEMMA ComplianceNextType ==
    ASSUME ComplianceTypeOK, ComplianceNext
    PROVE  ComplianceTypeOK'
<1> USE ComplianceAssumption DEF ComplianceTypeOK, counters, router
<1>1. ASSUME NEW m \in ModuleAccounts, BindModule(m) \/ UnbindModule(m)
      PROVE  ComplianceTypeOK'
  BY <1>1 DEF BindModule, UnbindModule
<1>2. ASSUME NEW b \in BOOLEAN, SetModulesPaused(b)
      PROVE  ComplianceTypeOK'
  BY <1>2 DEF SetModulesPaused
<1>3. ASSUME NEW n \in SupplyCaps, SetMaxSupply(n)
      PROVE  ComplianceTypeOK'
  BY <1>3 DEF SetMaxSupply
<1>4. ASSUME NEW w \in Wallets, InitializeWalletUsage(w)
      PROVE  ComplianceTypeOK'
  BY <1>4 DEF InitializeWalletUsage
<1>5. ASSUME NEW c \in Countries, InitializeCountryCount(c)
      PROVE  ComplianceTypeOK'
  BY <1>5 DEF InitializeCountryCount
<1>6. CASE Tick
  BY <1>6 DEF Tick
<1>7. ASSUME NEW w \in Wallets, NEW n \in 0..MaxU64, NEW x \in 0..MaxU64, NEW y \in 0..MaxU64,
             NEW c \in Countries, NEW d \in Countries, CallRouter(w, n, x, y, c, d)
      PROVE  ComplianceTypeOK'
  <2>1. n \in Nat /\ x \in Nat /\ y \in Nat
    BY PartiesAssumption
  <2>2. misled' \subseteq ModuleKinds /\ waived' \subseteq ModuleKinds
    BY <1>7 DEF CallRouter, Invented, InForce
  <2> QED BY <1>7, <2>1, <2>2, TransferredType, CreatedType, DestroyedType DEF CallRouter
<1> QED BY <1>1, <1>2, <1>3, <1>4, <1>5, <1>6, <1>7 DEF ComplianceNext

LEMMA IdentityNextType ==
    ASSUME IdentityTypeOK, IdentityNext
    PROVE  IdentityTypeOK'
<1> USE DEF IdentityTypeOK, Registered
<1>1. ASSUME NEW w \in Wallets, NEW c \in Countries, RegisterIdentity(w, c)
      PROVE  IdentityTypeOK'
  BY <1>1 DEF RegisterIdentity
<1>2. ASSUME NEW w \in Wallets, NEW c \in Countries, UpdateCountry(w, c)
      PROVE  IdentityTypeOK'
  BY <1>2 DEF UpdateCountry
<1>3. ASSUME NEW w \in Wallets, NEW b \in BOOLEAN, SetIdentityActivation(w, b)
      PROVE  IdentityTypeOK'
  BY <1>3 DEF SetIdentityActivation
<1>4. ASSUME NEW w \in Wallets, NEW f \in Wallets, UpdateIdentity(w, f)
      PROVE  IdentityTypeOK'
  BY <1>4 DEF UpdateIdentity
<1>5. ASSUME NEW w \in Wallets, RemoveIdentity(w)
      PROVE  IdentityTypeOK'
  BY <1>5 DEF RemoveIdentity
<1>6. ASSUME NEW f \in Wallets, ChangeClaims(f)
      PROVE  IdentityTypeOK'
  BY <1>6 DEF ChangeClaims
<1> QED BY <1>1, <1>2, <1>3, <1>4, <1>5, <1>6 DEF IdentityNext

LEMMA AdminNextType ==
    ASSUME TokenTypeOK, AdminNext
    PROVE  TokenTypeOK'
<1> USE TokenAssumption, PartiesAssumption DEF TokenTypeOK
<1>1. ASSUME NEW b \in BOOLEAN, SetPaused(b)
      PROVE  TokenTypeOK'
  BY <1>1 DEF SetPaused
<1>2. ASSUME NEW o \in Operators, AddAgent(o) \/ RemoveAgent(o) \/ TransferOwnership(o)
      PROVE  TokenTypeOK'
  BY <1>2 DEF AddAgent, RemoveAgent, TransferOwnership
<1>3. ASSUME NEW o \in Operators, NEW w \in Wallets, FreezeWallet(o, w) \/ UnfreezeWallet(o, w)
      PROVE  TokenTypeOK'
  BY <1>3 DEF FreezeWallet, UnfreezeWallet
<1>4. ASSUME NEW o \in Operators, NEW w \in Wallets, NEW n \in Amounts, FreezePartial(o, w, n)
      PROVE  TokenTypeOK'
  BY <1>4 DEF FreezePartial, FrozenAmount, NoPartial
<1>5. ASSUME NEW o \in Operators, NEW w \in Wallets, NEW n \in Amounts, UnfreezePartial(o, w, n)
      PROVE  TokenTypeOK'
  BY <1>5 DEF UnfreezePartial, FrozenAmount, NoPartial
<1> QED BY <1>1, <1>2, <1>3, <1>4, <1>5 DEF AdminNext

LEMMA MoveNextType ==
    ASSUME TypeOK, MoveNext
    PROVE  TypeOK'
<1> USE TokenAssumption, PartiesAssumption DEF TypeOK
<1>1. ASSUME NEW r \in Routes, NEW n \in Amounts, NEW p, Transfer(r[1], r[2], n, p)
      PROVE  TypeOK'
  <2>1. CountryOf(OwnerOf[r[1]]) \in Countries /\ CountryOf(OwnerOf[r[2]]) \in Countries
    BY <1>1, RouteEnds, ActiveIsRegistered DEF Transfer, Verified
  <2>2. bal[r[1]] \in 0..MaxU64 /\ bal[r[2]] \in 0..MaxU64
    BY RouteEnds DEF TokenTypeOK
  <2>3. TokenTypeOK'
    BY <1>1, <2>1, <2>2, RouteEnds DEF Transfer, Overlook, TokenTypeOK
  <2>4. ComplianceTypeOK'
    BY <1>1 DEF Transfer, ComplianceTypeOK, router, counters, WaiveNow
  <2>5. IdentityTypeOK'
    BY <1>1 DEF Transfer, IdentityTypeOK, identityVars
  <2> QED BY <2>3, <2>4, <2>5
<1>2. ASSUME NEW r \in Routes, ExecuteTransfer(r[1], r[2])
      PROVE  TypeOK'
  <2> DEFINE a == approvals[r]
  <2>1. a.amount \in Nat /\ a.from_country \in Countries /\ a.to_country \in Countries
    BY <1>2, RouteEnds DEF ExecuteTransfer, Matches, TokenTypeOK
  <2>2. /\ Settle(r[1], r[2], a.amount, a.from_country, a.to_country)
        /\ waived' \subseteq ModuleKinds
    BY <1>2, RouteEnds DEF ExecuteTransfer, ComplianceTypeOK
  <2>3. ComplianceTypeOK' /\ bal' \in [Accounts -> 0..MaxU64]
    BY <2>1, <2>2, SettleType
  <2>4. TokenTypeOK'
    BY <1>2, <2>3, RouteEnds DEF ExecuteTransfer, TokenTypeOK, Consume
  <2>5. IdentityTypeOK'
    BY <1>2 DEF ExecuteTransfer, IdentityTypeOK, identityVars
  <2> QED BY <2>3, <2>4, <2>5
<1>3. ASSUME NEW o \in Operators, NEW d \in Accounts, NEW n \in Amounts, NEW p, Mint(o, d, n, p)
      PROVE  TypeOK'
  <2>1. OwnerOf[d] \in Wallets /\ CountryOf(OwnerOf[d]) \in Countries
    BY <1>3, ActiveIsRegistered DEF Mint, Verified
  <2>2. bal[d] \in 0..MaxU64 /\ bal[d] + n \in 0..MaxU64 /\ n \in Nat
    BY <1>3 DEF Mint, EvaluateCompliance, TokenTypeOK
  <2>3. ComplianceTypeOK'
    <3>1. misled' \subseteq ModuleKinds /\ waived' \subseteq ModuleKinds
      BY <1>3 DEF Mint, Reported, WaiveNow, ComplianceTypeOK
    <3> QED BY <1>3, <2>1, <2>2, <3>1, CreatedType DEF Mint
  <2>4. TokenTypeOK'
    BY <1>3, <2>1, <2>2 DEF Mint, Overlook, TokenTypeOK
  <2>5. IdentityTypeOK'
    BY <1>3 DEF Mint, IdentityTypeOK, identityVars
  <2> QED BY <2>3, <2>4, <2>5
<1>4. ASSUME NEW o \in Operators, NEW s \in Accounts, NEW n \in Amounts,
           NEW c \in Countries, NEW told \in BOOLEAN, Burn(o, s, n, c, told)
      PROVE  TypeOK'
  <2>2. bal[s] \in 0..MaxU64 /\ bal[s] - n \in 0..MaxU64 /\ n \in Nat
    BY <1>4 DEF Burn, TokenTypeOK
  <2>3. ComplianceTypeOK'
    <3>1. misled' \subseteq ModuleKinds /\ waived' \subseteq ModuleKinds
      BY <1>4 DEF Burn, Reported, ComplianceTypeOK
    <3>2. CASE told
      BY <1>4, <2>2, <3>1, <3>2, DestroyedType DEF Burn
    <3>3. CASE ~told
      BY <1>4, <3>1, <3>3 DEF Burn, ComplianceTypeOK, router, counters
    <3> QED BY <3>2, <3>3
  <2>4. TokenTypeOK'
    BY <1>4, <2>2 DEF Burn, TokenTypeOK
  <2>5. IdentityTypeOK'
    BY <1>4 DEF Burn, IdentityTypeOK, identityVars
  <2> QED BY <2>3, <2>4, <2>5
<1>5. ASSUME NEW o \in Operators, NEW r \in Routes, NEW n \in Amounts,
             NEW h \in Wallets, NEW p, ForcedTransfer(o, r[1], r[2], n, h, p)
      PROVE  TypeOK'
  <2>1. CountryOf(OwnerOf[r[1]]) \in Countries /\ CountryOf(OwnerOf[r[2]]) \in Countries
    BY <1>5, RouteEnds, ActiveIsRegistered DEF ForcedTransfer, Verified
  <2>2. ComplianceTypeOK' /\ bal' \in [Accounts -> 0..MaxU64]
    BY <1>5, <2>1, SettleType DEF ForcedTransfer, WaiveNow, ComplianceTypeOK
  <2>3. TokenTypeOK'
    BY <1>5, <2>2, RouteEnds DEF ForcedTransfer, Overlook, TokenTypeOK, SatSub, NoPartial
  <2>4. IdentityTypeOK'
    BY <1>5 DEF ForcedTransfer, IdentityTypeOK, identityVars
  <2> QED BY <2>2, <2>3, <2>4
<1>6. ASSUME NEW o \in Operators, NEW r \in Routes, NEW n \in Amounts,
             NEW p, Recovery(o, r[1], r[2], n, p)
      PROVE  TypeOK'
  <2>1. CountryOf(OwnerOf[r[1]]) \in Countries /\ CountryOf(OwnerOf[r[2]]) \in Countries
    BY <1>6, RouteEnds, ActiveIsRegistered DEF Recovery, Verified
  <2>2. ComplianceTypeOK' /\ bal' \in [Accounts -> 0..MaxU64]
    BY <1>6, <2>1, SettleType DEF Recovery
  <2>3. TokenTypeOK'
    BY <1>6, <2>2, RouteEnds DEF Recovery, Overlook, TokenTypeOK
  <2>4. IdentityTypeOK'
    BY <1>6 DEF Recovery, IdentityTypeOK, identityVars
  <2> QED BY <2>2, <2>3, <2>4
<1>7. ASSUME NEW o \in Operators, NEW r \in Routes, NEW h \in Wallets,
             FinalizeRecovery(o, r[1], r[2], h)
      PROVE  TypeOK'
  <2>1. IdentityTypeOK'
    BY <1>7, RouteEnds DEF FinalizeRecovery, MoveIdentity, Registered, IdentityTypeOK
  <2>2. ComplianceTypeOK' /\ TokenTypeOK'
    BY <1>7 DEF FinalizeRecovery, complianceVars, tokenVars, ComplianceTypeOK, TokenTypeOK
  <2> QED BY <2>1, <2>2
<1> QED BY <1>1, <1>2, <1>3, <1>4, <1>5, <1>6, <1>7 DEF MoveNext

LEMMA InitType == Init => TypeOK
<1> SUFFICES ASSUME Init PROVE TypeOK
  OBVIOUS
<1>1. ComplianceTypeOK
  <2>1. usage \in [Wallets -> [window : Int, volume : Nat]]
    BY DEF Init, ComplianceInit, NoUsage
  <2>2. country_count \in [Countries -> Nat \cup {NoCount}]
    BY DEF Init, ComplianceInit
  <2>3. now \in 1..MaxNow
    BY ComplianceAssumption DEF Init, ComplianceInit
  <2> QED BY <2>1, <2>2, <2>3 DEF Init, ComplianceInit, ComplianceTypeOK
<1>2. IdentityTypeOK
  BY DEF Init, IdentityInit, IdentityTypeOK
<1>3. TokenTypeOK
  <2>1. bal \in [Accounts -> 0..MaxU64] /\ supply \in 0..MaxU64
    BY PartiesAssumption DEF Init, TokenInit
  <2>2. partial \in [Wallets -> 0..MaxU64 \cup {NoPartial}]
    BY DEF Init, TokenInit
  <2>3. recoveries \in [Routes -> Amounts \cup {NoRecovery}]
    BY DEF Init, TokenInit
  <2>4. approvals = [r \in Routes |-> NoApproval]
    BY DEF Init, TokenInit
  <2> QED BY <2>1, <2>2, <2>3, <2>4 DEF Init, TokenInit, TokenTypeOK
<1> QED BY <1>1, <1>2, <1>3 DEF TypeOK

LEMMA NextType ==
    ASSUME TypeOK, [Next]_vars
    PROVE  TypeOK'
<1>1. CASE MoveNext
  BY <1>1, MoveNextType
<1>2. CASE AdminNext /\ UNCHANGED <<complianceVars, identityVars>>
  BY <1>2, AdminNextType
     DEF TypeOK, complianceVars, identityVars, ComplianceTypeOK, IdentityTypeOK
<1>3. CASE ComplianceNext /\ UNCHANGED <<identityVars, tokenVars>>
  BY <1>3, ComplianceNextType
     DEF TypeOK, identityVars, tokenVars, IdentityTypeOK, TokenTypeOK
<1>4. CASE IdentityNext /\ UNCHANGED <<complianceVars, tokenVars>>
  BY <1>4, IdentityNextType
     DEF TypeOK, complianceVars, tokenVars, ComplianceTypeOK, TokenTypeOK
<1>5. CASE UNCHANGED vars
  BY <1>5 DEF vars, complianceVars, identityVars, tokenVars,
              TypeOK, ComplianceTypeOK, IdentityTypeOK, TokenTypeOK
<1> QED BY <1>1, <1>2, <1>3, <1>4, <1>5 DEF Next

-----------------------------------------------------------------------------
(* Counting holders.  A set that loses x exactly when o = 1 and gains y      *)
(* exactly when i = 1 changes its cardinality by i - o.                      *)
LEMMA CountedChange ==
    ASSUME NEW S, IsFiniteSet(S), NEW T, NEW x, NEW y, NEW o \in {0, 1}, NEW i \in {0, 1},
           o = 1 => x \in S, i = 1 => y \notin S,
           \A z : z \in T <=> (z \in S /\ ~(o = 1 /\ z = x)) \/ (i = 1 /\ z = y)
    PROVE  Cardinality(T) = Cardinality(S) - o + i
<1>0. Cardinality(S) \in Nat
  BY FS_CardinalityType
<1>1. PICK R : R = IF o = 1 THEN S \ {x} ELSE S
  OBVIOUS
<1>2. IsFiniteSet(R) /\ Cardinality(R) = Cardinality(S) - o
  BY <1>0, <1>1, FS_RemoveElement
<1>3. CASE i = 1
  <2>1. T = R \cup {y} /\ y \notin R
    BY <1>1, <1>3
  <2>2. Cardinality(T) = Cardinality(R) + 1
    BY <1>2, <2>1, FS_AddElement
  <2> QED BY <1>2, <1>3, <2>2
<1>4. CASE i = 0
  <2>1. T = R
    BY <1>1, <1>4
  <2> QED BY <1>0, <1>2, <1>4, <2>1
<1> QED BY <1>3, <1>4

LEMMA HoldersFinite == IsFiniteSet(Holders)
BY TokenAssumption, FS_Subset DEF Holders

(* One settlement: the hook's exits and enters are exactly the changes of   *)
(* the set of holders.                                                       *)
LEMMA SettleHolders ==
    ASSUME TypeOK, NEW r \in Routes, NEW n \in Nat, NEW fc, NEW tc,
           Settle(r[1], r[2], n, fc, tc)
    PROVE  Cardinality(Holders') = Cardinality(Holders)
             - One(Exits(n, bal[r[1]] - n)) + One(Enters(n, bal[r[2]] + n))
<1> DEFINE o == One(Exits(n, bal[r[1]] - n))
           i == One(Enters(n, bal[r[2]] + n))
<1>1. /\ bal \in [Accounts -> Nat] /\ bal[r[1]] >= n
      /\ bal' = [bal EXCEPT ![r[1]] = @ - n, ![r[2]] = @ + n]
  BY PartiesAssumption DEF TypeOK, TokenTypeOK, Settle
<1>2. r[1] \in Accounts /\ r[2] \in Accounts /\ r[1] # r[2]
  BY RouteEnds
<1>3. o \in {0, 1} /\ i \in {0, 1}
  BY DEF One
<1>4. (o = 1 => r[1] \in Holders) /\ (i = 1 => r[2] \notin Holders)
  BY <1>1, <1>2 DEF One, Exits, Enters, Holders
<1>5. \A z : z \in Holders' <=> (z \in Holders /\ ~(o = 1 /\ z = r[1])) \/ (i = 1 /\ z = r[2])
  <2> SUFFICES ASSUME NEW z
               PROVE  z \in Holders' <=>
                        (z \in Holders /\ ~(o = 1 /\ z = r[1])) \/ (i = 1 /\ z = r[2])
    OBVIOUS
  <2>1. CASE z = r[1]
    BY <1>1, <1>2, <2>1 DEF One, Exits, Holders
  <2>2. CASE z = r[2]
    BY <1>1, <1>2, <2>2 DEF One, Enters, Holders
  <2>3. CASE z # r[1] /\ z # r[2]
    BY <1>1, <1>2, <2>3 DEF Holders
  <2> QED BY <2>1, <2>2, <2>3
<1>6. IsFiniteSet(Holders)
  BY HoldersFinite
<1> HIDE DEF o, i
<1>7. Cardinality(Holders') = Cardinality(Holders) - o + i
  BY <1>2, <1>3, <1>4, <1>5, <1>6, CountedChange
<1> QED BY <1>7 DEF o, i

(* A mint adds its destination to the holders exactly when it Enters ...     *)
LEMMA MintHolders ==
    ASSUME TypeOK, NEW d \in Accounts, NEW n \in Nat, bal' = [bal EXCEPT ![d] = @ + n]
    PROVE  Cardinality(Holders') = Cardinality(Holders) + One(Enters(n, bal[d] + n))
<1> DEFINE i == One(Enters(n, bal[d] + n))
<1>1. bal \in [Accounts -> Nat]
  BY PartiesAssumption DEF TypeOK, TokenTypeOK
<1>2. i \in {0, 1} /\ (i = 1 => d \notin Holders)
  BY <1>1 DEF One, Enters, Holders
<1>3. \A z : z \in Holders' <=> (z \in Holders /\ ~(0 = 1 /\ z = d)) \/ (i = 1 /\ z = d)
  BY <1>1 DEF One, Enters, Holders
<1>4. IsFiniteSet(Holders) /\ Cardinality(Holders) \in Nat
  BY HoldersFinite, FS_CardinalityType
<1> HIDE DEF i
<1>5. Cardinality(Holders') = Cardinality(Holders) - 0 + i
  BY <1>2, <1>3, <1>4, CountedChange
<1> QED BY <1>4, <1>5 DEF i

(* ... and a burn removes its source exactly when it Exits.                  *)
LEMMA BurnHolders ==
    ASSUME TypeOK, NEW s \in Accounts, NEW n \in Nat, bal[s] >= n,
           bal' = [bal EXCEPT ![s] = @ - n]
    PROVE  Cardinality(Holders') = Cardinality(Holders) - One(Exits(n, bal[s] - n))
<1> DEFINE o == One(Exits(n, bal[s] - n))
<1>1. bal \in [Accounts -> Nat]
  BY PartiesAssumption DEF TypeOK, TokenTypeOK
<1>2. o \in {0, 1} /\ (o = 1 => s \in Holders)
  BY <1>1 DEF One, Exits, Holders
<1>0. PICK i \in {0, 1} : i = 0
  OBVIOUS
<1>3. \A z : z \in Holders' <=> (z \in Holders /\ ~(o = 1 /\ z = s)) \/ (i = 1 /\ z = s)
  BY <1>0, <1>1 DEF One, Exits, Holders
<1>4. IsFiniteSet(Holders) /\ Cardinality(Holders) \in Nat
  BY HoldersFinite, FS_CardinalityType
<1> HIDE DEF o
<1>5. i = 1 => s \notin Holders
  BY <1>0
<1>6. Cardinality(Holders') = Cardinality(Holders) - o + i
  BY <1>2, <1>3, <1>4, <1>5, CountedChange
<1> QED BY <1>0, <1>2, <1>4, <1>6 DEF o

-----------------------------------------------------------------------------
(* The counters stay exact.  A module that is still trusted after the step   *)
(* (not in misled') was trusted before and was told of the movement.         *)
LEMMA SettleCounters ==
    ASSUME TypeOK, CountersExact, NEW r \in Routes, NEW n \in Nat, NEW fc, NEW tc,
           Settle(r[1], r[2], n, fc, tc), supply' = supply
    PROVE  CountersExact'
<1>1. ASSUME "MaxInvestors" \notin misled'
      PROVE  holder_count' = Cardinality(Holders')
  <2>1. "MaxInvestors" \in modules /\ "MaxInvestors" \notin misled
    BY <1>1 DEF Settle, Reported, ModuleKinds
  <2>2. holder_count' = holder_count - One(Exits(n, bal[r[1]] - n))
                                     + One(Enters(n, bal[r[2]] + n))
    BY <2>1 DEF Settle, Transferred, CountHolders
  <2> QED BY <2>1, <2>2, SettleHolders DEF CountersExact
<1>2. ASSUME "SupplyCap" \notin misled'
      PROVE  total_supply' = supply'
  BY <1>2 DEF Settle, Transferred, Reported, CountersExact
<1> QED BY <1>1, <1>2 DEF CountersExact

LEMMA MintCounters ==
    ASSUME TypeOK, CountersExact, NEW o, NEW d \in Accounts, NEW n \in Amounts, NEW p, Mint(o, d, n, p)
    PROVE  CountersExact'
<1>0. n \in Nat /\ Cardinality(Holders) \in Nat
  BY TokenAssumption, HoldersFinite, FS_CardinalityType
<1>1. ASSUME "MaxInvestors" \notin misled'
      PROVE  holder_count' = Cardinality(Holders')
  <2>1. "MaxInvestors" \in InForce /\ "MaxInvestors" \notin misled
    BY <1>1 DEF Mint, Reported, ModuleKinds
  <2>2. holder_count' = holder_count - One(FALSE) + One(Enters(n, bal[d] + n))
    BY <2>1 DEF Mint, Created, CountHolders
  <2>3. Cardinality(Holders') = Cardinality(Holders) + One(Enters(n, bal[d] + n))
    BY <1>0, MintHolders DEF Mint
  <2> QED BY <1>0, <2>1, <2>2, <2>3 DEF CountersExact, One
<1>2. ASSUME "SupplyCap" \notin misled'
      PROVE  total_supply' = supply'
  <2>1. "SupplyCap" \in InForce /\ "SupplyCap" \notin misled
    BY <1>2 DEF Mint, Reported, ModuleKinds
  <2> QED BY <2>1 DEF Mint, Created, AddSupply, CountersExact
<1> QED BY <1>1, <1>2 DEF CountersExact

LEMMA BurnCounters ==
    ASSUME TypeOK, CountersExact, NEW o, NEW s \in Accounts, NEW n \in Amounts,
           NEW c, NEW told, Burn(o, s, n, c, told)
    PROVE  CountersExact'
<1>0. n \in Nat /\ Cardinality(Holders) \in Nat
  BY TokenAssumption, HoldersFinite, FS_CardinalityType
<1>1. ASSUME "MaxInvestors" \notin misled'
      PROVE  holder_count' = Cardinality(Holders')
  <2>1. told /\ "MaxInvestors" \in modules /\ "MaxInvestors" \notin misled
    BY <1>1 DEF Burn, Reported, ModuleKinds
  <2>2. holder_count' = holder_count - One(Exits(n, bal[s] - n)) + One(FALSE)
    BY <2>1 DEF Burn, Destroyed, CountHolders
  <2>3. Cardinality(Holders') = Cardinality(Holders) - One(Exits(n, bal[s] - n))
    BY <1>0, BurnHolders DEF Burn
  <2> QED BY <1>0, <2>1, <2>2, <2>3 DEF CountersExact, One
<1>2. ASSUME "SupplyCap" \notin misled'
      PROVE  total_supply' = supply'
  <2>1. told /\ "SupplyCap" \in modules /\ "SupplyCap" \notin misled
    BY <1>2 DEF Burn, Reported, ModuleKinds
  <2> QED BY <2>1 DEF Burn, Destroyed, SubtractSupply, CountersExact
<1> QED BY <1>1, <1>2 DEF CountersExact

(* A call of the router by somebody else leaves the counters of the modules   *)
(* that it does not mislead alone.                                           *)
LEMMA RouterCounters ==
    ASSUME CountersExact, NEW w, NEW n, NEW x, NEW y, NEW c, NEW d,
           CallRouter(w, n, x, y, c, d), UNCHANGED <<bal, supply>>
    PROVE  CountersExact'
<1>1. misled \subseteq misled'
  BY DEF CallRouter, Invented
<1>2. ASSUME "MaxInvestors" \notin misled'
      PROVE  holder_count' = holder_count
  BY <1>2 DEF CallRouter, Invented, Transferred, Created, Destroyed, CountHolders
<1>3. ASSUME "SupplyCap" \notin misled'
      PROVE  total_supply' = total_supply
  BY <1>3 DEF CallRouter, Invented, Transferred, Created, Destroyed, AddSupply, SubtractSupply
<1>4. Holders' = Holders
  BY DEF Holders
<1> QED BY <1>1, <1>2, <1>3, <1>4 DEF CountersExact

LEMMA CountersNext ==
    ASSUME TypeOK, CountersExact, [Next]_vars
    PROVE  CountersExact'
<1>0. ASSUME UNCHANGED <<bal, supply, holder_count, total_supply, misled>>
      PROVE  CountersExact'
  BY <1>0 DEF CountersExact, Holders
<1>1. ASSUME NEW r \in Routes, NEW n \in Amounts, NEW p, Transfer(r[1], r[2], n, p)
      PROVE  CountersExact'
  BY <1>0, <1>1 DEF Transfer, counters
<1>2. ASSUME NEW r \in Routes, ExecuteTransfer(r[1], r[2])
      PROVE  CountersExact'
  <2>1. approvals[r].amount \in Nat
    BY <1>2, RouteEnds, TokenAssumption DEF ExecuteTransfer, Matches, TypeOK, TokenTypeOK
  <2>2. /\ Settle(r[1], r[2], approvals[r].amount, approvals[r].from_country,
                  approvals[r].to_country)
        /\ supply' = supply
    BY <1>2, RouteEnds DEF ExecuteTransfer
  <2> QED BY <2>1, <2>2, SettleCounters
<1>3. ASSUME NEW o \in Operators, NEW a \in Accounts, NEW n \in Amounts, NEW p,
             NEW c, NEW told,
             Mint(o, a, n, p) \/ Burn(o, a, n, c, told)
      PROVE  CountersExact'
  BY <1>3, MintCounters, BurnCounters
<1>4. ASSUME NEW o \in Operators, NEW r \in Routes, NEW n \in Amounts,
             NEW h, NEW p,
             ForcedTransfer(o, r[1], r[2], n, h, p) \/ Recovery(o, r[1], r[2], n, p)
      PROVE  CountersExact'
  <2>1. n \in Nat
    BY TokenAssumption
  <2>2. PICK fc, tc : Settle(r[1], r[2], n, fc, tc) /\ supply' = supply
    BY <1>4 DEF ForcedTransfer, Recovery
  <2> QED BY <2>1, <2>2, SettleCounters
<1>5. ASSUME NEW o \in Operators, NEW r \in Routes, NEW h \in Wallets,
             FinalizeRecovery(o, r[1], r[2], h)
      PROVE  CountersExact'
  BY <1>0, <1>5 DEF FinalizeRecovery, complianceVars, tokenVars
<1>6. CASE MoveNext
  BY <1>6, <1>1, <1>2, <1>3, <1>4, <1>5 DEF MoveNext
<1>7. CASE AdminNext /\ UNCHANGED <<complianceVars, identityVars>>
  BY <1>0, <1>7 DEF AdminNext, complianceVars, SetPaused, AddAgent, RemoveAgent,
     TransferOwnership, FreezeWallet, UnfreezeWallet, FreezePartial, UnfreezePartial
<1>8. CASE ComplianceNext /\ UNCHANGED <<identityVars, tokenVars>>
  <2>1. UNCHANGED <<bal, supply>>
    BY <1>8 DEF tokenVars
  <2>2. ASSUME NEW w, NEW n, NEW x, NEW y, NEW c, NEW d, CallRouter(w, n, x, y, c, d)
        PROVE  CountersExact'
    BY <2>1, <2>2, RouterCounters DEF Holders
  <2> QED BY <1>0, <1>8, <2>1, <2>2 DEF ComplianceNext, BindModule, UnbindModule,
     SetModulesPaused, SetMaxSupply, InitializeWalletUsage, InitializeCountryCount, Tick, counters
<1>9. CASE UNCHANGED <<complianceVars, tokenVars>>
  BY <1>0, <1>9 DEF complianceVars, tokenVars
<1> QED BY <1>6, <1>7, <1>8, <1>9 DEF Next, vars

(* mod-supply-cap's own total never passes its cap: only created raises it,  *)
(* under the cap, and set_max_supply refuses a cap below it.                 *)
LEMMA TotalNext ==
    ASSUME TypeOK, TotalWithinCap, [Next]_vars
    PROVE  TotalWithinCap'
<1> USE DEF TotalWithinCap
<1>0. /\ total_supply \in Nat /\ max_supply \in Nat
      /\ \A n \in Amounts : n \in Nat
  BY ComplianceAssumption, TokenAssumption DEF TypeOK, ComplianceTypeOK
<1>1. CASE MoveNext
  <2>1. ASSUME NEW r \in Routes, NEW n \in Amounts, NEW p, Transfer(r[1], r[2], n, p)
        PROVE  TotalWithinCap'
    BY <2>1 DEF Transfer, counters, router
  <2>2. ASSUME NEW r \in Routes, NEW n, NEW fc, NEW tc, Settle(r[1], r[2], n, fc, tc)
        PROVE  TotalWithinCap'
    BY <2>2 DEF Settle, Transferred, router
  <2>3. ASSUME NEW o, NEW a, NEW n \in Amounts, NEW p, Mint(o, a, n, p)
        PROVE  TotalWithinCap'
    BY <2>3 DEF Mint, Created, AddSupply, router
  <2>0. ASSUME NEW n \in Nat, NEW x, NEW c, Destroyed(n, x, c)
        PROVE  TotalWithinCap'
    BY <1>0, <2>0 DEF Destroyed, SubtractSupply, router
  <2>4. ASSUME NEW o, NEW a, NEW n \in Amounts, NEW c, NEW told, Burn(o, a, n, c, told)
        PROVE  TotalWithinCap'
    <3>1. CASE told
      BY <1>0, <2>0, <2>4, <3>1 DEF Burn
    <3>2. CASE ~told
      BY <2>4, <3>2 DEF Burn, router, counters
    <3> QED BY <3>1, <3>2
  <2>5. ASSUME NEW o, NEW r, NEW h, FinalizeRecovery(o, r[1], r[2], h)
        PROVE  TotalWithinCap'
    BY <2>5 DEF FinalizeRecovery, complianceVars
  <2>6. ASSUME NEW o, NEW r \in Routes, NEW n, NEW h, NEW p,
               ForcedTransfer(o, r[1], r[2], n, h, p) \/ Recovery(o, r[1], r[2], n, p)
        PROVE  TotalWithinCap'
    BY <2>2, <2>6 DEF ForcedTransfer, Recovery
  <2> QED BY <1>1, <2>1, <2>2, <2>3, <2>4, <2>5, <2>6 DEF MoveNext, ExecuteTransfer
<1>2. CASE ComplianceNext
  <2>1. ASSUME NEW w, NEW n \in 0..MaxU64, NEW x, NEW y, NEW c, NEW d,
               CallRouter(w, n, x, y, c, d)
        PROVE  TotalWithinCap'
    <3>1. n \in Nat
      BY PartiesAssumption
    <3>2. CASE Transferred(w, n, x, y, c, d)
      BY <3>2 DEF Transferred, router
    <3>3. CASE Created(n, y, d)
      BY <1>0, <3>1, <3>3 DEF Created, AddSupply, router
    <3>4. CASE Destroyed(n, x, c)
      BY <1>0, <3>1, <3>4 DEF Destroyed, SubtractSupply, router
    <3> QED BY <2>1, <3>2, <3>3, <3>4 DEF CallRouter
  <2> QED BY <1>2, <2>1 DEF ComplianceNext, BindModule, UnbindModule, SetModulesPaused,
     SetMaxSupply, InitializeWalletUsage, InitializeCountryCount, Tick, counters, router
<1>3. CASE UNCHANGED complianceVars
  BY <1>3 DEF complianceVars
<1> QED BY <1>1, <1>2, <1>3 DEF Next, vars

-----------------------------------------------------------------------------
(* The balance limit.  A pending approval was evaluated against max_balance  *)
(* on the balances the hook pins, so settling it keeps the limit.            *)
LimitInv == MaxBalanceHolds /\ ApprovalsWithinMaxBalance

LEMMA LimitKept ==
    ASSUME LimitInv, waived \subseteq waived', bal' = bal, approvals' = approvals
    PROVE  LimitInv'
BY DEF LimitInv, MaxBalanceHolds, ApprovalsWithinMaxBalance

(* A settlement that leaves the destination within the limit keeps it. *)
LEMMA SettleLimit ==
    ASSUME TypeOK, MaxBalanceHolds, NEW r \in Routes, NEW n \in Nat, NEW fc, NEW tc,
           Settle(r[1], r[2], n, fc, tc), waived \subseteq waived',
           "MaxBalance" \notin waived' => bal[r[2]] + n <= max_balance
    PROVE  MaxBalanceHolds'
<1> SUFFICES ASSUME "MaxBalance" \notin waived', NEW a \in Accounts
             PROVE  bal'[a] <= max_balance
  BY DEF MaxBalanceHolds
<1>1. bal \in [Accounts -> Nat] /\ max_balance \in Nat
  BY PartiesAssumption, ComplianceAssumption DEF TypeOK, TokenTypeOK
<1>2. \A b \in Accounts : bal[b] <= max_balance
  BY DEF MaxBalanceHolds
<1>3. /\ bal' = [bal EXCEPT ![r[1]] = @ - n, ![r[2]] = @ + n]
      /\ bal[r[2]] + n <= max_balance /\ bal[r[1]] >= n
  BY DEF Settle
<1> QED BY <1>1, <1>2, <1>3, RouteEnds

LEMMA LimitNext ==
    ASSUME TypeOK, LimitInv, [Next]_vars
    PROVE  LimitInv'
<1> USE DEF LimitInv
<1>0. /\ bal \in [Accounts -> Nat] /\ max_balance \in Nat
      /\ \A n \in Amounts : n \in Nat
      /\ approvals \in [Routes -> {NoApproval} \cup
            [amount : Amounts, from_balance : 0..MaxU64, to_balance : 0..MaxU64,
             from_country : Countries, to_country : Countries]]
  BY PartiesAssumption, ComplianceAssumption, TokenAssumption DEF TypeOK, TokenTypeOK
<1>1. ASSUME NEW r \in Routes, NEW n \in Amounts, NEW p, Transfer(r[1], r[2], n, p)
      PROVE  LimitInv'
  <2>1. /\ bal' = bal /\ waived' = waived \cup (ModuleKinds \ InForce)
        /\ "MaxBalance" \in InForce => bal[r[2]] + n <= max_balance
    BY <1>1 DEF Transfer, EvaluateCompliance, WaiveNow
  <2>2. "MaxBalance" \notin waived' => bal[r[2]] + n <= max_balance
    BY <2>1 DEF ModuleKinds
  <2>3. /\ approvals'[r].amount = n /\ approvals'[r].to_balance = bal[r[2]]
        /\ \A q \in Routes : q # r => approvals'[q] = approvals[q]
    BY <1>0, <1>1, RouteEnds DEF Transfer
  <2>4. MaxBalanceHolds'
    BY <2>1 DEF MaxBalanceHolds
  <2>5. ApprovalsWithinMaxBalance'
    BY <2>1, <2>2, <2>3 DEF ApprovalsWithinMaxBalance
  <2> QED BY <2>4, <2>5
<1>2. ASSUME NEW r \in Routes, ExecuteTransfer(r[1], r[2])
      PROVE  LimitInv'
  <2>1. /\ approvals[r] # NoApproval /\ approvals[r].amount \in Nat
        /\ bal[r[2]] = approvals[r].to_balance
    BY <1>0, <1>2, RouteEnds DEF ExecuteTransfer, Matches
  <2>2. /\ Settle(r[1], r[2], approvals[r].amount, approvals[r].from_country,
                  approvals[r].to_country)
        /\ approvals' = [approvals EXCEPT ![r] = NoApproval]
        /\ waived' = waived
    BY <1>2, RouteEnds DEF ExecuteTransfer, Consume
  <2>3. "MaxBalance" \notin waived' => bal[r[2]] + approvals[r].amount <= max_balance
    BY <2>1, <2>2 DEF ApprovalsWithinMaxBalance
  <2>4. MaxBalanceHolds'
    BY <2>1, <2>2, <2>3, SettleLimit
  <2>5. ApprovalsWithinMaxBalance'
    BY <1>0, <2>2 DEF ApprovalsWithinMaxBalance
  <2> QED BY <2>4, <2>5
<1>3. ASSUME NEW o \in Operators, NEW d \in Accounts, NEW n \in Amounts, NEW p, Mint(o, d, n, p)
      PROVE  LimitInv'
  <2>1. /\ bal' = [bal EXCEPT ![d] = @ + n] /\ approvals' = approvals
        /\ waived' = waived \cup (ModuleKinds \ InForce)
        /\ "MaxBalance" \in InForce => bal[d] + n <= max_balance
    BY <1>3 DEF Mint, WaiveNow, EvaluateCompliance
  <2>2. "MaxBalance" \notin waived' => bal[d] + n <= max_balance
    BY <2>1 DEF ModuleKinds
  <2>3. MaxBalanceHolds'
    BY <1>0, <2>1, <2>2 DEF MaxBalanceHolds
  <2>4. ApprovalsWithinMaxBalance'
    BY <2>1 DEF ApprovalsWithinMaxBalance
  <2> QED BY <2>3, <2>4
<1>4. ASSUME NEW o \in Operators, NEW s \in Accounts, NEW n \in Amounts,
           NEW c \in Countries, NEW told \in BOOLEAN, Burn(o, s, n, c, told)
      PROVE  LimitInv'
  <2>1. /\ bal' = [bal EXCEPT ![s] = @ - n] /\ approvals' = approvals
        /\ waived' = waived /\ bal[s] >= n
    BY <1>4 DEF Burn
  <2>2. MaxBalanceHolds'
    BY <1>0, <2>1 DEF MaxBalanceHolds
  <2>3. ApprovalsWithinMaxBalance'
    BY <2>1 DEF ApprovalsWithinMaxBalance
  <2> QED BY <2>2, <2>3
<1>5. ASSUME NEW o \in Operators, NEW r \in Routes, NEW n \in Amounts,
             NEW h \in Wallets, NEW p, ForcedTransfer(o, r[1], r[2], n, h, p)
      PROVE  LimitInv'
  <2>1. /\ waived' = waived \cup (ModuleKinds \ InForce) /\ approvals' = approvals
        /\ "MaxBalance" \in InForce => bal[r[2]] + n <= max_balance
    BY <1>5 DEF ForcedTransfer, EvaluateCompliance, WaiveNow
  <2>2. "MaxBalance" \notin waived' => bal[r[2]] + n <= max_balance
    BY <2>1 DEF ModuleKinds
  <2>3. PICK fc, tc : Settle(r[1], r[2], n, fc, tc)
    BY <1>5 DEF ForcedTransfer
  <2>4. MaxBalanceHolds'
    BY <1>0, <2>1, <2>2, <2>3, SettleLimit
  <2>5. ApprovalsWithinMaxBalance'
    BY <2>1 DEF ApprovalsWithinMaxBalance
  <2> QED BY <2>4, <2>5
<1>6. ASSUME NEW o \in Operators, NEW r \in Routes, NEW n \in Amounts,
             NEW p, Recovery(o, r[1], r[2], n, p)
      PROVE  LimitInv'
  BY <1>6 DEF Recovery, MaxBalanceHolds, ApprovalsWithinMaxBalance, ModuleKinds
<1>7. ASSUME NEW o \in Operators, NEW r \in Routes, NEW h \in Wallets,
             FinalizeRecovery(o, r[1], r[2], h)
      PROVE  LimitInv'
  BY <1>7, LimitKept DEF FinalizeRecovery, complianceVars, tokenVars
<1>8. CASE AdminNext /\ UNCHANGED <<complianceVars, identityVars>>
  BY <1>8, LimitKept DEF AdminNext, complianceVars, SetPaused, AddAgent, RemoveAgent,
     TransferOwnership, FreezeWallet, UnfreezeWallet, FreezePartial, UnfreezePartial
<1>9. CASE ComplianceNext /\ UNCHANGED <<identityVars, tokenVars>>
  BY <1>9, LimitKept DEF ComplianceNext, tokenVars, BindModule, UnbindModule,
     SetModulesPaused, SetMaxSupply, InitializeWalletUsage, InitializeCountryCount, Tick, CallRouter
<1>10. CASE UNCHANGED <<complianceVars, tokenVars>>
  BY <1>10, LimitKept DEF complianceVars, tokenVars
<1> QED BY <1>1, <1>2, <1>3, <1>4, <1>5, <1>6, <1>7, <1>8, <1>9, <1>10
        DEF Next, MoveNext, vars

-----------------------------------------------------------------------------
(* The registry's count. *)
RegisteredWallets == {w \in Wallets : Registered(w)}

LEMMA RegisteredFacts ==
    ASSUME IdentityTypeOK
    PROVE  /\ \A w \in Wallets : Registered(w) <=> identity[w].fid \in Wallets
           /\ IsFiniteSet(RegisteredWallets)
           /\ Cardinality(RegisteredWallets) \in Nat
<1>1. \A w \in Wallets : Registered(w) <=> identity[w].fid \in Wallets
  BY PartiesAssumption DEF IdentityTypeOK, Registered, NoIdentity
<1>2. IsFiniteSet(RegisteredWallets)
  BY PartiesAssumption, FS_Subset DEF RegisteredWallets
<1> QED BY <1>1, <1>2, FS_CardinalityType

LEMMA RegistryStep ==
    ASSUME IdentityTypeOK, RegisteredCountExact, NEW x \in Wallets,
           NEW o \in {0, 1}, NEW i \in {0, 1},
           o = 1 => Registered(x), i = 1 => ~Registered(x),
           \A w \in Wallets : Registered(w)' <=>
               (Registered(w) /\ ~(o = 1 /\ w = x)) \/ (i = 1 /\ w = x),
           registered_count' = registered_count - o + i
    PROVE  RegisteredCountExact'
<1>1. /\ IsFiniteSet(RegisteredWallets)
      /\ o = 1 => x \in RegisteredWallets
      /\ i = 1 => x \notin RegisteredWallets
  BY RegisteredFacts DEF RegisteredWallets
<1>2. \A z : z \in RegisteredWallets' <=>
               (z \in RegisteredWallets /\ ~(o = 1 /\ z = x)) \/ (i = 1 /\ z = x)
  BY DEF RegisteredWallets
<1>3. Cardinality(RegisteredWallets') = Cardinality(RegisteredWallets) - o + i
  BY <1>1, <1>2, CountedChange
<1> QED BY <1>3 DEF RegisteredCountExact, RegisteredWallets

LEMMA RegistryIdentityNext ==
    ASSUME IdentityTypeOK, RegisteredCountExact, IdentityNext
    PROVE  RegisteredCountExact'
<1>0. IdentityTypeOK'
  BY IdentityNextType
<1>1. /\ registered_count \in Nat
      /\ \A w \in Wallets : Registered(w) <=> identity[w].fid \in Wallets
      /\ \A w \in Wallets : Registered(w)' <=> identity'[w].fid \in Wallets
  <2>1. \A w \in Wallets : Registered(w)' <=> identity'[w].fid \in Wallets
    BY <1>0, PartiesAssumption DEF IdentityTypeOK, Registered, NoIdentity
  <2> QED BY <2>1, RegisteredFacts DEF IdentityTypeOK
<1>2. PICK zero \in {0, 1}, one \in {0, 1} : zero = 0 /\ one = 1
  OBVIOUS
<1>3. ASSUME NEW w \in Wallets,
             registered_count' = registered_count,
             \A v \in Wallets : Registered(v)' <=> Registered(v)
      PROVE  RegisteredCountExact'
  BY <1>1, <1>3 DEF RegisteredCountExact
<1>4. ASSUME NEW w \in Wallets, NEW c \in Countries, RegisterIdentity(w, c)
      PROVE  RegisteredCountExact'
  <2>1. /\ \A v \in Wallets : Registered(v)' <=>
             (Registered(v) /\ ~(zero = 1 /\ v = w)) \/ (one = 1 /\ v = w)
        /\ ~Registered(w)
    BY <1>1, <1>2, <1>4 DEF RegisterIdentity, Vacant, IdentityTypeOK
  <2>2. registered_count' = registered_count - zero + one
    BY <1>1, <1>2, <1>4 DEF RegisterIdentity
  <2> QED BY <1>2, <2>1, <2>2, RegistryStep
<1>5. ASSUME NEW w \in Wallets, RemoveIdentity(w)
      PROVE  RegisteredCountExact'
  <2>1. /\ \A v \in Wallets : Registered(v)' <=>
             (Registered(v) /\ ~(one = 1 /\ v = w)) \/ (zero = 1 /\ v = w)
        /\ Registered(w)
    BY <1>2, <1>5 DEF RemoveIdentity, Registered, IdentityTypeOK
  <2>2. registered_count' = registered_count - one + zero
    BY <1>1, <1>2, <1>5 DEF RemoveIdentity
  <2> QED BY <1>2, <2>1, <2>2, RegistryStep
<1>6. ASSUME NEW w \in Wallets, NEW c \in Countries, UpdateCountry(w, c)
      PROVE  RegisteredCountExact'
  <2>1. \A v \in Wallets : Registered(v)' <=> Registered(v)
    BY <1>1, <1>6 DEF UpdateCountry, IdentityTypeOK
  <2> QED BY <1>3, <1>6, <2>1 DEF UpdateCountry
<1>7. ASSUME NEW w \in Wallets, NEW b \in BOOLEAN, SetIdentityActivation(w, b)
      PROVE  RegisteredCountExact'
  <2>1. \A v \in Wallets : Registered(v)' <=> Registered(v)
    BY <1>1, <1>7 DEF SetIdentityActivation, IdentityTypeOK
  <2> QED BY <1>3, <1>7, <2>1 DEF SetIdentityActivation
<1>8. ASSUME NEW w \in Wallets, NEW f \in Wallets, UpdateIdentity(w, f)
      PROVE  RegisteredCountExact'
  <2>1. \A v \in Wallets : Registered(v)' <=> Registered(v)
    BY <1>1, <1>8 DEF UpdateIdentity, IdentityTypeOK
  <2> QED BY <1>3, <1>8, <2>1 DEF UpdateIdentity
<1>9. ASSUME NEW f \in Wallets, ChangeClaims(f)
      PROVE  RegisteredCountExact'
  BY <1>9 DEF ChangeClaims, RegisteredCountExact, Registered
<1> QED BY <1>4, <1>5, <1>6, <1>7, <1>8, <1>9 DEF IdentityNext

(* finalize_recovery deregisters exactly the lost wallet. *)
LEMMA RegistryMove ==
    ASSUME IdentityTypeOK, RegisteredCountExact, NEW lost \in Wallets, NEW new \in Wallets,
           MoveIdentity(lost, new)
    PROVE  RegisteredCountExact'
<1>1. /\ registered_count \in Nat
      /\ \A w \in Wallets : Registered(w) <=> identity[w].fid \in Wallets
  BY RegisteredFacts DEF IdentityTypeOK
<1>2. PICK zero \in {0, 1}, one \in {0, 1} : zero = 0 /\ one = 1
  OBVIOUS
<1>3. /\ identity'[lost] = NoIdentity
      /\ new # lost => identity'[new].fid = identity[lost].fid
      /\ \A v \in Wallets \ {lost, new} : identity'[v] = identity[v]
  BY DEF MoveIdentity, IdentityTypeOK, Registered
<1>4. new # lost => identity'[new] # NoIdentity
  BY <1>1, <1>3, PartiesAssumption DEF MoveIdentity, NoIdentity
<1>5. ASSUME NEW v \in Wallets
      PROVE  Registered(v)' <=>
               (Registered(v) /\ ~(one = 1 /\ v = lost)) \/ (zero = 1 /\ v = lost)
  <2>1. CASE v = lost
    BY <1>2, <1>3, <2>1 DEF Registered
  <2>2. CASE v = new /\ v # lost
    BY <1>2, <1>4, <2>2 DEF MoveIdentity, Registered
  <2>3. CASE v # new /\ v # lost
    BY <1>2, <1>3, <2>3 DEF Registered
  <2> QED BY <2>1, <2>2, <2>3
<1>6. registered_count' = registered_count - one + zero /\ Registered(lost)
  BY <1>1, <1>2 DEF MoveIdentity
<1> QED BY <1>2, <1>5, <1>6, RegistryStep

LEMMA RegistryNext ==
    ASSUME TypeOK, RegisteredCountExact, [Next]_vars
    PROVE  RegisteredCountExact'
<1> USE DEF TypeOK
<1>1. ASSUME UNCHANGED <<identity, registered_count>>
      PROVE  RegisteredCountExact'
  BY <1>1 DEF RegisteredCountExact, Registered
<1>2. ASSUME NEW o \in Operators, NEW r \in Routes, NEW h \in Wallets,
             FinalizeRecovery(o, r[1], r[2], h)
      PROVE  RegisteredCountExact'
  BY <1>2, RouteEnds, RegistryMove DEF FinalizeRecovery
<1>3. CASE MoveNext
  <2>1. \A q, n, p : Transfer(q[1], q[2], n, p) => UNCHANGED identityVars
    BY DEF Transfer
  <2>2. \A q : ExecuteTransfer(q[1], q[2]) => UNCHANGED identityVars
    BY DEF ExecuteTransfer
  <2>3. \A o, a, n, p : Mint(o, a, n, p) => UNCHANGED identityVars
    BY DEF Mint
  <2>4. \A o, a, n, c, t : Burn(o, a, n, c, t) => UNCHANGED identityVars
    BY DEF Burn
  <2>6. \A o, q, n, h, p : ForcedTransfer(o, q[1], q[2], n, h, p) => UNCHANGED identityVars
    BY DEF ForcedTransfer
  <2>7. \A o, q, n, p : Recovery(o, q[1], q[2], n, p) => UNCHANGED identityVars
    BY DEF Recovery
  <2>5. ASSUME UNCHANGED identityVars
        PROVE  RegisteredCountExact'
    BY <1>1, <2>5 DEF identityVars
  <2> QED BY <1>2, <1>3, <2>1, <2>2, <2>3, <2>4, <2>5, <2>6, <2>7 DEF MoveNext
<1>4. CASE IdentityNext
  BY <1>4, RegistryIdentityNext
<1>5. CASE UNCHANGED identityVars
  BY <1>1, <1>5 DEF identityVars
<1> QED BY <1>3, <1>4, <1>5 DEF Next, vars

-----------------------------------------------------------------------------
(* IInv is an inductive invariant of Spec. *)
LEMMA InitIInv == Init => IInv
<1> SUFFICES ASSUME Init PROVE IInv
  OBVIOUS
<1>1. TypeOK
  BY InitType
<1>2. Holders = {} /\ {w \in Wallets : Registered(w)} = {}
  BY DEF Init, TokenInit, IdentityInit, Holders, Registered
<1>3. CountersExact /\ RegisteredCountExact
  BY <1>2, FS_EmptySet DEF Init, ComplianceInit, TokenInit, IdentityInit, CountersExact,
     RegisteredCountExact
<1>4. TotalWithinCap
  BY ComplianceAssumption DEF Init, ComplianceInit, TotalWithinCap
<1>5. MaxBalanceHolds /\ ApprovalsWithinMaxBalance
  BY ComplianceAssumption DEF Init, TokenInit, MaxBalanceHolds, ApprovalsWithinMaxBalance
<1> QED BY <1>1, <1>3, <1>4, <1>5 DEF IInv

LEMMA NextIInv == IInv /\ [Next]_vars => IInv'
BY NextType, CountersNext, TotalNext, LimitNext, RegistryNext DEF IInv, LimitInv

(* IInv holds of every behaviour of the token suite; the theorems below are  *)
(* its conjuncts and their consequences.                                     *)
THEOREM IInvHolds == Spec => []IInv
BY InitIInv, NextIInv, PTL DEF Spec

(* Every account of the token suite (token state, approvals, freezes, module *)
(* counters, wallet identities) keeps its declared type: no instruction      *)
(* wraps a u64 or leaves a half-written account.                             *)
THEOREM TypeCorrect == Spec => []TypeOK
<1>1. IInv => TypeOK
  BY DEF IInv
<1> QED BY <1>1, IInvHolds, PTL

(* mod-max-investors' holder_count and mod-supply-cap's total_supply equal   *)
(* the number of token accounts with a balance and the supply of the mint,   *)
(* as long as the module was told of every movement and of no other: a call   *)
(* of the router by a stranger never touches the counters of a module that it *)
(* does not mislead.                                                         *)
THEOREM CountersCorrect == Spec => []CountersExact
<1>1. IInv => CountersExact
  BY DEF IInv
<1> QED BY <1>1, IInvHolds, PTL

(* The mint's supply stays within mod-supply-cap's max_supply, whatever      *)
(* set_max_supply does, as long as the module was told of every movement and *)
(* of no other.                                                              *)
THEOREM SupplyCapCorrect == Spec => []SupplyCapHolds
<1>1. IInv => SupplyCapHolds
  BY DEF IInv, CountersExact, TotalWithinCap, SupplyCapHolds
<1> QED BY <1>1, IInvHolds, PTL

(* No token account exceeds mod-max-balance's limit as long as the rule was  *)
(* evaluated for every movement, although the hook never evaluates it.       *)
THEOREM MaxBalanceCorrect == Spec => []MaxBalanceHolds
<1>1. IInv => MaxBalanceHolds
  BY DEF IInv
<1> QED BY <1>1, IInvHolds, PTL

(* fracks-irs' registered_count is the number of wallet identities, also     *)
(* after finalize_recovery has merged two of them.                           *)
THEOREM RegisteredCountCorrect == Spec => []RegisteredCountExact
<1>1. IInv => RegisteredCountExact
  BY DEF IInv
<1> QED BY <1>1, IInvHolds, PTL

-----------------------------------------------------------------------------
(* While the token is paused the only thing that moves tokens is the hook,   *)
(* once per approval and on the approval's balances: mint, burn, forced      *)
(* transfer and recovery are refused.                                        *)
THEOREM PauseCorrect == Spec => PausedMovesOnlyApproved
<1> DEFINE Move(r) ==
      /\ approvals[r] # NoApproval /\ approvals'[r] = NoApproval
      /\ bal = [bal EXCEPT ![r[1]] = approvals[r].from_balance,
                           ![r[2]] = approvals[r].to_balance]
      /\ bal' = [bal EXCEPT ![r[1]] = @ - approvals[r].amount,
                            ![r[2]] = @ + approvals[r].amount]
<1>1. ASSUME TypeOK, [Next]_vars, paused, bal' # bal
      PROVE  supply' = supply /\ \E r \in Routes : Move(r)
  <2>1. PICK r \in Routes : ExecuteTransfer(r[1], r[2])
    <3>1. ~UNCHANGED vars /\ ~UNCHANGED tokenVars /\ ~AdminNext
      BY <1>1 DEF vars, tokenVars, AdminNext, SetPaused, AddAgent, RemoveAgent,
         TransferOwnership, FreezeWallet, UnfreezeWallet, FreezePartial, UnfreezePartial
    <3>2. MoveNext
      BY <1>1, <3>1 DEF Next
    <3>3. /\ \A q, n, p : ~Transfer(q[1], q[2], n, p)
          /\ \A o, a, n, p, c, t : ~Mint(o, a, n, p) /\ ~Burn(o, a, n, c, t)
          /\ \A o, q, n, h, p :
               ~ForcedTransfer(o, q[1], q[2], n, h, p) /\ ~Recovery(o, q[1], q[2], n, p)
          /\ \A o, q, h : ~FinalizeRecovery(o, q[1], q[2], h)
      BY <1>1, <3>1 DEF Transfer, Mint, Burn, ForcedTransfer, Recovery, FinalizeRecovery
    <3> QED BY <3>2, <3>3 DEF MoveNext
  <2>2. /\ bal \in [Accounts -> 0..MaxU64]
        /\ approvals \in [Routes -> {NoApproval} \cup
             [amount : Amounts, from_balance : 0..MaxU64, to_balance : 0..MaxU64,
              from_country : Countries, to_country : Countries]]
    BY <1>1 DEF TypeOK, TokenTypeOK
  <2>3. /\ approvals[r] # NoApproval
        /\ bal[r[1]] = approvals[r].from_balance /\ bal[r[2]] = approvals[r].to_balance
        /\ approvals' = [approvals EXCEPT ![r] = NoApproval]
        /\ bal' = [bal EXCEPT ![r[1]] = @ - approvals[r].amount,
                              ![r[2]] = @ + approvals[r].amount]
        /\ supply' = supply
    BY <2>1, RouteEnds DEF ExecuteTransfer, Matches, Settle, Consume
  <2>4. bal = [bal EXCEPT ![r[1]] = approvals[r].from_balance,
                          ![r[2]] = approvals[r].to_balance]
    BY <2>2, <2>3, RouteEnds
  <2> QED BY <2>2, <2>3, <2>4
<1>2. TypeOK /\ [Next]_vars => [paused /\ bal' # bal =>
        supply' = supply /\ \E r \in Routes : Move(r)]_vars
  BY <1>1
<1>3. TypeOK /\ [Next]_vars => [paused /\ bal' # bal =>
         /\ supply' = supply
         /\ \E r \in Routes : LET a == approvals[r] IN
              /\ a # NoApproval /\ approvals'[r] = NoApproval
              /\ bal = [bal EXCEPT ![r[1]] = a.from_balance, ![r[2]] = a.to_balance]
              /\ bal' = [bal EXCEPT ![r[1]] = @ - a.amount, ![r[2]] = @ + a.amount]]_vars
  BY <1>2
<1> QED BY <1>3, TypeCorrect, PTL DEF Spec, PausedMovesOnlyApproved

(* A frozen wallet whose freeze account every instruction was given gains    *)
(* nothing new: `transfer` refuses to write an approval for it, mint, forced *)
(* transfer and recovery refuse to move tokens to it, and what the hook      *)
(* settles uses up an approval that was there.                               *)
THEOREM FreezeCorrect == Spec => FrozenGainsNothingNew
<1> DEFINE Settled(a) == \E r \in Routes : /\ r[2] = a
                             /\ approvals[r] # NoApproval /\ approvals'[r] = NoApproval
                             /\ bal'[a] = bal[a] + approvals[r].amount
<1>1. ASSUME TypeOK, [Next]_vars, NEW w \in frozen \ unread'
      PROVE  /\ \A r \in Routes : w \in {OwnerOf[r[1]], OwnerOf[r[2]]}
                 => approvals'[r] \in {approvals[r], NoApproval}
             /\ \A a \in Accounts : OwnerOf[a] = w /\ bal'[a] > bal[a] => Settled(a)
  <2>0. /\ approvals \in [Routes -> {NoApproval} \cup
             [amount : Amounts, from_balance : 0..MaxU64, to_balance : 0..MaxU64,
              from_country : Countries, to_country : Countries]]
        /\ bal \in [Accounts -> Nat] /\ w \in Wallets
    BY <1>1, PartiesAssumption DEF TypeOK, TokenTypeOK
  <2> DEFINE Stays == approvals' = approvals
                      /\ \A a \in Accounts : OwnerOf[a] = w => ~(bal'[a] > bal[a])
  <2>1. ASSUME NEW q \in Routes, NEW n \in Amounts, NEW p, Transfer(q[1], q[2], n, p)
        PROVE  /\ bal' = bal
               /\ \A r \in Routes : w \in {OwnerOf[r[1]], OwnerOf[r[2]]}
                    => approvals'[r] = approvals[r]
    <3>1. w \notin {OwnerOf[q[1]], OwnerOf[q[2]]}
      BY <1>1, <2>1 DEF Transfer, NotFrozen, Overlook
    <3>2. (\E v : approvals' = [approvals EXCEPT ![q] = v]) /\ bal' = bal
      BY <2>1, RouteEnds DEF Transfer
    <3> QED BY <2>0, <3>1, <3>2
  <2>2. ASSUME NEW q \in Routes, ExecuteTransfer(q[1], q[2])
        PROVE  /\ \A r \in Routes : approvals'[r] \in {approvals[r], NoApproval}
               /\ \A a \in Accounts : bal'[a] > bal[a] => Settled(a)
    <3>1. /\ approvals[q] # NoApproval /\ approvals' = [approvals EXCEPT ![q] = NoApproval]
          /\ bal' = [bal EXCEPT ![q[1]] = @ - approvals[q].amount,
                                ![q[2]] = @ + approvals[q].amount]
      BY <2>2, RouteEnds DEF ExecuteTransfer, Matches, Settle, Consume
    <3>2. /\ approvals[q].amount \in Nat
          /\ q[1] \in Accounts /\ q[2] \in Accounts /\ q[1] # q[2]
      BY <2>0, <3>1, RouteEnds, TokenAssumption
    <3>3. ASSUME NEW a \in Accounts, bal'[a] > bal[a]
          PROVE  a = q[2] /\ bal'[a] = bal[a] + approvals[q].amount
      BY <2>0, <3>1, <3>2, <3>3
    <3>4. approvals'[q] = NoApproval
      BY <2>0, <3>1
    <3>5. \A r \in Routes : approvals'[r] \in {approvals[r], NoApproval}
      BY <2>0, <3>1
    <3> QED BY <3>1, <3>3, <3>4, <3>5
  <2>3. ASSUME NEW o, NEW d \in Accounts, NEW n, NEW p, Mint(o, d, n, p)
        PROVE  Stays
    <3>1. w # OwnerOf[d]
      BY <1>1, <2>3 DEF Mint, NotFrozen, Overlook
    <3> QED BY <2>0, <2>3, <3>1 DEF Mint
  <2>4. ASSUME NEW o, NEW s \in Accounts, NEW n \in Amounts, NEW c, NEW told,
               Burn(o, s, n, c, told)
        PROVE  Stays
    BY <2>0, <2>4, TokenAssumption DEF Burn
  <2>5. ASSUME NEW o, NEW q \in Routes, NEW n \in Amounts, NEW h, NEW p,
               ForcedTransfer(o, q[1], q[2], n, h, p) \/ Recovery(o, q[1], q[2], n, p)
        PROVE  Stays
    <3>1. w # OwnerOf[q[2]]
      BY <1>1, <2>5 DEF ForcedTransfer, Recovery, NotFrozen, Overlook
    <3>2. approvals' = approvals /\ bal' = [bal EXCEPT ![q[1]] = @ - n, ![q[2]] = @ + n]
      BY <2>5 DEF ForcedTransfer, Recovery, Settle
    <3>3. n \in Nat /\ q[1] \in Accounts /\ q[2] \in Accounts /\ q[1] # q[2]
      BY RouteEnds, TokenAssumption
    <3> QED BY <2>0, <3>1, <3>2, <3>3
  <2>6. ASSUME UNCHANGED <<bal, approvals>>
        PROVE  Stays
    BY <2>0, <2>6
  <2>7. CASE MoveNext
    <3>1. ASSUME NEW o, NEW q, NEW h, FinalizeRecovery(o, q[1], q[2], h)
          PROVE  Stays
      BY <2>6, <3>1 DEF FinalizeRecovery, tokenVars
    <3>2. ASSUME Stays
          PROVE  /\ \A r \in Routes : w \in {OwnerOf[r[1]], OwnerOf[r[2]]}
                      => approvals'[r] \in {approvals[r], NoApproval}
                 /\ \A a \in Accounts : OwnerOf[a] = w /\ bal'[a] > bal[a] => Settled(a)
      BY <3>2
    <3>3. \A a \in Accounts : bal' = bal => ~(bal'[a] > bal[a])
      BY <2>0
    <3> HIDE DEF Stays, Settled
    <3> QED BY <2>1, <2>2, <2>3, <2>4, <2>5, <2>7, <3>1, <3>2, <3>3 DEF MoveNext
  <2>8. CASE AdminNext
    BY <2>6, <2>8 DEF AdminNext, SetPaused, AddAgent, RemoveAgent,
       TransferOwnership, FreezeWallet, UnfreezeWallet, FreezePartial, UnfreezePartial
  <2>9. CASE UNCHANGED tokenVars
    BY <2>6, <2>9 DEF tokenVars
  <2> QED BY <1>1, <2>7, <2>8, <2>9 DEF Next, vars
<1>2. TypeOK /\ [Next]_vars =>
        [\A w \in frozen \ unread' :
           /\ \A r \in Routes : w \in {OwnerOf[r[1]], OwnerOf[r[2]]}
                => approvals'[r] \in {approvals[r], NoApproval}
           /\ \A a \in Accounts : OwnerOf[a] = w /\ bal'[a] > bal[a] => Settled(a)]_vars
  BY <1>1
<1> QED BY <1>2, TypeCorrect, PTL DEF Spec, FrozenGainsNothingNew

-----------------------------------------------------------------------------
(* The steps that matter to balances and country counts. *)
LEMMA Movements ==
    ASSUME TypeOK, [Next]_vars
    PROVE  \/ UNCHANGED <<bal, supply, misled, country_count>>
           \/ UNCHANGED <<bal, supply, misled>> /\ \E c \in Countries : InitializeCountryCount(c)
           \/ \E r \in Routes, n \in Nat, fc, tc \in Countries :
                Settle(r[1], r[2], n, fc, tc) /\ supply' = supply
           \/ \E o \in Operators, a \in Accounts, n \in Amounts :
                \/ \E p : CountryOf(OwnerOf[a]) \in Countries /\ Mint(o, a, n, p)
                \/ \E c \in Countries, told \in BOOLEAN : Burn(o, a, n, c, told)
           \/ /\ UNCHANGED <<bal, supply>> /\ misled \subseteq misled'
              /\ "CountryCap" \notin misled' => country_count' = country_count
<1>1. ASSUME NEW r \in Routes, ExecuteTransfer(r[1], r[2])
      PROVE  \E n \in Nat, fc, tc \in Countries :
                Settle(r[1], r[2], n, fc, tc) /\ supply' = supply
  <2>1. /\ approvals[r].amount \in Nat
        /\ approvals[r].from_country \in Countries /\ approvals[r].to_country \in Countries
    BY <1>1, RouteEnds, TokenAssumption DEF ExecuteTransfer, Matches, TypeOK, TokenTypeOK
  <2>2. /\ Settle(r[1], r[2], approvals[r].amount, approvals[r].from_country,
                  approvals[r].to_country)
        /\ supply' = supply
    BY <1>1, RouteEnds DEF ExecuteTransfer
  <2> QED BY <2>1, <2>2
<1>2. ASSUME NEW o \in Operators, NEW r \in Routes, NEW n \in Amounts,
             NEW h, NEW p,
             ForcedTransfer(o, r[1], r[2], n, h, p) \/ Recovery(o, r[1], r[2], n, p)
      PROVE  \E k \in Nat, fc, tc \in Countries :
                Settle(r[1], r[2], k, fc, tc) /\ supply' = supply
  <2>1. CountryOf(OwnerOf[r[1]]) \in Countries /\ CountryOf(OwnerOf[r[2]]) \in Countries
    BY <1>2, RouteEnds, ActiveIsRegistered DEF ForcedTransfer, Recovery, Verified, TypeOK
  <2>2. n \in Nat
    BY TokenAssumption
  <2>3. /\ Settle(r[1], r[2], n, CountryOf(OwnerOf[r[1]]), CountryOf(OwnerOf[r[2]]))
        /\ supply' = supply
    BY <1>2 DEF ForcedTransfer, Recovery
  <2> QED BY <2>1, <2>2, <2>3
<1>3. ASSUME NEW o, NEW a \in Accounts, NEW n, NEW p, Mint(o, a, n, p)
      PROVE  CountryOf(OwnerOf[a]) \in Countries
  BY <1>3, ActiveIsRegistered, TokenAssumption DEF Mint, Verified, TypeOK
<1>4. CASE MoveNext
  <2>1. ASSUME NEW r \in Routes, NEW n \in Amounts, NEW p, Transfer(r[1], r[2], n, p)
        PROVE  UNCHANGED <<bal, supply, misled, country_count>>
    BY <2>1 DEF Transfer, counters
  <2>2. ASSUME NEW o \in Operators, NEW r \in Routes, NEW h \in Wallets,
             FinalizeRecovery(o, r[1], r[2], h)
        PROVE  UNCHANGED <<bal, supply, misled, country_count>>
    BY <2>2 DEF FinalizeRecovery, complianceVars, tokenVars
  <2> QED BY <1>1, <1>2, <1>3, <1>4, <2>1, <2>2 DEF MoveNext
<1>5. CASE AdminNext /\ UNCHANGED <<complianceVars, identityVars>>
  BY <1>5 DEF AdminNext, complianceVars, SetPaused, AddAgent, RemoveAgent,
     TransferOwnership, FreezeWallet, UnfreezeWallet, FreezePartial, UnfreezePartial
<1>6. CASE ComplianceNext /\ UNCHANGED <<identityVars, tokenVars>>
  <2>1. UNCHANGED <<bal, supply>>
    BY <1>6 DEF tokenVars
  <2>2. ASSUME NEW w, NEW n, NEW x, NEW y, NEW c, NEW d, CallRouter(w, n, x, y, c, d)
        PROVE  /\ misled \subseteq misled'
               /\ "CountryCap" \notin misled' => country_count' = country_count
    BY <2>2 DEF CallRouter, Invented, Transferred, Created, Destroyed, CountCountries
  <2>3. \/ UNCHANGED <<misled, country_count>>
        \/ misled' = misled /\ \E c \in Countries : InitializeCountryCount(c)
        \/ /\ misled \subseteq misled'
           /\ "CountryCap" \notin misled' => country_count' = country_count
    BY <1>6, <2>2 DEF ComplianceNext, BindModule, UnbindModule, SetModulesPaused,
       SetMaxSupply, InitializeWalletUsage, InitializeCountryCount, Tick, counters
  <2> QED BY <2>1, <2>3
<1>7. CASE UNCHANGED <<complianceVars, tokenVars>>
  BY <1>7 DEF complianceVars, tokenVars
<1> QED BY <1>4, <1>5, <1>6, <1>7 DEF Next, vars

(* What the accounts hold together when x gives m and y takes n. *)
LEMMA HeldAfterMove ==
    ASSUME TypeOK, NEW x \in Accounts, NEW y \in Accounts, NEW m \in Nat, NEW n \in Nat,
           DOMAIN bal' = Accounts,
           \A z \in Accounts : bal'[z] = bal[z] - (IF z = x THEN m ELSE 0)
                                               + (IF z = y THEN n ELSE 0)
    PROVE  SumFunction(bal)' = SumFunction(bal) - m + n
<1>1. DOMAIN bal = Accounts /\ \A z \in Accounts : bal[z] \in Int
  BY PartiesAssumption DEF TypeOK, TokenTypeOK
<1>2. IsFiniteSet(Accounts)
  BY TokenAssumption
<1>3. PICK g : g = bal'
  OBVIOUS
<1>4. SumFunctionOnSet(g, Accounts) = SumFunctionOnSet(bal, Accounts) - m + n
  BY <1>1, <1>2, <1>3, SumMove
<1> QED BY <1>1, <1>3, <1>4 DEF SumFunction

LEMMA SupplyNext ==
    ASSUME TypeOK, SupplyIsHeld, [Next]_vars
    PROVE  SupplyIsHeld'
<1> USE DEF SupplyIsHeld
<1>0. bal \in [Accounts -> Nat] /\ supply \in Nat
  BY PartiesAssumption DEF TypeOK, TokenTypeOK
<1>1. ASSUME UNCHANGED <<bal, supply>>
      PROVE  SupplyIsHeld'
  BY <1>1
<1>2. ASSUME NEW r \in Routes, NEW n \in Nat, NEW fc, NEW tc,
             Settle(r[1], r[2], n, fc, tc), supply' = supply
      PROVE  SupplyIsHeld'
  <2>1. r[1] \in Accounts /\ r[2] \in Accounts /\ r[1] # r[2]
    BY RouteEnds
  <2>2. /\ DOMAIN bal' = Accounts
        /\ \A z \in Accounts : bal'[z] = bal[z] - (IF z = r[1] THEN n ELSE 0)
                                               + (IF z = r[2] THEN n ELSE 0)
    BY <1>0, <1>2, <2>1 DEF Settle
  <2>3. SumFunction(bal)' = SumFunction(bal) - n + n
    BY <2>1, <2>2, HeldAfterMove
  <2> QED BY <1>0, <1>2, <2>3
<1>3. ASSUME NEW o \in Operators, NEW a \in Accounts, NEW n \in Amounts, NEW p, Mint(o, a, n, p)
      PROVE  SupplyIsHeld'
  <2>0. n \in Nat
    BY TokenAssumption
  <2>1. /\ DOMAIN bal' = Accounts /\ supply' = supply + n
        /\ \A z \in Accounts : bal'[z] = bal[z] - (IF z = a THEN 0 ELSE 0)
                                               + (IF z = a THEN n ELSE 0)
    BY <1>0, <1>3, <2>0 DEF Mint
  <2>2. SumFunction(bal)' = SumFunction(bal) - 0 + n
    BY <2>0, <2>1, HeldAfterMove
  <2> QED BY <1>0, <2>0, <2>1, <2>2
<1>4. ASSUME NEW o \in Operators, NEW a \in Accounts, NEW n \in Amounts,
           NEW c \in Countries, NEW told \in BOOLEAN, Burn(o, a, n, c, told)
      PROVE  SupplyIsHeld'
  <2>0. n \in Nat
    BY TokenAssumption
  <2>1. /\ DOMAIN bal' = Accounts /\ supply' = supply - n
        /\ \A z \in Accounts : bal'[z] = bal[z] - (IF z = a THEN n ELSE 0)
                                               + (IF z = a THEN 0 ELSE 0)
    BY <1>0, <1>4, <2>0 DEF Burn
  <2>2. SumFunction(bal)' = SumFunction(bal) - n + 0
    BY <2>0, <2>1, HeldAfterMove
  <2> QED BY <1>0, <2>0, <2>1, <2>2
<1> QED BY <1>1, <1>2, <1>3, <1>4, Movements

(* No instruction of the suite creates or loses tokens: after every approval, *)
(* settlement, operator move, mint and burn the supply of the mint is the sum  *)
(* of the balances.                                                          *)
THEOREM SupplyHeldCorrect == Spec => []SupplyIsHeld
<1>1. Init => SupplyIsHeld
  <2> SUFFICES ASSUME Init PROVE SupplyIsHeld
    OBVIOUS
  <2>1. DOMAIN bal = Accounts /\ (\A a \in Accounts : bal[a] = 0) /\ supply = 0
    BY DEF Init, TokenInit
  <2>2. SumFunctionOnSet(bal, Accounts) = 0
    BY <2>1, SumZero, TokenAssumption
  <2> QED BY <2>1, <2>2 DEF SupplyIsHeld, SumFunction
<1>2. TypeOK /\ SupplyIsHeld /\ [Next]_vars => SupplyIsHeld'
  BY SupplyNext
<1> QED BY <1>1, <1>2, TypeCorrect, PTL DEF Spec

-----------------------------------------------------------------------------
(* mod-country-cap: the counts change together by what enters and leaves.     *)
Counted == SumFunction([c \in Countries |-> CountOf(c)])

LEMMA CountrySums ==
    ASSUME NEW h, NEW k, NEW x \in Countries, NEW y \in Countries, NEW a \in Int, NEW b \in Int,
           \A z \in Countries : h[z] \in Int,
           \A z \in Countries : k[z] = h[z] - (IF z = x THEN a ELSE 0) + (IF z = y THEN b ELSE 0)
    PROVE  SumFunctionOnSet(k, Countries) = SumFunctionOnSet(h, Countries) - a + b
<1>1. IsFiniteSet(Countries)
  BY PartiesAssumption
<1> QED BY <1>1, SumMove

LEMMA CountedAfterMove ==
    ASSUME ComplianceTypeOK, NEW told, "CountryCap" \in told,
           NEW exits, NEW enters,
           NEW fc \in Countries, NEW tc \in Countries,
           CountCountries(told, exits, enters, fc, tc)
    PROVE  Counted' = Counted - One(exits) + One(enters)
<1> DEFINE f == [c \in Countries |-> CountOf(c)]
           g == f'
<1>1. /\ country_count \in [Countries -> Nat \cup {NoCount}]
      /\ country_count' = [c \in Countries |-> country_count[c] - One(exits /\ c = fc)
                                                    + One(enters /\ c = tc)]
      /\ country_count[fc] # NoCount /\ country_count[tc] # NoCount
      /\ exits /\ ~(enters /\ fc = tc) => country_count[fc] > 0
  BY DEF ComplianceTypeOK, CountCountries
<1>2. One(exits) \in Int /\ One(enters) \in Int
  BY DEF One
<1>3. ASSUME NEW c \in Countries
      PROVE  /\ f[c] \in Int
             /\ g[c] = f[c] - (IF c = fc THEN One(exits) ELSE 0)
                            + (IF c = tc THEN One(enters) ELSE 0)
  <2>1. country_count[c] \in Nat \cup {NoCount}
    BY <1>1
  <2>2. country_count'[c] = country_count[c] - One(exits /\ c = fc) + One(enters /\ c = tc)
    BY <1>1
  <2>3. country_count[c] = NoCount => c # fc /\ c # tc
    BY <1>1
  <2>4. CountOf(c) = IF country_count[c] = NoCount THEN 0 ELSE country_count[c]
    BY DEF CountOf
  <2>5. CountOf(c)' = IF country_count'[c] = NoCount THEN 0 ELSE country_count'[c]
    BY DEF CountOf
  <2>6. f[c] = CountOf(c) /\ g[c] = CountOf(c)'
    OBVIOUS
  <2> HIDE DEF f, g
  <2>7. CountOf(c) \in Int
    BY <2>1, <2>4 DEF NoCount
  <2>8. CountOf(c)' = CountOf(c) - One(exits /\ c = fc) + One(enters /\ c = tc)
    BY <1>1, <2>1, <2>2, <2>3, <2>4, <2>5 DEF NoCount, One
  <2> QED BY <2>6, <2>7, <2>8 DEF One
<1>4. Counted = SumFunctionOnSet(f, Countries) /\ Counted' = SumFunctionOnSet(g, Countries)
  BY DEF Counted, SumFunction
<1> HIDE DEF f, g
<1>5. PICK o \in Int, i \in Int : o = One(exits) /\ i = One(enters)
  BY <1>2
<1>6. PICK h, k : h = f /\ k = g
  OBVIOUS
<1>7. \A z \in Countries : h[z] \in Int
  BY <1>3, <1>6
<1>8. \A z \in Countries :
        k[z] = h[z] - (IF z = fc THEN o ELSE 0) + (IF z = tc THEN i ELSE 0)
  BY <1>3, <1>5, <1>6
<1>9. SumFunctionOnSet(k, Countries) = SumFunctionOnSet(h, Countries) - o + i
  BY <1>7, <1>8, CountrySums, SMTT(60)
<1> QED BY <1>4, <1>5, <1>6, <1>9

LEMMA CountryNext ==
    ASSUME TypeOK, CountryCountsAddUp, [Next]_vars
    PROVE  CountryCountsAddUp'
<1> USE DEF CountryCountsAddUp, Counted
<1>0. Cardinality(Holders) \in Int
  BY HoldersFinite, FS_CardinalityType
<1>1. ASSUME UNCHANGED <<bal, misled, country_count>>
      PROVE  CountryCountsAddUp'
  BY <1>1 DEF Holders, CountOf
<1>6. ASSUME bal' = bal, misled \subseteq misled',
             "CountryCap" \notin misled' => country_count' = country_count
      PROVE  CountryCountsAddUp'
  BY <1>6 DEF Holders, CountOf
<1>2. ASSUME NEW c \in Countries, InitializeCountryCount(c), UNCHANGED <<bal, misled>>
      PROVE  CountryCountsAddUp'
  <2>1. \A d \in Countries : CountOf(d)' = CountOf(d)
    BY <1>2 DEF InitializeCountryCount, CountOf, TypeOK, ComplianceTypeOK, NoCount
  <2>2. [d \in Countries |-> CountOf(d)]' = [d \in Countries |-> CountOf(d)]
    BY <2>1
  <2> QED BY <1>2, <2>2 DEF Holders
<1>3. ASSUME NEW r \in Routes, NEW n \in Nat, NEW fc \in Countries, NEW tc \in Countries,
             Settle(r[1], r[2], n, fc, tc), "CountryCap" \notin misled'
      PROVE  Counted' = Cardinality(Holders)'
  <2>1. "CountryCap" \in modules /\ "CountryCap" \notin misled
    BY <1>3 DEF Settle, Reported, ModuleKinds
  <2> DEFINE o == Exits(n, bal[r[1]] - n)
             i == Enters(n, bal[r[2]] + n)
  <2>2. CountCountries(modules, o, i, fc, tc) /\ o \in BOOLEAN /\ i \in BOOLEAN
    BY <1>3 DEF Settle, Transferred, Exits, Enters
  <2>3. Cardinality(Holders)' = Cardinality(Holders) - One(o) + One(i)
    BY <1>3, SettleHolders
  <2> HIDE DEF o, i, Counted
  <2>4. Counted' = Counted - One(o) + One(i)
    BY <2>1, <2>2, CountedAfterMove DEF TypeOK
  <2>5. Counted = Cardinality(Holders)
    BY <2>1 DEF Counted
  <2> QED BY <2>3, <2>4, <2>5
<1>4. ASSUME NEW o \in Operators, NEW a \in Accounts, NEW n \in Amounts, NEW p, Mint(o, a, n, p),
             CountryOf(OwnerOf[a]) \in Countries, "CountryCap" \notin misled'
      PROVE  Counted' = Cardinality(Holders)'
  <2> DEFINE i == Enters(n, bal[a] + n)
             c == CountryOf(OwnerOf[a])
  <2>1. "CountryCap" \in InForce /\ "CountryCap" \notin misled
    BY <1>4 DEF Mint, Reported, ModuleKinds
  <2>2. CountCountries(InForce, FALSE, i, c, c) /\ i \in BOOLEAN
    BY <1>4 DEF Mint, Created, Enters
  <2>3. Cardinality(Holders)' = Cardinality(Holders) + One(i)
    BY <1>4, MintHolders, TokenAssumption DEF Mint
  <2> HIDE DEF i, Counted
  <2>4. Counted' = Counted - One(FALSE) + One(i)
    BY <1>4, <2>1, <2>2, CountedAfterMove DEF TypeOK
  <2>5. Counted = Cardinality(Holders)
    BY <2>1 DEF Counted
  <2> QED BY <1>0, <2>3, <2>4, <2>5 DEF One
<1>5. ASSUME NEW o \in Operators, NEW a \in Accounts, NEW n \in Amounts,
           NEW c \in Countries, NEW told \in BOOLEAN, Burn(o, a, n, c, told),
             "CountryCap" \notin misled'
      PROVE  Counted' = Cardinality(Holders)'
  <2> DEFINE x == Exits(n, bal[a] - n)
  <2>1. told /\ "CountryCap" \in modules /\ "CountryCap" \notin misled
    BY <1>5 DEF Burn, Reported, ModuleKinds
  <2>2. CountCountries(modules, x, FALSE, c, c) /\ x \in BOOLEAN
    BY <1>5, <2>1 DEF Burn, Destroyed, Exits
  <2>3. Cardinality(Holders)' = Cardinality(Holders) - One(x)
    BY <1>5, BurnHolders, TokenAssumption DEF Burn
  <2> HIDE DEF x, Counted
  <2>4. Counted' = Counted - One(x) + One(FALSE)
    BY <1>5, <2>1, <2>2, CountedAfterMove DEF TypeOK
  <2>5. Counted = Cardinality(Holders)
    BY <2>1 DEF Counted
  <2> QED BY <1>0, <2>3, <2>4, <2>5 DEF One
<1> QED BY <1>1, <1>2, <1>3, <1>4, <1>5, <1>6, Movements

(* mod-country-cap counts every holding account exactly once, whatever the    *)
(* order of registrations, country changes and movements, as long as it was   *)
(* told of every movement and of no other.                                   *)
THEOREM CountryCountsCorrect == Spec => []CountryCountsAddUp
<1>1. Init => CountryCountsAddUp
  <2> SUFFICES ASSUME Init PROVE CountryCountsAddUp
    OBVIOUS
  <2>1. \A c \in Countries : CountOf(c) = 0
    BY DEF Init, ComplianceInit, CountOf
  <2>2. PICK f : f = [c \in Countries |-> CountOf(c)]
    OBVIOUS
  <2>3. SumFunctionOnSet(f, Countries) = 0
    BY <2>1, <2>2, SumZero, PartiesAssumption
  <2>4. Holders = {}
    BY DEF Init, TokenInit, Holders
  <2> QED BY <2>2, <2>3, <2>4, FS_EmptySet DEF CountryCountsAddUp, SumFunction
<1>2. TypeOK /\ CountryCountsAddUp /\ [Next]_vars => CountryCountsAddUp'
  BY CountryNext
<1> QED BY <1>1, <1>2, TypeCorrect, PTL DEF Spec

-----------------------------------------------------------------------------
(* The steps that change a wallet's daily usage. *)
LEMMA UsageSteps ==
    ASSUME TypeOK, [Next]_vars
    PROVE  \/ usage' = usage
           \/ \E w \in Wallets : InitializeWalletUsage(w)
           \/ \E w \in Wallets, n \in Nat : CountUsage(modules, w, n)
<1>1. ASSUME NEW r \in Routes, NEW n \in Nat, NEW fc, NEW tc, Settle(r[1], r[2], n, fc, tc)
      PROVE  \E w \in Wallets, k \in Nat : CountUsage(modules, w, k)
  BY <1>1, RouteEnds DEF Settle, Transferred
<1>2. ASSUME NEW r \in Routes, ExecuteTransfer(r[1], r[2])
      PROVE  \E w \in Wallets, k \in Nat : CountUsage(modules, w, k)
  <2>1. approvals[r].amount \in Nat
    BY <1>2, RouteEnds, TokenAssumption DEF ExecuteTransfer, Matches, TypeOK, TokenTypeOK
  <2>2. Settle(r[1], r[2], approvals[r].amount, approvals[r].from_country,
               approvals[r].to_country)
    BY <1>2, RouteEnds DEF ExecuteTransfer
  <2> QED BY <1>1, <2>1, <2>2
<1>3. CASE MoveNext
  <2>1. ASSUME NEW o \in Operators, NEW r \in Routes, NEW n \in Amounts,
               NEW h, NEW p,
               ForcedTransfer(o, r[1], r[2], n, h, p) \/ Recovery(o, r[1], r[2], n, p)
        PROVE  \E w \in Wallets, k \in Nat : CountUsage(modules, w, k)
    BY <1>1, <2>1, TokenAssumption DEF ForcedTransfer, Recovery
  <2>2. ASSUME NEW r \in Routes, NEW n \in Amounts, NEW p, Transfer(r[1], r[2], n, p)
        PROVE  usage' = usage
    BY <2>2 DEF Transfer, counters
  <2>3. ASSUME NEW o \in Operators, NEW a \in Accounts, NEW n \in Amounts, NEW p, NEW c, NEW told,
               Mint(o, a, n, p) \/ Burn(o, a, n, c, told)
        PROVE  usage' = usage
    BY <2>3 DEF Mint, Burn, Created, Destroyed, counters
  <2>4. ASSUME NEW o \in Operators, NEW r \in Routes, NEW h \in Wallets,
             FinalizeRecovery(o, r[1], r[2], h)
        PROVE  usage' = usage
    BY <2>4 DEF FinalizeRecovery, complianceVars, counters
  <2> QED BY <1>2, <1>3, <2>1, <2>2, <2>3, <2>4 DEF MoveNext
<1>4. CASE ComplianceNext
  <2>1. ASSUME NEW w \in Wallets, NEW n \in 0..MaxU64, NEW x, NEW y, NEW c, NEW d,
               CallRouter(w, n, x, y, c, d)
        PROVE  usage' = usage \/ \E v \in Wallets, k \in Nat : CountUsage(modules, v, k)
    <3>1. n \in Nat
      BY PartiesAssumption
    <3>2. usage' = usage \/ CountUsage(modules, w, n)
      BY <2>1 DEF CallRouter, Transferred, Created, Destroyed
    <3> QED BY <3>1, <3>2
  <2> QED BY <1>4, <2>1 DEF ComplianceNext, BindModule, UnbindModule, SetModulesPaused,
     SetMaxSupply, InitializeCountryCount, Tick, counters
<1>5. CASE UNCHANGED complianceVars
  BY <1>5 DEF complianceVars
<1> QED BY <1>3, <1>4, <1>5 DEF Next, vars

(* mod-daily-limit: a wallet's window only accumulates, and its next window   *)
(* opens at least DaySeconds later, whatever the clock and the settlements.   *)
THEOREM DailyWindowsCorrect == Spec => DailyWindowsAreDisjoint
<1>1. ASSUME TypeOK, [Next]_vars, NEW w \in Wallets, usage[w].window > 0, usage'[w] # usage[w]
      PROVE  IF usage'[w].window = usage[w].window
             THEN usage'[w].volume > usage[w].volume
             ELSE usage'[w].window >= usage[w].window + DaySeconds
  <2>0. /\ usage \in [Wallets -> [window : Int, volume : Nat]] /\ now \in Int
        /\ DaySeconds \in Nat \ {0}
    BY <1>1, ComplianceAssumption DEF TypeOK, ComplianceTypeOK
  <2>1. ~\E v \in Wallets : InitializeWalletUsage(v)
    BY <1>1, <2>0 DEF InitializeWalletUsage, NoUsage
  <2>2. PICK v \in Wallets, n \in Nat : CountUsage(modules, v, n)
    BY <1>1, <2>1, UsageSteps
  <2>3. v = w /\ "DailyLimit" \in modules
    BY <1>1, <2>0, <2>2 DEF CountUsage
  <2> DEFINE fresh == usage[w].window = 0 \/ WindowOver(w)
  <2>4. usage'[w] = [window |-> IF fresh THEN now ELSE usage[w].window,
                     volume |-> (IF fresh THEN 0 ELSE usage[w].volume) + n]
    BY <2>0, <2>2, <2>3 DEF CountUsage
  <2>5. CASE fresh
    <3>1. usage'[w].window = now /\ now - usage[w].window >= DaySeconds
      BY <1>1, <2>0, <2>4, <2>5 DEF WindowOver
    <3>2. usage[w].window \in Int
      BY <2>0
    <3> QED BY <2>0, <3>1, <3>2
  <2>6. CASE ~fresh
    <3>1. usage'[w] = [window |-> usage[w].window, volume |-> usage[w].volume + n]
      BY <2>4, <2>6
    <3>2. usage[w] = [window |-> usage[w].window, volume |-> usage[w].volume]
      BY <2>0
    <3>3. n # 0 /\ usage[w].volume \in Nat
      BY <1>1, <2>0, <3>1, <3>2
    <3> QED BY <3>1, <3>3
  <2> QED BY <2>5, <2>6
<1>2. TypeOK /\ [Next]_vars =>
        [\A w \in Wallets : usage[w].window > 0 /\ usage'[w] # usage[w] =>
           IF usage'[w].window = usage[w].window
           THEN usage'[w].volume > usage[w].volume
           ELSE usage'[w].window >= usage[w].window + DaySeconds]_vars
  BY <1>1
<1> QED BY <1>2, TypeCorrect, PTL DEF Spec, DailyWindowsAreDisjoint

-----------------------------------------------------------------------------
(* The token suite implements TokenLedger: each instruction is one step of    *)
(* the ledger.  First what an instruction does to the permits.                *)
LEMMA PermitTypes ==
    ASSUME TypeOK, NEW r \in Routes
    PROVE  /\ Permit(approvals[r]) = [amount |-> -1] <=> approvals[r] = NoApproval
           /\ approvals[r] # NoApproval =>
                /\ approvals[r].amount \in Nat
                /\ Permit(approvals[r]) = [amount |-> approvals[r].amount,
                                           from |-> approvals[r].from_balance,
                                           to |-> approvals[r].to_balance]
<1>1. approvals[r] # NoApproval => approvals[r].amount \in Nat
  BY TokenAssumption DEF TypeOK, TokenTypeOK
<1>2. approvals[r] # NoApproval => Permit(approvals[r]).amount = approvals[r].amount
  BY DEF Permit
<1> QED BY <1>1, <1>2 DEF Permit

LEMMA PermitsAfter ==
    ASSUME TypeOK, NEW r \in Routes, NEW a, approvals' = [approvals EXCEPT ![r] = a]
    PROVE  [q \in Routes |-> Permit(approvals'[q])]
             = [[q \in Routes |-> Permit(approvals[q])] EXCEPT ![r] = Permit(a)]
<1>1. approvals \in [Routes -> {NoApproval} \cup
           [amount : Amounts, from_balance : 0..MaxU64, to_balance : 0..MaxU64,
            from_country : Countries, to_country : Countries]]
  BY DEF TypeOK, TokenTypeOK
<1>2. ASSUME NEW q \in Routes
      PROVE  Permit(approvals'[q])
               = [[p \in Routes |-> Permit(approvals[p])] EXCEPT ![r] = Permit(a)][q]
  BY <1>1
<1> QED BY <1>2

(* A movement of n tokens that the source covers is a movement of an Amount. *)
LEMMA CoveredIsAmount ==
    ASSUME TypeOK, NEW a \in Accounts, NEW n \in Amounts, n <= bal[a]
    PROVE  n \in Ledger!Amount
BY TokenAssumption, PartiesAssumption DEF TypeOK, TokenTypeOK, Ledger!Amount

LEMMA TransferGrants ==
    ASSUME TypeOK, NEW r \in Routes, NEW n \in Amounts, NEW p, Transfer(r[1], r[2], n, p)
    PROVE  n \in Ledger!Amount /\ Ledger!Grant(r, n)
<1>1. n <= bal[r[1]]
  <2>1. /\ bal[r[1]] \in 0..MaxU64
        /\ partial[OwnerOf[r[1]]] \in 0..MaxU64 \cup {NoPartial}
        /\ n \in Nat
    BY RouteEnds, TokenAssumption DEF TypeOK, TokenTypeOK
  <2>2. \/ n <= SatSub(bal[r[1]], FrozenAmount(OwnerOf[r[1]]))
        \/ n <= SatSub(bal[r[1]], 0)
    BY DEF Transfer, Transferable
  <2> QED BY <2>1, <2>2, PartiesAssumption DEF SatSub, FrozenAmount
<1>2. n \in Ledger!Amount
  BY <1>1, RouteEnds, CoveredIsAmount
<1> DEFINE a == [amount |-> n, from_balance |-> bal[r[1]], to_balance |-> bal[r[2]],
                 from_country |-> CountryOf(OwnerOf[r[1]]),
                 to_country |-> CountryOf(OwnerOf[r[2]])]
<1>3. approvals' = [approvals EXCEPT ![r] = a]
  BY RouteEnds DEF Transfer
<1>4. Permit(a) = [amount |-> n, from |-> bal[r[1]], to |-> bal[r[2]]]
  <2>1. a.amount = n /\ NoApproval.amount = -1 /\ n \in Nat
    BY TokenAssumption DEF NoApproval
  <2>2. a # NoApproval
    BY <2>1
  <2> QED BY <2>2 DEF Permit
<1>5. [q \in Routes |-> Permit(approvals'[q])]
        = [[q \in Routes |-> Permit(approvals[q])] EXCEPT ![r] =
             [amount |-> n, from |-> bal[r[1]], to |-> bal[r[2]]]]
  <2> HIDE DEF a
  <2> QED BY <1>3, <1>4, PermitsAfter
<1>6. ~paused /\ UNCHANGED <<bal, supply, paused>>
  BY DEF Transfer
<1> QED BY <1>1, <1>2, <1>5, <1>6 DEF Ledger!Grant

LEMMA ExecuteUses ==
    ASSUME TypeOK, NEW r \in Routes, ExecuteTransfer(r[1], r[2])
    PROVE  Ledger!Use(r)
<1>1. /\ approvals[r] # NoApproval
      /\ bal[r[1]] = approvals[r].from_balance /\ bal[r[2]] = approvals[r].to_balance
      /\ approvals' = [approvals EXCEPT ![r] = NoApproval]
      /\ bal' = [bal EXCEPT ![r[1]] = @ - approvals[r].amount,
                            ![r[2]] = @ + approvals[r].amount]
      /\ UNCHANGED <<supply, paused>>
  BY RouteEnds DEF ExecuteTransfer, Matches, Settle, Consume
<1>2. /\ Permit(approvals[r]) # [amount |-> -1]
      /\ Permit(approvals[r]) = [amount |-> approvals[r].amount,
                                 from |-> bal[r[1]], to |-> bal[r[2]]]
      /\ Permit(approvals[r]).amount = approvals[r].amount
  BY <1>1, PermitTypes
<1>3. [q \in Routes |-> Permit(approvals'[q])]
        = [[q \in Routes |-> Permit(approvals[q])] EXCEPT ![r] = [amount |-> -1]]
  <2>1. Permit(NoApproval) = [amount |-> -1]
    BY DEF Permit
  <2>2. [q \in Routes |-> Permit(approvals'[q])]
          = [[q \in Routes |-> Permit(approvals[q])] EXCEPT ![r] = Permit(NoApproval)]
    BY <1>1, PermitsAfter
  <2> QED BY <2>1, <2>2
<1> QED BY <1>1, <1>2, <1>3 DEF Ledger!Use, Ledger!Moved, Ledger!None

LEMMA MintIssues ==
    ASSUME TypeOK, NEW o, NEW a \in Accounts, NEW n \in Amounts, NEW p, Mint(o, a, n, p)
    PROVE  n \in Ledger!Amount /\ Ledger!Issue(a, n)
<1>1. supply + n <= MaxU64 /\ n \in Ledger!Amount
  BY TokenAssumption, PartiesAssumption DEF Mint, TypeOK, TokenTypeOK, Ledger!Amount
<1> QED BY <1>1 DEF Mint, Ledger!Issue

LEMMA BurnRedeems ==
    ASSUME TypeOK, NEW o, NEW a \in Accounts, NEW n \in Amounts,
           NEW c, NEW told, Burn(o, a, n, c, told)
    PROVE  n \in Ledger!Amount /\ Ledger!Redeem(a, n)
<1>1. n <= bal[a]
  BY TokenAssumption DEF Burn, TypeOK, TokenTypeOK
<1>2. n \in Ledger!Amount
  BY <1>1, CoveredIsAmount
<1> QED BY <1>1, <1>2 DEF Burn, Ledger!Redeem

LEMMA OperatorsSeize ==
    ASSUME TypeOK, NEW o, NEW r \in Routes, NEW n \in Amounts,
           NEW h, NEW p,
           ForcedTransfer(o, r[1], r[2], n, h, p) \/ Recovery(o, r[1], r[2], n, p)
    PROVE  n \in Ledger!Amount /\ Ledger!Seize(r, n)
<1>1. bal[r[1]] >= n
  BY DEF ForcedTransfer, Recovery, Settle
<1>2. n <= bal[r[1]]
  BY <1>1, RouteEnds, TokenAssumption DEF TypeOK, TokenTypeOK
<1>3. n \in Ledger!Amount
  BY <1>2, RouteEnds, CoveredIsAmount
<1>4. /\ ~paused
      /\ bal' = [bal EXCEPT ![r[1]] = @ - n, ![r[2]] = @ + n]
      /\ UNCHANGED <<supply, paused, approvals>>
  BY DEF ForcedTransfer, Recovery, Settle
<1> QED BY <1>2, <1>3, <1>4 DEF Ledger!Seize, Ledger!Moved

(* The token suite implements TokenLedger: whatever the order of approvals,   *)
(* settlements, operator moves, pauses, freezes, module changes and registry  *)
(* changes, tokens are created, destroyed and moved only as the ledger says.  *)
THEOREM LedgerCorrect == Spec => LedgerSpec
<1>1. Init => Ledger!Init
  <2>1. Permit(NoApproval) = [amount |-> -1]
    BY DEF Permit
  <2> QED BY <2>1 DEF Init, TokenInit, Ledger!Init, Ledger!None, Routes, Ledger!Routes
<1>2. TypeOK /\ [Next]_vars =>
        [Ledger!Next]_<<bal, supply, [r \in Routes |-> Permit(approvals[r])], paused>>
  <2> SUFFICES ASSUME TypeOK, [Next]_vars PROVE Ledger!Next
    OBVIOUS
  <2>0. Ledger!Routes = Routes
    BY DEF Routes, Ledger!Routes
  <2>1. ASSUME UNCHANGED <<bal, supply, approvals>> PROVE Ledger!Next
    BY <2>1 DEF Ledger!Next, Ledger!Other
  <2>2. CASE MoveNext
    <3>1. ASSUME NEW r \in Routes, NEW n \in Amounts, NEW p, Transfer(r[1], r[2], n, p)
          PROVE  Ledger!Next
      BY <2>0, <3>1, TransferGrants DEF Ledger!Next
    <3>2. ASSUME NEW r \in Routes, ExecuteTransfer(r[1], r[2])
          PROVE  Ledger!Next
      BY <2>0, <3>2, ExecuteUses DEF Ledger!Next
    <3>3. ASSUME NEW o \in Operators, NEW a \in Accounts, NEW n \in Amounts, NEW p, NEW c, NEW told,
                 Mint(o, a, n, p) \/ Burn(o, a, n, c, told)
          PROVE  Ledger!Next
      BY <3>3, MintIssues, BurnRedeems DEF Ledger!Next
    <3>4. ASSUME NEW o \in Operators, NEW r \in Routes, NEW n \in Amounts,
                 NEW h, NEW p,
                 ForcedTransfer(o, r[1], r[2], n, h, p) \/ Recovery(o, r[1], r[2], n, p)
          PROVE  Ledger!Next
      BY <2>0, <3>4, OperatorsSeize DEF Ledger!Next
    <3>5. ASSUME NEW o \in Operators, NEW r \in Routes, NEW h \in Wallets,
             FinalizeRecovery(o, r[1], r[2], h)
          PROVE  Ledger!Next
      BY <2>1, <3>5 DEF FinalizeRecovery, tokenVars
    <3> QED BY <2>2, <3>1, <3>2, <3>3, <3>4, <3>5 DEF MoveNext
  <2>3. CASE AdminNext
    BY <2>1, <2>3 DEF AdminNext, SetPaused, AddAgent, RemoveAgent,
       TransferOwnership, FreezeWallet, UnfreezeWallet, FreezePartial, UnfreezePartial
  <2>4. CASE UNCHANGED tokenVars
    BY <2>1, <2>4 DEF tokenVars
  <2> QED BY <2>2, <2>3, <2>4 DEF Next, vars
<1> QED BY <1>1, <1>2, TypeCorrect, PTL DEF Spec, LedgerSpec, Ledger!Spec

-----------------------------------------------------------------------------
(* Governance. *)

ProposalType ==
    [status : {"Active", "Executed", "Cancelled"}, creator : Wallets,
     end_slot : 0..MaxSlot, threshold_bps : 0..MaxBps, quorum_bps : 0..MaxBps,
     yes_votes : 0..MaxU64, no_votes : 0..MaxU64, abstain_votes : 0..MaxU64]

LEMMA MaxBpsNat == MaxBps \in Nat
BY DEF MaxBps

(* An Active proposal is a created one. *)
LEMMA ActiveIsProposal ==
    ASSUME GovernanceTypeOK, NEW id \in Ids, Active(id)
    PROVE  proposals[id] \in ProposalType
BY DEF GovernanceTypeOK, Active, NoProposal, ProposalType

(* What cast_vote does to the proposal, per choice. *)
LEMMA CastVoteEffect ==
    ASSUME GovernanceTypeOK, NEW w \in Wallets, NEW id \in Ids, NEW c \in VoteChoice, NEW n \in Weights,
           CastVote(w, id, c, n)
    PROVE  \E p \in ProposalType :
             /\ proposals' = [proposals EXCEPT ![id] = p]
             /\ p.status = proposals[id].status /\ p.end_slot = proposals[id].end_slot
<1>1. proposals[id] \in ProposalType /\ n \in Nat
  BY ActiveIsProposal, GovernanceAssumption DEF CastVote
<1>2. CASE c = "Yes"
  <2> DEFINE p == [proposals[id] EXCEPT !.yes_votes = @ + n]
  <2>1. proposals[id].yes_votes + n <= MaxU64 /\ Tally(c) = "yes_votes"
    BY <1>1, <1>2 DEF CastVote, Tally, ProposalType
  <2>2. proposals' = [proposals EXCEPT ![id] = p]
    BY <1>1, <1>2, <2>1 DEF CastVote, ProposalType, GovernanceTypeOK
  <2>3. /\ p \in ProposalType
        /\ p.status = proposals[id].status /\ p.end_slot = proposals[id].end_slot
    BY <1>1, <2>1, GovernanceAssumption DEF ProposalType
  <2> QED BY <2>2, <2>3
<1>3. CASE c = "No"
  <2> DEFINE p == [proposals[id] EXCEPT !.no_votes = @ + n]
  <2>1. proposals[id].no_votes + n <= MaxU64 /\ Tally(c) = "no_votes"
    BY <1>1, <1>3 DEF CastVote, Tally, ProposalType
  <2>2. proposals' = [proposals EXCEPT ![id] = p]
    BY <1>1, <1>3, <2>1 DEF CastVote, ProposalType, GovernanceTypeOK
  <2>3. /\ p \in ProposalType
        /\ p.status = proposals[id].status /\ p.end_slot = proposals[id].end_slot
    BY <1>1, <2>1, GovernanceAssumption DEF ProposalType
  <2> QED BY <2>2, <2>3
<1>4. CASE c = "Abstain"
  <2> DEFINE p == [proposals[id] EXCEPT !.abstain_votes = @ + n]
  <2>1. proposals[id].abstain_votes + n <= MaxU64 /\ Tally(c) = "abstain_votes"
    BY <1>1, <1>4 DEF CastVote, Tally, ProposalType
  <2>2. proposals' = [proposals EXCEPT ![id] = p]
    BY <1>1, <1>4, <2>1 DEF CastVote, ProposalType, GovernanceTypeOK
  <2>3. /\ p \in ProposalType
        /\ p.status = proposals[id].status /\ p.end_slot = proposals[id].end_slot
    BY <1>1, <2>1, GovernanceAssumption DEF ProposalType
  <2> QED BY <2>2, <2>3
<1> QED BY <1>2, <1>3, <1>4 DEF VoteChoice

-----------------------------------------------------------------------------
(* Proposal accounts are created in the order of proposal_count. *)
IdsInOrder ==
    \A i \in Ids : proposals[i] # NoProposal => state # NoState /\ i <= state.proposal_count

(* An executed proposal is past its end and its tallies reach the threshold  *)
(* without rounding in its favour.                                           *)
ExecutedByTallies ==
    \A i \in Ids : LET p == proposals[i] IN p.status = "Executed" =>
        /\ slot > p.end_slot
        /\ Decisive(p) > 0
        /\ MaxBps * p.yes_votes >= Decisive(p) * p.threshold_bps

GovInv == GovernanceTypeOK /\ IdsInOrder /\ ExecutedByTallies

(* bps_amount rounds up, so meeting it is meeting the exact fraction. *)
LEMMA RoundsUp ==
    ASSUME NEW v \in Nat, NEW b \in Nat, NEW y \in Nat, y >= BpsAmount(v, b)
    PROVE  MaxBps * y >= v * b
<1>1. PICK x \in Nat : x = v * b
  OBVIOUS
<1>2. y >= (x + 9999) \div 10000
  BY <1>1 DEF BpsAmount, MaxBps
<1>3. 10000 * y >= x
  BY <1>2
<1> QED BY <1>1, <1>3 DEF MaxBps

LEMMA InitGov == GovernanceInit => GovInv
<1> SUFFICES ASSUME GovernanceInit PROVE GovInv
  OBVIOUS
<1>1. GovernanceTypeOK
  BY GovernanceAssumption DEF GovernanceInit, GovernanceTypeOK
<1>2. IdsInOrder /\ ExecutedByTallies
  BY DEF GovernanceInit, IdsInOrder, ExecutedByTallies, NoProposal
<1> QED BY <1>1, <1>2 DEF GovInv

(* create_proposal: the id was free. *)
LEMMA CreateEffect ==
    ASSUME GovInv, NEW w \in Wallets, NEW t \in Options, NEW q \in Options,
           NEW e \in 0..MaxSlot, CreateProposal(w, t, q, e)
    PROVE  \E id \in Ids, p \in ProposalType :
             /\ proposals[id] = NoProposal /\ p.status = "Active"
             /\ id = state.proposal_count + 1
             /\ proposals' = [proposals EXCEPT ![id] = p]
             /\ state' = [state EXCEPT !.proposal_count = id]
             /\ state # NoState /\ state \in [owner : Wallets, quorum_bps : 0..MaxBps,
                    default_threshold_bps : 0..MaxBps, proposal_count : 0..MaxProposals]
             /\ slot' = slot /\ votes' = votes
<1>1. /\ state # NoState
      /\ state \in [owner : Wallets, quorum_bps : 0..MaxBps,
                    default_threshold_bps : 0..MaxBps, proposal_count : 0..MaxProposals]
  BY DEF GovInv, GovernanceTypeOK, CreateProposal
<1> DEFINE id == state.proposal_count + 1
           tb == UnwrapOr(t, state.default_threshold_bps)
           qb == UnwrapOr(q, state.quorum_bps)
           p == [status |-> "Active", creator |-> w, end_slot |-> e,
                 threshold_bps |-> tb, quorum_bps |-> qb,
                 yes_votes |-> 0, no_votes |-> 0, abstain_votes |-> 0]
<1>2. id \in Ids /\ proposals[id] = NoProposal
  BY <1>1, GovernanceAssumption DEF CreateProposal, Ids, GovInv, IdsInOrder
<1>3. ASSUME NEW o \in Options, NEW d \in 0..MaxBps, \A b \in o : ValidBps(b)
      PROVE  UnwrapOr(o, d) \in 0..MaxBps
  <2>1. CASE o = {}
    BY <2>1 DEF UnwrapOr
  <2>2. ASSUME NEW x \in Bps, o = {x}
        PROVE  UnwrapOr(o, d) \in 0..MaxBps
    <3>1. (CHOOSE b \in {x} : TRUE) = x
      OBVIOUS
    <3>2. UnwrapOr(o, d) = x
      BY <2>2, <3>1 DEF UnwrapOr
    <3>3. ValidBps(x) /\ x \in Nat
      BY <1>3, <2>2, GovernanceAssumption
    <3> QED BY <3>2, <3>3, MaxBpsNat DEF ValidBps
  <2> QED BY <2>1, <2>2 DEF Options
<1>4. tb \in 0..MaxBps /\ qb \in 0..MaxBps
  BY <1>1, <1>3 DEF CreateProposal
<1>5. p \in ProposalType
  BY <1>4, PartiesAssumption, GovernanceAssumption DEF ProposalType
<1>6. /\ proposals' = [proposals EXCEPT ![id] = p]
      /\ state' = [state EXCEPT !.proposal_count = id]
      /\ slot' = slot /\ votes' = votes
  BY DEF CreateProposal
<1> HIDE DEF p
<1>7. p.status = "Active"
  BY DEF p
<1> QED BY <1>1, <1>2, <1>5, <1>6, <1>7

LEMMA NextGov ==
    ASSUME GovInv, [GovernanceNext]_governanceVars
    PROVE  GovInv'
<1> USE DEF GovInv
<1>0. /\ proposals \in [Ids -> {NoProposal} \cup ProposalType]
      /\ slot \in 0..MaxSlot
  BY DEF GovernanceTypeOK, ProposalType
<1>1. ASSUME NEW w \in Wallets, NEW q \in Bps, NEW t \in Bps, InitializeGovernance(w, q, t)
      PROVE  GovInv'
  <2>0. q \in 0..MaxBps /\ t \in 0..MaxBps /\ 0 \in 0..MaxProposals
    <3>1. q \in Nat /\ t \in Nat /\ MaxProposals \in Nat
      BY GovernanceAssumption
    <3>2. q <= MaxBps /\ t <= MaxBps
      BY <1>1 DEF InitializeGovernance, ValidBps
    <3> QED BY <3>1, <3>2, MaxBpsNat
  <2>1. GovernanceTypeOK'
    BY <1>1, <2>0 DEF InitializeGovernance, GovernanceTypeOK
  <2>2. IdsInOrder'
    BY <1>1 DEF InitializeGovernance, IdsInOrder
  <2>3. ExecutedByTallies'
    BY <1>1 DEF InitializeGovernance, ExecutedByTallies
  <2> QED BY <2>1, <2>2, <2>3
<1>2. ASSUME NEW w \in Wallets, NEW t \in Options, NEW q \in Options, NEW e \in 0..MaxSlot,
             CreateProposal(w, t, q, e)
      PROVE  GovInv'
  <2>1. PICK id \in Ids, p \in ProposalType :
             /\ proposals[id] = NoProposal /\ p.status = "Active"
             /\ id = state.proposal_count + 1
             /\ proposals' = [proposals EXCEPT ![id] = p]
             /\ state' = [state EXCEPT !.proposal_count = id]
             /\ state # NoState /\ state \in [owner : Wallets, quorum_bps : 0..MaxBps,
                    default_threshold_bps : 0..MaxBps, proposal_count : 0..MaxProposals]
             /\ slot' = slot /\ votes' = votes
    BY <1>2, CreateEffect
  <2>2. state' \in [owner : Wallets, quorum_bps : 0..MaxBps,
                    default_threshold_bps : 0..MaxBps, proposal_count : 0..MaxProposals]
    BY <2>1, GovernanceAssumption DEF Ids
  <2>3. proposals' \in [Ids -> {NoProposal} \cup ProposalType]
    BY <1>0, <2>1
  <2>4. GovernanceTypeOK'
    BY <2>1, <2>2, <2>3 DEF GovernanceTypeOK, ProposalType
  <2>5. state' # NoState /\ state'.proposal_count = state.proposal_count + 1
    BY <2>1, <2>2 DEF NoState
  <2>6. IdsInOrder'
    BY <1>0, <2>1, <2>2, <2>5, GovernanceAssumption DEF IdsInOrder, Ids
  <2>7. ExecutedByTallies'
    BY <1>0, <2>1 DEF ExecutedByTallies
  <2> QED BY <2>4, <2>6, <2>7
<1>3. ASSUME NEW w \in Wallets, NEW id \in Ids, NEW c \in VoteChoice, NEW n \in Weights,
             CastVote(w, id, c, n)
      PROVE  GovInv'
  <2>1. PICK p \in ProposalType :
             /\ proposals' = [proposals EXCEPT ![id] = p]
             /\ p.status = proposals[id].status /\ p.end_slot = proposals[id].end_slot
    BY <1>3, CastVoteEffect
  <2>2. /\ slot' = slot /\ state' = state /\ proposals[id].status = "Active"
        /\ votes' = [votes EXCEPT ![<<id, w>>] = [choice |-> c, weight |-> n]]
    BY <1>3 DEF CastVote, Active
  <2>3. proposals' \in [Ids -> {NoProposal} \cup ProposalType]
    BY <1>0, <2>1
  <2>4. GovernanceTypeOK'
    BY <2>2, <2>3 DEF GovernanceTypeOK, ProposalType
  <2>5. IdsInOrder'
    BY <1>0, <2>1, <2>2 DEF IdsInOrder, NoProposal
  <2>6. ExecutedByTallies'
    BY <1>0, <2>1, <2>2 DEF ExecutedByTallies
  <2> QED BY <2>4, <2>5, <2>6
<1>4. ASSUME NEW id \in Ids, NEW n \in Totals, ExecuteProposal(id, n)
      PROVE  GovInv'
  <2> DEFINE p == proposals[id]
             r == [p EXCEPT !.status = "Executed"]
  <2>1. p \in ProposalType
    BY <1>4, ActiveIsProposal DEF ExecuteProposal
  <2>2. /\ proposals' = [proposals EXCEPT ![id] = r]
        /\ slot' = slot /\ state' = state /\ votes' = votes
    BY <1>4 DEF ExecuteProposal
  <2>3. r \in ProposalType /\ r.end_slot = p.end_slot /\ r.yes_votes = p.yes_votes
        /\ r.no_votes = p.no_votes /\ r.threshold_bps = p.threshold_bps
    BY <2>1 DEF ProposalType
  <2>4. GovernanceTypeOK'
    BY <1>0, <2>2, <2>3 DEF GovernanceTypeOK, ProposalType
  <2>5. IdsInOrder'
    BY <1>0, <2>1, <2>2 DEF IdsInOrder, NoProposal, ProposalType
  <2>6. slot > p.end_slot /\ Decisive(p) > 0 /\ p.yes_votes >= BpsAmount(Decisive(p), p.threshold_bps)
    BY <1>0, <1>4, <2>1 DEF ExecuteProposal, VotingOpen, ProposalType
  <2>7. Decisive(p) \in Nat /\ p.threshold_bps \in Nat /\ p.yes_votes \in Nat
    <3>1. p.yes_votes \in 0..MaxU64 /\ p.no_votes \in 0..MaxU64 /\ p.threshold_bps \in 0..MaxBps
      BY <2>1 DEF ProposalType
    <3>2. MaxU64 \in Nat
      BY PartiesAssumption
    <3> HIDE DEF p
    <3> QED BY <3>1, <3>2, MaxBpsNat DEF Decisive
  <2>8. MaxBps * p.yes_votes >= Decisive(p) * p.threshold_bps
    BY <2>6, <2>7, RoundsUp
  <2>9. Decisive(r) = Decisive(p)
    BY <2>3 DEF Decisive
  <2> HIDE DEF r, p
  <2>10. ASSUME NEW i \in Ids, proposals'[i].status = "Executed"
         PROVE  /\ slot' > proposals'[i].end_slot
                /\ Decisive(proposals'[i]) > 0
                /\ MaxBps * proposals'[i].yes_votes
                     >= Decisive(proposals'[i]) * proposals'[i].threshold_bps
    <3>1. CASE i = id
      <4>1. proposals'[i] = r
        BY <1>0, <2>2, <3>1
      <4> QED BY <2>2, <2>3, <2>6, <2>8, <2>9, <4>1
    <3>2. CASE i # id
      <4>1. proposals'[i] = proposals[i]
        BY <1>0, <2>2, <3>2
      <4> QED BY <2>2, <2>10, <4>1 DEF ExecutedByTallies
    <3> QED BY <3>1, <3>2
  <2>11. ExecutedByTallies'
    BY <2>10 DEF ExecutedByTallies, Decisive
  <2> QED BY <2>4, <2>5, <2>11
<1>5. ASSUME NEW w \in Wallets, NEW id \in Ids, CancelProposal(w, id)
      PROVE  GovInv'
  <2> DEFINE r == [proposals[id] EXCEPT !.status = "Cancelled"]
  <2>1. proposals[id] \in ProposalType
    BY <1>5, ActiveIsProposal DEF CancelProposal
  <2>2. /\ proposals' = [proposals EXCEPT ![id] = r]
        /\ slot' = slot /\ state' = state /\ votes' = votes
    BY <1>5 DEF CancelProposal
  <2>3. r \in ProposalType /\ r.status = "Cancelled"
    BY <2>1 DEF ProposalType
  <2>4. GovernanceTypeOK'
    BY <1>0, <2>2, <2>3 DEF GovernanceTypeOK, ProposalType
  <2>5. IdsInOrder'
    BY <1>0, <2>1, <2>2 DEF IdsInOrder, NoProposal, ProposalType
  <2> HIDE DEF r
  <2>6. ExecutedByTallies'
    BY <1>0, <2>2, <2>3 DEF ExecutedByTallies
  <2> QED BY <2>4, <2>5, <2>6
<1>6. CASE AdvanceSlot
  <2>1. /\ slot' = slot + 1 /\ slot' \in 0..MaxSlot
        /\ UNCHANGED <<state, proposals, votes>>
    BY <1>0, <1>6, GovernanceAssumption DEF AdvanceSlot
  <2>2. GovernanceTypeOK'
    BY <2>1 DEF GovernanceTypeOK
  <2>3. IdsInOrder'
    BY <2>1 DEF IdsInOrder
  <2>4. ExecutedByTallies'
    BY <1>0, <2>1 DEF ExecutedByTallies, ProposalType, NoProposal
  <2> QED BY <2>2, <2>3, <2>4
<1>7. CASE UNCHANGED governanceVars
  BY <1>7 DEF governanceVars, GovernanceTypeOK, IdsInOrder, ExecutedByTallies
<1> QED BY <1>1, <1>2, <1>3, <1>4, <1>5, <1>6, <1>7 DEF GovernanceNext

(* GovInv is an inductive invariant of GovernanceSpec: what the handlers rely on.       *)
THEOREM GovInvHolds == GovernanceSpec => []GovInv
<1>1. GovernanceInit => GovInv
  BY InitGov
<1>2. GovInv /\ [GovernanceNext]_governanceVars => GovInv'
  BY NextGov
<1> QED BY <1>1, <1>2, PTL DEF GovernanceSpec

(* Governance accounts keep their types, and no basis points above 10000    *)
(* ever come into force, whichever instruction they came through.            *)
THEOREM GovernanceTypeCorrect == GovernanceSpec => []GovernanceTypeOK
<1>1. GovInv => GovernanceTypeOK
  BY DEF GovInv
<1> QED BY <1>1, GovInvHolds, PTL

(* execute_proposal: an executed proposal is past its end slot, had decisive *)
(* votes and reaches its threshold as an exact fraction of them.             *)
THEOREM ExecutedCorrect == GovernanceSpec => []ExecutedByTallies
<1>1. GovInv => ExecutedByTallies
  BY DEF GovInv
<1> QED BY <1>1, GovInvHolds, PTL

-----------------------------------------------------------------------------
(* Executed and cancelled proposals never change again, and no vote is       *)
(* counted after end_slot.                                                   *)
THEOREM ClosedCorrect == GovernanceSpec => ClosedProposalsAreFrozen
<1>1. ASSUME GovInv, GovernanceNext, NEW id \in Ids, proposals[id] # NoProposal
      PROVE  /\ proposals[id].status \in {"Executed", "Cancelled"} =>
                  proposals'[id] = proposals[id]
             /\ slot > proposals[id].end_slot =>
                  \A c \in VoteChoice : proposals'[id][Tally(c)] = proposals[id][Tally(c)]
  <2> DEFINE Goal == /\ proposals[id].status \in {"Executed", "Cancelled"} =>
                            proposals'[id] = proposals[id]
                     /\ slot > proposals[id].end_slot =>
                            \A c \in VoteChoice :
                                proposals'[id][Tally(c)] = proposals[id][Tally(c)]
  <2>0. /\ proposals \in [Ids -> {NoProposal} \cup ProposalType]
        /\ proposals[id] \in ProposalType /\ slot \in Nat
    BY <1>1, GovernanceAssumption DEF GovInv, GovernanceTypeOK, ProposalType
  <2>1. ASSUME proposals'[id] = proposals[id]
        PROVE  Goal
    BY <2>1
  <2>2. ASSUME NEW w \in Wallets, NEW t \in Options, NEW q \in Options, NEW e \in 0..MaxSlot,
               CreateProposal(w, t, q, e)
        PROVE  Goal
    <3>1. PICK i \in Ids, p \in ProposalType :
             proposals[i] = NoProposal /\ proposals' = [proposals EXCEPT ![i] = p]
      BY <1>1, <2>2, CreateEffect
    <3> QED BY <1>1, <2>0, <2>1, <3>1
  <2>3. ASSUME NEW w \in Wallets, NEW i \in Ids, NEW c \in VoteChoice, NEW n \in Weights,
               CastVote(w, i, c, n)
        PROVE  Goal
    <3>1. PICK p \in ProposalType :
             proposals' = [proposals EXCEPT ![i] = p]
      BY <1>1, <2>3, CastVoteEffect DEF GovInv
    <3>2. CASE i # id
      BY <2>0, <2>1, <3>1, <3>2
    <3>3. CASE i = id
      BY <2>0, <2>3, <3>3 DEF CastVote, Active, VotingOpen, ProposalType
    <3> QED BY <3>2, <3>3
  <2>4. ASSUME NEW i \in Ids, NEW s \in {"Executed", "Cancelled"}, Active(i),
               proposals' = [proposals EXCEPT ![i].status = s]
        PROVE  Goal
    <3>1. CASE i # id
      BY <2>0, <2>1, <2>4, <3>1
    <3>2. CASE i = id
      <4>1. proposals[id].status = "Active"
        BY <2>4, <3>2 DEF Active
      <4>2. /\ proposals'[id].yes_votes = proposals[id].yes_votes
            /\ proposals'[id].no_votes = proposals[id].no_votes
            /\ proposals'[id].abstain_votes = proposals[id].abstain_votes
        BY <2>0, <2>4, <3>2 DEF ProposalType
      <4>3. \A c \in VoteChoice : proposals'[id][Tally(c)] = proposals[id][Tally(c)]
        BY <4>2 DEF VoteChoice, Tally
      <4> QED BY <4>1, <4>3
    <3> QED BY <3>1, <3>2
  <2>5. CASE \E i \in Ids, n \in Totals : ExecuteProposal(i, n)
    BY <2>4, <2>5 DEF ExecuteProposal
  <2>6. CASE \E w \in Wallets, i \in Ids : CancelProposal(w, i)
    BY <2>4, <2>6 DEF CancelProposal
  <2>7. CASE AdvanceSlot \/ \E w \in Wallets, q, t \in Bps : InitializeGovernance(w, q, t)
    <3>1. proposals' = proposals
      BY <2>7 DEF AdvanceSlot, InitializeGovernance
    <3> QED BY <2>1, <3>1
  <2>8. CASE \E w \in Wallets, t, q \in Options, e \in 0..MaxSlot : CreateProposal(w, t, q, e)
    BY <2>2, <2>8
  <2>9. CASE \E w \in Wallets, i \in Ids, c \in VoteChoice, n \in Weights : CastVote(w, i, c, n)
    BY <2>3, <2>9
  <2> QED BY <1>1, <2>5, <2>6, <2>7, <2>8, <2>9 DEF GovernanceNext
<1>2. GovInv /\ [GovernanceNext]_governanceVars =>
        [\A id \in Ids : proposals[id] # NoProposal =>
           /\ proposals[id].status \in {"Executed", "Cancelled"} =>
                proposals'[id] = proposals[id]
           /\ slot > proposals[id].end_slot =>
                \A c \in VoteChoice : proposals'[id][Tally(c)] = proposals[id][Tally(c)]]_governanceVars
  BY <1>1
<1> QED BY <1>2, GovInvHolds, PTL DEF GovernanceSpec, ClosedProposalsAreFrozen

-----------------------------------------------------------------------------
(* The tallies and the vote records: what is counted for a choice, and that   *)
(* a proposal that was not created has no votes.                             *)
TallyInv ==
    \A id \in Ids, c \in VoteChoice :
        /\ IsFiniteSet(VotersFor(id, c))
        /\ proposals[id] = NoProposal => VotersFor(id, c) = {}
        /\ proposals[id] # NoProposal => proposals[id][Tally(c)] = Recorded(id, c)

LEMMA InitTally == GovernanceInit => TallyInv
<1> SUFFICES ASSUME GovernanceInit, NEW id \in Ids, NEW c \in VoteChoice
             PROVE  VotersFor(id, c) = {} /\ proposals[id] = NoProposal
  BY FS_EmptySet DEF TallyInv
<1>1. proposals[id] = NoProposal
  BY DEF GovernanceInit
<1>2. \A w \in Wallets : votes[<<id, w>>].choice # c
  BY DEF GovernanceInit, NoVote, VoteChoice
<1> QED BY <1>1, <1>2 DEF VotersFor

(* Without a new vote the records say the same. *)
LEMMA SameVotes ==
    ASSUME votes' = votes, NEW id, NEW c
    PROVE  VotersFor(id, c)' = VotersFor(id, c) /\ Recorded(id, c)' = Recorded(id, c)
BY DEF VotersFor, Recorded

(* cast_vote adds its voter to those of its choice and no other. *)
LEMMA VotersAfterVote ==
    ASSUME GovernanceTypeOK, NEW w \in Wallets, NEW id \in Ids, NEW c \in VoteChoice, NEW n \in Weights,
           CastVote(w, id, c, n), NEW i \in Ids, NEW d \in VoteChoice
    PROVE  /\ w \notin VotersFor(id, c)
           /\ i = id /\ d = c => VotersFor(i, d)' = VotersFor(i, d) \cup {w}
           /\ ~(i = id /\ d = c) => VotersFor(i, d)' = VotersFor(i, d)
<1>1. /\ votes[<<id, w>>] = NoVote
      /\ votes' = [votes EXCEPT ![<<id, w>>] = [choice |-> c, weight |-> n]]
  BY DEF CastVote, NotVoted
<1>2. votes[<<id, w>>].choice \notin VoteChoice
  BY <1>1 DEF NoVote, VoteChoice
<1>3. \A v \in Wallets : votes'[<<i, v>>] = IF i = id /\ v = w THEN [choice |-> c, weight |-> n]
                                         ELSE votes[<<i, v>>]
  BY <1>1 DEF GovernanceTypeOK
<1>4. \A v \in Wallets : votes'[<<i, v>>].choice = IF i = id /\ v = w THEN c ELSE votes[<<i, v>>].choice
  BY <1>3
<1> QED BY <1>2, <1>4 DEF VotersFor

(* The weight it adds is its own. *)
LEMMA RecordedAfterVote ==
    ASSUME GovernanceTypeOK, TallyInv, NEW w \in Wallets, NEW id \in Ids, NEW c \in VoteChoice,
           NEW n \in Weights, CastVote(w, id, c, n)
    PROVE  /\ Recorded(id, c)' = Recorded(id, c) + n
           /\ \A i \in Ids, d \in VoteChoice : ~(i = id /\ d = c) =>
                Recorded(i, d)' = Recorded(i, d)
<1>1. \A i \in Ids, d \in VoteChoice : IsFiniteSet(VotersFor(i, d))
  BY DEF TallyInv
<1>2. \A i \in Ids, v \in Wallets : votes'[<<i, v>>] = IF i = id /\ v = w
                                     THEN [choice |-> c, weight |-> n] ELSE votes[<<i, v>>]
  BY DEF GovernanceTypeOK, CastVote
<1> DEFINE weight(i, d) == [v \in VotersFor(i, d) |-> votes[<<i, v>>].weight]
<1>3. ASSUME NEW i \in Ids, NEW d \in VoteChoice, NEW v \in VotersFor(i, d)
      PROVE  votes[<<i, v>>].weight \in Int
  <2>1. votes[<<i, v>>] # NoVote /\ v \in Wallets
    BY <1>3 DEF VotersFor, NoVote, VoteChoice
  <2>2. votes[<<i, v>>].weight \in Weights
    BY <2>1 DEF GovernanceTypeOK
  <2>3. \A x \in Weights : x \in Int
    BY GovernanceAssumption
  <2> QED BY <2>2, <2>3
<1>4. ASSUME NEW i \in Ids, NEW d \in VoteChoice, ~(i = id /\ d = c)
      PROVE  Recorded(i, d)' = Recorded(i, d)
  <2>1. VotersFor(i, d)' = VotersFor(i, d)
    BY <1>4, VotersAfterVote
  <2>2. \A v \in VotersFor(i, d) : votes'[<<i, v>>].weight = votes[<<i, v>>].weight
    BY <1>2, <1>4, VotersAfterVote DEF VotersFor, NoVote, VoteChoice
  <2>3. weight(i, d)' = weight(i, d)
    BY <2>1, <2>2
  <2> QED BY <2>3 DEF Recorded
<1>5. Recorded(id, c)' = Recorded(id, c) + n
  <2> DEFINE S == VotersFor(id, c)
             f == weight(id, c)
             g == weight(id, c)'
  <2>1. VotersFor(id, c)' = S \cup {w} /\ w \notin S /\ IsFiniteSet(S)
    BY <1>1, VotersAfterVote
  <2>2. g = [v \in S \cup {w} |-> votes'[<<id, v>>].weight] /\ S \subseteq Wallets
    BY <2>1 DEF VotersFor
  <2>3. g[w] = n /\ n \in Int /\ \A v \in S : g[v] = f[v] /\ f[v] \in Int
    BY <1>2, <1>3, <2>1, <2>2, GovernanceAssumption
  <2>4. /\ Recorded(id, c) = SumFunctionOnSet(f, S)
        /\ Recorded(id, c)' = SumFunctionOnSet(g, S \cup {w})
    BY <2>1, <2>2 DEF Recorded, SumFunction
  <2> HIDE DEF f, g, S
  <2>5. SumFunctionOnSet(g, S \cup {w}) = g[w] + SumFunctionOnSet(g, S)
    BY <2>1, <2>3, SumAdd
  <2>6. SumFunctionOnSet(g, S) = SumFunctionOnSet(f, S)
    BY <2>1, <2>3, SumSame
  <2>7. SumFunctionOnSet(f, S) \in Int
    BY <2>1, <2>3, SumType
  <2> QED BY <2>3, <2>4, <2>5, <2>6, <2>7
<1> QED BY <1>4, <1>5

(* Each choice has a field of its own. *)
LEMMA TallyNames ==
    \A c, d \in VoteChoice : /\ Tally(c) \in {"yes_votes", "no_votes", "abstain_votes"}
                             /\ Tally(c) = Tally(d) => c = d
BY DEF Tally, VoteChoice

LEMMA NextTally ==
    ASSUME GovInv, TallyInv, [GovernanceNext]_governanceVars
    PROVE  TallyInv'
<1>0. GovernanceTypeOK /\ proposals \in [Ids -> {NoProposal} \cup ProposalType]
  BY DEF GovInv, GovernanceTypeOK, ProposalType
<1>1. ASSUME votes' = votes,
             \A i \in Ids, c \in VoteChoice :
                /\ proposals'[i] = NoProposal <=> proposals[i] = NoProposal
                /\ proposals[i] # NoProposal => proposals'[i][Tally(c)] = proposals[i][Tally(c)]
      PROVE  TallyInv'
  BY <1>1, SameVotes DEF TallyInv
<1>2. ASSUME NEW w \in Wallets, NEW t \in Options, NEW q \in Options, NEW e \in 0..MaxSlot,
             CreateProposal(w, t, q, e)
      PROVE  TallyInv'
  <2>1. PICK id \in Ids : /\ proposals[id] = NoProposal /\ votes' = votes
                          /\ id = state.proposal_count + 1
                          /\ \E p \in ProposalType : proposals' = [proposals EXCEPT ![id] = p]
    BY <1>2, CreateEffect
  <2>2. /\ proposals'[id] # NoProposal /\ proposals'[id].yes_votes = 0
        /\ proposals'[id].no_votes = 0 /\ proposals'[id].abstain_votes = 0
        /\ \A i \in Ids \ {id} : proposals'[i] = proposals[i]
    BY <1>0, <1>2, <2>1 DEF CreateProposal, NoProposal
  <2>3. \A c \in VoteChoice : VotersFor(id, c) = {} /\ Recorded(id, c) = 0
    BY <2>1, SumEmpty DEF TallyInv, Recorded, SumFunction
  <2>4. \A c \in VoteChoice : proposals'[id][Tally(c)] = 0
    BY <2>2 DEF Tally, VoteChoice
  <2> QED BY <2>1, <2>2, <2>3, <2>4, SameVotes DEF TallyInv
<1>3. ASSUME NEW w \in Wallets, NEW id \in Ids, NEW c \in VoteChoice, NEW n \in Weights,
             CastVote(w, id, c, n)
      PROVE  TallyInv'
  <2>1. proposals[id] \in ProposalType /\ proposals[id] # NoProposal
    BY <1>0, <1>3, ActiveIsProposal DEF CastVote, Active, NoProposal
  <2>2. /\ proposals'[id] # NoProposal
        /\ proposals'[id][Tally(c)] = proposals[id][Tally(c)] + n
        /\ \A d \in VoteChoice \ {c} : proposals'[id][Tally(d)] = proposals[id][Tally(d)]
        /\ \A i \in Ids \ {id} : proposals'[i] = proposals[i]
    BY <1>0, <1>3, <2>1, TallyNames DEF CastVote, ProposalType, NoProposal, Active
  <2>3. ASSUME NEW i \in Ids, NEW d \in VoteChoice
        PROVE  /\ IsFiniteSet(VotersFor(i, d)')
               /\ i # id => VotersFor(i, d)' = VotersFor(i, d)
    BY <1>0, <1>3, VotersAfterVote, FS_AddElement DEF TallyInv
  <2>4. ASSUME NEW i \in Ids, NEW d \in VoteChoice, proposals'[i] # NoProposal
        PROVE  proposals'[i][Tally(d)] = Recorded(i, d)'
    BY <1>0, <1>3, <2>1, <2>2, <2>4, RecordedAfterVote DEF TallyInv
  <2> QED BY <2>1, <2>2, <2>3, <2>4 DEF TallyInv
<1>4. ASSUME NEW id \in Ids, NEW s \in {"Executed", "Cancelled"}, Active(id), votes' = votes,
             proposals' = [proposals EXCEPT ![id].status = s]
      PROVE  TallyInv'
  <2>1. proposals[id] \in ProposalType /\ proposals[id] # NoProposal
    BY <1>0, <1>4, ActiveIsProposal DEF Active, NoProposal
  <2>2. /\ proposals'[id] # NoProposal
        /\ proposals'[id].yes_votes = proposals[id].yes_votes
        /\ proposals'[id].no_votes = proposals[id].no_votes
        /\ proposals'[id].abstain_votes = proposals[id].abstain_votes
        /\ \A i \in Ids \ {id} : proposals'[i] = proposals[i]
    BY <1>0, <1>4, <2>1 DEF ProposalType, NoProposal
  <2>3. \A c \in VoteChoice : proposals'[id][Tally(c)] = proposals[id][Tally(c)]
    BY <2>2 DEF VoteChoice, Tally
  <2> QED BY <1>1, <1>4, <2>1, <2>2, <2>3
<1>5. CASE \E i \in Ids, n \in Totals : ExecuteProposal(i, n)
  BY <1>4, <1>5 DEF ExecuteProposal
<1>6. CASE \E w \in Wallets, i \in Ids : CancelProposal(w, i)
  BY <1>4, <1>6 DEF CancelProposal
<1>7. CASE \/ AdvanceSlot \/ UNCHANGED governanceVars
           \/ \E w \in Wallets, q, t \in Bps : InitializeGovernance(w, q, t)
  <2>1. proposals' = proposals /\ votes' = votes
    BY <1>7 DEF AdvanceSlot, governanceVars, InitializeGovernance
  <2> QED BY <1>1, <2>1
<1> QED BY <1>2, <1>3, <1>5, <1>6, <1>7 DEF GovernanceNext

(* cast_vote keeps two accounts in step for any number of voters and any      *)
(* weights: each tally of a proposal is the sum of the weights of the vote    *)
(* records with that choice.                                                 *)
THEOREM TalliesCorrect == GovernanceSpec => []TalliesMatchRecords
<1>1. GovernanceInit => TallyInv
  BY InitTally
<1>2. GovInv /\ TallyInv /\ [GovernanceNext]_governanceVars => TallyInv'
  BY NextTally
<1>3. TallyInv => TalliesMatchRecords
  BY DEF TallyInv, TalliesMatchRecords
<1> QED BY <1>1, <1>2, <1>3, GovInvHolds, PTL DEF GovernanceSpec

(* execute_proposal: an executed proposal is past its end slot, and the       *)
(* records of its votes, as they stand, reach the threshold exactly.          *)
THEOREM ExecutedJustified == GovernanceSpec => []ExecutedIsJustified
<1>1. GovInv /\ TalliesMatchRecords => ExecutedIsJustified
  <2> SUFFICES ASSUME GovInv, TalliesMatchRecords, NEW id \in Ids,
                      proposals[id].status = "Executed"
               PROVE  /\ slot > proposals[id].end_slot
                      /\ Recorded(id, "Yes") + Recorded(id, "No") > 0
                      /\ MaxBps * Recorded(id, "Yes") >=
                           proposals[id].threshold_bps * (Recorded(id, "Yes") + Recorded(id, "No"))
    BY DEF ExecutedIsJustified
  <2> DEFINE p == proposals[id]
  <2>1. p # NoProposal /\ p \in ProposalType
    BY DEF NoProposal, GovInv, GovernanceTypeOK, ProposalType
  <2>2. Recorded(id, "Yes") = p.yes_votes /\ Recorded(id, "No") = p.no_votes
    BY <2>1 DEF TalliesMatchRecords, Tally, VoteChoice
  <2>3. /\ slot > p.end_slot /\ p.yes_votes + p.no_votes > 0
        /\ MaxBps * p.yes_votes >= (p.yes_votes + p.no_votes) * p.threshold_bps
    BY DEF GovInv, ExecutedByTallies, Decisive
  <2>4. p.yes_votes \in Int /\ p.no_votes \in Int /\ p.threshold_bps \in Int
    BY <2>1, GovernanceAssumption, MaxBpsNat DEF ProposalType
  <2>5. (p.yes_votes + p.no_votes) * p.threshold_bps = p.threshold_bps * (p.yes_votes + p.no_votes)
    BY <2>4
  <2> QED BY <2>2, <2>3, <2>5
<1> QED BY <1>1, GovInvHolds, TalliesCorrect, PTL
=============================================================================
