-------------------------- MODULE DeploymentProofs --------------------------
(***************************************************************************)
(* Proofs about Deployment: a suite on chain has its accounts, the asset and *)
(* the request recorded for it are its own, no suite is replaced, and the    *)
(* TOKEN_DEPLOYED entries implement the delivery log.                        *)
(*                                                                           *)
(* The inductive invariant follows one mint through its attempts.  Whatever  *)
(* exists of it on chain came from values submitted for it (OnChain).  A     *)
(* form that is setting up has a transaction to do for every account that is *)
(* still missing (Covered, CountCovered), so a deployment transaction, sent  *)
(* or given up on, finds them (Prepared, Counted).  From the confirmed       *)
(* deployment to the last call the form knows the suite that is on chain     *)
(* (FormInv).                                                                *)
(***************************************************************************)
EXTENDS Deployment, TLAPS

Kinds == {"mandate", "custody", "mint", "init", "count", "hook", "suite"}
TxType == [kind : Kinds, mint : Ids, id : Ids, module : Modules \cup {None},
           country : Countries \cup {None}, from : Values, req : Requests]
ShownType == [req : Requests, id : Ids, from : Values]
FormType == [pc : {"idle", "gate", "attest", "plan", "setup", "owners", "post", "patch"},
             mint : Ids, shows : ShownType, sent : ShownType, admin : BOOLEAN,
             approved : BOOLEAN, mounted : BOOLEAN, todo : SUBSET TxType]
SuiteType == [req : Requests, from : Values]
ModuleType == [from : Values \cup {None}, hooked : BOOLEAN]

Types ==
    /\ request \in [Requests -> [status : ASSET_REQUEST_STATUSES, deployed : Ids \cup {None}]]
    /\ form \in [Forms -> FormType \cup {Closed}]
    /\ mandate \in [Ids -> {"none", "created", "active", "released"}]
    /\ attested \in [Ids -> {"none", "valid", "expired"}]
    /\ minted \in [Ids -> Values \cup {None}]
    /\ modules \in [Ids -> [Modules -> ModuleType]]
    /\ counts \in [Ids -> SUBSET Countries]
    /\ suite \in [Ids -> SuiteType \cup {None}]
    /\ asset \in [Ids -> SuiteType \cup {None}]
    /\ pending \subseteq TxType
    /\ ledger \subseteq Ids
    /\ tried \in [Ids -> SUBSET Values]
    /\ opens \in 0..MaxOpens

(* The accounts a suite needs. *)
Prepared(m) ==
    /\ minted[m] # None
    /\ \A x \in Modules : /\ modules[m][x].from # None
                          /\ x \in Stateful => modules[m][x].hooked

(* The count accounts of the countries that the values v cap. *)
Counted(m, v) == CountryCap \in Modules => CapsOf[v] \subseteq counts[m]

(* Each of them exists or has its transaction in todo. *)
CountCovered(m, v, todo) ==
    CountryCap \in Modules =>
        \A c \in CapsOf[v] : c \in counts[m] \/ \E tx \in todo : tx.kind = "count" /\ tx.country = c

Covered(m, todo) ==
    /\ minted[m] # None \/ \E tx \in todo : tx.kind = "mint"
    /\ \A x \in Modules :
         /\ modules[m][x].from # None \/ \E tx \in todo : tx.kind = "init" /\ tx.module = x
         /\ x \in Stateful =>
              modules[m][x].hooked \/ \E tx \in todo : tx.kind = "hook" /\ tx.module = x

(* A transaction comes from values submitted for its mint, names a module if  *)
(* it is about one, and deploys only what is prepared.                        *)
TxInv(tx) ==
    /\ tx.from \in tried[tx.mint]
    /\ tx.kind \in {"init", "hook"} => tx.module \in Modules
    /\ tx.kind = "count" => tx.country \in Countries
    /\ tx.kind = "suite" => Prepared(tx.mint) /\ Counted(tx.mint, tx.from)

FormInv(r) ==
    /\ r.pc \notin {"closed", "idle"} => r.sent.from \in tried[r.mint]
    /\ r.pc = "setup" => /\ Covered(r.mint, r.todo)
                         /\ CountCovered(r.mint, r.sent.from, r.todo)
                         /\ \A tx \in r.todo : tx.mint = r.mint /\ TxInv(tx)
    /\ r.pc \in {"owners", "post", "patch"} =>
         suite[r.mint] = [req |-> r.sent.req, from |-> r.sent.from]
    /\ r.pc = "patch" => r.mint \in ledger

OnChain ==
    \A m \in Ids :
      /\ minted[m] # None => minted[m] \in tried[m]
      /\ \A x \in Modules : modules[m][x].from # None => modules[m][x].from \in tried[m]
      /\ suite[m] # None => Prepared(m) /\ Counted(m, suite[m].from)

InDatabase ==
    /\ \A m \in Ids : asset[m] # None => suite[m] = asset[m]
    /\ \A m \in ledger : suite[m] # None
    /\ DeployedNamesItsSuite

IInv ==
    /\ Types
    /\ \A f \in Forms : FormInv(form[f])
    /\ \A tx \in pending : TxInv(tx)
    /\ OnChain
    /\ InDatabase

-----------------------------------------------------------------------------
(* What is on chain stays there. *)
Grown ==
    \A m \in Ids :
      /\ minted[m] # None => minted'[m] = minted[m]
      /\ \A x \in Modules : /\ modules[m][x].from # None => modules'[m][x].from = modules[m][x].from
                            /\ modules[m][x].hooked => modules'[m][x].hooked
      /\ counts[m] \subseteq counts'[m]
      /\ suite[m] # None => suite'[m] = suite[m]

LEMMA SuitesAreSomething ==
    ASSUME NEW s \in SuiteType
    PROVE  s # None
BY DeploymentAssumption DEF SuiteType, Values

LEMMA ValuesAreSomething ==
    ASSUME NEW v \in Values
    PROVE  v # None
BY DeploymentAssumption DEF Values

LEMMA PreparedStays ==
    ASSUME Grown, NEW m \in Ids, Prepared(m)
    PROVE  Prepared(m)'
BY DEF Grown, Prepared

LEMMA CountedStays ==
    ASSUME Grown, NEW m \in Ids, NEW v, Counted(m, v)
    PROVE  Counted(m, v)'
BY DEF Grown, Counted

LEMMA TxStays ==
    ASSUME Grown, NEW tx \in TxType, TxInv(tx), \A m \in Ids : tried[m] \subseteq tried'[m]
    PROVE  TxInv(tx)'
<1>1. tx.mint \in Ids
  BY DEF TxType
<1> QED BY <1>1, PreparedStays, CountedStays DEF TxInv

LEMMA FormStays ==
    ASSUME Grown, NEW r \in FormType \cup {Closed}, FormInv(r),
           \A m \in Ids : tried[m] \subseteq tried'[m], ledger \subseteq ledger'
    PROVE  FormInv(r)'
<1>1. CASE r = Closed
  BY <1>1 DEF Closed, FormInv
<1>2. CASE r \in FormType
  <2>1. r.mint \in Ids /\ r.sent \in ShownType /\ r.todo \in SUBSET TxType
    BY <1>2 DEF FormType
  <2>2. Covered(r.mint, r.todo) => Covered(r.mint, r.todo)'
    BY <2>1 DEF Covered, Grown
  <2>3. \A tx \in r.todo : TxInv(tx) => TxInv(tx)'
    BY <2>1, TxStays
  <2>4. /\ [req |-> r.sent.req, from |-> r.sent.from] \in SuiteType
    BY <2>1 DEF ShownType, SuiteType
  <2>5. suite[r.mint] = [req |-> r.sent.req, from |-> r.sent.from] => suite'[r.mint] = suite[r.mint]
    BY <2>1, <2>4, SuitesAreSomething DEF Grown
  <2>6. CountCovered(r.mint, r.sent.from, r.todo) => CountCovered(r.mint, r.sent.from, r.todo)'
    BY <2>1 DEF CountCovered, Grown
  <2> QED BY <2>1, <2>2, <2>3, <2>5, <2>6 DEF FormInv
<1> QED BY <1>1, <1>2

(* Effects of an accepted transaction. *)
LEMMA Applied ==
    ASSUME Types, OnChain, NEW tx \in TxType, TxInv(tx), Accepts(tx), Apply(tx), tried' = tried
    PROVE  /\ Grown /\ OnChain'
           /\ mandate' \in [Ids -> {"none", "created", "active", "released"}]
           /\ attested' \in [Ids -> {"none", "valid", "expired"}]
           /\ minted' \in [Ids -> Values \cup {None}]
           /\ modules' \in [Ids -> [Modules -> ModuleType]]
           /\ counts' \in [Ids -> SUBSET Countries]
           /\ suite' \in [Ids -> SuiteType \cup {None}]
           /\ tx.kind = "mint" => minted'[tx.mint] # None
           /\ tx.kind = "init" => modules'[tx.mint][tx.module].from # None
           /\ tx.kind = "count" => tx.country \in counts'[tx.mint]
           /\ tx.kind = "hook" => modules'[tx.mint][tx.module].hooked
           /\ tx.kind = "suite" => /\ suite[tx.mint] = None
                                   /\ suite' = [suite EXCEPT ![tx.mint] =
                                                  [req |-> tx.req, from |-> tx.from]]
           /\ tx.kind # "suite" => suite' = suite
<1>1. /\ tx.kind \in Kinds /\ tx.mint \in Ids /\ tx.id \in Ids /\ tx.from \in Values
      /\ tx.req \in Requests /\ tx.from # None
  BY DeploymentAssumption DEF TxType, Values
<1>2. [req |-> tx.req, from |-> tx.from] \in SuiteType /\ [req |-> tx.req, from |-> tx.from] # None
  <2>1. [req |-> tx.req, from |-> tx.from] \in SuiteType
    BY <1>1 DEF SuiteType
  <2> QED BY <2>1, SuitesAreSomething
<1>3. /\ mandate' \in [Ids -> {"none", "created", "active", "released"}]
      /\ attested' \in [Ids -> {"none", "valid", "expired"}]
  BY <1>1 DEF Types, Apply
<1>4. /\ minted' = [minted EXCEPT ![tx.mint] = IF tx.kind = "mint" THEN tx.from ELSE minted[tx.mint]]
      /\ minted' \in [Ids -> Values \cup {None}]
      /\ tx.kind = "mint" => minted[tx.mint] = None
  BY <1>1 DEF Types, Apply, Accepts, Kinds
<1>5. /\ suite' = [suite EXCEPT ![tx.mint] =
                     IF tx.kind = "suite" THEN [req |-> tx.req, from |-> tx.from] ELSE suite[tx.mint]]
      /\ suite' \in [Ids -> SuiteType \cup {None}]
      /\ tx.kind = "suite" => suite[tx.mint] = None
  BY <1>1, <1>2 DEF Types, Apply, Accepts, Kinds
<1>6. tx.kind # "suite" => suite' = suite
  BY <1>5 DEF Types
<1>7. modules \in [Ids -> [Modules -> ModuleType]]
  BY DEF Types
<1>8. tx.kind \in {"init", "hook"} => tx.module \in Modules
  BY DEF TxInv
<1>0. /\ counts' = [counts EXCEPT ![tx.mint] = IF tx.kind = "count" THEN @ \cup {tx.country} ELSE @]
      /\ counts' \in [Ids -> SUBSET Countries]
      /\ \A m \in Ids : counts[m] \subseteq counts'[m]
      /\ tx.kind = "count" => tx.country \in counts'[tx.mint]
  BY <1>1 DEF Types, Apply, TxInv
<1>9. CASE tx.kind = "init"
  <2>1. modules' = [modules EXCEPT ![tx.mint][tx.module].from = tx.from]
    BY <1>9 DEF Apply
  <2>2. modules[tx.mint][tx.module] \in ModuleType
    BY <1>1, <1>7, <1>8, <1>9
  <2>3. [modules[tx.mint][tx.module] EXCEPT !.from = tx.from] \in ModuleType
    BY <1>1, <2>2 DEF ModuleType
  <2>4. modules' \in [Ids -> [Modules -> ModuleType]]
    BY <1>1, <1>7, <1>8, <1>9, <2>1, <2>3
  <2>5. /\ modules'[tx.mint][tx.module].from = tx.from
        /\ modules'[tx.mint][tx.module].hooked = modules[tx.mint][tx.module].hooked
        /\ \A m \in Ids, x \in Modules : m # tx.mint \/ x # tx.module => modules'[m][x] = modules[m][x]
    BY <1>1, <1>7, <1>8, <1>9, <2>1, <2>2 DEF ModuleType
  <2>6. modules[tx.mint][tx.module].from = None
    BY <1>9 DEF Accepts
  <2>7. Grown
    BY <1>0, <1>1, <1>4, <1>6, <1>8, <1>9, <2>5, <2>6 DEF Grown, Types
  <2>8. OnChain'
    BY <1>0, <1>1, <1>4, <1>6, <1>8, <1>9, <2>5, <2>7, PreparedStays, CountedStays DEF OnChain, TxInv, Types
  <2> QED BY <1>0, <1>1, <1>3, <1>4, <1>5, <1>6, <1>9, <2>4, <2>5, <2>7, <2>8
<1>10. CASE tx.kind = "hook"
  <2>1. modules' = [modules EXCEPT ![tx.mint][tx.module].hooked = TRUE]
    BY <1>10 DEF Apply
  <2>2. modules[tx.mint][tx.module] \in ModuleType
    BY <1>1, <1>7, <1>8, <1>10
  <2>3. [modules[tx.mint][tx.module] EXCEPT !.hooked = TRUE] \in ModuleType
    BY <1>1, <2>2 DEF ModuleType
  <2>4. modules' \in [Ids -> [Modules -> ModuleType]]
    BY <1>1, <1>7, <1>8, <1>10, <2>1, <2>3
  <2>5. /\ modules'[tx.mint][tx.module].from = modules[tx.mint][tx.module].from
        /\ modules'[tx.mint][tx.module].hooked
        /\ \A m \in Ids, x \in Modules : m # tx.mint \/ x # tx.module => modules'[m][x] = modules[m][x]
    BY <1>1, <1>7, <1>8, <1>10, <2>1, <2>2 DEF ModuleType
  <2>7. Grown
    BY <1>0, <1>1, <1>4, <1>6, <1>8, <1>10, <2>5 DEF Grown, Types
  <2>8. OnChain'
    BY <1>0, <1>1, <1>4, <1>6, <1>8, <1>10, <2>5, <2>7, PreparedStays, CountedStays DEF OnChain, Types
  <2> QED BY <1>0, <1>1, <1>3, <1>4, <1>5, <1>6, <1>10, <2>4, <2>5, <2>7, <2>8
<1>11. CASE tx.kind \notin {"init", "hook"}
  <2>1. modules' = modules
    BY <1>11 DEF Apply
  <2>2. Grown
    BY <1>0, <1>1, <1>4, <1>5, <2>1 DEF Grown, Types
  <2>3. \A m \in Ids : minted'[m] # None => minted'[m] \in tried[m]
    BY <1>1, <1>4 DEF OnChain, TxInv, Types
  <2>4. \A m \in Ids : suite'[m] # None => Prepared(m) /\ Counted(m, suite'[m].from)
    BY <1>1, <1>5 DEF OnChain, TxInv, Types
  <2>5. OnChain'
    BY <2>1, <2>2, <2>3, <2>4, PreparedStays, CountedStays DEF OnChain
  <2>6. tx.kind = "mint" => minted'[tx.mint] # None
    BY <1>1, <1>4 DEF Types
  <2>7. tx.kind = "suite" => suite' = [suite EXCEPT ![tx.mint] = [req |-> tx.req, from |-> tx.from]]
    BY <1>5
  <2> QED BY <1>0, <1>3, <1>4, <1>5, <1>6, <1>7, <1>11, <2>1, <2>2, <2>5, <2>6, <2>7
<1> QED BY <1>9, <1>10, <1>11

-----------------------------------------------------------------------------
(* A step of one form: the invariants of the others stay. *)
LEMMA OneForm ==
    ASSUME Types, \A g \in Forms : FormInv(form[g]), Grown,
           \A m \in Ids : tried[m] \subseteq tried'[m], ledger \subseteq ledger',
           NEW f \in Forms, NEW r \in FormType \cup {Closed}, FormInv(r)', Moves(f, r)
    PROVE  /\ form' \in [Forms -> FormType \cup {Closed}]
           /\ \A g \in Forms : FormInv(form[g])'
<1>1. form \in [Forms -> FormType \cup {Closed}]
  BY DEF Types
<1>2. /\ form' \in [Forms -> FormType \cup {Closed}]
      /\ form'[f] = r
      /\ \A g \in Forms \ {f} : form'[g] = form[g]
  BY <1>1 DEF Moves
<1>3. ASSUME NEW g \in Forms, g # f
      PROVE  FormInv(form[g])'
  <2>1. PICK s \in FormType \cup {Closed} : s = form[g]
    BY <1>1
  <2>2. FormInv(s)
    BY <2>1
  <2>3. FormInv(s)'
    BY <2>2, FormStays
  <2>4. form'[g] = s
    BY <1>2, <1>3, <2>1
  <2> QED BY <2>3, <2>4
<1>4. FormInv(form[f])'
  BY <1>2
<1> QED BY <1>2, <1>3, <1>4

LEMMA OtherForms ==
    ASSUME Types, \A g \in Forms : FormInv(form[g]), Grown, form' = form,
           \A m \in Ids : tried[m] \subseteq tried'[m], ledger \subseteq ledger'
    PROVE  \A g \in Forms : FormInv(form[g])'
<1> SUFFICES ASSUME NEW g \in Forms
             PROVE  FormInv(form[g])'
  OBVIOUS
<1>1. PICK s \in FormType \cup {Closed} : s = form[g]
  BY DEF Types
<1>2. FormInv(s)
  BY <1>1
<1>3. FormInv(s)'
  BY <1>2, FormStays
<1> QED BY <1>1, <1>3

LEMMA PendingStay ==
    ASSUME Types, \A tx \in pending : TxInv(tx), Grown,
           \A m \in Ids : tried[m] \subseteq tried'[m]
    PROVE  \A tx \in pending : TxInv(tx)'
<1> SUFFICES ASSUME NEW tx \in pending
             PROVE  TxInv(tx)'
  OBVIOUS
<1>1. tx \in TxType /\ TxInv(tx)
  BY DEF Types
<1> QED BY <1>1, TxStays

LEMMA DatabaseStays ==
    ASSUME Types, InDatabase, Grown, UNCHANGED database
    PROVE  InDatabase'
<1>1. request' = request /\ ledger' = ledger /\ asset' = asset
  BY DEF database
<1>2. \A m \in Ids : asset'[m] # None => suite'[m] = asset'[m]
  BY <1>1 DEF InDatabase, Grown
<1>3. \A m \in ledger' : suite'[m] # None
  BY <1>1 DEF InDatabase, Grown, Types
<1>4. DeployedNamesItsSuite'
  BY <1>1 DEF InDatabase, DeployedNamesItsSuite, Grown
<1> QED BY <1>2, <1>3, <1>4 DEF InDatabase

LEMMA ChainStays ==
    ASSUME UNCHANGED chain
    PROVE  Grown
BY DEF chain, Grown

(* A form whose deployment has ended. *)
LEMMA EndedForm ==
    ASSUME NEW f \in Forms, form[f] \in FormType
    PROVE  Ended(f) \in FormType \cup {Closed} /\ Ended(f).pc \in {"idle", "closed"}
<1>1. At(f, "idle") \in FormType /\ At(f, "idle").pc = "idle"
  BY DEF At, FormType
<1>2. Closed.pc = "closed"
  BY DEF Closed
<1> QED BY <1>1, <1>2 DEF Ended

LEMMA RestingForm ==
    ASSUME NEW r, r.pc \in {"idle", "closed"}
    PROVE  FormInv(r)'
BY DEF FormInv

LEMMA OpenForm ==
    ASSUME Types, NEW f \in Forms
    PROVE  /\ form[f] # Closed => form[f] \in FormType
           /\ form[f].pc # "closed" => form[f] \in FormType
           /\ form[f] \in FormType => form[f].pc # "closed" /\ form[f] # Closed
BY DEF Types, FormType, Closed

LEMMA Sent ==
    ASSUME IInv, NEW f \in Forms, form[f] \in FormType, NEW tx \in TxType, TxInv(tx),
           NEW r \in FormType, Sends(f, tx, r), Step,
           Accepts(tx) /\ Apply(tx) => FormInv(r)'
    PROVE  IInv'
<1> USE DEF Step
<1>1. /\ Types /\ OnChain /\ InDatabase
      /\ \A g \in Forms : FormInv(form[g])
      /\ \A u \in pending : TxInv(u)
      /\ tried' = tried /\ ledger' = ledger /\ UNCHANGED database /\ opens' = opens
      /\ request' = request /\ asset' = asset
  BY DEF IInv, database
<1>2. PICK e \in FormType \cup {Closed} : e = Ended(f) /\ e.pc \in {"idle", "closed"}
  BY EndedForm
<1>3. FormInv(e)'
  BY <1>2, RestingForm
<1>4. CASE Accepts(tx) /\ Apply(tx) /\ Moves(f, r) /\ UNCHANGED pending
  <2>1. /\ Grown /\ OnChain'
        /\ mandate' \in [Ids -> {"none", "created", "active", "released"}]
        /\ attested' \in [Ids -> {"none", "valid", "expired"}]
        /\ minted' \in [Ids -> Values \cup {None}]
        /\ modules' \in [Ids -> [Modules -> ModuleType]]
        /\ counts' \in [Ids -> SUBSET Countries]
        /\ suite' \in [Ids -> SuiteType \cup {None}]
    BY <1>1, <1>4, Applied
  <2>2. FormInv(r)'
    BY <1>4
  <2>3. /\ form' \in [Forms -> FormType \cup {Closed}]
        /\ \A g \in Forms : FormInv(form[g])'
    BY <1>1, <1>4, <2>1, <2>2, OneForm
  <2>4. Types'
    BY <1>1, <1>4, <2>1, <2>3 DEF Types
  <2>5. InDatabase'
    BY <1>1, <2>1, DatabaseStays
  <2>6. \A u \in pending' : TxInv(u)'
    BY <1>1, <1>4, <2>1, PendingStay
  <2> QED BY <2>1, <2>3, <2>4, <2>5, <2>6 DEF IInv
<1>5. CASE /\ pending' \in {pending, pending \cup {tx}}
           /\ Moves(f, Ended(f))
           /\ UNCHANGED chain
  <2>1. Grown
    BY <1>5, ChainStays
  <2>2. Moves(f, e)
    BY <1>2, <1>5
  <2>3. /\ form' \in [Forms -> FormType \cup {Closed}]
        /\ \A g \in Forms : FormInv(form[g])'
    BY <1>1, <1>3, <2>1, <2>2, OneForm
  <2>4. Types'
    BY <1>1, <1>5, <2>3 DEF Types, chain
  <2>5. InDatabase'
    BY <1>1, <2>1, DatabaseStays
  <2>6. TxInv(tx)'
    BY <1>1, <2>1, TxStays
  <2>7. \A u \in pending' : TxInv(u)'
    BY <1>1, <1>5, <2>1, <2>6, PendingStay
  <2>8. OnChain'
    BY <1>1, <1>5 DEF OnChain, chain, Prepared, Counted
  <2> QED BY <2>3, <2>4, <2>5, <2>7, <2>8 DEF IInv
<1> QED BY <1>4, <1>5 DEF Sends

(* A form goes on by itself. *)
LEMMA Moved ==
    ASSUME IInv, NEW f \in Forms, NEW r \in FormType \cup {Closed}, FormInv(r)', Moves(f, r),
           UNCHANGED <<pending, chain, database>>, \A m \in Ids : tried[m] \subseteq tried'[m],
           tried' \in [Ids -> SUBSET Values], opens' \in 0..MaxOpens
    PROVE  IInv'
<1>1. /\ Types /\ OnChain /\ InDatabase
      /\ \A g \in Forms : FormInv(form[g])
      /\ \A u \in pending : TxInv(u)
      /\ ledger' = ledger /\ UNCHANGED database /\ request' = request /\ asset' = asset
  BY DEF IInv, database
<1>2. Grown
  BY ChainStays
<1>3. /\ form' \in [Forms -> FormType \cup {Closed}]
      /\ \A g \in Forms : FormInv(form[g])'
  BY <1>1, <1>2, OneForm
<1>4. Types'
  BY <1>1, <1>3 DEF Types, chain
<1>5. InDatabase'
  BY <1>1, <1>2, DatabaseStays
<1>6. \A u \in pending' : TxInv(u)'
  BY <1>1, <1>2, PendingStay
<1>7. OnChain'
  BY <1>1 DEF OnChain, chain, Prepared, Counted
<1> QED BY <1>3, <1>4, <1>5, <1>6, <1>7 DEF IInv

-----------------------------------------------------------------------------
(* The admin and the form. *)
LEMMA DecideStep ==
    ASSUME IInv, NEW q \in Requests, NEW s \in ASSET_REQUEST_STATUSES, Decide(q, s)
    PROVE  IInv'
<1>1. /\ Types /\ OnChain /\ InDatabase
      /\ \A g \in Forms : FormInv(form[g])
      /\ \A u \in pending : TxInv(u)
      /\ form' = form /\ pending' = pending /\ tried' = tried /\ UNCHANGED chain
      /\ ledger' = ledger /\ asset' = asset /\ opens' = opens
      /\ request' = [request EXCEPT ![q] = [status |-> s, deployed |-> request[q].deployed]]
      /\ s \in {"REJECTED", "CANCELED"}
  BY DEF IInv, Decide
<1>2. Grown
  BY <1>1, ChainStays
<1>3. \A g \in Forms : FormInv(form[g])'
  BY <1>1, <1>2, OtherForms
<1>4. \A u \in pending' : TxInv(u)'
  BY <1>1, <1>2, PendingStay
<1>5. OnChain'
  BY <1>1 DEF OnChain, chain, Prepared, Counted
<1>6. request' \in [Requests -> [status : ASSET_REQUEST_STATUSES, deployed : Ids \cup {None}]]
  BY <1>1 DEF Types
<1>7. Types'
  BY <1>1, <1>6 DEF Types, chain
<1>8. \A p \in Requests : request'[p].status = "DEPLOYED" => request'[p] = request[p]
  BY <1>1 DEF Types
<1>9. DeployedNamesItsSuite'
  BY <1>1, <1>8 DEF InDatabase, DeployedNamesItsSuite, chain
<1>10. InDatabase'
  BY <1>1, <1>9 DEF InDatabase, chain
<1> QED BY <1>3, <1>4, <1>5, <1>7, <1>10 DEF IInv

LEMMA ShownIsTyped ==
    ASSUME Types, NEW q \in Requests, opens < MaxOpens
    PROVE  Shown(q) \in ShownType /\ opens + 1 \in Ids
<1>1. opens + 1 \in Ids
  BY DeploymentAssumption DEF Types, Ids
<1> QED BY <1>1 DEF Shown, ShownType, Values

LEMMA OpenStep ==
    ASSUME IInv, NEW f \in Forms, NEW q \in Requests, NEW admin \in BOOLEAN, Open(f, q, admin)
    PROVE  IInv'
<1>1. Types /\ tried' = tried /\ opens < MaxOpens /\ opens' = opens + 1
  BY DEF IInv, Open
<1>2. opens' \in 0..MaxOpens /\ tried' \in [Ids -> SUBSET Values]
  BY <1>1, DeploymentAssumption DEF Types
<1>3. PICK k \in Ids : k = opens + 1
  BY <1>1, ShownIsTyped
<1>4. PICK s \in ShownType : s = Shown(q)
  BY <1>1, ShownIsTyped
<1>5. Fresh(q, admin) \in FormType /\ Fresh(q, admin).pc = "idle"
  BY <1>3, <1>4 DEF Fresh, FormType
<1>6. PICK r \in FormType : r = Fresh(q, admin) /\ r.pc = "idle"
  BY <1>5
<1>7. FormInv(r)'
  BY <1>6, RestingForm
<1>8. Moves(f, r) /\ UNCHANGED <<pending, chain, database>>
  BY <1>6 DEF Open
<1> QED BY <1>1, <1>2, <1>7, <1>8, Moved

(* The invariant of a form does not depend on what it shows. *)
LEMMA SameFormInv ==
    ASSUME NEW r, NEW s, FormInv(r), r.pc = s.pc, r.mint = s.mint, r.sent = s.sent,
           r.todo = s.todo
    PROVE  FormInv(s)
BY DEF FormInv

LEMMA ShowsOnly ==
    ASSUME IInv, NEW f \in Forms, form[f] \in FormType, NEW s \in FormType,
           s.pc = form[f].pc, s.mint = form[f].mint, s.sent = form[f].sent,
           s.todo = form[f].todo, Moves(f, s), UNCHANGED <<pending, tried, chain, database>>,
           opens' \in 0..MaxOpens
    PROVE  IInv'
<1>1. Types /\ FormInv(form[f])
  BY DEF IInv
<1>2. FormInv(s)
  BY <1>1, SameFormInv
<1>3. tried' \in [Ids -> SUBSET Values] /\ \A m \in Ids : tried[m] \subseteq tried'[m]
  BY <1>1 DEF Types
<1>4. ledger' = ledger
  BY DEF database
<1>5. FormInv(s)'
  BY <1>2, <1>3, <1>4, ChainStays, FormStays
<1> QED BY <1>3, <1>5, Moved

LEMMA SwitchStep ==
    ASSUME IInv, NEW f \in Forms, NEW q \in Requests, SwitchRequest(f, q)
    PROVE  IInv'
<1>1. Types /\ opens < MaxOpens /\ opens' = opens + 1 /\ form[f] \in FormType
  BY OpenForm DEF IInv, SwitchRequest
<1>2. opens' \in 0..MaxOpens
  BY <1>1, DeploymentAssumption DEF Types
<1>3. PICK v \in ShownType : v = Shown(q)
  BY <1>1, ShownIsTyped
<1>4. PICK s \in FormType : s = [form[f] EXCEPT !.shows = v, !.approved = FALSE]
  BY <1>1 DEF FormType
<1>5. s.pc = form[f].pc /\ s.mint = form[f].mint /\ s.sent = form[f].sent /\ s.todo = form[f].todo
  BY <1>1, <1>4 DEF FormType
<1>6. Moves(f, s) /\ UNCHANGED <<pending, tried, chain, database>>
  BY <1>3, <1>4 DEF SwitchRequest
<1> QED BY <1>1, <1>2, <1>5, <1>6, ShowsOnly

LEMMA ApproveStep ==
    ASSUME IInv, NEW f \in Forms, ApproveDocuments(f)
    PROVE  IInv'
<1>1. Types /\ opens' = opens /\ form[f] \in FormType
  BY OpenForm DEF IInv, ApproveDocuments, counters
<1>2. opens' \in 0..MaxOpens
  BY <1>1 DEF Types
<1>3. PICK s \in FormType : s = [form[f] EXCEPT !.approved = TRUE]
  BY <1>1 DEF FormType
<1>4. s.pc = form[f].pc /\ s.mint = form[f].mint /\ s.sent = form[f].sent /\ s.todo = form[f].todo
  BY <1>1, <1>3 DEF FormType
<1>5. Moves(f, s) /\ UNCHANGED <<pending, tried, chain, database>>
  BY <1>3 DEF ApproveDocuments
<1> QED BY <1>1, <1>2, <1>4, <1>5, ShowsOnly

LEMMA EditStep ==
    ASSUME IInv, NEW f \in Forms, Edit(f)
    PROVE  IInv'
<1>1. Types /\ opens' = opens /\ form[f] \in FormType
  BY OpenForm DEF IInv, Edit, counters
<1>2. opens' \in 0..MaxOpens
  BY <1>1 DEF Types
<1>3. PICK v \in ShownType : v = [form[f].shows EXCEPT !.from = Edited]
  BY <1>1 DEF FormType, ShownType, Values
<1>4. PICK s \in FormType : s = [form[f] EXCEPT !.shows = v]
  BY <1>1 DEF FormType
<1>5. s.pc = form[f].pc /\ s.mint = form[f].mint /\ s.sent = form[f].sent /\ s.todo = form[f].todo
  BY <1>1, <1>4 DEF FormType
<1>6. Moves(f, s) /\ UNCHANGED <<pending, tried, chain, database>>
  BY <1>3, <1>4 DEF Edit
<1> QED BY <1>1, <1>2, <1>5, <1>6, ShowsOnly

LEMMA SubmitStep ==
    ASSUME IInv, NEW f \in Forms, Submit(f)
    PROVE  IInv'
<1>1. Types /\ opens' = opens /\ form[f] \in FormType
  BY OpenForm DEF IInv, Submit
<1>2. opens' \in 0..MaxOpens
  BY <1>1 DEF Types
<1>3. PICK v \in ShownType : v = form[f].shows
  BY <1>1 DEF FormType
<1>4. PICK s \in FormType : s = [form[f] EXCEPT !.pc = "gate", !.sent = v]
  BY <1>1 DEF FormType
<1>5. s.pc = "gate" /\ s.mint = form[f].mint /\ s.sent = v /\ s.mint \in Ids /\ v.from \in Values
  BY <1>1, <1>3, <1>4 DEF FormType, ShownType
<1>6. Moves(f, s) /\ UNCHANGED <<pending, chain, database>>
  BY <1>3, <1>4 DEF Submit
<1>7. tried' = [tried EXCEPT ![s.mint] = tried[s.mint] \cup {v.from}]
  BY <1>3, <1>5 DEF Submit
<1>8. /\ tried' \in [Ids -> SUBSET Values]
      /\ \A m \in Ids : tried[m] \subseteq tried'[m]
      /\ v.from \in tried'[s.mint]
  BY <1>1, <1>5, <1>7 DEF Types
<1>9. FormInv(s)'
  BY <1>5, <1>8 DEF FormInv
<1> QED BY <1>2, <1>6, <1>8, <1>9, Moved

LEMMA LeaveStep ==
    ASSUME IInv, NEW f \in Forms, Leave(f)
    PROVE  IInv'
<1>1. /\ Types /\ opens' = opens /\ form[f] \in FormType /\ FormInv(form[f])
      /\ UNCHANGED <<pending, tried, chain, database>> /\ ledger' = ledger
  BY OpenForm DEF IInv, Leave, database
<1>2. /\ opens' \in 0..MaxOpens
      /\ tried' \in [Ids -> SUBSET Values] /\ \A m \in Ids : tried[m] \subseteq tried'[m]
  BY <1>1 DEF Types
<1>3. CASE form[f].pc = "idle"
  <2>1. Moves(f, Closed)
    BY <1>3 DEF Leave
  <2>2. FormInv(Closed)'
    BY DEF FormInv, Closed
  <2>3. PICK c \in FormType \cup {Closed} : c = Closed
    OBVIOUS
  <2>4. Closed' = Closed
    BY DEF Closed
  <2> QED BY <1>1, <1>2, <2>1, <2>2, <2>3, <2>4, Moved
<1>4. CASE form[f].pc # "idle"
  <2>1. PICK s \in FormType : s = [form[f] EXCEPT !.mounted = FALSE]
    BY <1>1 DEF FormType
  <2>2. s.pc = form[f].pc /\ s.mint = form[f].mint /\ s.sent = form[f].sent /\ s.todo = form[f].todo
    BY <1>1, <2>1 DEF FormType
  <2>3. Moves(f, s)
    BY <1>4, <2>1 DEF Leave
  <2> QED BY <1>1, <1>2, <2>2, <2>3, ShowsOnly
<1> QED BY <1>3, <1>4

(* A form at rest, or none. *)
LEMMA Rests ==
    ASSUME IInv, NEW f \in Forms, NEW r \in FormType \cup {Closed}, r.pc \in {"idle", "closed"},
           Moves(f, r), UNCHANGED <<pending, tried, chain, database, opens>>
    PROVE  IInv'
<1>1. /\ opens' \in 0..MaxOpens
      /\ tried' \in [Ids -> SUBSET Values] /\ \A m \in Ids : tried[m] \subseteq tried'[m]
  BY DEF IInv, Types
<1>2. FormInv(r)'
  BY RestingForm
<1> QED BY <1>1, <1>2, Moved

LEMMA CloseStep ==
    ASSUME IInv, NEW f \in Forms, Close(f)
    PROVE  IInv'
<1>1. PICK c \in FormType \cup {Closed} : c = Closed
  OBVIOUS
<1>2. c.pc = "closed"
  BY <1>1 DEF Closed
<1>3. Moves(f, c) /\ UNCHANGED <<pending, tried, chain, database, opens>>
  BY <1>1 DEF Close
<1> QED BY <1>2, <1>3, Rests

LEMMA EndsIInv ==
    ASSUME IInv, NEW f \in Forms, form[f] \in FormType, Moves(f, Ended(f)),
           UNCHANGED <<pending, tried, chain, database, opens>>
    PROVE  IInv'
<1>1. PICK e \in FormType \cup {Closed} : e = Ended(f) /\ e.pc \in {"idle", "closed"}
  BY EndedForm
<1>2. Moves(f, e)
  BY <1>1
<1> QED BY <1>1, <1>2, Rests

LEMMA FailStep ==
    ASSUME IInv, NEW f \in Forms, Fail(f)
    PROVE  IInv'
<1>1. form[f] \in FormType
  BY OpenForm DEF IInv, Fail
<1> QED BY <1>1, EndsIInv DEF Fail

-----------------------------------------------------------------------------
(* deployTokenSuite *)
LEMMA FormParts ==
    ASSUME NEW r \in FormType
    PROVE  /\ r.mint \in Ids /\ r.sent \in ShownType /\ r.todo \in SUBSET TxType
           /\ r.sent.id \in Ids /\ r.sent.from \in Values /\ r.sent.req \in Requests
BY DEF FormType, ShownType

LEMMA TxTyped ==
    ASSUME NEW f \in Forms, form[f] \in FormType, NEW k \in Kinds, NEW x \in Modules \cup {None}
    PROVE  /\ Tx(f, k, x) \in TxType
           /\ Tx(f, k, x).kind = k /\ Tx(f, k, x).mint = form[f].mint
           /\ Tx(f, k, x).module = x /\ Tx(f, k, x).from = form[f].sent.from
           /\ Tx(f, k, x).req = form[f].sent.req /\ Tx(f, k, x).country = None
<1>1. PICK r \in FormType : r = form[f]
  OBVIOUS
<1>2. /\ r.mint \in Ids /\ r.sent.id \in Ids /\ r.sent.from \in Values /\ r.sent.req \in Requests
  BY FormParts
<1> QED BY <1>1, <1>2 DEF Tx, TxType

LEMMA CountTxTyped ==
    ASSUME NEW f \in Forms, form[f] \in FormType, CountryCap \in Modules, NEW c \in Countries
    PROVE  /\ CountTx(f, c) \in TxType
           /\ CountTx(f, c).kind = "count" /\ CountTx(f, c).mint = form[f].mint
           /\ CountTx(f, c).country = c /\ CountTx(f, c).from = form[f].sent.from
<1>1. PICK tx \in TxType : /\ tx = Tx(f, "count", CountryCap) /\ tx.kind = "count"
                           /\ tx.mint = form[f].mint /\ tx.from = form[f].sent.from
  BY TxTyped DEF Kinds
<1>2. CountTx(f, c) = [tx EXCEPT !.country = c]
  BY <1>1 DEF CountTx
<1> QED BY <1>1, <1>2 DEF TxType

LEMMA AtTyped ==
    ASSUME NEW f \in Forms, form[f] \in FormType,
           NEW pc \in {"idle", "gate", "attest", "plan", "setup", "owners", "post", "patch"}
    PROVE  /\ At(f, pc) \in FormType /\ At(f, pc).pc = pc
           /\ At(f, pc).mint = form[f].mint /\ At(f, pc).sent = form[f].sent
           /\ At(f, pc).todo = form[f].todo
BY DEF At, FormType

(* Up to the plan a form only remembers what was submitted. *)
LEMMA Goes ==
    ASSUME IInv, NEW f \in Forms, form[f] \in FormType, form[f].pc \in {"gate", "attest"},
           NEW pc \in {"attest", "plan"}, Moves(f, At(f, pc)), Step,
           UNCHANGED <<chain, pending>>
    PROVE  IInv'
<1>1. PICK r \in FormType : r = At(f, pc) /\ r.pc = pc /\ r.mint = form[f].mint /\ r.sent = form[f].sent
  BY AtTyped
<1>2. tried' = tried /\ opens' = opens /\ UNCHANGED database
  BY DEF Step
<1>3. FormInv(form[f]) /\ Types
  BY DEF IInv
<1>4. FormInv(r)'
  BY <1>1, <1>2, <1>3 DEF FormInv
<1>5. /\ opens' \in 0..MaxOpens
      /\ tried' \in [Ids -> SUBSET Values] /\ \A m \in Ids : tried[m] \subseteq tried'[m]
  BY <1>2, <1>3 DEF Types
<1>6. Moves(f, r)
  BY <1>1
<1> QED BY <1>1, <1>2, <1>4, <1>5, <1>6, Moved

LEMMA SendsAndGoes ==
    ASSUME IInv, NEW f \in Forms, form[f] \in FormType, form[f].pc \in {"gate", "attest"},
           NEW pc \in {"attest", "plan"}, NEW k \in {"mandate", "custody"}, Step,
           Sends(f, Tx(f, k, None), At(f, pc))
    PROVE  IInv'
<1>1. PICK r \in FormType : r = At(f, pc) /\ r.pc = pc /\ r.mint = form[f].mint /\ r.sent = form[f].sent
  BY AtTyped
<1>2. tried' = tried
  BY DEF Step
<1>3. FormInv(form[f]) /\ Types
  BY DEF IInv
<1>4. FormInv(r)'
  BY <1>1, <1>2, <1>3 DEF FormInv
<1>5. PICK tx \in TxType : /\ tx = Tx(f, k, None) /\ tx.kind = k /\ tx.mint = form[f].mint
                           /\ tx.from = form[f].sent.from
  BY TxTyped DEF Kinds
<1>6. TxInv(tx)
  BY <1>3, <1>5 DEF TxInv, FormInv
<1>7. Sends(f, tx, r)
  BY <1>1, <1>5
<1> QED BY <1>4, <1>6, <1>7, Sent

LEMMA GateStep ==
    ASSUME IInv, NEW f \in Forms, Gate(f)
    PROVE  IInv'
<1>1. form[f] \in FormType /\ form[f].pc = "gate" /\ Step
  BY OpenForm DEF IInv, Gate
<1>2. CASE Sends(f, Tx(f, "mandate", None), At(f, "attest"))
  BY <1>1, <1>2, SendsAndGoes
<1>3. CASE Moves(f, At(f, "attest")) /\ UNCHANGED <<chain, pending, faults>>
  BY <1>1, <1>3, Goes
<1> QED BY <1>2, <1>3 DEF Gate

LEMMA AttestStep ==
    ASSUME IInv, NEW f \in Forms, Attest(f)
    PROVE  IInv'
<1>1. form[f] \in FormType /\ form[f].pc = "attest" /\ Step
  BY OpenForm DEF IInv, Attest
<1>2. CASE Sends(f, Tx(f, "custody", None), At(f, "plan"))
  BY <1>1, <1>2, SendsAndGoes
<1>3. CASE Moves(f, At(f, "plan")) /\ UNCHANGED <<chain, pending, faults>>
  BY <1>1, <1>3, Goes
<1>4. CASE Moves(f, Ended(f)) /\ UNCHANGED <<chain, pending, faults>>
  BY <1>1, <1>4, EndsIInv DEF Step
<1>5. \/ Sends(f, Tx(f, "custody", None), At(f, "plan"))
      \/ Moves(f, At(f, "plan")) /\ UNCHANGED <<chain, pending, faults>>
      \/ Moves(f, Ended(f)) /\ UNCHANGED <<chain, pending, faults>>
  BY DEF Attest
<1> QED BY <1>2, <1>3, <1>4, <1>5

(* The plan misses no account. *)
LEMMA PlanCovers ==
    ASSUME Types, NEW f \in Forms, form[f] \in FormType, form[f].sent.from \in tried[form[f].mint]
    PROVE  /\ SetupTransactions(f) \in SUBSET TxType
           /\ Covered(form[f].mint, SetupTransactions(f))
           /\ CountCovered(form[f].mint, form[f].sent.from, SetupTransactions(f))
           /\ \A tx \in SetupTransactions(f) : tx.mint = form[f].mint /\ TxInv(tx)
<1> DEFINE todo == SetupTransactions(f)
           m == form[f].mint
<1>1. m \in Ids
  BY FormParts
<1>2. ASSUME NEW tx \in todo
      PROVE  \/ tx = Tx(f, "mint", None)
             \/ \E x \in Modules : tx = Tx(f, "init", x) \/ tx = Tx(f, "hook", x)
             \/ CountryCap \in Modules /\ \E c \in CapsOf[form[f].sent.from] : tx = CountTx(f, c)
  BY DEF SetupTransactions, ModuleTxs, CountTxs
<1>6. form[f].sent.from \in Values /\ CapsOf[form[f].sent.from] \subseteq Countries
  BY FormParts, DeploymentAssumption DEF Values
<1>3. ASSUME NEW tx \in todo
      PROVE  tx \in TxType /\ tx.mint = m /\ TxInv(tx)
  <2>1. CASE tx = Tx(f, "mint", None)
    <3>1. tx \in TxType /\ tx.mint = m /\ tx.kind = "mint" /\ tx.from = form[f].sent.from
      BY <2>1, TxTyped DEF Kinds
    <3> QED BY <3>1 DEF TxInv
  <2>2. ASSUME NEW x \in Modules, tx = Tx(f, "init", x) \/ tx = Tx(f, "hook", x)
        PROVE  tx \in TxType /\ tx.mint = m /\ TxInv(tx)
    <3>1. /\ tx \in TxType /\ tx.mint = m /\ tx.from = form[f].sent.from
          /\ tx.kind \in {"init", "hook"} /\ tx.module = x
      BY <2>2, TxTyped DEF Kinds
    <3> QED BY <2>2, <3>1 DEF TxInv
  <2>3. ASSUME CountryCap \in Modules, NEW c \in CapsOf[form[f].sent.from], tx = CountTx(f, c)
        PROVE  tx \in TxType /\ tx.mint = m /\ TxInv(tx)
    <3>1. /\ tx \in TxType /\ tx.mint = m /\ tx.from = form[f].sent.from
          /\ tx.kind = "count" /\ tx.country = c /\ c \in Countries
      BY <1>6, <2>3, CountTxTyped
    <3> QED BY <3>1 DEF TxInv
  <2> QED BY <1>2, <1>3, <2>1, <2>2, <2>3
<1>4. minted[m] # None \/ \E tx \in todo : tx.kind = "mint"
  <2>1. Tx(f, "mint", None).kind = "mint"
    BY TxTyped DEF Kinds
  <2>2. minted[m] = None => Tx(f, "mint", None) \in todo
    BY DEF SetupTransactions
  <2> QED BY <2>1, <2>2
<1>5. ASSUME NEW x \in Modules
      PROVE  /\ modules[m][x].from # None \/ \E tx \in todo : tx.kind = "init" /\ tx.module = x
             /\ x \in Stateful => \E tx \in todo : tx.kind = "hook" /\ tx.module = x
  <2>1. /\ Tx(f, "init", x).kind = "init" /\ Tx(f, "init", x).module = x
        /\ Tx(f, "hook", x).kind = "hook" /\ Tx(f, "hook", x).module = x
    BY TxTyped DEF Kinds
  <2>2. /\ modules[m][x].from = None => Tx(f, "init", x) \in ModuleTxs(f, x)
        /\ x \in Stateful => Tx(f, "hook", x) \in ModuleTxs(f, x)
    BY DEF ModuleTxs
  <2>3. ModuleTxs(f, x) \subseteq todo
    BY DEF SetupTransactions
  <2> QED BY <2>1, <2>2, <2>3
<1>7. ASSUME CountryCap \in Modules, NEW c \in CapsOf[form[f].sent.from], c \notin counts[m]
      PROVE  \E tx \in todo : tx.kind = "count" /\ tx.country = c
  <2>1. CountTx(f, c).kind = "count" /\ CountTx(f, c).country = c
    BY <1>6, <1>7, CountTxTyped
  <2>2. CountTx(f, c) \in ModuleTxs(f, CountryCap)
    BY <1>7 DEF ModuleTxs, CountTxs
  <2>3. ModuleTxs(f, CountryCap) \subseteq todo
    BY <1>7 DEF SetupTransactions
  <2> QED BY <2>1, <2>2, <2>3
<1>8. CountCovered(m, form[f].sent.from, todo)
  BY <1>7 DEF CountCovered
<1> QED BY <1>3, <1>4, <1>5, <1>8 DEF Covered

LEMMA PlanStep ==
    ASSUME IInv, NEW f \in Forms, Plan(f)
    PROVE  IInv'
<1>1. /\ form[f] \in FormType /\ Types /\ FormInv(form[f]) /\ form[f].pc = "plan"
      /\ tried' = tried /\ opens' = opens /\ UNCHANGED <<pending, chain, database>>
  BY OpenForm DEF IInv, Plan, Step
<1>2. form[f].sent.from \in tried[form[f].mint]
  BY <1>1 DEF FormInv
<1>3. PICK t \in SUBSET TxType : t = SetupTransactions(f)
  BY <1>1, <1>2, PlanCovers
<1>4. /\ Covered(form[f].mint, t) /\ CountCovered(form[f].mint, form[f].sent.from, t)
      /\ \A tx \in t : tx.mint = form[f].mint /\ TxInv(tx)
  BY <1>1, <1>2, <1>3, PlanCovers
<1>5. PICK r \in FormType : r = [form[f] EXCEPT !.pc = "setup", !.todo = t]
  BY <1>1 DEF FormType
<1>6. r.pc = "setup" /\ r.todo = t /\ r.mint = form[f].mint /\ r.sent = form[f].sent
  BY <1>1, <1>5 DEF FormType
<1>7. FormInv(r)
  BY <1>2, <1>4, <1>6 DEF FormInv
<1>8. \A m \in Ids : tried[m] \subseteq tried'[m]
  BY <1>1
<1>9. FormInv(r)'
  BY <1>1, <1>7, <1>8, ChainStays, FormStays DEF database
<1>10. Moves(f, r)
  BY <1>3, <1>5 DEF Plan
<1>11. opens' \in 0..MaxOpens /\ tried' \in [Ids -> SUBSET Values]
  BY <1>1 DEF Types
<1> QED BY <1>1, <1>8, <1>9, <1>10, <1>11, Moved

LEMMA SetupStep ==
    ASSUME IInv, NEW f \in Forms, Setup(f)
    PROVE  IInv'
<1>1. /\ form[f] \in FormType /\ Types /\ FormInv(form[f]) /\ form[f].pc = "setup"
      /\ tried' = tried /\ ledger' = ledger /\ Step /\ OnChain
  BY OpenForm DEF IInv, Setup, Step, database
<1>2. PICK tx \in form[f].todo : Sends(f, tx, [form[f] EXCEPT !.todo = form[f].todo \ {tx}])
  BY DEF Setup
<1>3. PICK o \in FormType : o = form[f]
  BY <1>1
<1>4. /\ tx \in TxType /\ o.todo \in SUBSET TxType /\ o.mint \in Ids
      /\ Covered(o.mint, o.todo) /\ CountCovered(o.mint, o.sent.from, o.todo)
      /\ \A u \in o.todo : u.mint = o.mint /\ TxInv(u)
      /\ o.sent.from \in tried[o.mint] /\ o.pc = "setup"
  BY <1>1, <1>2, <1>3, FormParts DEF FormInv
<1>5. PICK r \in FormType : r = [o EXCEPT !.todo = o.todo \ {tx}]
  BY <1>4 DEF FormType
<1>6. r.pc = "setup" /\ r.todo = o.todo \ {tx} /\ r.mint = o.mint /\ r.sent = o.sent
  BY <1>4, <1>5 DEF FormType
<1>7. TxInv(tx) /\ tx.mint = o.mint
  BY <1>2, <1>3, <1>4
<1>8. ASSUME Accepts(tx), Apply(tx)
      PROVE  FormInv(r)'
  <2>1. /\ Grown
        /\ tx.kind = "mint" => minted'[tx.mint] # None
        /\ tx.kind = "init" => modules'[tx.mint][tx.module].from # None
        /\ tx.kind = "hook" => modules'[tx.mint][tx.module].hooked
        /\ tx.kind = "count" => tx.country \in counts'[tx.mint]
    BY <1>1, <1>4, <1>7, <1>8, Applied
  <2>2. Covered(r.mint, r.todo)'
    <3>1. minted'[o.mint] # None \/ \E u \in o.todo \ {tx} : u.kind = "mint"
      BY <1>4, <1>7, <2>1 DEF Covered, Grown
    <3>2. ASSUME NEW x \in Modules
          PROVE  /\ \/ modules'[o.mint][x].from # None
                    \/ \E u \in o.todo \ {tx} : u.kind = "init" /\ u.module = x
                 /\ x \in Stateful => \/ modules'[o.mint][x].hooked
                                      \/ \E u \in o.todo \ {tx} : u.kind = "hook" /\ u.module = x
      BY <1>4, <1>7, <2>1, <3>2 DEF Covered, Grown
    <3> QED BY <1>6, <3>1, <3>2 DEF Covered
  <2>3. \A m \in Ids : tried[m] \subseteq tried'[m]
    BY <1>1
  <2>4. ASSUME NEW u \in o.todo
        PROVE  TxInv(u)'
    <3>1. u \in TxType /\ TxInv(u)
      BY <1>4
    <3> QED BY <2>1, <2>3, <3>1, TxStays
  <2>5. CountCovered(r.mint, r.sent.from, r.todo)'
    <3>1. ASSUME CountryCap \in Modules, NEW c \in CapsOf[o.sent.from]
          PROVE  \/ c \in counts'[o.mint]
                 \/ \E u \in o.todo \ {tx} : u.kind = "count" /\ u.country = c
      BY <1>4, <1>7, <2>1, <3>1 DEF CountCovered, Grown
    <3> QED BY <1>6, <3>1 DEF CountCovered
  <2> QED BY <1>1, <1>4, <1>6, <2>2, <2>4, <2>5 DEF FormInv
<1>9. Sends(f, tx, r)
  BY <1>2, <1>3, <1>5
<1> QED BY <1>1, <1>4, <1>7, <1>8, <1>9, Sent

(* Nothing left to do: the deployment finds its accounts. *)
LEMMA DeploySuiteStep ==
    ASSUME IInv, NEW f \in Forms, DeploySuite(f)
    PROVE  IInv'
<1>1. /\ form[f] \in FormType /\ Types /\ FormInv(form[f]) /\ form[f].pc = "setup"
      /\ tried' = tried /\ Step /\ OnChain /\ form[f].todo = {}
  BY OpenForm DEF IInv, DeploySuite, Step
<1>2. /\ Prepared(form[f].mint) /\ Counted(form[f].mint, form[f].sent.from)
      /\ form[f].sent.from \in tried[form[f].mint]
  BY <1>1 DEF FormInv, Covered, Prepared, CountCovered, Counted
<1>3. PICK tx \in TxType : /\ tx = Tx(f, "suite", None) /\ tx.kind = "suite" /\ tx.mint = form[f].mint
                           /\ tx.from = form[f].sent.from /\ tx.req = form[f].sent.req
  BY <1>1, TxTyped DEF Kinds
<1>4. TxInv(tx)
  BY <1>2, <1>3 DEF TxInv
<1>5. PICK r \in FormType : /\ r = At(f, "owners") /\ r.pc = "owners" /\ r.mint = form[f].mint
                            /\ r.sent = form[f].sent
  BY <1>1, AtTyped
<1>6. ASSUME Accepts(tx), Apply(tx)
      PROVE  FormInv(r)'
  <2>1. suite' = [suite EXCEPT ![tx.mint] = [req |-> tx.req, from |-> tx.from]]
    BY <1>1, <1>3, <1>4, <1>6, Applied
  <2>2. tx.mint \in Ids
    BY DEF TxType
  <2>3. suite'[tx.mint] = [req |-> tx.req, from |-> tx.from]
    BY <1>1, <2>1, <2>2 DEF Types
  <2> QED BY <1>1, <1>2, <1>3, <1>5, <2>3 DEF FormInv
<1>7. Sends(f, tx, r)
  BY <1>3, <1>5 DEF DeploySuite
<1> QED BY <1>1, <1>4, <1>6, <1>7, Sent

LEMMA CheckOwnersStep ==
    ASSUME IInv, NEW f \in Forms, CheckOwners(f)
    PROVE  IInv'
<1>1. /\ form[f] \in FormType /\ Types /\ FormInv(form[f]) /\ form[f].pc = "owners"
      /\ UNCHANGED <<pending, tried, chain, database, opens>>
  BY OpenForm DEF IInv, CheckOwners, Step
<1>2. CASE form[f].mounted
  <2>1. PICK r \in FormType : /\ r = At(f, "post") /\ r.pc = "post" /\ r.mint = form[f].mint
                              /\ r.sent = form[f].sent
    BY <1>1, AtTyped
  <2>2. FormInv(r)'
    BY <1>1, <2>1 DEF FormInv, chain
  <2>3. Moves(f, r)
    BY <1>2, <2>1 DEF CheckOwners
  <2>4. /\ opens' \in 0..MaxOpens
        /\ tried' \in [Ids -> SUBSET Values] /\ \A m \in Ids : tried[m] \subseteq tried'[m]
    BY <1>1 DEF Types
  <2> QED BY <1>1, <2>2, <2>3, <2>4, Moved
<1>3. CASE ~form[f].mounted
  <2>1. Moves(f, Ended(f))
    BY <1>3 DEF CheckOwners, Ended
  <2> QED BY <1>1, <2>1, EndsIInv
<1> QED BY <1>2, <1>3

-----------------------------------------------------------------------------
(* onSuccess *)
LEMMA PostStep ==
    ASSUME IInv, NEW f \in Forms, Post(f)
    PROVE  IInv'
<1>1. /\ form[f] \in FormType /\ Types /\ FormInv(form[f]) /\ form[f].pc = "post"
      /\ UNCHANGED <<pending, tried, chain, request, opens>> /\ OnChain /\ InDatabase
      /\ \A g \in Forms : FormInv(form[g])
      /\ \A u \in pending : TxInv(u)
  BY OpenForm DEF IInv, Post
<1>2. PICK o \in FormType : o = form[f]
  BY <1>1
<1>3. PICK v \in SuiteType : v = [req |-> o.sent.req, from |-> o.sent.from]
  BY FormParts DEF SuiteType
<1>4. o.mint \in Ids /\ suite[o.mint] = v /\ v # None /\ o.sent.from \in tried[o.mint]
  BY <1>1, <1>2, <1>3, FormParts, SuitesAreSomething DEF FormInv
<1>5. asset' = [asset EXCEPT ![o.mint] = v] /\ ledger' \in {ledger, ledger \cup {o.mint}}
  BY <1>2, <1>3 DEF Post, Recorded
<1>6. PICK r \in FormType \cup {Closed} :
        /\ Moves(f, r)
        /\ \/ r.pc \in {"idle", "closed"}
           \/ /\ r.pc = "patch" /\ r.mint = o.mint /\ r.sent = o.sent
              /\ ledger' = ledger \cup {o.mint}
  <2>1. CASE Moves(f, At(f, "patch")) /\ ledger' = ledger \cup {o.mint}
    BY <1>1, <1>2, <2>1, AtTyped
  <2>2. CASE Moves(f, Ended(f))
    BY <1>1, <2>2, EndedForm
  <2> QED BY <1>2, <2>1, <2>2 DEF Post
<1>7. Grown /\ suite' = suite /\ tried' = tried /\ opens' = opens /\ request' = request
  BY <1>1, ChainStays DEF chain
<1>8. FormInv(r)'
  BY <1>3, <1>4, <1>6, <1>7 DEF FormInv
<1>9. ledger \subseteq ledger' /\ \A m \in Ids : tried[m] \subseteq tried'[m]
  BY <1>1, <1>5
<1>10. /\ form' \in [Forms -> FormType \cup {Closed}]
       /\ \A g \in Forms : FormInv(form[g])'
  BY <1>1, <1>6, <1>7, <1>8, <1>9, OneForm
<1>11. \A u \in pending' : TxInv(u)'
  BY <1>1, <1>7, <1>9, PendingStay
<1>12. OnChain'
  BY <1>1 DEF OnChain, chain, Prepared, Counted
<1>13. Types'
  BY <1>1, <1>4, <1>5, <1>10 DEF Types, chain
<1>14. /\ \A m \in Ids : asset'[m] # None => suite'[m] = asset'[m]
       /\ \A m \in ledger' : suite'[m] # None
  BY <1>1, <1>4, <1>5, <1>7 DEF InDatabase, Types
<1>15. DeployedNamesItsSuite'
  BY <1>1, <1>7, <1>9 DEF InDatabase, DeployedNamesItsSuite
<1>16. InDatabase'
  BY <1>14, <1>15 DEF InDatabase
<1> QED BY <1>10, <1>11, <1>12, <1>13, <1>16 DEF IInv

LEMMA PatchStep ==
    ASSUME IInv, NEW f \in Forms, Patch(f)
    PROVE  IInv'
<1>1. /\ form[f] \in FormType /\ Types /\ FormInv(form[f]) /\ form[f].pc = "patch"
      /\ UNCHANGED <<pending, tried, chain, ledger, asset, opens>> /\ OnChain /\ InDatabase
      /\ \A g \in Forms : FormInv(form[g])
      /\ \A u \in pending : TxInv(u)
  BY OpenForm DEF IInv, Patch
<1>2. PICK o \in FormType : o = form[f]
  BY <1>1
<1>3. PICK v \in SuiteType : v = [req |-> o.sent.req, from |-> o.sent.from]
  BY FormParts DEF SuiteType
<1>4. /\ o.mint \in Ids /\ suite[o.mint] = v /\ v # None /\ o.mint \in ledger
      /\ o.sent.req \in Requests /\ v.req = o.sent.req
  BY <1>1, <1>2, <1>3, FormParts, SuitesAreSomething DEF FormInv
<1>5. request' = [request EXCEPT ![o.sent.req] = [status |-> "DEPLOYED", deployed |-> o.mint]]
  BY <1>2 DEF Patch, Marked
<1>6. PICK r \in FormType \cup {Closed} : Moves(f, r) /\ r.pc \in {"idle", "closed"}
  <2>1. CASE Moves(f, Closed)
    BY <2>1 DEF Closed
  <2>2. CASE Moves(f, Ended(f))
    BY <1>1, <2>2, EndedForm
  <2> QED BY <2>1, <2>2 DEF Patch
<1>7. Grown /\ suite' = suite /\ ledger' = ledger /\ asset' = asset
  BY <1>1, ChainStays DEF chain
<1>8. FormInv(r)'
  BY <1>6, RestingForm
<1>9. ledger \subseteq ledger' /\ \A m \in Ids : tried[m] \subseteq tried'[m]
  BY <1>1
<1>10. /\ form' \in [Forms -> FormType \cup {Closed}]
       /\ \A g \in Forms : FormInv(form[g])'
  BY <1>1, <1>6, <1>7, <1>8, <1>9, OneForm
<1>11. \A u \in pending' : TxInv(u)'
  BY <1>1, <1>7, <1>9, PendingStay
<1>12. OnChain'
  BY <1>1 DEF OnChain, chain, Prepared, Counted
<1>13. request' \in [Requests -> [status : ASSET_REQUEST_STATUSES, deployed : Ids \cup {None}]]
  BY <1>1, <1>4, <1>5 DEF Types, ASSET_REQUEST_STATUSES
<1>14. Types'
  BY <1>1, <1>10, <1>13 DEF Types, chain
<1>15. ASSUME NEW q \in Requests, request'[q].status = "DEPLOYED"
       PROVE  /\ request'[q].deployed \in Ids /\ suite[request'[q].deployed] # None
              /\ suite[request'[q].deployed].req = q /\ request'[q].deployed \in ledger
  <2>1. CASE q = o.sent.req
    <3>1. request'[q] = [status |-> "DEPLOYED", deployed |-> o.mint]
      BY <1>1, <1>4, <1>5, <2>1 DEF Types
    <3>2. request'[q].deployed = o.mint
      BY <3>1
    <3> QED BY <1>4, <2>1, <3>2
  <2>2. CASE q # o.sent.req
    <3>1. request'[q] = request[q]
      BY <1>1, <1>4, <1>5, <2>2 DEF Types
    <3> QED BY <1>1, <1>15, <3>1 DEF InDatabase, DeployedNamesItsSuite
  <2> QED BY <2>1, <2>2
<1>16. InDatabase'
  BY <1>1, <1>7, <1>15 DEF InDatabase, DeployedNamesItsSuite
<1> QED BY <1>10, <1>11, <1>12, <1>14, <1>16 DEF IInv

-----------------------------------------------------------------------------
(* Late transactions and the custodian. *)
LEMMA LandStep ==
    ASSUME IInv, NEW tx \in pending, Land(tx)
    PROVE  IInv'
<1>1. /\ Types /\ OnChain /\ InDatabase /\ tx \in TxType /\ TxInv(tx)
      /\ \A g \in Forms : FormInv(form[g])
      /\ \A u \in pending : TxInv(u)
      /\ Accepts(tx) /\ Apply(tx) /\ tried' = tried /\ form' = form /\ UNCHANGED database
      /\ request' = request /\ ledger' = ledger /\ asset' = asset
      /\ pending' = pending \ {tx} /\ opens' = opens
  BY DEF IInv, Types, Land, database, counters
<1>2. /\ Grown /\ OnChain'
      /\ mandate' \in [Ids -> {"none", "created", "active", "released"}]
      /\ attested' \in [Ids -> {"none", "valid", "expired"}]
      /\ minted' \in [Ids -> Values \cup {None}]
      /\ modules' \in [Ids -> [Modules -> ModuleType]]
      /\ counts' \in [Ids -> SUBSET Countries]
      /\ suite' \in [Ids -> SuiteType \cup {None}]
  BY <1>1, Applied
<1>3. \A g \in Forms : FormInv(form[g])'
  BY <1>1, <1>2, OtherForms
<1>4. \A u \in pending' : TxInv(u)'
  BY <1>1, <1>2, PendingStay
<1>5. Types'
  BY <1>1, <1>2 DEF Types
<1>6. InDatabase'
  BY <1>1, <1>2, DatabaseStays
<1> QED BY <1>2, <1>3, <1>4, <1>5, <1>6 DEF IInv

LEMMA OutsideStep ==
    ASSUME IInv, UNCHANGED <<form, tried, minted, modules, suite, database, opens>>,
           \A m \in Ids : counts[m] \subseteq counts'[m], counts' \in [Ids -> SUBSET Countries],
           pending' \subseteq pending,
           mandate' \in [Ids -> {"none", "created", "active", "released"}],
           attested' \in [Ids -> {"none", "valid", "expired"}]
    PROVE  IInv'
<1>1. /\ Types /\ OnChain /\ InDatabase
      /\ \A g \in Forms : FormInv(form[g])
      /\ \A u \in pending : TxInv(u)
      /\ tried' = tried /\ form' = form /\ UNCHANGED database
      /\ request' = request /\ ledger' = ledger /\ asset' = asset /\ opens' = opens
  BY DEF IInv, database
<1>2. Grown
  BY DEF Grown
<1>3. \A g \in Forms : FormInv(form[g])'
  BY <1>1, <1>2, OtherForms
<1>4. \A u \in pending' : TxInv(u)'
  BY <1>1, <1>2, PendingStay
<1>5. Types'
  BY <1>1 DEF Types
<1>6. InDatabase'
  BY <1>1, <1>2, DatabaseStays
<1>7. OnChain'
  BY <1>1 DEF OnChain, Prepared, Counted
<1> QED BY <1>3, <1>4, <1>5, <1>6, <1>7 DEF IInv

LEMMA DropStep ==
    ASSUME IInv, NEW tx \in pending, Drop(tx)
    PROVE  IInv'
<1>1. /\ mandate' \in [Ids -> {"none", "created", "active", "released"}]
      /\ attested' \in [Ids -> {"none", "valid", "expired"}]
      /\ UNCHANGED <<form, tried, minted, modules, suite, database, opens>>
      /\ \A m \in Ids : counts[m] \subseteq counts'[m]
      /\ counts' \in [Ids -> SUBSET Countries]
      /\ pending' \subseteq pending
  BY DEF IInv, Types, Drop, chain, counters
<1> QED BY <1>1, OutsideStep

LEMMA CustodianStep ==
    ASSUME IInv, NEW a \in Ids, CustodianSigns(a) \/ Release(a) \/ Lapse(a)
    PROVE  IInv'
<1>1. /\ mandate' \in [Ids -> {"none", "created", "active", "released"}]
      /\ attested' \in [Ids -> {"none", "valid", "expired"}]
      /\ UNCHANGED <<form, tried, minted, modules, suite, database, opens>>
      /\ \A m \in Ids : counts[m] \subseteq counts'[m]
      /\ counts' \in [Ids -> SUBSET Countries]
      /\ pending' \subseteq pending
  BY DEF IInv, Types, CustodianSigns, Release, Lapse, counters
<1> QED BY <1>1, OutsideStep

-----------------------------------------------------------------------------
LEMMA CountStep ==
    ASSUME IInv, NEW m \in Ids, NEW c \in Countries, InitializeCountryCount(m, c)
    PROVE  IInv'
<1>1. /\ counts \in [Ids -> SUBSET Countries] /\ counts' = [counts EXCEPT ![m] = @ \cup {c}]
      /\ mandate' \in [Ids -> {"none", "created", "active", "released"}]
      /\ attested' \in [Ids -> {"none", "valid", "expired"}]
      /\ UNCHANGED <<form, tried, minted, modules, suite, database, opens>>
      /\ pending' \subseteq pending
  BY DEF IInv, Types, InitializeCountryCount
<1>2. (\A k \in Ids : counts[k] \subseteq counts'[k]) /\ counts' \in [Ids -> SUBSET Countries]
  BY <1>1
<1> QED BY <1>1, <1>2, OutsideStep

LEMMA InitInvariant ==
    ASSUME Init
    PROVE  IInv
<1>1. Types
  BY DeploymentAssumption DEF Init, Types, ASSET_REQUEST_STATUSES, ModuleType
<1>2. \A f \in Forms : FormInv(form[f])
  BY DEF Init, FormInv, Closed
<1>3. OnChain
  BY DEF Init, OnChain
<1>4. InDatabase
  BY DEF Init, InDatabase, DeployedNamesItsSuite
<1> QED BY <1>1, <1>2, <1>3, <1>4 DEF IInv, Init

LEMMA NextInvariant ==
    ASSUME IInv, [Next]_vars
    PROVE  IInv'
<1>1. CASE UNCHANGED vars
  <2>1. /\ mandate' \in [Ids -> {"none", "created", "active", "released"}]
        /\ attested' \in [Ids -> {"none", "valid", "expired"}]
        /\ UNCHANGED <<form, tried, minted, modules, suite, database, opens>>
        /\ \A m \in Ids : counts[m] \subseteq counts'[m]
        /\ counts' \in [Ids -> SUBSET Countries]
        /\ pending' \subseteq pending
    BY <1>1 DEF IInv, Types, vars, chain, counters
  <2> QED BY <2>1, OutsideStep
<1>2. CASE \E q \in Requests, s \in ASSET_REQUEST_STATUSES : Decide(q, s)
  BY <1>2, DecideStep
<1>3. ASSUME NEW f \in Forms,
             \/ \E q \in Requests : SwitchRequest(f, q) \/ \E admin \in BOOLEAN : Open(f, q, admin)
             \/ ApproveDocuments(f) \/ Edit(f) \/ Submit(f) \/ Leave(f) \/ Close(f)
             \/ Gate(f) \/ Attest(f) \/ Plan(f) \/ Setup(f) \/ DeploySuite(f) \/ CheckOwners(f)
             \/ Post(f) \/ Patch(f) \/ Fail(f)
      PROVE  IInv'
  BY <1>3, SwitchStep, OpenStep, ApproveStep, EditStep, SubmitStep, LeaveStep, CloseStep, GateStep,
     AttestStep, PlanStep, SetupStep, DeploySuiteStep, CheckOwnersStep, PostStep, PatchStep, FailStep
<1>4. CASE \E tx \in pending : Land(tx) \/ Drop(tx)
  BY <1>4, LandStep, DropStep
<1>5. CASE \E a \in Ids : CustodianSigns(a) \/ Release(a) \/ Lapse(a)
  BY <1>5, CustodianStep
<1>6. CASE \E m \in Ids, c \in Countries : InitializeCountryCount(m, c)
  BY <1>6, CountStep
<1> QED BY <1>1, <1>2, <1>3, <1>4, <1>5, <1>6 DEF Next

(* What follows one mint through its attempts holds of every reachable state. *)
THEOREM DeploymentInvariant == Spec => []IInv
<1>1. Init => IInv
  BY InitInvariant
<1>2. IInv /\ [Next]_vars => IInv'
  BY NextInvariant
<1> QED BY <1>1, <1>2, PTL DEF Spec

(* Every row, account and form has its type, whatever the attempts left       *)
(* behind.                                                                    *)
THEOREM TypeCorrect == Spec => []TypeOK
<1>1. IInv => TypeOK
  <2> SUFFICES ASSUME Types PROVE TypeOK
    BY DEF IInv
  <2>1. \A q \in Requests : /\ request[q].status \in ASSET_REQUEST_STATUSES
                            /\ request[q].deployed \in Ids \cup {None}
    BY DEF Types
  <2>2. ASSUME NEW f \in Forms
        PROVE  form[f].pc \in {"closed", "idle", "gate", "attest", "plan", "setup",
                               "owners", "post", "patch"}
    BY DEF Types, FormType, Closed
  <2> QED BY <2>1, <2>2 DEF Types, TypeOK, ModuleType, SuiteType
<1> QED BY <1>1, DeploymentInvariant, PTL

(* A suite that deploy_token_suite created has its mint, and each of its      *)
(* compliance modules initialized and with its hook authority, and a count    *)
(* account for every country that the values it was deployed with cap,        *)
(* whatever earlier attempts with that mint left behind and in whatever order *)
(* transactions that were given up on landed.                                 *)
THEOREM SuiteReadyCorrect == Spec => []SuiteIsReady
<1>1. IInv => SuiteIsReady
  BY DEF IInv, OnChain, Prepared, Counted, SuiteIsReady
<1> QED BY <1>1, DeploymentInvariant, PTL

(* The asset that POST /assets/deployed upserts is the suite on chain; with   *)
(* only one set of values submitted for the mint, its accounts have those.    *)
THEOREM RecordedCorrect == Spec => []RecordedAsDeployed
<1>1. IInv => RecordedAsDeployed
  <2> SUFFICES ASSUME IInv, NEW m \in Ids, asset[m] # None
               PROVE  /\ suite[m] = asset[m]
                      /\ tried[m] = {asset[m].from} =>
                            /\ minted[m] = asset[m].from
                            /\ \A x \in Modules : modules[m][x].from = asset[m].from
    BY DEF RecordedAsDeployed
  <2>1. suite[m] = asset[m]
    BY DEF IInv, InDatabase
  <2>2. Prepared(m)
    BY <2>1 DEF IInv, OnChain
  <2>3. minted[m] \in tried[m] /\ \A x \in Modules : modules[m][x].from \in tried[m]
    BY <2>2 DEF IInv, OnChain, Prepared
  <2> QED BY <2>1, <2>3
<1> QED BY <1>1, DeploymentInvariant, PTL

(* A request that the form's PATCH marked DEPLOYED, and nobody decided upon   *)
(* since, names a suite on chain, deployed for it and in the ledger.          *)
THEOREM DeployedCorrect == Spec => []DeployedNamesItsSuite
<1>1. IInv => DeployedNamesItsSuite
  BY DEF IInv, InDatabase
<1> QED BY <1>1, DeploymentInvariant, PTL

-----------------------------------------------------------------------------
(* One suite appears. *)
Deployed ==
    /\ ledger' = ledger
    /\ \E m \in Ids, s \in SuiteType : suite[m] = None /\ suite' = [suite EXCEPT ![m] = s]

LEMMA AppliedSuite ==
    ASSUME Types, OnChain, NEW tx \in TxType, TxInv(tx), Accepts(tx), Apply(tx), tried' = tried,
           ledger' = ledger
    PROVE  Deployed \/ UNCHANGED <<suite, ledger>>
<1>1. CASE tx.kind = "suite"
  <2>1. suite[tx.mint] = None /\ suite' = [suite EXCEPT ![tx.mint] = [req |-> tx.req, from |-> tx.from]]
    BY <1>1, Applied
  <2>2. tx.mint \in Ids /\ [req |-> tx.req, from |-> tx.from] \in SuiteType
    BY DEF TxType, SuiteType
  <2> QED BY <2>1, <2>2 DEF Deployed
<1>2. CASE tx.kind # "suite"
  BY <1>2, Applied
<1> QED BY <1>1, <1>2

LEMMA SuitesStay ==
    ASSUME IInv, [Next]_vars
    PROVE  \/ Deployed \/ UNCHANGED <<suite, ledger>>
           \/ suite' = suite /\ \E m \in Ids : suite[m] # None /\ ledger' = ledger \cup {m}
<1>1. ASSUME NEW f \in Forms, NEW tx \in TxType, TxInv(tx), NEW r, Sends(f, tx, r), Step
      PROVE  Deployed \/ UNCHANGED <<suite, ledger>>
  <2>1. Types /\ OnChain /\ tried' = tried /\ ledger' = ledger
    BY <1>1 DEF IInv, Step, database
  <2>2. CASE Accepts(tx) /\ Apply(tx)
    BY <1>1, <2>1, <2>2, AppliedSuite
  <2>3. CASE UNCHANGED chain
    BY <2>1, <2>3 DEF chain
  <2> QED BY <1>1, <2>2, <2>3 DEF Sends
<1>2. ASSUME NEW f \in Forms, Gate(f) \/ Attest(f)
      PROVE  Deployed \/ UNCHANGED <<suite, ledger>>
  <2>1. /\ form[f] \in FormType /\ Step /\ form[f].pc \in {"gate", "attest"} /\ FormInv(form[f])
    BY <1>2, OpenForm DEF IInv, Gate, Attest
  <2>2. ASSUME NEW k \in {"mandate", "custody"}
        PROVE  Tx(f, k, None) \in TxType /\ TxInv(Tx(f, k, None))
    <3>1. /\ Tx(f, k, None) \in TxType /\ Tx(f, k, None).kind = k
          /\ Tx(f, k, None).mint = form[f].mint /\ Tx(f, k, None).from = form[f].sent.from
      BY <2>1, TxTyped DEF Kinds
    <3> QED BY <2>1, <3>1 DEF TxInv, FormInv
  <2>3. CASE \E r : Sends(f, Tx(f, "mandate", None), r)
    BY <1>1, <2>1, <2>2, <2>3
  <2>4. CASE \E r : Sends(f, Tx(f, "custody", None), r)
    BY <1>1, <2>1, <2>2, <2>4
  <2>5. CASE UNCHANGED chain
    BY <2>1, <2>5 DEF chain, Step, database
  <2> QED BY <1>2, <2>3, <2>4, <2>5 DEF Gate, Attest
<1>3. ASSUME NEW f \in Forms, Setup(f)
      PROVE  Deployed \/ UNCHANGED <<suite, ledger>>
  <2>1. /\ form[f] \in FormType /\ Step /\ FormInv(form[f]) /\ form[f].pc = "setup"
    BY <1>3, OpenForm DEF IInv, Setup
  <2>2. \A tx \in form[f].todo : tx \in TxType /\ TxInv(tx)
    BY <2>1, FormParts DEF FormInv
  <2> QED BY <1>1, <1>3, <2>1, <2>2 DEF Setup
<1>4. ASSUME NEW f \in Forms, DeploySuite(f)
      PROVE  Deployed \/ UNCHANGED <<suite, ledger>>
  <2>1. /\ form[f] \in FormType /\ Step /\ FormInv(form[f]) /\ form[f].pc = "setup"
        /\ form[f].todo = {}
    BY <1>4, OpenForm DEF IInv, DeploySuite
  <2>2. /\ Prepared(form[f].mint) /\ Counted(form[f].mint, form[f].sent.from)
        /\ form[f].sent.from \in tried[form[f].mint]
    BY <2>1 DEF FormInv, Covered, Prepared, CountCovered, Counted
  <2>3. /\ Tx(f, "suite", None) \in TxType /\ Tx(f, "suite", None).kind = "suite"
        /\ Tx(f, "suite", None).mint = form[f].mint
        /\ Tx(f, "suite", None).from = form[f].sent.from
    BY <2>1, TxTyped DEF Kinds
  <2>4. TxInv(Tx(f, "suite", None))
    BY <2>2, <2>3 DEF TxInv
  <2> QED BY <1>1, <1>4, <2>1, <2>3, <2>4 DEF DeploySuite
<1>5. ASSUME NEW f \in Forms, Post(f)
      PROVE  suite' = suite /\ \E m \in Ids : suite[m] # None /\ ledger' \in {ledger, ledger \cup {m}}
  <2>1. /\ form[f] \in FormType /\ FormInv(form[f]) /\ form[f].pc = "post"
    BY <1>5, OpenForm DEF IInv, Post
  <2>2. [req |-> form[f].sent.req, from |-> form[f].sent.from] \in SuiteType
    BY <2>1, FormParts DEF SuiteType
  <2>3. suite[form[f].mint] # None /\ form[f].mint \in Ids
    BY <2>1, <2>2, SuitesAreSomething, FormParts DEF FormInv
  <2> QED BY <1>5, <2>3 DEF Post, chain
<1>6. ASSUME NEW f \in Forms,
             \/ \E q \in Requests : SwitchRequest(f, q) \/ \E admin \in BOOLEAN : Open(f, q, admin)
             \/ ApproveDocuments(f) \/ Edit(f) \/ Submit(f) \/ Leave(f) \/ Close(f)
             \/ Plan(f) \/ CheckOwners(f) \/ Patch(f) \/ Fail(f)
      PROVE  suite' = suite /\ ledger' = ledger
  BY <1>6 DEF SwitchRequest, Open, ApproveDocuments, Edit, Submit, Leave, Close, Plan, CheckOwners,
     Patch, Fail, chain, database, Step
<1>7. ASSUME NEW tx \in pending, Land(tx)
      PROVE  Deployed \/ UNCHANGED <<suite, ledger>>
  BY <1>7, AppliedSuite DEF IInv, Types, Land, database
<1>8. CASE \/ UNCHANGED vars
           \/ \E tx \in pending : Drop(tx)
           \/ \E a \in Ids : CustodianSigns(a) \/ Release(a) \/ Lapse(a)
           \/ \E m \in Ids, c \in Countries : InitializeCountryCount(m, c)
           \/ \E q \in Requests, s \in ASSET_REQUEST_STATUSES : Decide(q, s)
  <2>1. suite' = suite /\ ledger' = ledger
    BY <1>8 DEF vars, chain, database, Drop, CustodianSigns, Release, Lapse, Decide,
       InitializeCountryCount
  <2> QED BY <2>1
<1>9. \/ UNCHANGED vars
      \/ \E tx \in pending : Drop(tx)
      \/ \E a \in Ids : CustodianSigns(a) \/ Release(a) \/ Lapse(a)
      \/ \E m \in Ids, c \in Countries : InitializeCountryCount(m, c)
      \/ \E q \in Requests, s \in ASSET_REQUEST_STATUSES : Decide(q, s)
      \/ \E f \in Forms : Post(f)
      \/ \E tx \in pending : Land(tx)
      \/ Deployed \/ UNCHANGED <<suite, ledger>>
  BY <1>2, <1>3, <1>4, <1>6 DEF Next
<1> QED BY <1>5, <1>7, <1>8, <1>9

(* No step replaces a suite by another one with the same mint, also not a     *)
(* deployment transaction that lands after the retry that followed it.        *)
THEOREM SuiteStaysCorrect == Spec => SuiteStays
<1>1. IInv /\ [Next]_vars => [\A m \in Ids : suite[m] # None => suite'[m] = suite[m]]_vars
  BY SuitesStay DEF Deployed, IInv, Types
<1> QED BY <1>1, DeploymentInvariant, PTL DEF Spec, SuiteStays

LEMMA LogNext ==
    ASSUME IInv, [Next]_vars
    PROVE  [Log!Next]_<<{m \in Ids : suite[m] # None}, ledger>>
<1>1. CASE UNCHANGED <<suite, ledger>>
  BY <1>1
<1>2. CASE Deployed
  <2>1. PICK m \in Ids, s \in SuiteType : suite[m] = None /\ suite' = [suite EXCEPT ![m] = s]
    BY <1>2 DEF Deployed
  <2>2. {k \in Ids : suite'[k] # None} = {k \in Ids : suite[k] # None} \cup {m}
    BY <2>1, SuitesAreSomething DEF IInv, Types
  <2>3. Log!Deliver(m)
    BY <1>2, <2>1, <2>2 DEF Log!Deliver, Deployed
  <2> QED BY <2>3 DEF Log!Next
<1>3. ASSUME suite' = suite, NEW m \in Ids, suite[m] # None, ledger' = ledger \cup {m}
      PROVE  [Log!Next]_<<{k \in Ids : suite[k] # None}, ledger>>
  <2>1. CASE m \in ledger
    <3>1. ledger' = ledger
      BY <1>3, <2>1
    <3> QED BY <1>3, <3>1
  <2>2. CASE m \notin ledger
    <3>1. Log!Record(m)
      BY <1>3, <2>2 DEF Log!Record
    <3> QED BY <3>1 DEF Log!Next
  <2> QED BY <2>1, <2>2
<1> QED BY <1>1, <1>2, <1>3, SuitesStay

(* Deployment implements DeliveryLog: a TOKEN_DEPLOYED entry is written only   *)
(* for a suite that is on chain, and neither is taken back.                    *)
THEOREM DeploymentLogCorrect == Spec => LogSpec
<1>1. Init => Log!Init
  BY DEF Init, Log!Init
<1>2. IInv /\ [Next]_vars => [Log!Next]_<<{m \in Ids : suite[m] # None}, ledger>>
  BY LogNext
<1> QED BY <1>1, <1>2, DeploymentInvariant, PTL DEF Spec, LogSpec, Log!Spec

=============================================================================
