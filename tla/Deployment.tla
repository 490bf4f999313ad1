----------------------------- MODULE Deployment -----------------------------
(***************************************************************************)
(* Deploying a token suite for an issuer's asset request.  The admin opens   *)
(* the request in the issuance form, which holds one mint key for as long as *)
(* it is mounted; submitting runs deployTokenSuite: the custody gate, the    *)
(* setup transactions (mint, compliance modules), the deployment             *)
(* transaction and the ownership check, after which the form records the     *)
(* asset and marks the request DEPLOYED.  Every transaction may be given up  *)
(* on and land later; the form stays open after an error and may be edited   *)
(* and submitted again.                                                      *)
(***************************************************************************)
EXTENDS Integers, Sequences

CONSTANTS
    Requests,     \* asset requests; a request also stands for its own form values
    Edited,       \* form values typed by the admin
    Forms,        \* issuance forms that may be mounted at once
    ModuleSeq,    \* the compliance modules selected, in order
    Stateful,     \* the modules that take calls from the compliance account
    CountryCap,   \* MOD_COUNTRY_CAP, the module with an account per country it counts
    Countries,    \* country codes
    CapsOf,       \* form values -> the countries of their country_caps
    None,
    MaxOpens,     \* bound on requests opened in forms
    MaxSubmits,   \* bound on submissions
    MaxDecisions, \* bound on cancellations and rejections
    MaxFaults     \* bound on failures, interruptions and calls by others

ASSUME DeploymentAssumption ==
    /\ Edited \notin Requests /\ None \notin Requests \cup {Edited}
    /\ None \notin [req : Requests, from : Requests \cup {Edited}]
    /\ \A i, j \in DOMAIN ModuleSeq : ModuleSeq[i] = ModuleSeq[j] => i = j
    /\ None \notin Countries /\ CapsOf \in [Requests \cup {Edited} -> SUBSET Countries]
    /\ MaxOpens \in Nat /\ MaxSubmits \in Nat /\ MaxDecisions \in Nat /\ MaxFaults \in Nat

Modules == {ModuleSeq[i] : i \in DOMAIN ModuleSeq}
Values == Requests \cup {Edited}
Ids == 1..MaxOpens    \* mint keys, and asset ids: a form draws them when a request is opened in it

ASSET_REQUEST_STATUSES == {"PENDING_REVIEW", "APPROVED", "REJECTED", "DEPLOYED", "CANCELED"}

VARIABLES
    request,    \* AssetRequest rows: status and deployedAssetId
    form,       \* mounted forms
    mandate,    \* asset id -> CustodyMandate: "none", "created", "active" or "released"
    attested,   \* asset id -> CustodyAttestation: "none", "valid" or "expired"
    minted,     \* mint -> the form values its decimals come from
    modules,    \* mint -> module -> the form values it was initialized with, hook authority
    counts,     \* mint -> the countries that have a count account of its country cap
    suite,      \* mint -> the deployed suite: request and form values
    pending,    \* transactions given up on that may still land
    ledger,     \* TOKEN_DEPLOYED entries: mints
    asset,      \* Asset rows: mint -> request and form values
    tried,      \* mint -> form values submitted for it
    opens, submits, decisions, faults

chain == <<mandate, attested, minted, modules, counts, suite>>
database == <<request, ledger, asset>>
counters == <<opens, submits, decisions, faults>>
vars == <<form, pending, tried, chain, database, counters>>

Closed == [pc |-> "closed"]
Fault == faults < MaxFaults /\ faults' = faults + 1

Init ==
    /\ request = [q \in Requests |-> [status |-> "PENDING_REVIEW", deployed |-> None]]
    /\ form = [f \in Forms |-> Closed]
    /\ mandate = [a \in Ids |-> "none"]
    /\ attested = [a \in Ids |-> "none"]
    /\ minted = [m \in Ids |-> None]
    /\ modules = [m \in Ids |-> [x \in Modules |-> [from |-> None, hooked |-> FALSE]]]
    /\ counts = [m \in Ids |-> {}]
    /\ suite = [m \in Ids |-> None]
    /\ pending = {}
    /\ ledger = {}
    /\ asset = [m \in Ids |-> None]
    /\ tried = [m \in Ids |-> {}]
    /\ opens = 0 /\ submits = 0 /\ decisions = 0 /\ faults = 0

-----------------------------------------------------------------------------
(* The asset requests. *)

(* handleReject on the admin's list and handleCancelAssetRequest on the       *)
(* issuer's: both lists may be outdated, and updateStatus compares nothing.   *)
Decide(q, status) ==
    /\ decisions < MaxDecisions
    /\ decisions' = decisions + 1
    /\ status \in {"REJECTED", "CANCELED"}
    /\ request' = [request EXCEPT ![q] = [status |-> status, deployed |-> request[q].deployed]]
    /\ UNCHANGED <<form, pending, tried, chain, ledger, asset, opens, submits, faults>>

-----------------------------------------------------------------------------
(* The form.  "admin" tells whether the custodian entered is the wallet that  *)
(* is connected.                                                              *)

At(f, pc) == [form[f] EXCEPT !.pc = pc]
Ended(f) == IF form[f].mounted THEN At(f, "idle") ELSE Closed
Moves(f, rec) == form' = [form EXCEPT ![f] = rec]

Shown(q) == [req |-> q, id |-> opens + 1, from |-> q]

Fresh(q, admin) ==
    [pc |-> "idle", mint |-> opens + 1, shows |-> Shown(q), sent |-> Shown(q),
     admin |-> admin, approved |-> FALSE, mounted |-> TRUE, todo |-> {}]

(* The form is mounted: a new mint key and asset id.  The request is loaded   *)
(* by its id, whatever its status.                                            *)
Open(f, q, admin) ==
    /\ form[f] = Closed
    /\ opens < MaxOpens
    /\ opens' = opens + 1
    /\ Moves(f, Fresh(q, admin))
    /\ UNCHANGED <<pending, tried, chain, database, submits, decisions, faults>>

(* Browser history leads to another request while the form stays mounted,     *)
(* deploying or not: its values and approval are reset, the mint key is not.  *)
SwitchRequest(f, q) ==
    /\ form[f] # Closed
    /\ form[f].mounted
    /\ q # form[f].shows.req
    /\ opens < MaxOpens
    /\ opens' = opens + 1
    /\ Moves(f, [form[f] EXCEPT !.shows = Shown(q), !.approved = FALSE])
    /\ UNCHANGED <<pending, tried, chain, database, submits, decisions, faults>>

(* The admin ticks the documents as reviewed ... *)
ApproveDocuments(f) ==
    /\ form[f].pc = "idle"
    /\ ~form[f].approved
    /\ Moves(f, [form[f] EXCEPT !.approved = TRUE])
    /\ UNCHANGED <<pending, tried, chain, database, counters>>

(* ... and edits decimals or module parameters, also while deploying. *)
Edit(f) ==
    /\ form[f] # Closed
    /\ form[f].mounted
    /\ form[f].shows.from # Edited
    /\ Moves(f, [form[f] EXCEPT !.shows.from = Edited])
    /\ UNCHANGED <<pending, tried, chain, database, counters>>

(* onSubmit takes the values of that moment. *)
Submit(f) ==
    /\ form[f].pc = "idle"
    /\ form[f].approved
    /\ submits < MaxSubmits
    /\ submits' = submits + 1
    /\ Moves(f, [form[f] EXCEPT !.pc = "gate", !.sent = form[f].shows])
    /\ tried' = [tried EXCEPT ![form[f].mint] = @ \cup {form[f].shows.from}]
    /\ UNCHANGED <<pending, chain, database, opens, decisions, faults>>

(* The form is left: a running deployment goes on, but the callbacks of a     *)
(* form that is no longer mounted are not called.                             *)
Leave(f) ==
    /\ form[f] # Closed
    /\ form[f].mounted
    /\ Fault
    /\ Moves(f, IF form[f].pc = "idle" THEN Closed ELSE [form[f] EXCEPT !.mounted = FALSE])
    /\ UNCHANGED <<pending, tried, chain, database, opens, submits, decisions>>

(* The browser is closed: everything stops where it is. *)
Close(f) ==
    /\ form[f] # Closed
    /\ Fault
    /\ Moves(f, Closed)
    /\ UNCHANGED <<pending, tried, chain, database, opens, submits, decisions>>

-----------------------------------------------------------------------------
(* Transactions: what the programs accept and what they do. *)

Tx(f, kind, x) ==
    [kind |-> kind, mint |-> form[f].mint, id |-> form[f].sent.id, module |-> x, country |-> None,
     from |-> form[f].sent.from, req |-> form[f].sent.req]

CountTx(f, c) == [Tx(f, "count", CountryCap) EXCEPT !.country = c]

MayCount(m, c) == modules[m][CountryCap].from # None /\ c \notin counts[m]

AcceptsAgain(tx) ==                       \* mutant: the token account is not checked for
    CASE tx.kind = "mandate" -> mandate[tx.id] = "none"
      [] tx.kind = "custody" -> mandate[tx.id] # "none"
      [] tx.kind = "mint"    -> minted[tx.mint] = None
      [] tx.kind = "init"    -> modules[tx.mint][tx.module].from = None
      [] tx.kind = "count"   -> MayCount(tx.mint, tx.country)
      [] tx.kind = "hook"    -> modules[tx.mint][tx.module].from # None
      [] tx.kind = "suite"   -> /\ minted[tx.mint] # None
                                /\ mandate[tx.id] = "active" /\ attested[tx.id] = "valid"

Accepts(tx) ==
    CASE tx.kind = "mandate" -> mandate[tx.id] = "none"
      [] tx.kind = "custody" -> mandate[tx.id] # "none"
      [] tx.kind = "mint"    -> minted[tx.mint] = None
      [] tx.kind = "init"    -> modules[tx.mint][tx.module].from = None
      [] tx.kind = "count"   -> MayCount(tx.mint, tx.country)
      [] tx.kind = "hook"    -> modules[tx.mint][tx.module].from # None
      [] tx.kind = "suite"   -> /\ suite[tx.mint] = None /\ minted[tx.mint] # None
                                /\ mandate[tx.id] = "active" /\ attested[tx.id] = "valid"

Apply(tx) ==
    /\ mandate' = [mandate EXCEPT ![tx.id] = CASE tx.kind = "mandate" -> "created"
                                               [] tx.kind = "custody" -> "active"
                                               [] OTHER -> @]
    /\ attested' = [attested EXCEPT ![tx.id] = IF tx.kind = "custody" THEN "valid" ELSE @]
    /\ minted' = [minted EXCEPT ![tx.mint] = IF tx.kind = "mint" THEN tx.from ELSE @]
    /\ modules' = CASE tx.kind = "init" -> [modules EXCEPT ![tx.mint][tx.module].from = tx.from]
                    [] tx.kind = "hook" -> [modules EXCEPT ![tx.mint][tx.module].hooked = TRUE]
                    [] OTHER -> modules
    /\ counts' = [counts EXCEPT ![tx.mint] = IF tx.kind = "count" THEN @ \cup {tx.country} ELSE @]
    /\ suite' = [suite EXCEPT ![tx.mint] =
                   IF tx.kind = "suite" THEN [req |-> tx.req, from |-> tx.from] ELSE @]

(* sendTransactionConfirmed and its batch and versioned forms: the            *)
(* transaction is simulated, sent and confirmed, or the wait for it is given  *)
(* up: "Check explorer/history before retrying deployment."                   *)
Sends(f, tx, rec) ==
    \/ /\ Accepts(tx)
       /\ Apply(tx)
       /\ Moves(f, rec)
       /\ UNCHANGED <<pending, faults>>
    \/ /\ Accepts(tx)
       /\ Fault
       /\ pending' = pending \cup {tx}
       /\ Moves(f, Ended(f))
       /\ UNCHANGED chain
    \/ /\ ~Accepts(tx)
       /\ Moves(f, Ended(f))
       /\ UNCHANGED <<chain, pending, faults>>

(* A transaction given up on lands after all, or its blockhash expires. *)
Land(tx) ==
    /\ tx \in pending
    /\ Accepts(tx)
    /\ Apply(tx)
    /\ pending' = pending \ {tx}
    /\ UNCHANGED <<form, tried, database, counters>>

Drop(tx) ==
    /\ tx \in pending
    /\ pending' = pending \ {tx}
    /\ UNCHANGED <<form, tried, chain, database, counters>>

(* The custodian's own accept_custody_mandate with attest_custody, a release, *)
(* and the end of an attestation's validity.                                  *)
CustodianSigns(a) ==
    /\ mandate[a] # "none"
    /\ mandate' = [mandate EXCEPT ![a] = "active"]
    /\ attested' = [attested EXCEPT ![a] = "valid"]
    /\ UNCHANGED <<form, pending, tried, minted, modules, counts, suite, database, counters>>

Release(a) ==
    /\ mandate[a] # "none"
    /\ mandate' = [mandate EXCEPT ![a] = "released"]
    /\ UNCHANGED <<form, pending, tried, attested, minted, modules, counts, suite, database, counters>>

Lapse(a) ==
    /\ attested[a] = "valid"
    /\ attested' = [attested EXCEPT ![a] = "expired"]
    /\ UNCHANGED <<form, pending, tried, mandate, minted, modules, counts, suite, database, counters>>

(* initialize_country_count asks for no authority: anybody may be first. *)
InitializeCountryCount(m, c) ==
    /\ CountryCap \in Modules
    /\ MayCount(m, c)
    /\ Fault
    /\ counts' = [counts EXCEPT ![m] = @ \cup {c}]
    /\ UNCHANGED <<form, pending, tried, mandate, attested, minted, modules, suite, database,
                   opens, submits, decisions>>

-----------------------------------------------------------------------------
(* deployTokenSuite *)

Step == UNCHANGED <<tried, database, opens, submits, decisions>>

(* ensureCustodyGate looks for the two accounts, not at what is in them. *)
Gate(f) ==
    /\ form[f].pc = "gate"
    /\ Step
    /\ IF mandate[form[f].sent.id] = "none" THEN Sends(f, Tx(f, "mandate", None), At(f, "attest"))
       ELSE Moves(f, At(f, "attest")) /\ UNCHANGED <<chain, pending, faults>>

Attest(f) ==
    /\ form[f].pc = "attest"
    /\ Step
    /\ CASE attested[form[f].sent.id] # "none" ->
                Moves(f, At(f, "plan")) /\ UNCHANGED <<chain, pending, faults>>
         [] attested[form[f].sent.id] = "none" /\ form[f].admin ->
                Sends(f, Tx(f, "custody", None), At(f, "plan"))
         [] OTHER -> Moves(f, Ended(f)) /\ UNCHANGED <<chain, pending, faults>>

(* Accounts that exist are left as they are: the countries counted are those  *)
(* of the values submitted now, the caps those the module was initialized     *)
(* with.  The hook authority of a module that takes calls is set every time.  *)
CountTxs(f, x) ==
    IF x = CountryCap
    THEN {CountTx(f, c) : c \in CapsOf[form[f].sent.from] \ counts[form[f].mint]}
    ELSE {}

ModuleTxsSkipExisting(f, x) ==            \* mutant
    IF modules[form[f].mint][x].from # None THEN {}
    ELSE {Tx(f, "init", x)} \cup CountTxs(f, x)
           \cup (IF x \in Stateful THEN {Tx(f, "hook", x)} ELSE {})

ModuleTxs(f, x) ==
    (IF modules[form[f].mint][x].from = None THEN {Tx(f, "init", x)} ELSE {})
      \cup CountTxs(f, x)
      \cup (IF x \in Stateful THEN {Tx(f, "hook", x)} ELSE {})

SetupTransactions(f) ==
    (IF minted[form[f].mint] = None THEN {Tx(f, "mint", None)} ELSE {})
      \cup UNION {ModuleTxs(f, x) : x \in Modules}

(* Their order: the mint, then module by module. *)
Place(tx) ==
    IF tx.kind = "mint" THEN 0
    ELSE 3 * (CHOOSE i \in DOMAIN ModuleSeq : ModuleSeq[i] = tx.module)
           + (CASE tx.kind = "init" -> 0 [] tx.kind = "count" -> 1 [] tx.kind = "hook" -> 2)

Plan(f) ==
    /\ form[f].pc = "plan"
    /\ Step
    /\ Moves(f, [form[f] EXCEPT !.pc = "setup", !.todo = SetupTransactions(f)])
    /\ UNCHANGED <<chain, pending, faults>>

Setup(f) ==
    /\ form[f].pc = "setup"
    /\ Step
    /\ \E tx \in form[f].todo :
         /\ \A u \in form[f].todo : Place(tx) <= Place(u)
         /\ Sends(f, tx, [form[f] EXCEPT !.todo = form[f].todo \ {tx}])

(* The deployment transaction, simulated before it is sent. *)
DeploySuiteAnyway(f) ==                   \* mutant: a delayed confirmation counts as one
    /\ form[f].pc = "setup"
    /\ form[f].todo = {}
    /\ Step
    /\ \/ Sends(f, Tx(f, "suite", None), At(f, "owners"))
       \/ /\ Accepts(Tx(f, "suite", None))
          /\ Fault
          /\ pending' = pending \cup {Tx(f, "suite", None)}
          /\ Moves(f, At(f, "owners"))
          /\ UNCHANGED chain

DeploySuite(f) ==
    /\ form[f].pc = "setup"
    /\ form[f].todo = {}
    /\ Step
    /\ Sends(f, Tx(f, "suite", None), At(f, "owners"))

(* ensureRegistryOwnership: the deployment has handed everything over in the  *)
(* same transaction, so there is nothing to repair.  Then the form's          *)
(* onSuccess, if it is still mounted.                                         *)
CheckOwners(f) ==
    /\ form[f].pc = "owners"
    /\ Step
    /\ Moves(f, IF form[f].mounted THEN At(f, "post") ELSE Closed)
    /\ UNCHANGED <<chain, pending, faults>>

-----------------------------------------------------------------------------
(* onSuccess *)

RecordedAtTheEnd(f) == [req |-> form[f].shows.req, from |-> form[f].shows.from]\* mutant
Recorded(f) == [req |-> form[f].sent.req, from |-> form[f].sent.from]

(* POST /assets/deployed upserts the asset, then records the transaction.     *)
Post(f) ==
    /\ form[f].pc = "post"
    /\ asset' = [asset EXCEPT ![form[f].mint] = Recorded(f)]
    /\ \/ ledger' = ledger \cup {form[f].mint} /\ Moves(f, At(f, "patch")) /\ UNCHANGED faults
       \/ ledger' = ledger \cup {form[f].mint} /\ Moves(f, Ended(f)) /\ Fault   \* answer lost
       \/ UNCHANGED ledger /\ Moves(f, Ended(f)) /\ Fault                       \* no record
    /\ UNCHANGED <<pending, tried, chain, request, opens, submits, decisions>>

Marked(f) == [status |-> "DEPLOYED", deployed |-> form[f].mint]

(* PATCH the request DEPLOYED, whatever it has become, and leave the form.    *)
Patch(f) ==
    /\ form[f].pc = "patch"
    /\ request' = [request EXCEPT ![form[f].sent.req] = Marked(f)]
    /\ \/ Moves(f, Closed) /\ UNCHANGED faults
       \/ Moves(f, Ended(f)) /\ Fault                                           \* answer lost
    /\ UNCHANGED <<pending, tried, chain, ledger, asset, opens, submits, decisions>>

(* The wallet declines, or a call fails before it has an effect. *)
Fail(f) ==
    /\ form[f].pc \notin {"closed", "idle"}
    /\ Fault
    /\ Moves(f, Ended(f))
    /\ UNCHANGED <<pending, chain, database, tried, opens, submits, decisions>>

-----------------------------------------------------------------------------
Next ==
    \/ \E q \in Requests, s \in ASSET_REQUEST_STATUSES : Decide(q, s)
    \/ \E f \in Forms :
         \/ \E q \in Requests : SwitchRequest(f, q) \/ \E admin \in BOOLEAN : Open(f, q, admin)
         \/ ApproveDocuments(f) \/ Edit(f) \/ Submit(f) \/ Leave(f) \/ Close(f)
         \/ Gate(f) \/ Attest(f) \/ Plan(f) \/ Setup(f) \/ DeploySuite(f) \/ CheckOwners(f)
         \/ Post(f) \/ Patch(f) \/ Fail(f)
    \/ \E tx \in pending : Land(tx) \/ Drop(tx)
    \/ \E a \in Ids : CustodianSigns(a) \/ Release(a) \/ Lapse(a)
    \/ \E m \in Ids, c \in Countries : InitializeCountryCount(m, c)

Spec == Init /\ [][Next]_vars

-----------------------------------------------------------------------------
(* The types of the variables. *)
TypeOK ==
    /\ \A q \in Requests : /\ request[q].status \in ASSET_REQUEST_STATUSES
                           /\ request[q].deployed \in Ids \cup {None}
    /\ \A f \in Forms : form[f].pc \in {"closed", "idle", "gate", "attest", "plan", "setup",
                                        "owners", "post", "patch"}
    /\ mandate \in [Ids -> {"none", "created", "active", "released"}]
    /\ attested \in [Ids -> {"none", "valid", "expired"}]
    /\ minted \in [Ids -> Values \cup {None}]
    /\ modules \in [Ids -> [Modules -> [from : Values \cup {None}, hooked : BOOLEAN]]]
    /\ counts \in [Ids -> SUBSET Countries]
    /\ suite \in [Ids -> [req : Requests, from : Values] \cup {None}]
    /\ asset \in [Ids -> [req : Requests, from : Values] \cup {None}]
    /\ ledger \subseteq Ids

(* A deployed suite has its accounts, whatever earlier attempts with the same *)
(* mint left behind: its mint exists, each of its modules is initialized and  *)
(* takes calls from the compliance account, and the country cap has a count   *)
(* for every country of the values that it was deployed with.                 *)
SuiteIsReady ==
    \A m \in Ids : suite[m] # None =>
        /\ minted[m] # None
        /\ \A x \in Modules : /\ modules[m][x].from # None
                              /\ x \in Stateful => modules[m][x].hooked
        /\ CountryCap \in Modules => CapsOf[suite[m].from] \subseteq counts[m]

(* The asset recorded is the suite that is on chain: same issuer, same        *)
(* values.  Its mint and modules have those values too unless the form was    *)
(* submitted with others before: a retry leaves existing accounts alone.      *)
RecordedAsDeployed ==
    \A m \in Ids : asset[m] # None =>
        /\ suite[m] = asset[m]
        /\ tried[m] = {asset[m].from} =>
              /\ minted[m] = asset[m].from
              /\ \A x \in Modules : modules[m][x].from = asset[m].from

(* A request marked DEPLOYED, and not decided upon since, names a suite that  *)
(* is on chain, deployed for that request, and recorded as an asset.          *)
DeployedNamesItsSuite ==
    \A q \in Requests : request[q].status = "DEPLOYED" =>
        LET m == request[q].deployed
        IN  m \in Ids /\ suite[m] # None /\ suite[m].req = q /\ m \in ledger

(* A suite is never replaced by another one with the same mint: a deployment  *)
(* that was given up on and lands after the retry is refused.                 *)
SuiteStays == [][\A m \in Ids : suite[m] # None => suite'[m] = suite[m]]_vars

(* The TOKEN_DEPLOYED entries implement the delivery log. *)
Log == INSTANCE DeliveryLog WITH Deliveries <- Ids, recorded <- ledger,
                                 delivered <- {m \in Ids : suite[m] # None}
LogSpec == Log!Spec
=============================================================================
