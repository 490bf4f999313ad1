------------------------------ MODULE Indexer ------------------------------
(***************************************************************************)
(* The indexer process: syncOnce lists the factory's tokens, updates the     *)
(* Asset table and then, token by token, copies supply and the balances of    *)
(* known wallets.  The first syncOnce runs alone and takes the process down   *)
(* when it throws; after it setInterval starts one at every tick, whether or   *)
(* not an earlier one is still running.  Every value is read from the chain   *)
(* and written to the database in two calls.                                  *)
(***************************************************************************)
EXTENDS Integers, FiniteSets

CONSTANTS
    Tokens,        \* token mints
    ConfigTokens,  \* INDEXER_TOKENS
    Wallets,       \* wallets that may hold tokens
    Runs,          \* syncOnce calls that may be under way at once
    Endpoints,     \* number of RPC endpoints
    MaxRetries,    \* INDEXER_RPC_MAX_RETRIES
    MaxChanges,    \* bound on changes of the chain
    MaxFaults      \* bound on failures of the RPC endpoints and the database

ASSUME IndexerAssumption ==
    /\ ConfigTokens \subseteq Tokens
    /\ Endpoints \in Nat \ {0}
    /\ MaxRetries \in Nat /\ MaxChanges \in Nat /\ MaxFaults \in Nat

Supply == "supply"
Items == Tokens \X (Wallets \cup {Supply})

VARIABLES
    deployed,  \* TokenDeployment accounts of the factory
    value,     \* item -> number of its value on chain
    owner,     \* token -> number of the owner in its owner account; 0 is the deployer
    known,     \* wallets in User or TrackedWallet
    assets,    \* Asset rows
    issuer,    \* token -> number of the owner shown as Asset.issuerWallet
    table,     \* item -> number of the value in TokenState / TokenBalance
    run,       \* a syncOnce call's progress
    rpc,       \* activeRpcIndex
    status,    \* IndexerState.status
    proc,      \* the process: "first", "timer" or "dead"
    changes,   \* changes of the chain so far
    faults     \* failures so far

chain == <<deployed, value, owner, known, changes>>
vars == <<chain, assets, issuer, table, run, rpc, status, proc, faults>>

Idle == [pc |-> "idle"]
Active(r) == run[r] # Idle

Init ==
    /\ deployed = ConfigTokens
    /\ value = [x \in Items |-> 0]
    /\ owner = [t \in Tokens |-> 0]
    /\ known = {}
    /\ assets = {}
    /\ issuer = [t \in Tokens |-> 0]
    /\ table = [x \in Items |-> 0]
    /\ run = [r \in Runs |-> Idle]
    /\ rpc = 0
    /\ status = "NONE"
    /\ proc = "first"
    /\ changes = 0
    /\ faults = 0

Fault == faults < MaxFaults /\ faults' = faults + 1

-----------------------------------------------------------------------------
(* The world: tokens are deployed and handed over, balances and supplies       *)
(* change, wallets sign up.                                                    *)

ChainStep ==
    /\ changes < MaxChanges
    /\ changes' = changes + 1
    /\ UNCHANGED <<assets, issuer, table, run, rpc, status, proc, faults>>

Deploy(t) ==
    /\ ChainStep
    /\ t \notin deployed
    /\ deployed' = deployed \cup {t}
    /\ UNCHANGED <<value, owner, known>>

Mint(t, w) ==
    /\ ChainStep
    /\ t \in deployed
    /\ value' = [x \in Items |-> IF x \in {<<t, w>>, <<t, Supply>>} THEN value[x] + 1 ELSE value[x]]
    /\ UNCHANGED <<deployed, owner, known>>

HandOver(t) ==
    /\ ChainStep
    /\ t \in deployed
    /\ owner' = [owner EXCEPT ![t] = @ + 1]
    /\ UNCHANGED <<deployed, value, known>>

SignUp(w) ==
    /\ ChainStep
    /\ w \notin known
    /\ known' = known \cup {w}
    /\ UNCHANGED <<deployed, value, owner>>

-----------------------------------------------------------------------------
(* syncOnce *)

(* The first call, and setInterval's; updateState("RUNNING"). *)
MayStart(r) ==
    /\ ~Active(r)
    /\ \/ proc = "first" /\ \A q \in Runs : ~Active(q)
       \/ proc = "timer"

Start(r) ==
    /\ MayStart(r)
    /\ run' = [q \in Runs |->
                 CASE q = r -> [pc |-> "list", attempt |-> 0, shared |-> \E s \in Runs : Active(s)]
                   [] q # r /\ Active(q) -> [run[q] EXCEPT !.shared = TRUE]
                   [] OTHER -> run[q]]
    /\ status' = "RUNNING"
    /\ UNCHANGED <<chain, assets, issuer, table, rpc, proc, faults>>

(* An exception ends a call.  Only setInterval's callback catches it. *)
Throws == Fault /\ proc' = IF proc = "first" THEN "dead" ELSE proc

(* updateState("RUNNING") is not inside the try: when it fails, nothing says   *)
(* ERROR.                                                                      *)
StartFails(r) ==
    /\ MayStart(r)
    /\ Throws
    /\ status' \in {status, "RUNNING"}
    /\ UNCHANGED <<chain, assets, issuer, table, run, rpc>>

switchToNextRpcEndpoint == rpc' = IF rpc >= Endpoints - 1 THEN rpc ELSE rpc + 1

TokensToSync(listed) == ConfigTokens \cup listed

ListTokens(r) ==
    /\ run[r].pc = "list"
    /\ assets' = assets \cup deployed
    /\ issuer' = [t \in Tokens |-> IF t \in deployed THEN 0 ELSE issuer[t]]
    /\ run' = [run EXCEPT ![r] = [pc |-> "next", todo |-> TokensToSync(deployed),
                                  shared |-> run[r].shared]]
    /\ UNCHANGED <<chain, table, rpc, status, proc, faults>>

(* A failure the retry helper takes for recoverable: another attempt, on the  *)
(* next endpoint.                                                             *)
Retry(r) ==
    /\ run[r].pc = "list"
    /\ run[r].attempt < MaxRetries
    /\ Fault
    /\ run' = [run EXCEPT ![r].attempt = @ + 1]
    /\ switchToNextRpcEndpoint
    /\ UNCHANGED <<chain, assets, issuer, table, status, proc>>

(* A failure that is not, the last attempt, or upsertAssets fails after some   *)
(* of the tokens: ERROR, unless updateState("ERROR") fails as well.            *)
ListFails(r) ==
    /\ run[r].pc = "list"
    /\ Throws
    /\ run' = [run EXCEPT ![r] = Idle]
    /\ status' \in {status, "ERROR"}
    /\ \E done \in SUBSET deployed :
         /\ assets' = assets \cup done
         /\ issuer' = [t \in Tokens |-> IF t \in done THEN 0 ELSE issuer[t]]
    /\ UNCHANGED <<chain, table, rpc>>

(* syncToken begins with the owner account ... *)
ItemsOf(t) == {<<t, Supply>>} \cup {<<t, w>> : w \in known}

Written == -1     \* the owner that was read has been written

SyncToken(r, t) ==
    /\ run[r].pc = "next"
    /\ t \in run[r].todo
    /\ run' = [run EXCEPT ![r] = [pc |-> "read", todo |-> run[r].todo \ {t}, token |-> t,
                                  own |-> owner[t], items |-> ItemsOf(t), shared |-> run[r].shared]]
    /\ UNCHANGED <<chain, assets, issuer, table, rpc, status, proc, faults>>

(* The owner account cannot be read: the token is skipped. *)
SkipToken(r, t) ==
    /\ run[r].pc = "next"
    /\ t \in run[r].todo
    /\ Fault
    /\ run' = [run EXCEPT ![r].todo = @ \ {t}]
    /\ UNCHANGED <<chain, assets, issuer, table, rpc, status, proc>>

(* getMint and getAccount: an item is read ...  A mint that cannot be read is  *)
(* left as it is; a balance that cannot be read is taken for "0".              *)
Reading(r, x, v, pc) ==
    [run EXCEPT ![r] = [pc |-> pc, todo |-> run[r].todo, token |-> run[r].token, own |-> run[r].own,
                        items |-> run[r].items \ {x}, item |-> x, value |-> v,
                        shared |-> run[r].shared]]

ReadItemZeroSupply(r, x) ==              \* mutant: an unread mint counts as empty
    /\ run[r].pc = "read"
    /\ x \in run[r].items
    /\ x[2] # Supply => run[r].own = Written
    /\ \/ run' = Reading(r, x, value[x], "write") /\ UNCHANGED faults
       \/ Fault /\ run' = Reading(r, x, 0, "write")
    /\ UNCHANGED <<chain, assets, issuer, table, rpc, status, proc>>

ReadItem(r, x) ==
    /\ run[r].pc = "read"
    /\ x \in run[r].items
    /\ x[2] # Supply => run[r].own = Written    \* supply and owner come first
    /\ \/ run' = Reading(r, x, value[x], "write") /\ UNCHANGED faults
       \/ Fault /\ run' = Reading(r, x, 0, IF x[2] = Supply THEN "read" ELSE "write")
    /\ UNCHANGED <<chain, assets, issuer, table, rpc, status, proc>>

(* ... and upserted, whatever another call has written meanwhile. *)
WriteItem(r) ==
    /\ run[r].pc = "write"
    /\ table' = [table EXCEPT ![run[r].item] = run[r].value]
    /\ run' = [run EXCEPT ![r].pc = "read"]
    /\ UNCHANGED <<chain, assets, issuer, rpc, status, proc, faults>>


SetIssuer(r) ==
    /\ run[r].pc = "read"
    /\ run[r].own # Written
    /\ <<run[r].token, Supply>> \notin run[r].items
    /\ issuer' = [issuer EXCEPT ![run[r].token] = IF run[r].token \in assets THEN run[r].own ELSE @]
    /\ run' = [run EXCEPT ![r].own = Written]
    /\ UNCHANGED <<chain, assets, table, rpc, status, proc, faults>>

TokenDone(r) ==
    /\ run[r].pc = "read"
    /\ run[r].own = Written
    /\ run[r].items = {}
    /\ run' = [run EXCEPT ![r] = [pc |-> "next", todo |-> run[r].todo, shared |-> run[r].shared]]
    /\ UNCHANGED <<chain, assets, issuer, table, rpc, status, proc, faults>>

(* A database call of syncToken fails: the rest of the token is skipped. *)
LeaveToken(r) ==
    /\ run[r].pc \in {"read", "write"}
    /\ Fault
    /\ run' = [run EXCEPT ![r] = [pc |-> "next", todo |-> run[r].todo, shared |-> run[r].shared]]
    /\ UNCHANGED <<chain, assets, issuer, table, rpc, status, proc>>

(* updateState("IDLE"), and the timer goes on. *)
Finish(r) ==
    /\ run[r].pc = "next"
    /\ run[r].todo = {}
    /\ run' = [run EXCEPT ![r] = Idle]
    /\ status' = "IDLE"
    /\ proc' = "timer"
    /\ UNCHANGED <<chain, assets, issuer, table, rpc, faults>>

(* updateState("IDLE") fails inside the try. *)
FinishFails(r) ==
    /\ run[r].pc = "next"
    /\ run[r].todo = {}
    /\ Throws
    /\ run' = [run EXCEPT ![r] = Idle]
    /\ status' \in {status, "IDLE", "ERROR"}
    /\ UNCHANGED <<chain, assets, issuer, table, rpc>>

-----------------------------------------------------------------------------
Work(r) ==
    \/ ListTokens(r)
    \/ \E t \in Tokens : SyncToken(r, t)
    \/ \E x \in Items : ReadItem(r, x)
    \/ WriteItem(r) \/ SetIssuer(r) \/ TokenDone(r) \/ Finish(r)

Next ==
    \/ \E t \in Tokens : Deploy(t) \/ HandOver(t) \/ \E w \in Wallets : Mint(t, w)
    \/ \E w \in Wallets : SignUp(w)
    \/ \E r \in Runs :
         \/ Start(r) \/ Work(r) \/ Retry(r)
         \/ StartFails(r) \/ ListFails(r) \/ LeaveToken(r) \/ FinishFails(r)
         \/ \E t \in Tokens : SkipToken(r, t)

(* The timer keeps ticking and every call that is under way goes on: the      *)
(* event loop serves all of them.                                             *)
Fairness == \A r \in Runs : WF_vars(Start(r)) /\ WF_vars(Work(r))

Spec == Init /\ [][Next]_vars /\ Fairness

-----------------------------------------------------------------------------
(* The types of the variables. *)
TypeOK ==
    /\ deployed \subseteq Tokens /\ known \subseteq Wallets /\ assets \subseteq deployed
    /\ value \in [Items -> 0..MaxChanges]
    /\ table \in [Items -> 0..MaxChanges]
    /\ owner \in [Tokens -> 0..MaxChanges] /\ issuer \in [Tokens -> 0..MaxChanges]
    /\ rpc \in 0..(Endpoints - 1)
    /\ status \in {"NONE", "RUNNING", "IDLE", "ERROR"}
    /\ proc \in {"first", "timer", "dead"}
    /\ \A r \in Runs : run[r].pc \in {"idle", "list", "next", "read", "write"}

(* The supply shown never goes back to an older one, except by a call that    *)
(* overlapped another: setInterval does not wait for the call before.         *)
SupplyGoesBackOnlyInOverlap ==
    [][\A t \in Tokens : table'[<<t, Supply>>] < table[<<t, Supply>>] =>
         \E r \in Runs : run[r].pc = "write" /\ run[r].shared]_vars


(* The tables mirror the chain for the wallets that are known, unless the     *)
(* first call failed and took the process with it.                            *)
Excused == IF proc = "dead" THEN Items
           ELSE {x \in Items : x[1] \notin deployed \/ x[2] \notin known \cup {Supply}}
Tables == INSTANCE Mirror WITH source <- value, copy <- table, excused <- Excused

(* What MirrorSpec says of each step: the tables hold values the chain had.    *)
MirrorSafety == Tables!Safety
=============================================================================
