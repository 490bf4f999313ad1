--------------------------- MODULE IndexerProofs ---------------------------
(***************************************************************************)
(* Proofs about Indexer: its tables implement the safety half of Mirror, and *)
(* the supply goes back only in an overlap.                                  *)
(*                                                                           *)
(* The inductive invariant says that nothing runs ahead of the chain, the    *)
(* values a call has read included (Behind); that a call without the shared  *)
(* mark is the only one (Alone), so that what it read of a supply is at       *)
(* least what the table shows (Newest).                                      *)
(***************************************************************************)
EXTENDS Indexer, TLAPS

Numbers == 0..MaxChanges
ListRun == [pc : {"list"}, attempt : 0..MaxRetries, shared : BOOLEAN]
NextRun == [pc : {"next"}, todo : SUBSET Tokens, shared : BOOLEAN]
TokenRun == [pc : {"read"}, todo : SUBSET Tokens, token : Tokens, own : Numbers \cup {Written},
             items : SUBSET Items, shared : BOOLEAN]
ItemRun == [pc : {"read", "write"}, todo : SUBSET Tokens, token : Tokens,
            own : Numbers \cup {Written}, items : SUBSET Items, item : Items, value : Numbers,
            shared : BOOLEAN]
RunType == ListRun \cup NextRun \cup TokenRun \cup ItemRun

Types ==
    /\ deployed \subseteq Tokens /\ known \subseteq Wallets /\ assets \subseteq deployed
    /\ value \in [Items -> Numbers] /\ table \in [Items -> Numbers]
    /\ owner \in [Tokens -> Numbers] /\ issuer \in [Tokens -> Numbers]
    /\ rpc \in 0..(Endpoints - 1)
    /\ status \in {"NONE", "RUNNING", "IDLE", "ERROR"}
    /\ proc \in {"first", "timer", "dead"}
    /\ run \in [Runs -> RunType \cup {Idle}]
    /\ changes \in Numbers /\ faults \in 0..MaxFaults

(* Every number on chain is at most that of the last change. *)
Counted ==
    /\ \A x \in Items : value[x] <= changes
    /\ \A t \in Tokens : owner[t] <= changes

Behind ==
    /\ \A x \in Items : table[x] <= value[x]
    /\ \A r \in Runs : run[r].pc = "write" => run[r].value <= value[run[r].item]

Alone == \A r, q \in Runs : r # q /\ Active(r) /\ Active(q) => run[r].shared

Newest ==
    \A r \in Runs : run[r].pc = "write" /\ ~run[r].shared /\ run[r].item[2] = Supply =>
        table[run[r].item] <= run[r].value

IInv == Types /\ Counted /\ Behind /\ Alone /\ Newest

-----------------------------------------------------------------------------
LEMMA RunsTyped ==
    ASSUME Types, NEW r \in Runs
    PROVE  /\ Active(r) <=> run[r] \in RunType
           /\ Active(r) => run[r].shared \in BOOLEAN
           /\ run[r].pc # "idle" => Active(r)
           /\ run[r].pc = "list" => run[r] \in ListRun
           /\ run[r].pc = "next" => run[r] \in NextRun
           /\ run[r].pc = "read" => run[r] \in TokenRun \cup ItemRun
           /\ run[r].pc = "write" => run[r] \in ItemRun
           /\ run[r].pc \in {"idle", "list", "next", "read", "write"}
<1>1. run[r] \in RunType \cup {Idle}
  BY DEF Types
<1>2. Idle \notin RunType /\ Idle.pc = "idle"
  BY DEF Idle, RunType, ListRun, NextRun, TokenRun, ItemRun
<1>3. CASE run[r] = Idle
  BY <1>2, <1>3 DEF Active
<1>4. CASE run[r] \in ListRun
  BY <1>2, <1>4 DEF Active, RunType, ListRun
<1>5. CASE run[r] \in NextRun
  BY <1>2, <1>5 DEF Active, RunType, NextRun
<1>6. CASE run[r] \in TokenRun
  BY <1>2, <1>6 DEF Active, RunType, TokenRun
<1>7. CASE run[r] \in ItemRun
  BY <1>2, <1>7 DEF Active, RunType, ItemRun
<1> QED BY <1>1, <1>3, <1>4, <1>5, <1>6, <1>7 DEF RunType

LEMMA InitIInv == Init => IInv
<1> SUFFICES ASSUME Init PROVE IInv
  OBVIOUS
<1>1. 0 \in Numbers /\ 0 \in 0..MaxFaults /\ 0 \in 0..(Endpoints - 1)
  BY IndexerAssumption DEF Numbers
<1>2. Types
  BY <1>1, IndexerAssumption DEF Init, Types
<1>3. \A r \in Runs : run[r] = Idle /\ ~Active(r) /\ run[r].pc # "write"
  BY DEF Init, Active, Idle
<1>4. Counted /\ Behind
  BY <1>3 DEF Init, Counted, Behind
<1>5. Alone /\ Newest
  BY <1>3 DEF Init, Alone, Newest
<1> QED BY <1>2, <1>4, <1>5 DEF IInv

(* The chain grows while the calls under way keep what they have read. *)
LEMMA ChainKeeps ==
    ASSUME IInv, ChainStep, value' \in [Items -> Numbers], owner' \in [Tokens -> Numbers],
           deployed \subseteq deployed', deployed' \subseteq Tokens, known' \subseteq Wallets,
           \A x \in Items : value[x] <= value'[x] /\ value'[x] <= changes',
           \A t \in Tokens : owner'[t] <= changes'
    PROVE  IInv'
<1>1. Types'
  BY IndexerAssumption DEF IInv, Types, ChainStep, Numbers
<1>2. Counted'
  BY DEF Counted
<1>3. \A r \in Runs : run[r].pc = "write" => run[r].item \in Items /\ run[r].value \in Numbers
  BY RunsTyped DEF IInv, ItemRun
<1>4. Behind'
  <2>1. \A x \in Items : value[x] \in Int /\ value'[x] \in Int /\ table[x] \in Int
    BY <1>1 DEF IInv, Types, Numbers
  <2>2. table' = table /\ run' = run
    BY DEF ChainStep
  <2>3. \A x \in Items : table'[x] <= value'[x]
    BY <2>1, <2>2 DEF IInv, Behind
  <2>4. ASSUME NEW r \in Runs, run[r].pc = "write"
        PROVE  run[r].value <= value'[run[r].item]
    <3>1. run[r].value <= value[run[r].item] /\ run[r].value \in Int
      BY <1>3, <2>4 DEF IInv, Behind, Numbers
    <3> QED BY <1>3, <2>1, <2>4, <3>1
  <2> QED BY <2>2, <2>3, <2>4 DEF Behind
<1>5. Alone' /\ Newest'
  BY DEF IInv, ChainStep, Alone, Newest, Active
<1> QED BY <1>1, <1>2, <1>4, <1>5 DEF IInv

(* The numbers before a change of the chain. *)
LEMMA ChainTyped ==
    ASSUME IInv, ChainStep
    PROVE  /\ changes \in Nat /\ changes' = changes + 1 /\ changes' \in Numbers
           /\ \A x \in Items : value[x] \in Nat /\ value[x] <= changes
           /\ \A t \in Tokens : owner[t] \in Nat /\ owner[t] <= changes
           /\ value \in [Items -> Numbers] /\ owner \in [Tokens -> Numbers]
           /\ deployed \subseteq Tokens /\ known \subseteq Wallets
BY IndexerAssumption DEF IInv, Types, Counted, Numbers, ChainStep

LEMMA DeployNext ==
    ASSUME IInv, NEW t \in Tokens, Deploy(t)
    PROVE  IInv'
BY ChainTyped, ChainKeeps DEF Deploy

LEMMA SignUpNext ==
    ASSUME IInv, NEW w \in Wallets, SignUp(w)
    PROVE  IInv'
BY ChainTyped, ChainKeeps DEF SignUp

LEMMA HandOverNext ==
    ASSUME IInv, NEW t \in Tokens, HandOver(t)
    PROVE  IInv'
<1>1. owner' = [owner EXCEPT ![t] = @ + 1] /\ ChainStep /\ value' = value
      /\ deployed' = deployed /\ known' = known
  BY DEF HandOver
<1>2. \A u \in Tokens : owner'[u] \in {owner[u], owner[u] + 1}
  BY <1>1, ChainTyped
<1>3. \A u \in Tokens : owner'[u] \in Numbers /\ owner'[u] <= changes'
  BY <1>1, <1>2, ChainTyped, IndexerAssumption DEF Numbers
<1>4. owner' \in [Tokens -> Numbers]
  BY <1>1, <1>3, ChainTyped
<1>5. \A x \in Items : value[x] <= value'[x] /\ value'[x] <= changes'
  BY <1>1, ChainTyped
<1> QED BY <1>1, <1>3, <1>4, <1>5, ChainTyped, ChainKeeps

LEMMA MintNext ==
    ASSUME IInv, NEW t \in Tokens, NEW w \in Wallets, Mint(t, w)
    PROVE  IInv'
<1>1. value' = [x \in Items |-> IF x \in {<<t, w>>, <<t, Supply>>} THEN value[x] + 1 ELSE value[x]]
      /\ ChainStep /\ owner' = owner /\ deployed' = deployed /\ known' = known
  BY DEF Mint
<1>2. \A x \in Items : value'[x] \in {value[x], value[x] + 1}
  BY <1>1
<1>3. \A x \in Items : value'[x] \in Numbers /\ value'[x] <= changes' /\ value[x] <= value'[x]
  BY <1>1, <1>2, ChainTyped, IndexerAssumption DEF Numbers
<1>4. value' \in [Items -> Numbers]
  BY <1>1, <1>3
<1>5. \A u \in Tokens : owner'[u] <= changes'
  BY <1>1, ChainTyped
<1> QED BY <1>1, <1>3, <1>4, <1>5, ChainTyped, ChainKeeps

-----------------------------------------------------------------------------
(* A call that moves on with its mark, and has read what the chain has. *)
MovesOn(r, c) ==
    /\ run' = [run EXCEPT ![r] = c]
    /\ c # Idle => c \in RunType /\ Active(r) /\ c.shared = run[r].shared
    /\ c.pc = "write" => /\ c.value <= value[c.item]
                         /\ ~c.shared /\ c.item[2] = Supply => table[c.item] <= c.value

LEMMA CallKeeps ==
    ASSUME IInv, NEW r \in Runs, NEW c, MovesOn(r, c), UNCHANGED <<chain, table>>,
           assets' \subseteq deployed, issuer' \in [Tokens -> Numbers],
           rpc' \in 0..(Endpoints - 1), faults' \in 0..MaxFaults,
           status' \in {"NONE", "RUNNING", "IDLE", "ERROR"}, proc' \in {"first", "timer", "dead"}
    PROVE  IInv'
<1>1. run' = [run EXCEPT ![r] = c] /\ run \in [Runs -> RunType \cup {Idle}]
  BY DEF MovesOn, IInv, Types
<1>2. run'[r] = c /\ \A q \in Runs \ {r} : run'[q] = run[q]
  BY <1>1
<1>3. deployed' = deployed /\ value' = value /\ owner' = owner /\ known' = known
      /\ changes' = changes /\ table' = table
  BY DEF chain
<1>4. Types'
  <2>1. run' \in [Runs -> RunType \cup {Idle}]
    BY <1>1 DEF MovesOn
  <2> QED BY <1>3, <2>1 DEF IInv, Types
<1>5. Counted'
  BY <1>3 DEF IInv, Counted
<1>6. Behind'
  BY <1>2, <1>3 DEF IInv, Behind, MovesOn
<1>7. Alone'
  <2> SUFFICES ASSUME NEW p \in Runs, NEW q \in Runs, p # q, Active(p)', Active(q)'
               PROVE  run'[p].shared
    BY DEF Alone
  <2>1. Active(p) /\ Active(q)
    BY <1>2 DEF Active, MovesOn
  <2>2. run[p].shared
    BY <2>1 DEF IInv, Alone
  <2> QED BY <1>2, <2>2 DEF MovesOn, Active
<1>8. Newest'
  BY <1>2, <1>3 DEF IInv, Newest, MovesOn
<1> QED BY <1>4, <1>5, <1>6, <1>7, <1>8 DEF IInv

(* The mark changes nothing else. *)
LEMMA Marked ==
    ASSUME NEW c \in RunType
    PROVE  /\ [c EXCEPT !.shared = TRUE] \in RunType
           /\ [c EXCEPT !.shared = TRUE].shared
           /\ [c EXCEPT !.shared = TRUE].pc = c.pc
           /\ c.pc = "write" => /\ [c EXCEPT !.shared = TRUE].item = c.item
                               /\ [c EXCEPT !.shared = TRUE].value = c.value
<1>1. CASE c \in ListRun
  BY <1>1 DEF ListRun, RunType
<1>2. CASE c \in NextRun
  BY <1>2 DEF NextRun, RunType
<1>3. CASE c \in TokenRun
  BY <1>3 DEF TokenRun, RunType
<1>4. CASE c \in ItemRun
  BY <1>4 DEF ItemRun, RunType
<1> QED BY <1>1, <1>2, <1>3, <1>4 DEF RunType

LEMMA StartNext ==
    ASSUME IInv, NEW r \in Runs, Start(r)
    PROVE  IInv'
<1> DEFINE c == [pc |-> "list", attempt |-> 0, shared |-> \E s \in Runs : Active(s)]
<1> DEFINE new(q) == CASE q = r -> c
                       [] q # r /\ Active(q) -> [run[q] EXCEPT !.shared = TRUE]
                       [] OTHER -> run[q]
<1>1. /\ run' = [q \in Runs |-> new(q)]
      /\ status' = "RUNNING" /\ UNCHANGED <<chain, assets, issuer, table, rpc, proc, faults>>
      /\ ~Active(r)
  BY DEF Start, MayStart
<1>2. new(r) = c
  OBVIOUS
<1>3. \A q \in Runs : q # r /\ Active(q) => new(q) = [run[q] EXCEPT !.shared = TRUE]
  OBVIOUS
<1>4. \A q \in Runs : q # r /\ ~Active(q) => new(q) = run[q]
  OBVIOUS
<1> HIDE DEF new
<1>5. c \in ListRun
  BY IndexerAssumption DEF ListRun
<1>6. ASSUME NEW q \in Runs, q # r, Active(q)
      PROVE  /\ new(q) \in RunType /\ new(q).shared /\ new(q).pc = run[q].pc
             /\ run[q].pc = "write" => new(q).item = run[q].item /\ new(q).value = run[q].value
  <2>1. run[q] \in RunType
    BY <1>6, RunsTyped DEF IInv
  <2> QED BY <1>3, <1>6, <2>1, Marked
<1>7. \A q \in Runs : run'[q] = new(q)
  BY <1>1
<1>8. \A q \in Runs : q # r /\ ~Active(q) => run'[q] = Idle
  BY <1>4, <1>7 DEF Active
<1>9. chain' = chain /\ value' = value /\ owner' = owner /\ known' = known /\ deployed' = deployed
      /\ changes' = changes
  BY <1>1 DEF chain
<1>10. Types'
  <2>1. \A q \in Runs : new(q) \in RunType \cup {Idle}
    BY <1>2, <1>5, <1>6, <1>7, <1>8 DEF RunType
  <2>2. run' \in [Runs -> RunType \cup {Idle}]
    BY <1>1, <2>1
  <2> QED BY <1>1, <1>9, <2>2 DEF IInv, Types
<1>11. Counted'
  BY <1>9 DEF IInv, Counted
<1>12. ASSUME NEW q \in Runs, run'[q].pc = "write"
       PROVE  /\ run[q].pc = "write" /\ run'[q].item = run[q].item /\ run'[q].value = run[q].value
              /\ run'[q].shared
  <2>1. q # r
    BY <1>2, <1>7, <1>12
  <2>2. Active(q)
    BY <1>8, <1>12, <2>1 DEF Idle
  <2> QED BY <1>6, <1>7, <1>12, <2>1, <2>2
<1>13. Behind'
  BY <1>1, <1>9, <1>12 DEF IInv, Behind
<1>14. Newest'
  BY <1>12 DEF Newest
<1>15. Alone'
  <2> SUFFICES ASSUME NEW p \in Runs, NEW q \in Runs, p # q, Active(p)', Active(q)'
               PROVE  run'[p].shared
    BY DEF Alone
  <2>1. \A s \in Runs : s # r /\ Active(s)' => Active(s)
    BY <1>8 DEF Active
  <2>2. CASE p = r
    BY <1>2, <1>7, <2>1, <2>2
  <2>3. CASE p # r
    BY <1>6, <1>7, <2>1, <2>3
  <2> QED BY <2>2, <2>3
<1> QED BY <1>10, <1>11, <1>13, <1>14, <1>15 DEF IInv

LEMMA ThrowTyped ==
    ASSUME IInv, Throws
    PROVE  faults' \in 0..MaxFaults /\ proc' \in {"first", "timer", "dead"}
BY IndexerAssumption DEF IInv, Types, Throws, Fault

LEMMA StartFailsNext ==
    ASSUME IInv, NEW r \in Runs, StartFails(r)
    PROVE  IInv'
<1>1. UNCHANGED <<chain, table, run>>
  BY DEF StartFails
<1>2. Types'
  BY ThrowTyped DEF IInv, Types, StartFails, chain
<1> QED BY <1>1, <1>2 DEF IInv, Counted, Behind, Alone, Newest, Active, chain

(* The steps of a call other than its start and the write of an item. *)
LEMMA ListNext ==
    ASSUME IInv, NEW r \in Runs, ListTokens(r) \/ Retry(r) \/ ListFails(r)
    PROVE  IInv'
<1>1. run[r] \in ListRun /\ Active(r) /\ run[r].shared \in BOOLEAN
  BY RunsTyped DEF IInv, ListTokens, Retry, ListFails
<1>2. Types
  BY DEF IInv
<1>3. CASE ListTokens(r)
  <2> DEFINE c == [pc |-> "next", todo |-> TokensToSync(deployed), shared |-> run[r].shared]
  <2>1. c \in NextRun
    BY <1>1, <1>2, IndexerAssumption DEF NextRun, TokensToSync, Types
  <2>2. MovesOn(r, c)
    BY <1>1, <1>3, <2>1 DEF MovesOn, ListTokens, RunType
  <2>3. assets' \subseteq deployed /\ issuer' \in [Tokens -> Numbers]
    <3>1. 0 \in Numbers
      BY IndexerAssumption DEF Numbers
    <3> QED BY <1>2, <1>3, <3>1 DEF ListTokens, Types
  <2> QED BY <1>2, <1>3, <2>2, <2>3, CallKeeps DEF ListTokens, Types
<1>4. CASE Retry(r)
  <2> DEFINE c == [run[r] EXCEPT !.attempt = @ + 1]
  <2>1. c \in ListRun /\ c.shared = run[r].shared /\ c.pc = "list"
    BY <1>1, <1>4, IndexerAssumption DEF ListRun, Retry
  <2>2. run' = [run EXCEPT ![r] = c]
    BY <1>4 DEF Retry
  <2> HIDE DEF c
  <2>3. MovesOn(r, c)
    BY <1>1, <2>1, <2>2 DEF MovesOn, RunType
  <2>4. rpc' \in 0..(Endpoints - 1) /\ faults' \in 0..MaxFaults
    BY <1>2, <1>4, IndexerAssumption DEF Retry, switchToNextRpcEndpoint, Fault, Types
  <2> QED BY <1>2, <1>4, <2>3, <2>4, CallKeeps DEF Retry, Types
<1>5. CASE ListFails(r)
  <2>1. MovesOn(r, Idle)
    BY <1>5 DEF MovesOn, ListFails, Idle
  <2>2. assets' \subseteq deployed /\ issuer' \in [Tokens -> Numbers]
    <3>1. 0 \in Numbers
      BY IndexerAssumption DEF Numbers
    <3> QED BY <1>2, <1>5, <3>1 DEF ListFails, Types
  <2> QED BY <1>2, <1>5, <2>1, <2>2, ThrowTyped, CallKeeps DEF ListFails, Types
<1> QED BY <1>3, <1>4, <1>5

LEMMA TokenNext ==
    ASSUME IInv, NEW r \in Runs,
           \/ \E t \in Tokens : SyncToken(r, t) \/ SkipToken(r, t)
           \/ TokenDone(r) \/ LeaveToken(r)
    PROVE  IInv'
<1>1. Active(r) /\ run[r].shared \in BOOLEAN
  BY RunsTyped DEF IInv, SyncToken, SkipToken, TokenDone, LeaveToken
<1>2. Types
  BY DEF IInv
<1>3. ASSUME NEW t \in Tokens, SyncToken(r, t) PROVE IInv'
  <2> DEFINE c == [pc |-> "read", todo |-> run[r].todo \ {t}, token |-> t,
                   own |-> owner[t], items |-> ItemsOf(t), shared |-> run[r].shared]
  <2>1. run[r] \in NextRun
    BY <1>3, RunsTyped DEF IInv, SyncToken
  <2>2. ItemsOf(t) \subseteq Items
    BY <1>2 DEF ItemsOf, Items, Types
  <2>3. c \in TokenRun
    BY <1>1, <1>2, <2>1, <2>2 DEF NextRun, TokenRun, Types
  <2>4. MovesOn(r, c)
    BY <1>1, <1>3, <2>3 DEF MovesOn, SyncToken, RunType
  <2> QED BY <1>2, <1>3, <2>4, CallKeeps DEF SyncToken, Types
<1>4. ASSUME NEW t \in Tokens, SkipToken(r, t) PROVE IInv'
  <2> DEFINE c == [run[r] EXCEPT !.todo = @ \ {t}]
  <2>1. run[r] \in NextRun
    BY <1>4, RunsTyped DEF IInv, SkipToken
  <2>2. c \in NextRun /\ c.shared = run[r].shared /\ c.pc = "next"
    BY <2>1 DEF NextRun
  <2>3. run' = [run EXCEPT ![r] = c]
    BY <1>4 DEF SkipToken
  <2> HIDE DEF c
  <2>4. MovesOn(r, c)
    BY <1>1, <2>2, <2>3 DEF MovesOn, RunType
  <2>5. faults' \in 0..MaxFaults
    BY <1>2, <1>4, IndexerAssumption DEF SkipToken, Fault, Types
  <2> QED BY <1>2, <1>4, <2>4, <2>5, CallKeeps DEF SkipToken, Types
<1>5. CASE TokenDone(r) \/ LeaveToken(r)
  <2> DEFINE c == [pc |-> "next", todo |-> run[r].todo, shared |-> run[r].shared]
  <2>1. run[r] \in TokenRun \cup ItemRun
    BY <1>5, RunsTyped DEF IInv, TokenDone, LeaveToken
  <2>2. c \in NextRun
    BY <1>1, <2>1 DEF NextRun, TokenRun, ItemRun
  <2>3. MovesOn(r, c)
    BY <1>1, <1>5, <2>2 DEF MovesOn, TokenDone, LeaveToken, RunType
  <2>4. faults' \in 0..MaxFaults
    BY <1>2, <1>5, IndexerAssumption DEF TokenDone, LeaveToken, Fault, Types
  <2> QED BY <1>2, <1>5, <2>3, <2>4, CallKeeps DEF TokenDone, LeaveToken, Types
<1> QED BY <1>3, <1>4, <1>5

LEMMA FinishNext ==
    ASSUME IInv, NEW r \in Runs, Finish(r) \/ FinishFails(r)
    PROVE  IInv'
<1>1. MovesOn(r, Idle)
  BY DEF MovesOn, Finish, FinishFails, Idle
<1>2. CASE Finish(r)
  BY <1>1, <1>2, CallKeeps DEF IInv, Types, Finish
<1>3. CASE FinishFails(r)
  BY <1>1, <1>3, ThrowTyped, CallKeeps DEF IInv, Types, FinishFails
<1> QED BY <1>2, <1>3

LEMMA ReadNext ==
    ASSUME IInv, NEW r \in Runs, NEW x \in Items, ReadItem(r, x)
    PROVE  IInv'
<1>1. run[r] \in TokenRun \cup ItemRun /\ Active(r) /\ run[r].shared \in BOOLEAN
  BY RunsTyped DEF IInv, ReadItem
<1>2. Types /\ 0 \in Numbers
  BY IndexerAssumption DEF IInv, Numbers
<1>3. PICK v \in Numbers, pc \in {"read", "write"} :
        /\ run' = Reading(r, x, v, pc)
        /\ pc = "write" => v <= value[x] /\ (x[2] = Supply => v = value[x])
  <2>1. value[x] \in Numbers /\ 0 <= value[x] /\ value[x] <= value[x]
    BY <1>2 DEF Types, Numbers
  <2>2. CASE run' = Reading(r, x, value[x], "write")
    BY <2>1, <2>2
  <2>3. CASE run' = Reading(r, x, 0, IF x[2] = Supply THEN "read" ELSE "write")
    <3>1. CASE x[2] = Supply
      BY <1>2, <2>3, <3>1
    <3>2. CASE x[2] # Supply
      BY <1>2, <2>1, <2>3, <3>2
    <3> QED BY <3>1, <3>2
  <2> QED BY <2>2, <2>3 DEF ReadItem
<1> DEFINE c == [pc |-> pc, todo |-> run[r].todo, token |-> run[r].token, own |-> run[r].own,
                 items |-> run[r].items \ {x}, item |-> x, value |-> v, shared |-> run[r].shared]
<1>4. /\ run[r].todo \subseteq Tokens /\ run[r].token \in Tokens
      /\ run[r].own \in Numbers \cup {Written} /\ run[r].items \subseteq Items
  BY <1>1 DEF TokenRun, ItemRun
<1>5. c \in ItemRun /\ c.pc = pc /\ c.item = x /\ c.value = v /\ c.shared = run[r].shared
  BY <1>1, <1>4 DEF ItemRun
<1>6. run' = [run EXCEPT ![r] = c]
  BY <1>3 DEF Reading
<1> HIDE DEF c
<1>7. table[x] <= value[x]
  BY DEF IInv, Behind
<1>8. MovesOn(r, c)
  BY <1>1, <1>3, <1>5, <1>6, <1>7 DEF MovesOn, RunType
<1>9. faults' \in 0..MaxFaults
  BY <1>2, IndexerAssumption DEF ReadItem, Fault, Types
<1> QED BY <1>2, <1>8, <1>9, CallKeeps DEF ReadItem, Types

LEMMA IssuerNext ==
    ASSUME IInv, NEW r \in Runs, SetIssuer(r)
    PROVE  IInv'
<1> DEFINE c == [run[r] EXCEPT !.own = Written]
<1>1. run[r] \in TokenRun \cup ItemRun /\ Active(r) /\ run[r].pc = "read"
  BY RunsTyped DEF IInv, SetIssuer
<1>2. c \in RunType /\ c.shared = run[r].shared /\ c.pc = "read"
  <2>1. CASE run[r] \in TokenRun
    BY <1>1, <2>1 DEF TokenRun, RunType
  <2>2. CASE run[r] \in ItemRun
    BY <1>1, <2>2 DEF ItemRun, RunType
  <2> QED BY <1>1, <2>1, <2>2
<1>3. run' = [run EXCEPT ![r] = c]
  BY DEF SetIssuer
<1> HIDE DEF c
<1>4. MovesOn(r, c)
  BY <1>1, <1>2, <1>3 DEF MovesOn
<1>5. issuer' \in [Tokens -> Numbers]
  <2>1. run[r].own \in Numbers /\ run[r].token \in Tokens
    BY <1>1 DEF SetIssuer, TokenRun, ItemRun
  <2> QED BY <2>1 DEF IInv, Types, SetIssuer
<1> QED BY <1>4, <1>5, CallKeeps DEF IInv, SetIssuer, Types

(* What a write does, and that it keeps the invariant. *)
LEMMA Write ==
    ASSUME IInv, NEW r \in Runs, WriteItem(r)
    PROVE  /\ run[r] \in ItemRun /\ run[r].pc = "write"
           /\ table' = [table EXCEPT ![run[r].item] = run[r].value]
           /\ run[r].item \in Items /\ run[r].value \in 0..value[run[r].item]
           /\ ~run[r].shared /\ run[r].item[2] = Supply =>
                table[run[r].item] <= run[r].value
           /\ UNCHANGED <<chain, proc, status>>
<1>1. run[r] \in ItemRun /\ run[r].pc = "write"
  BY RunsTyped DEF IInv, WriteItem
<1>2. run[r].item \in Items /\ run[r].value \in Numbers
  BY <1>1 DEF ItemRun
<1>3. run[r].value <= value[run[r].item] /\ value[run[r].item] \in Numbers
  BY <1>1, <1>2 DEF IInv, Behind, Types
<1>4. run[r].value \in 0..value[run[r].item]
  BY <1>2, <1>3 DEF Numbers
<1> QED BY <1>1, <1>2, <1>4 DEF IInv, Newest, WriteItem

LEMMA WriteNext ==
    ASSUME IInv, NEW r \in Runs, WriteItem(r)
    PROVE  IInv'
<1> DEFINE c == [run[r] EXCEPT !.pc = "read"]
<1>1. c \in RunType /\ c.pc = "read" /\ c.shared = run[r].shared /\ Active(r)
  BY Write, RunsTyped DEF ItemRun, RunType, IInv
<1>2. run' = [run EXCEPT ![r] = c]
  BY DEF WriteItem
<1> HIDE DEF c
<1>3. run'[r] = c /\ \A q \in Runs \ {r} : run'[q] = run[q]
  BY <1>2 DEF IInv, Types
<1>4. value' = value /\ owner' = owner /\ deployed' = deployed /\ known' = known
      /\ changes' = changes
  BY DEF WriteItem, chain
<1>5. \A x \in Items : table'[x] = IF x = run[r].item THEN run[r].value ELSE table[x]
  BY Write DEF IInv, Types
<1>6. Types'
  <2>1. table' \in [Items -> Numbers]
    BY Write DEF ItemRun, IInv, Types
  <2>2. run' \in [Runs -> RunType \cup {Idle}]
    BY <1>1, <1>2 DEF IInv, Types
  <2> QED BY <1>4, <2>1, <2>2 DEF IInv, Types, WriteItem
<1>7. Counted'
  BY <1>4 DEF IInv, Counted
<1>8. Behind'
  <2>1. run[r].value <= value[run[r].item]
    BY Write DEF IInv, Behind
  <2> QED BY <1>1, <1>3, <1>4, <1>5, <2>1 DEF IInv, Behind
<1>9. \A q \in Runs : Active(q)' => Active(q) /\ run'[q].shared = run[q].shared
  BY <1>1, <1>3 DEF Active
<1>10. Alone'
  BY <1>9 DEF IInv, Alone
<1>11. Newest'
  <2> SUFFICES ASSUME NEW q \in Runs, run'[q].pc = "write" PROVE run'[q].shared
    BY DEF Newest
  <2>1. q # r
    BY <1>1, <1>3
  <2>2. Active(q) /\ run'[q] = run[q]
    BY <1>3, <2>1, RunsTyped DEF IInv
  <2> QED BY <1>1, <2>1, <2>2 DEF IInv, Alone
<1> QED BY <1>6, <1>7, <1>8, <1>10, <1>11 DEF IInv

LEMMA NextIInv == IInv /\ [Next]_vars => IInv'
<1> SUFFICES ASSUME IInv, [Next]_vars PROVE IInv'
  OBVIOUS
<1>1. CASE \E t \in Tokens : Deploy(t) \/ HandOver(t) \/ \E w \in Wallets : Mint(t, w)
  BY <1>1, DeployNext, HandOverNext, MintNext
<1>2. CASE \E w \in Wallets : SignUp(w)
  BY <1>2, SignUpNext
<1>3. ASSUME NEW r \in Runs, Work(r) PROVE IInv'
  BY <1>3, ListNext, TokenNext, ReadNext, WriteNext, IssuerNext, FinishNext DEF Work
<1>4. ASSUME NEW r \in Runs,
             \/ Start(r) \/ Retry(r)
             \/ StartFails(r) \/ ListFails(r) \/ LeaveToken(r) \/ FinishFails(r)
             \/ \E t \in Tokens : SkipToken(r, t)
      PROVE  IInv'
  BY <1>4, StartNext, StartFailsNext, ListNext, TokenNext, FinishNext
<1>5. CASE UNCHANGED vars
  BY <1>5 DEF vars, chain, IInv, Types, Counted, Behind, Alone, Newest, Active
<1> QED BY <1>1, <1>2, <1>3, <1>4, <1>5 DEF Next

-----------------------------------------------------------------------------
(* The invariant that the results below follow from: nothing in the tables or  *)
(* in a syncOnce call under way runs ahead of the chain, and a call that is    *)
(* not marked as shared is the only one.                                       *)
THEOREM IndexerInvariant == Spec => []IInv
<1>1. Init => IInv
  BY InitIInv
<1>2. IInv /\ [Next]_vars => IInv'
  BY NextIInv
<1> QED BY <1>1, <1>2, PTL DEF Spec

(* The tables and the calls of the indexer keep their types. *)
THEOREM TypeCorrect == Spec => []TypeOK
<1>1. IInv => TypeOK
  BY RunsTyped DEF IInv, Types, TypeOK, Numbers
<1> QED BY <1>1, IndexerInvariant, PTL

(* The steps that write the tables. *)
LEMMA TableSteps ==
    ASSUME [Next]_vars
    PROVE  table' = table \/ \E r \in Runs : WriteItem(r)
<1>1. CASE \E t \in Tokens : Deploy(t) \/ HandOver(t) \/ \E w \in Wallets : Mint(t, w)
  BY <1>1 DEF Deploy, HandOver, Mint, ChainStep
<1>2. CASE \E w \in Wallets : SignUp(w)
  BY <1>2 DEF SignUp, ChainStep
<1>3. ASSUME NEW r \in Runs, Work(r) PROVE table' = table \/ WriteItem(r)
  BY <1>3 DEF Work, ListTokens, SyncToken, ReadItem, SetIssuer, TokenDone, Finish
<1>4. ASSUME NEW r \in Runs,
             \/ Start(r) \/ Retry(r)
             \/ StartFails(r) \/ ListFails(r) \/ LeaveToken(r) \/ FinishFails(r)
             \/ \E t \in Tokens : SkipToken(r, t)
      PROVE  table' = table
  BY <1>4 DEF Start, Retry, StartFails, ListFails, LeaveToken, FinishFails, SkipToken
<1>5. CASE UNCHANGED vars
  BY <1>5 DEF vars
<1> QED BY <1>1, <1>2, <1>3, <1>4, <1>5 DEF Next

(* syncToken and setInterval: the supply shown goes back to an older one only  *)
(* by a call that overlapped another.                                          *)
THEOREM SupplyCorrect == Spec => SupplyGoesBackOnlyInOverlap
<1>1. ASSUME IInv, [Next]_vars, NEW t \in Tokens,
             table'[<<t, Supply>>] < table[<<t, Supply>>]
      PROVE  \E r \in Runs : run[r].pc = "write" /\ run[r].shared
  <2> DEFINE s == <<t, Supply>>
  <2>1. s \in Items /\ s[2] = Supply
    BY DEF Items
  <2>2. table[s] \in Int
    BY <1>1, <2>1 DEF IInv, Types, Numbers
  <2>3. PICK r \in Runs : WriteItem(r)
    BY <1>1, <2>2, TableSteps
  <2>4. run[r].item = s /\ table'[s] = run[r].value
    BY <1>1, <2>1, <2>2, <2>3, Write DEF IInv, Types
  <2>5. ~(table[s] <= run[r].value)
    BY <1>1, <2>2, <2>4, <2>3, Write
  <2> QED BY <1>1, <2>1, <2>3, <2>4, <2>5, Write
<1>2. IInv /\ [Next]_vars =>
        [\A t \in Tokens : table'[<<t, Supply>>] < table[<<t, Supply>>] =>
           \E r \in Runs : run[r].pc = "write" /\ run[r].shared]_vars
  BY <1>1
<1> QED BY <1>2, IndexerInvariant, PTL DEF Spec, SupplyGoesBackOnlyInOverlap

(* The steps that change values on chain. *)
LEMMA ValueSteps ==
    ASSUME IInv, [Next]_vars
    PROVE  /\ \A x \in Items : value'[x] \in {value[x], value[x] + 1}
           /\ value' = value \/ table' = table
<1>1. ASSUME NEW t \in Tokens, NEW w \in Wallets, Mint(t, w)
      PROVE  (\A x \in Items : value'[x] \in {value[x], value[x] + 1}) /\ table' = table
  BY <1>1 DEF Mint, ChainStep
<1>2. CASE \E t \in Tokens : Deploy(t) \/ HandOver(t)
  BY <1>2 DEF Deploy, HandOver
<1>3. CASE \E w \in Wallets : SignUp(w)
  BY <1>3 DEF SignUp
<1>4. ASSUME NEW r \in Runs, Work(r) PROVE value' = value
  BY <1>4 DEF Work, ListTokens, SyncToken, ReadItem, WriteItem, SetIssuer, TokenDone, Finish, chain
<1>5. ASSUME NEW r \in Runs,
             \/ Start(r) \/ Retry(r)
             \/ StartFails(r) \/ ListFails(r) \/ LeaveToken(r) \/ FinishFails(r)
             \/ \E t \in Tokens : SkipToken(r, t)
      PROVE  value' = value
  BY <1>5 DEF Start, Retry, StartFails, ListFails, LeaveToken, FinishFails, SkipToken, chain
<1>6. CASE UNCHANGED vars
  BY <1>6 DEF vars, chain
<1> QED BY <1>1, <1>2, <1>3, <1>4, <1>5, <1>6 DEF Next

(* The tables implement the safety half of Mirror: each holds a value its item *)
(* has had on chain, through retries, failed reads and overlapping calls.      *)
THEOREM MirrorCorrect == Spec => MirrorSafety
<1>1. Init => Tables!Init
  BY DEF Init, Tables!Init
<1>2. IInv /\ [Next]_vars => [Tables!Next]_<<value, table>>
  <2> SUFFICES ASSUME IInv, [Next]_vars PROVE [Tables!Next]_<<value, table>>
    OBVIOUS
  <2>1. CASE table' = table
    BY <2>1, ValueSteps DEF Tables!Next, Tables!Change
  <2>2. CASE \E r \in Runs : WriteItem(r)
    <3>1. PICK r \in Runs : WriteItem(r)
      BY <2>2
    <3>2. value' = value
      BY <3>1 DEF WriteItem, chain
    <3>3. \E x \in Items : \E v \in 0..value[x] : table' = [table EXCEPT ![x] = v]
      BY <3>1, Write
    <3> QED BY <3>2, <3>3 DEF Tables!Next, Tables!Copy
  <2> QED BY <2>1, <2>2, TableSteps
<1> QED BY <1>1, <1>2, IndexerInvariant, PTL DEF Spec, MirrorSafety, Tables!Safety

=============================================================================
