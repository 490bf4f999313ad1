------------------------- MODULE WalletSessionProofs -------------------------
(***************************************************************************)
(* Proofs about WalletSession: while an account is connected the application  *)
(* never rests with another, and what the providers show of another account   *)
(* is on its way out.                                                         *)
(*                                                                           *)
(* Neither is inductive.  The first needs that the client of a hydration      *)
(* under way is new to the effects (Clients): its end is a change that they   *)
(* notice.  The second is about the address of the present state; what each   *)
(* step keeps is about the address the effects last ran with, seen[2]         *)
(* (Replaced), and that a load which may still apply its answer is for that   *)
(* address (CurrentLoads).                                                    *)
(***************************************************************************)
EXTENDS WalletSession, FunctionTheorems, FiniteSetTheorems, TLAPS

HydrationType == [id : Ids, wallet : Wallets]
LoadType == [kind : Kinds, wallet : Wallets, current : BOOLEAN]

HydratingIds == {h.id : h \in hydrating}

AppTypes ==
    /\ wallet \in Accounts
    /\ app \in [address : Accounts, client : Nat]
    /\ mounted \subseteq Hooks
    /\ hydrating \subseteq HydrationType /\ IsFiniteSet(hydrating)
    /\ \A g, h \in hydrating : g.id = h.id => g = h
    /\ shared \in [key : Accounts \cup {Gone}, promise : hydrating \cup {Gone}]
    /\ waiting \subseteq (Hooks \cup {Gone}) \X HydratingIds

LoadTypes ==
    /\ inflight \subseteq Keys
    /\ loads \subseteq LoadType
    /\ \A l \in loads : <<l.kind, l.wallet>> \in inflight
    /\ shown \in [Kinds -> Accounts]
    /\ loading \in [Kinds -> BOOLEAN]
    /\ failed \in [Kinds -> BOOLEAN]

Counters ==
    /\ changes \in 0 .. MaxChanges
    /\ faults \in 0 .. MaxFaults

(* A client being made is not in use, and the effects have not run with it. *)
Clients ==
    /\ seen = <<seen[1], seen[2], seen[3]>>
    /\ seen[3] \notin HydratingIds
    /\ app.client \notin HydratingIds

OneCurrent ==
    \A l, m \in loads : l.kind = m.kind /\ l.current /\ m.current => l = m

CurrentLoads ==
    \A l \in loads : l.current /\ seen[2] \in Wallets => l.wallet = seen[2]

Load(k, w) == [kind |-> k, wallet |-> w, current |-> TRUE]

Replaced ==
    \A k \in Kinds : seen[2] \in Wallets =>
        \/ shown[k] \in {NoWallet, seen[2]}
        \/ Load(k, seen[2]) \in loads /\ (k = "trusted-provider" => loading[k])
        \/ failed[k] /\ k # "trusted-provider"

IInv ==
    /\ AppTypes /\ LoadTypes /\ Counters /\ Clients /\ AddressFollowsWallet
    /\ OneCurrent /\ CurrentLoads /\ Replaced

-----------------------------------------------------------------------------
(* There is always a client object that is neither in use nor being made. *)
LEMMA FreshId ==
    ASSUME AppTypes
    PROVE  NewId \in Ids /\ NewId # app.client /\ NewId \notin HydratingIds
<1>1. PICK n \in Nat : n = Cardinality(hydrating)
  BY FS_CardinalityType DEF AppTypes
<1>2. PICK T : T = {h.id : h \in hydrating}
  OBVIOUS
<1>3. IsFiniteSet(T) /\ Cardinality(T) <= n
  <2>1. PICK f : f = [h \in hydrating |-> h.id]
    OBVIOUS
  <2>2. f \in Surjection(hydrating, T)
    BY <1>2, <2>1 DEF Surjection
  <2> QED BY <1>1, <2>2, FS_Surjection DEF AppTypes
<1>4. /\ IsFiniteSet(T \cup {app.client}) /\ Cardinality(T \cup {app.client}) <= n + 1
      /\ Cardinality(T \cup {app.client}) \in Nat
  <2>1. Cardinality(T) \in Nat
    BY <1>3, FS_CardinalityType
  <2>2. /\ IsFiniteSet(T \cup {app.client})
        /\ \/ Cardinality(T \cup {app.client}) = Cardinality(T)
           \/ Cardinality(T \cup {app.client}) = Cardinality(T) + 1
    BY <1>3, FS_AddElement
  <2> QED BY <1>3, <2>1, <2>2
<1>5. IsFiniteSet(1 .. n + 2) /\ Cardinality(1 .. n + 2) = n + 2
  BY FS_Interval
<1>6. ~(1 .. n + 2 \subseteq T \cup {app.client})
  <2> SUFFICES ASSUME 1 .. n + 2 \in SUBSET (T \cup {app.client}) PROVE FALSE
    OBVIOUS
  <2>1. Cardinality(1 .. n + 2) <= Cardinality(T \cup {app.client})
    BY <1>4, FS_Subset
  <2> QED BY <1>4, <1>5, <2>1
<1>7. \E id \in 1 .. n + 2 : id \notin {app.client} \cup T
  BY <1>6
<1>8. NewId = CHOOSE id \in 1 .. n + 2 : id \notin {app.client} \cup T
  BY <1>1, <1>2 DEF NewId
<1>9. NewId \in 1 .. n + 2 /\ NewId \notin {app.client} \cup T
  BY <1>7, <1>8
<1> QED BY <1>2, <1>9 DEF Ids, HydratingIds

LEMMA HydrationTyped ==
    ASSUME AppTypes, NEW h \in hydrating
    PROVE  h \in HydrationType /\ h.id \in Nat /\ h.id # 0 /\ h.wallet \in Wallets /\ h.id \in HydratingIds
BY DEF AppTypes, HydrationType, Ids, HydratingIds

-----------------------------------------------------------------------------
(* The hook.  A step that leaves address and client alone, or makes the       *)
(* client 0, keeps Clients.                                                   *)

LEMMA CommitClean ==
    ASSUME IInv, NEW runners \in SUBSET Hooks, seen' = Deps, wallet' = wallet,
           mounted' \in SUBSET Hooks,
           HydrateDisconnected(runners) \/ HydrateNothing(runners)
    PROVE  AppTypes' /\ Clients' /\ AddressFollowsWallet'
<1>1. AppTypes /\ Clients
  BY DEF IInv
<1>2. hydrating' = hydrating /\ HydratingIds' = HydratingIds
  BY DEF HydrateDisconnected, HydrateNothing, HydratingIds
<1>3. waiting' \subseteq waiting
  BY DEF HydrateDisconnected, HydrateNothing, StillWaiting
<1>4. /\ shared' \in [key : Accounts \cup {Gone}, promise : hydrating \cup {Gone}]
      /\ app' \in [address : Accounts, client : Nat]
      /\ app'.client \in {app.client, 0}
  BY <1>1 DEF HydrateDisconnected, HydrateNothing, AppTypes, clearWalletState, setWalletState, Accounts
<1>5. AppTypes'
  BY <1>1, <1>2, <1>3, <1>4 DEF AppTypes
<1>6. 0 \notin HydratingIds
  BY <1>1, HydrationTyped DEF HydratingIds
<1>7. Clients'
  BY <1>1, <1>2, <1>4, <1>6 DEF Clients, Deps
<1>8. AddressFollowsWallet'
  BY DEF AddressFollowsWallet, HydrateDisconnected, HydrateNothing, IsHydrated
<1> QED BY <1>5, <1>7, <1>8

LEMMA CommitHydrates ==
    ASSUME IInv, NEW runners \in SUBSET Hooks, seen' = Deps, wallet' = wallet,
           mounted' \in SUBSET Hooks, HydrateAccount(runners)
    PROVE  AppTypes' /\ Clients' /\ AddressFollowsWallet'
<1>1. AppTypes /\ Clients
  BY DEF IInv
<1>2. wallet \in Wallets
  BY <1>1 DEF HydrateAccount, AppTypes, Accounts
<1>3. PICK p :
        /\ hydrating' = hydrating \cup {p}
        /\ shared' = [shared EXCEPT !.promise = p]
        /\ waiting' = StillWaiting(runners) \cup (runners \X {p.id})
        /\ p \in hydrating \/ p = [id |-> NewId, wallet |-> wallet]
  BY DEF HydrateAccount
<1>4. p \in HydrationType /\ (p \in hydrating \/ p.id = NewId)
  BY <1>1, <1>2, <1>3, FreshId, HydrationTyped DEF HydrationType
<1>5. p.id # app.client /\ (p \in hydrating \/ p.id \notin HydratingIds)
  BY <1>1, <1>4, FreshId DEF Clients, HydratingIds
<1>6. HydratingIds' = HydratingIds \cup {p.id}
  BY <1>3 DEF HydratingIds
<1>7. /\ app' \in [address : Accounts, client : Nat]
      /\ app'.client \in {app.client, 0} /\ app'.address = wallet
  BY <1>1 DEF HydrateAccount, AppTypes, setWalletState
<1>8. AppTypes'
  <2>1. hydrating' \subseteq HydrationType
    BY <1>1, <1>3, <1>4 DEF AppTypes
  <2>2. IsFiniteSet(hydrating')
    BY <1>1, <1>3, FS_AddElement DEF AppTypes
  <2>3. \A g, h \in hydrating' : g.id = h.id => g = h
    BY <1>1, <1>3, <1>5 DEF AppTypes, HydratingIds
  <2>4. shared' \in [key : Accounts \cup {Gone}, promise : hydrating' \cup {Gone}]
    BY <1>1, <1>3 DEF AppTypes
  <2>5. waiting' \subseteq (Hooks \cup {Gone}) \X HydratingIds'
    <3>1. waiting \subseteq (Hooks \cup {Gone}) \X HydratingIds'
      BY <1>1, <1>6 DEF AppTypes
    <3>2. runners \X {p.id} \subseteq (Hooks \cup {Gone}) \X HydratingIds'
      BY <1>6
    <3> QED BY <1>3, <3>1, <3>2 DEF StillWaiting
  <2> QED BY <1>1, <1>7, <2>1, <2>2, <2>3, <2>4, <2>5 DEF AppTypes
<1>9. 0 \notin HydratingIds /\ p.id # 0
  BY <1>1, <1>4, HydrationTyped DEF HydratingIds, HydrationType, Ids
<1>10. Clients'
  BY <1>1, <1>5, <1>6, <1>7, <1>9 DEF Clients, Deps
<1>11. AddressFollowsWallet'
  BY <1>7 DEF AddressFollowsWallet
<1> QED BY <1>8, <1>10, <1>11

LEMMA CommitApp ==
    ASSUME IInv, NEW new \in SUBSET Hooks, Commit(new)
    PROVE  AppTypes' /\ Clients' /\ AddressFollowsWallet'
<1>1. PICK runners \in SUBSET Hooks : hydrateWallet(runners)
  BY DEF Commit, IInv, AppTypes
<1>2. seen' = Deps /\ wallet' = wallet /\ mounted' \in SUBSET Hooks
  BY DEF Commit, IInv, AppTypes
<1> QED BY <1>1, <1>2, CommitClean, CommitHydrates DEF hydrateWallet

LEMMA FinishApp ==
    ASSUME IInv, NEW h \in hydrating, FinishHydration(h)
    PROVE  AppTypes' /\ Clients' /\ AddressFollowsWallet'
<1>1. AppTypes /\ Clients /\ AddressFollowsWallet
  BY DEF IInv
<1>2. h \in HydrationType /\ h.id \in Nat /\ h.wallet \in Wallets /\ h.id \in HydratingIds
  BY <1>1, HydrationTyped
<1>3. /\ hydrating' = hydrating \ {h} /\ UNCHANGED <<wallet, mounted, seen>>
      /\ waiting' = {w \in waiting : w[2] # h.id}
      /\ shared' = [key |-> h.wallet,
                    promise |-> IF shared.promise \in hydrating /\ shared.promise.wallet = h.wallet
                                THEN Gone ELSE shared.promise]
      /\ app' = app \/ app' = [address |-> h.wallet, client |-> h.id]
  BY DEF FinishHydration, setWalletState
<1>4. HydratingIds' = HydratingIds \ {h.id}
  BY <1>1, <1>3 DEF HydratingIds, AppTypes
<1>5. AppTypes'
  <2>1. IsFiniteSet(hydrating')
    BY <1>1, <1>3, FS_RemoveElement DEF AppTypes
  <2>2. shared' \in [key : Accounts \cup {Gone}, promise : hydrating' \cup {Gone}]
    BY <1>1, <1>2, <1>3 DEF AppTypes, Accounts
  <2>3. waiting' \subseteq (Hooks \cup {Gone}) \X HydratingIds'
    BY <1>1, <1>3, <1>4 DEF AppTypes
  <2>4. app' \in [address : Accounts, client : Nat]
    BY <1>1, <1>2, <1>3 DEF AppTypes, Accounts
  <2> QED BY <1>1, <1>3, <2>1, <2>2, <2>3, <2>4 DEF AppTypes
<1>6. app'.client \in {app.client, h.id}
  BY <1>3
<1>7. Clients'
  BY <1>1, <1>3, <1>4, <1>6 DEF Clients
<1>8. AddressFollowsWallet'
  <2>1. CASE app' = app
    BY <1>1, <1>3, <2>1 DEF AddressFollowsWallet, Deps
  <2>2. CASE app' = [address |-> h.wallet, client |-> h.id]
    <3>1. seen'[3] # app'.client
      BY <1>1, <1>2, <1>3, <2>2 DEF Clients
    <3> QED BY <3>1 DEF AddressFollowsWallet, Deps
  <2> QED BY <1>3, <2>1, <2>2
<1> QED BY <1>5, <1>7, <1>8

LEMMA UserApp ==
    ASSUME IInv, \/ \E w \in Accounts : SelectAccount(w)
                 \/ disconnectWallet
    PROVE  AppTypes' /\ Clients' /\ AddressFollowsWallet'
<1>1. AppTypes /\ Clients
  BY DEF IInv
<1>2. /\ UNCHANGED <<seen, mounted, hydrating, shared, waiting>>
      /\ wallet' \in Accounts /\ seen[1] = wallet /\ wallet' # wallet
      /\ app' = app \/ app' = [address |-> NoWallet, client |-> 0]
  BY DEF SelectAccount, disconnectWallet, MayChangeAccount, appVars, Accounts, clearWalletState,
         setWalletState
<1>3. HydratingIds' = HydratingIds /\ 0 \notin HydratingIds
  BY <1>1, <1>2, HydrationTyped DEF HydratingIds
<1>4. app' \in [address : Accounts, client : Nat] /\ app'.client \in {app.client, 0}
  BY <1>1, <1>2 DEF AppTypes, Accounts
<1>5. AppTypes'
  BY <1>1, <1>2, <1>3, <1>4 DEF AppTypes
<1>6. Clients'
  BY <1>1, <1>2, <1>3, <1>4 DEF Clients
<1>7. AddressFollowsWallet'
  BY <1>2 DEF AddressFollowsWallet, Deps
<1> QED BY <1>5, <1>6, <1>7

LEMMA UnmountApp ==
    ASSUME IInv, NEW i \in Hooks, Unmount(i)
    PROVE  AppTypes' /\ Clients' /\ AddressFollowsWallet'
<1>1. AppTypes /\ Clients /\ AddressFollowsWallet
  BY DEF IInv
<1>2. /\ UNCHANGED <<wallet, app, seen, hydrating, shared>>
      /\ mounted' = mounted \ {i}
      /\ waiting' = {<<IF w[1] = i THEN Gone ELSE w[1], w[2]>> : w \in waiting}
  BY DEF Unmount
<1>3. HydratingIds' = HydratingIds
  BY <1>2 DEF HydratingIds
<1>4. waiting' \subseteq (Hooks \cup {Gone}) \X HydratingIds
  BY <1>1, <1>2 DEF AppTypes
<1>5. AppTypes'
  BY <1>1, <1>2, <1>3, <1>4 DEF AppTypes
<1>6. Clients' /\ AddressFollowsWallet'
  BY <1>1, <1>2, <1>3 DEF Clients, AddressFollowsWallet, Deps
<1> QED BY <1>5, <1>6

-----------------------------------------------------------------------------
(* The providers. *)

LEMMA LoadTyped ==
    ASSUME LoadTypes, NEW l \in loads
    PROVE  /\ l \in LoadType /\ l.kind \in Kinds /\ l.wallet \in Wallets /\ l.current \in BOOLEAN
           /\ <<l.kind, l.wallet>> \in inflight
           /\ l.current = TRUE => l = Load(l.kind, l.wallet)
BY DEF LoadTypes, LoadType, Load

LEMMA LoadIsTyped ==
    ASSUME NEW k \in Kinds, NEW w \in Wallets
    PROVE  /\ Load(k, w) \in LoadType /\ Load(k, w).kind = k /\ Load(k, w).wallet = w
           /\ Load(k, w).current = TRUE
BY DEF Load, LoadType

(* The loads after a commit: an older one keeps its place, current or not,    *)
(* and the kinds that were queried have a new one.                            *)
LEMMA CommitLoadSet ==
    ASSUME LoadTypes, AppTypes, RunProviders
    PROVE  /\ \A m \in loads' :
                \/ \E l \in loads : /\ m.kind = l.kind /\ m.wallet = l.wallet /\ m \in LoadType
                                    /\ m.current => m = l /\ ~Supersedes(l.kind)
                \/ \E k \in Queried : m = Load(k, app.address)
           /\ \A l \in loads : ~Supersedes(l.kind) => l \in loads'
           /\ \A k \in Queried : Load(k, app.address) \in loads'
<1>1. loads' = {[l EXCEPT !.current = @ /\ ~Supersedes(l.kind)] : l \in loads}
                 \cup {Load(k, app.address) : k \in Queried}
  BY DEF RunProviders, Load
<1>2. ASSUME NEW l \in loads, NEW m, m = [l EXCEPT !.current = @ /\ ~Supersedes(l.kind)]
      PROVE  /\ m.kind = l.kind /\ m.wallet = l.wallet /\ m \in LoadType
             /\ m.current => m = l /\ ~Supersedes(l.kind)
             /\ ~Supersedes(l.kind) => m = l
  <2>1. l \in LoadType
    BY LoadTyped
  <2>2. PICK c \in BOOLEAN : c = (l.current /\ ~Supersedes(l.kind))
    OBVIOUS
  <2>3. m = [l EXCEPT !.current = c]
    BY <1>2, <2>2
  <2>4. m.kind = l.kind /\ m.wallet = l.wallet /\ m \in LoadType /\ m.current = c
    BY <2>1, <2>3 DEF LoadType
  <2>5. c = l.current => m = l
    BY <2>1, <2>3, <2>4 DEF LoadType
  <2>6. c = TRUE => l.current = TRUE
    BY <2>1, <2>2 DEF LoadType
  <2>7. ~Supersedes(l.kind) => c = l.current
    BY <2>1, <2>2 DEF LoadType
  <2> QED BY <2>2, <2>4, <2>5, <2>6, <2>7
<1>3. ASSUME NEW m \in loads'
      PROVE  \/ \E l \in loads : /\ m.kind = l.kind /\ m.wallet = l.wallet /\ m \in LoadType
                                 /\ m.current => m = l /\ ~Supersedes(l.kind)
             \/ \E k \in Queried : m = Load(k, app.address)
  <2>1. CASE m \in {Load(k, app.address) : k \in Queried}
    BY <2>1
  <2>2. CASE m \in {[l EXCEPT !.current = @ /\ ~Supersedes(l.kind)] : l \in loads}
    <3>1. PICK l \in loads : m = [l EXCEPT !.current = @ /\ ~Supersedes(l.kind)]
      BY <2>2
    <3> QED BY <1>2, <3>1
  <2> QED BY <1>1, <2>1, <2>2
<1>4. ASSUME NEW l \in loads, ~Supersedes(l.kind)
      PROVE  l \in loads'
  <2>1. PICK m : m = [l EXCEPT !.current = @ /\ ~Supersedes(l.kind)]
    OBVIOUS
  <2>2. m = l
    BY <1>2, <1>4, <2>1
  <2>3. m \in loads'
    BY <1>1, <2>1
  <2> QED BY <2>2, <2>3
<1>5. \A k \in Queried : Load(k, app.address) \in loads'
  BY <1>1
<1> QED BY <1>3, <1>4, <1>5

LEMMA QueriedKinds ==
    ASSUME AppTypes
    PROVE  /\ \A k \in Queried : k \in Kinds /\ app.address \in Wallets /\ Supersedes(k) /\ Runs(k)
           /\ \A k : Supersedes(k) => Runs(k)
           /\ \A k : Runs(k) /\ app.address \in Wallets => Supersedes(k)
           /\ \A k \in Kinds : Runs(k) /\ app.address \in Wallets =>
                 k \in Queried \/ Clears(k)
           /\ \A k : ~Runs(k) => seen[2] = app.address
BY SessionAssumption
   DEF AppTypes, Accounts, Queried, Loads, Clears, Supersedes, Runs, HasNothing, AddressChanged

LEMMA CommitLoads ==
    ASSUME IInv, RunProviders, seen' = Deps
    PROVE  LoadTypes' /\ OneCurrent' /\ CurrentLoads' /\ Replaced'
<1>1. AppTypes /\ LoadTypes /\ OneCurrent /\ CurrentLoads /\ Replaced
  BY DEF IInv
<1>2. seen'[2] = app.address
  BY DEF Deps
<1>3. /\ \A k \in Queried : k \in Kinds /\ app.address \in Wallets /\ Supersedes(k) /\ Runs(k)
      /\ \A k : Supersedes(k) => Runs(k)
      /\ \A k : Runs(k) /\ app.address \in Wallets => Supersedes(k)
      /\ \A k \in Kinds : Runs(k) /\ app.address \in Wallets => k \in Queried \/ Clears(k)
      /\ \A k : ~Runs(k) => seen[2] = app.address
  BY <1>1, QueriedKinds
<1>4. /\ \A m \in loads' :
           \/ \E l \in loads : /\ m.kind = l.kind /\ m.wallet = l.wallet /\ m \in LoadType
                               /\ m.current => m = l /\ ~Supersedes(l.kind)
           \/ \E k \in Queried : m = Load(k, app.address)
      /\ \A l \in loads : ~Supersedes(l.kind) => l \in loads'
      /\ \A k \in Queried : Load(k, app.address) \in loads'
  BY <1>1, CommitLoadSet
<1>5. \A k \in Queried : /\ Load(k, app.address) \in LoadType /\ Load(k, app.address).kind = k
                         /\ Load(k, app.address).wallet = app.address
  BY <1>3, LoadIsTyped
<1>6. LoadTypes'
  <2>1. inflight' \subseteq Keys /\ inflight \subseteq inflight'
        /\ \A k \in Queried : <<k, app.address>> \in inflight'
    BY <1>1, <1>3 DEF RunProviders, LoadTypes, Keys
  <2>2. loads' \subseteq LoadType
    BY <1>4, <1>5
  <2>3. ASSUME NEW m \in loads'
        PROVE  <<m.kind, m.wallet>> \in inflight'
    <3>1. CASE \E k \in Queried : m = Load(k, app.address)
      BY <1>5, <2>1, <3>1
    <3>2. CASE \E l \in loads : m.kind = l.kind /\ m.wallet = l.wallet
      BY <1>1, <2>1, <3>2 DEF LoadTypes
    <3> QED BY <1>4, <3>1, <3>2
  <2>4. shown' \in [Kinds -> Accounts]
    BY <1>1 DEF RunProviders, LoadTypes, Accounts
  <2>5. loading' \in [Kinds -> BOOLEAN]
    BY <1>1 DEF RunProviders, LoadTypes, Runs, Loads
  <2>6. failed' \in [Kinds -> BOOLEAN]
    BY <1>1 DEF RunProviders, LoadTypes
  <2> QED BY <2>1, <2>2, <2>3, <2>4, <2>5, <2>6 DEF LoadTypes
<1>7. OneCurrent'
  <2> SUFFICES ASSUME NEW l \in loads', NEW m \in loads', l.kind = m.kind, l.current, m.current
               PROVE  l = m
    BY DEF OneCurrent
  <2>1. ASSUME NEW q \in loads', q.current
        PROVE  \/ q \in loads /\ ~Supersedes(q.kind)
               \/ q.kind \in Queried /\ q = Load(q.kind, app.address)
    <3>1. CASE \E k \in Queried : q = Load(k, app.address)
      BY <1>5, <3>1
    <3>2. CASE \E o \in loads : q.current => q = o /\ ~Supersedes(o.kind)
      BY <2>1, <3>2
    <3> QED BY <1>4, <3>1, <3>2
  <2>2. CASE Supersedes(l.kind)
    BY <2>1, <2>2
  <2>3. CASE ~Supersedes(l.kind)
    BY <1>1, <1>3, <2>1, <2>3 DEF OneCurrent
  <2> QED BY <2>2, <2>3
<1>8. CurrentLoads'
  <2> SUFFICES ASSUME NEW m \in loads', m.current, app.address \in Wallets
               PROVE  m.wallet = app.address
    BY <1>2 DEF CurrentLoads
  <2>1. CASE \E k \in Queried : m = Load(k, app.address)
    BY <1>5, <2>1
  <2>2. CASE m \in loads /\ ~Supersedes(m.kind)
    BY <1>1, <1>3, <2>2 DEF CurrentLoads
  <2> QED BY <1>4, <2>1, <2>2
<1>9. Replaced'
  <2> SUFFICES ASSUME NEW k \in Kinds, app.address \in Wallets
               PROVE  \/ shown'[k] \in {NoWallet, app.address}
                      \/ Load(k, app.address) \in loads' /\ (k = "trusted-provider" => loading'[k])
                      \/ failed'[k] /\ k # "trusted-provider"
    BY <1>2 DEF Replaced
  <2>1. CASE Clears(k)
    BY <2>1 DEF RunProviders
  <2>2. CASE k \in Queried
    <3>1. loading'[k]
      BY <1>3, <2>2 DEF RunProviders, Queried
    <3> QED BY <1>4, <2>2, <3>1
  <2>3. CASE ~Runs(k)
    <3>1. shown'[k] = shown[k] /\ loading'[k] = loading[k]
      BY <2>3 DEF RunProviders, Clears
    <3>2. failed[k] => failed'[k]
      BY <2>3 DEF RunProviders
    <3>3. Load(k, app.address) \in loads => Load(k, app.address) \in loads'
      BY <1>3, <1>4, <2>3, LoadIsTyped
    <3> QED BY <1>1, <1>3, <2>3, <3>1, <3>2, <3>3 DEF Replaced
  <2> QED BY <1>3, <2>1, <2>2, <2>3
<1> QED BY <1>6, <1>7, <1>8, <1>9

LEMMA FinishLoads ==
    ASSUME IInv, NEW h \in hydrating, FinishHydration(h)
    PROVE  LoadTypes' /\ OneCurrent' /\ CurrentLoads' /\ Replaced'
<1>1. AppTypes /\ LoadTypes /\ OneCurrent /\ CurrentLoads /\ Replaced
  BY DEF IInv
<1>2. h.wallet \in Wallets
  BY <1>1, HydrationTyped
<1>3. /\ UNCHANGED <<seen, loads, shown, loading, failed>>
      /\ inflight' = inflight \cup ({"identity"} \X {h.wallet})
  BY DEF FinishHydration, shownVars
<1>4. LoadTypes'
  BY <1>1, <1>2, <1>3, SessionAssumption DEF LoadTypes, Keys
<1> QED BY <1>1, <1>3, <1>4 DEF OneCurrent, CurrentLoads, Replaced

LEMMA SameLoads ==
    ASSUME IInv, UNCHANGED <<seen, inflight, loads, shown, loading, failed>>
    PROVE  LoadTypes' /\ OneCurrent' /\ CurrentLoads' /\ Replaced'
BY DEF IInv, LoadTypes, OneCurrent, CurrentLoads, Replaced

LEMMA SameApp ==
    ASSUME IInv, UNCHANGED <<wallet, app, mounted, seen, hydrating, shared, waiting>>
    PROVE  AppTypes' /\ Clients' /\ AddressFollowsWallet'
BY DEF IInv, AppTypes, Clients, AddressFollowsWallet, Deps, HydratingIds

(* A fetch settles: whoever may still apply the answer asked for the address   *)
(* that the effects last ran with.                                             *)
LEMMA SettleLoads ==
    ASSUME IInv, NEW key \in Keys, NEW answered \in BOOLEAN, Settle(key, answered),
           inflight' = inflight \ {key}, seen' = seen
    PROVE  LoadTypes' /\ OneCurrent' /\ CurrentLoads' /\ Replaced'
<1> DEFINE applied == {l \in Waiting(key) : Applies(l)}
           kind == key[1]
<1>1. AppTypes /\ LoadTypes /\ OneCurrent /\ CurrentLoads /\ Replaced
  BY DEF IInv
<1>2. kind \in Kinds /\ key[2] \in Wallets /\ key = <<kind, key[2]>>
  BY DEF Keys
<1>3. /\ loads' = loads \ Waiting(key)
      /\ loading' = [loading EXCEPT ![kind] =
                       @ /\ IF kind = "permissions" THEN Waiting(key) = {} ELSE applied = {}]
      /\ shown' = [shown EXCEPT ![kind] =
                      IF applied = {} THEN @
                      ELSE IF answered THEN key[2]
                      ELSE IF kind = "trusted-provider" THEN NoWallet ELSE @]
      /\ failed' = [failed EXCEPT ![kind] = IF applied = {} THEN @ ELSE ~answered]
  BY DEF Settle
<1>4. \A l : l \in Waiting(key) <=> l \in loads /\ <<l.kind, l.wallet>> = key
  BY DEF Waiting
<1>5. \A l : l \in applied <=> l \in Waiting(key) /\ l.current
  BY DEF Applies
<1> HIDE DEF applied, kind
<1>6. LoadTypes'
  <2>1. shown' \in [Kinds -> Accounts]
    <3>1. shown[kind] \in Accounts /\ key[2] \in Accounts /\ NoWallet \in Accounts
      BY <1>1, <1>2 DEF LoadTypes, Accounts
    <3>2. PICK s \in Accounts : shown' = [shown EXCEPT ![kind] = s]
      BY <1>3, <3>1
    <3> QED BY <1>1, <3>2 DEF LoadTypes
  <2>2. loading' \in [Kinds -> BOOLEAN]
    BY <1>1, <1>2, <1>3 DEF LoadTypes
  <2>3. failed' \in [Kinds -> BOOLEAN]
    BY <1>1, <1>2, <1>3 DEF LoadTypes
  <2>4. inflight' \subseteq Keys /\ loads' \subseteq LoadType
    BY <1>1, <1>3 DEF LoadTypes
  <2>5. \A l \in loads' : <<l.kind, l.wallet>> \in inflight'
    BY <1>1, <1>3, <1>4 DEF LoadTypes
  <2> QED BY <2>1, <2>2, <2>3, <2>4, <2>5 DEF LoadTypes
<1>7. OneCurrent' /\ CurrentLoads'
  BY <1>1, <1>3 DEF OneCurrent, CurrentLoads
<1>8. Replaced'
  <2> SUFFICES ASSUME NEW k \in Kinds, seen[2] \in Wallets
               PROVE  \/ shown'[k] \in {NoWallet, seen[2]}
                      \/ Load(k, seen[2]) \in loads' /\ (k = "trusted-provider" => loading'[k])
                      \/ failed'[k] /\ k # "trusted-provider"
    BY DEF Replaced
  <2>1. \/ shown[k] \in {NoWallet, seen[2]}
        \/ Load(k, seen[2]) \in loads /\ (k = "trusted-provider" => loading[k])
        \/ failed[k] /\ k # "trusted-provider"
    BY <1>1 DEF Replaced
  <2>2. /\ Load(k, seen[2]).kind = k /\ Load(k, seen[2]).wallet = seen[2]
        /\ Load(k, seen[2]).current = TRUE
    BY LoadIsTyped
  <2>3. CASE k # kind
    <3>1. shown'[k] = shown[k] /\ loading'[k] = loading[k] /\ failed'[k] = failed[k]
      BY <1>1, <1>3, <2>3 DEF LoadTypes
    <3>2. Load(k, seen[2]) \notin Waiting(key)
      BY <1>2, <1>4, <2>2, <2>3
    <3> QED BY <1>3, <2>1, <3>1, <3>2
  <2>4. CASE k = kind /\ applied = {}
    <3>1. shown'[k] = shown[k] /\ failed'[k] = failed[k]
      <4>1. shown' = [shown EXCEPT ![kind] = @] /\ failed' = [failed EXCEPT ![kind] = @]
        BY <1>3, <2>4
      <4> QED BY <1>1, <4>1 DEF LoadTypes
    <3>2. k = "trusted-provider" => loading'[k] = loading[k]
      BY <1>1, <1>3, <2>4 DEF LoadTypes
    <3>3. Load(k, seen[2]) \notin Waiting(key)
      BY <1>5, <2>2, <2>4
    <3> QED BY <1>3, <2>1, <3>1, <3>2, <3>3
  <2>5. CASE k = kind /\ applied # {}
    <3>1. key[2] = seen[2]
      <4>1. PICK l \in applied : TRUE
        BY <2>5
      <4>2. l \in loads /\ l.current /\ <<l.kind, l.wallet>> = key
        BY <1>4, <1>5, <4>1
      <4> QED BY <1>1, <1>2, <4>2 DEF CurrentLoads
    <3>2. CASE answered
      BY <1>1, <1>3, <2>5, <3>1, <3>2 DEF LoadTypes
    <3>3. CASE ~answered /\ k = "trusted-provider"
      BY <1>1, <1>3, <2>5, <3>3 DEF LoadTypes
    <3>4. CASE ~answered /\ k # "trusted-provider"
      BY <1>1, <1>3, <2>5, <3>4 DEF LoadTypes
    <3> QED BY <3>2, <3>3, <3>4
  <2> QED BY <2>3, <2>4, <2>5
<1> QED BY <1>6, <1>7, <1>8

-----------------------------------------------------------------------------
LEMMA InitInvariant ==
    ASSUME Init
    PROVE  IInv
<1>1. AppTypes
  BY SessionAssumption, FS_EmptySet DEF Init, AppTypes, Accounts
<1>2. LoadTypes
  BY DEF Init, LoadTypes, Accounts
<1>3. Counters
  BY SessionAssumption DEF Init, Counters
<1>4. Clients
  BY DEF Init, Clients, HydratingIds
<1>5. AddressFollowsWallet
  BY SessionAssumption DEF Init, AddressFollowsWallet, Deps, Accounts
<1>6. OneCurrent /\ CurrentLoads
  BY DEF Init, OneCurrent, CurrentLoads
<1>7. Replaced
  BY DEF Init, Replaced
<1> QED BY <1>1, <1>2, <1>3, <1>4, <1>5, <1>6, <1>7 DEF IInv

LEMMA NextCounters ==
    ASSUME IInv, [Next]_vars
    PROVE  Counters'
<1>1. /\ changes' = changes \/ (changes < MaxChanges /\ changes' = changes + 1)
      /\ faults' = faults \/ (faults < MaxFaults /\ faults' = faults + 1)
  BY DEF Next, vars, Browser, CommitEffects, Commit, FinishHydration, FetchAnswers, FetchFails,
         Mount, SelectAccount, MayChangeAccount, disconnectWallet, Unmount
<1> QED BY <1>1, SessionAssumption DEF IInv, Counters

LEMMA NextInvariant ==
    ASSUME IInv, [Next]_vars
    PROVE  IInv'
<1>1. CASE UNCHANGED vars
  BY <1>1, SameApp, SameLoads, NextCounters DEF vars, appVars, shownVars, IInv
<1>2. ASSUME NEW new \in SUBSET Hooks, Commit(new)
      PROVE  IInv'
  <2>1. RunProviders /\ seen' = Deps
    BY <1>2 DEF Commit
  <2> QED BY <1>2, <2>1, CommitApp, CommitLoads, NextCounters DEF IInv
<1>3. ASSUME NEW h \in hydrating, FinishHydration(h)
      PROVE  IInv'
  BY <1>3, FinishApp, FinishLoads, NextCounters DEF IInv
<1>4. ASSUME NEW key \in Keys, FetchAnswers(key) \/ FetchFails(key)
      PROVE  IInv'
  <2>1. PICK answered \in BOOLEAN : Settle(key, answered)
    BY <1>4 DEF FetchAnswers, FetchFails
  <2>2. /\ inflight' = inflight \ {key}
        /\ UNCHANGED <<wallet, app, mounted, seen, hydrating, shared, waiting>>
    BY <1>4 DEF FetchAnswers, FetchFails, appVars
  <2> QED BY <2>1, <2>2, SettleLoads, SameApp, NextCounters DEF IInv
<1>5. CASE (\E w \in Accounts : SelectAccount(w)) \/ disconnectWallet
  <2>1. UNCHANGED <<seen, inflight, loads, shown, loading, failed>>
    BY <1>5 DEF SelectAccount, disconnectWallet, shownVars
  <2> QED BY <1>5, <2>1, UserApp, SameLoads, NextCounters DEF IInv
<1>6. ASSUME NEW i \in Hooks, Unmount(i)
      PROVE  IInv'
  <2>1. UNCHANGED <<seen, inflight, loads, shown, loading, failed>>
    BY <1>6 DEF Unmount, shownVars
  <2> QED BY <1>6, <2>1, UnmountApp, SameLoads, NextCounters DEF IInv
<1>7. \/ UNCHANGED vars
      \/ \E new \in SUBSET Hooks : Commit(new)
      \/ \E h \in hydrating : FinishHydration(h)
      \/ \E key \in Keys : FetchAnswers(key) \/ FetchFails(key)
      \/ (\E w \in Accounts : SelectAccount(w)) \/ disconnectWallet
      \/ \E i \in Hooks : Unmount(i)
  <2>1. CASE CommitEffects
    BY <2>1 DEF CommitEffects
  <2>2. CASE Mount
    <3>1. PICK i \in Hooks : Commit({i})
      BY <2>2 DEF Mount
    <3> QED BY <3>1
  <2> QED BY <2>1, <2>2 DEF Next, Browser
<1> QED BY <1>1, <1>2, <1>3, <1>4, <1>5, <1>6, <1>7

(* Every reachable state of the session satisfies the inductive invariant.    *)
THEOREM SessionInvariant == Spec => []IInv
<1>1. Init => IInv
  BY InitInvariant
<1>2. IInv /\ [Next]_vars => IInv'
  BY NextInvariant
<1> QED BY <1>1, <1>2, PTL DEF Spec

(* Every variable has its type; hydrations have clients of their own, every   *)
(* load waits for a fetch that is under way, and of each kind at most one     *)
(* load may still apply its answer.                                           *)
THEOREM TypeCorrect == Spec => []TypeOK
<1>1. IInv => TypeOK
  <2> SUFFICES ASSUME IInv PROVE TypeOK
    OBVIOUS
  <2>1. AppTypes /\ LoadTypes /\ Counters /\ OneCurrent
    BY DEF IInv
  <2>2. app \in [address : Accounts, client : Ids \cup {0}]
    BY <2>1 DEF AppTypes, Ids
  <2>3. ASSUME NEW k \in Kinds
        PROVE  Cardinality({l \in loads : l.kind = k /\ l.current}) <= 1
    <3>1. PICK S : S = {l \in loads : l.kind = k /\ l.current}
      OBVIOUS
    <3>2. \A l, m \in S : l = m
      BY <2>1, <3>1 DEF OneCurrent
    <3>3. CASE S = {}
      BY <3>1, <3>3, FS_EmptySet
    <3>4. ASSUME NEW l \in S
          PROVE  Cardinality(S) <= 1
      <4>1. S = {l}
        BY <3>2
      <4> QED BY <4>1, FS_Singleton
    <3> QED BY <3>1, <3>3, <3>4
  <2> QED BY <2>1, <2>2, <2>3
          DEF TypeOK, AppTypes, LoadTypes, Counters, HydrationType, LoadType, HydratingIds
<1> QED BY <1>1, SessionInvariant, PTL

(* While an account is connected the application does not rest with another:  *)
(* a late hydration brings a client that the effects have not run with, so a  *)
(* commit follows.                                                            *)
THEOREM AddressCorrect == Spec => []AddressFollowsWallet
<1>1. IInv => AddressFollowsWallet
  BY DEF IInv
<1> QED BY <1>1, SessionInvariant, PTL

(* What the providers show of another account than the application's is on    *)
(* its way out, however commits, hydrations and answers interleave.           *)
THEOREM ShownCorrect == Spec => []ShownIsReplaced
<1>1. IInv => ShownIsReplaced
  <2> SUFFICES ASSUME IInv, app.address # NoWallet, NEW k \in Kinds,
                      shown[k] \notin {NoWallet, app.address}, seen = Deps
               PROVE  \/ \E l \in loads :
                            /\ l = [kind |-> k, wallet |-> app.address, current |-> TRUE]
                            /\ k = "trusted-provider" => loading[k]
                      \/ failed[k] /\ k # "trusted-provider"
    BY DEF ShownIsReplaced
  <2>1. seen[2] = app.address /\ app.address \in Wallets
    BY DEF Deps, IInv, AppTypes, Accounts
  <2> QED BY <2>1 DEF IInv, Replaced, Load
<1> QED BY <1>1, SessionInvariant, PTL

=============================================================================
