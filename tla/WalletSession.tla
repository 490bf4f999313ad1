---------------------------- MODULE WalletSession ----------------------------
(***************************************************************************)
(* The wallet session of the web client: the account the wallet extension    *)
(* has selected, the address and client the application works with           *)
(* (contexts/app-context.tsx, hooks/use-wallet.ts), and what the providers   *)
(* show for it: the identity, the permissions and the claim-provider role    *)
(* (contexts/identity-context.tsx, contexts/permissions-context.tsx), read   *)
(* through the shared cache (lib/query-cache.ts).                            *)
(*                                                                         *)
(* A step is what one thread of the browser runs without yielding: the       *)
(* effects of one React commit, or a promise that settles together with the  *)
(* continuations that wait for it.  Effects see the values of their render.  *)
(* The balance and the isConnecting spinner are left out.                    *)
(***************************************************************************)
EXTENDS Naturals, FiniteSets

CONSTANTS
    Wallets,        \* accounts the extension may select
    NoWallet,       \* no account
    platformOwner,  \* ROLE_WALLETS.platformOwner
    Kinds,          \* what the providers show
    Hooks,          \* mounted uses of useWallet
    Header,         \* the one that is always mounted
    Gone,           \* stands for the uses that were unmounted
    MaxChanges,     \* bound: account changes and mounts
    MaxFaults       \* bound: queries that fail

ASSUME SessionAssumption ==
    /\ NoWallet \notin Wallets
    /\ Kinds \subseteq {"identity", "permissions", "trusted-provider"}
    /\ "identity" \in Kinds
    /\ Header \in Hooks
    /\ Gone \notin Hooks \cup Wallets \cup {NoWallet}
    /\ MaxChanges \in Nat
    /\ MaxFaults \in Nat

(* What a provider shows is under a key of the cache per wallet. *)
Keys == Kinds \X Wallets
Accounts == Wallets \cup {NoWallet}

VARIABLES
    wallet,     \* the adapter's publicKey while connected
    app,        \* AppState: [address, client]; client 0 is null
    mounted,    \* mounted uses of the hook
    seen,       \* the dependencies the effects last ran with
    hydrating,  \* hydrations under way: [id, wallet]
    shared,     \* [key, promise]: sharedHydrationKey and sharedHydrationPromise
    waiting,    \* <<hook, id>>: a use that waits with its latest runId
    inflight,   \* keys with a fetch under way
    loads,      \* [kind, wallet, current]: loads that wait for a key
    shown,      \* per kind, the wallet whose answer is shown
    loading,    \* per kind, the loading flag
    failed,     \* per kind, the newest load failed (history)
    changes, faults

appVars == <<app, mounted, hydrating, shared, waiting>>
shownVars == <<loads, shown, loading, failed>>
vars == <<wallet, seen, changes, faults, appVars, inflight, shownVars>>

Ids == Nat \ {0}     \* client objects

TypeOK ==
    /\ wallet \in Accounts
    /\ app \in [address : Accounts, client : Ids \cup {0}]
    /\ mounted \subseteq Hooks
    /\ hydrating \subseteq [id : Ids, wallet : Wallets]
    /\ \A g, h \in hydrating : g.id = h.id => g = h
    /\ shared.key \in Accounts \cup {Gone}
    /\ shared.promise \in hydrating \cup {Gone}
    /\ waiting \subseteq (Hooks \cup {Gone}) \X {h.id : h \in hydrating}
    /\ inflight \subseteq Keys
    /\ loads \subseteq [kind : Kinds, wallet : Wallets, current : BOOLEAN]
    /\ \A l \in loads : <<l.kind, l.wallet>> \in inflight
    /\ \A k \in Kinds : Cardinality({l \in loads : l.kind = k /\ l.current}) <= 1
    /\ shown \in [Kinds -> Accounts]
    /\ loading \in [Kinds -> BOOLEAN]
    /\ failed \in [Kinds -> BOOLEAN]
    /\ changes \in 0 .. MaxChanges
    /\ faults \in 0 .. MaxFaults

(* The dependencies of the effects; they run when one of them changed. *)
Deps == <<wallet, app.address, app.client>>

Init ==
    /\ wallet \in Accounts
    /\ app = [address |-> NoWallet, client |-> 0]
    /\ mounted = {Header}
    /\ seen = <<Gone, Gone, Gone>>
    /\ hydrating = {}
    /\ shared = [key |-> Gone, promise |-> Gone]
    /\ waiting = {}
    /\ inflight = {}
    /\ loads = {}
    /\ shown = [k \in Kinds |-> NoWallet]
    /\ loading = [k \in Kinds |-> FALSE]
    /\ failed = [k \in Kinds |-> FALSE]
    /\ changes = 0
    /\ faults = 0

-----------------------------------------------------------------------------
(* app-context.tsx *)

setWalletState(address, client) ==
    [address |-> address, client |-> client]

clearWalletState == setWalletState(NoWallet, 0)

-----------------------------------------------------------------------------
(* use-wallet.ts: the hydration effect.  All uses that run in a commit see   *)
(* the same values, so the first starts the shared promise and the others    *)
(* join it.  Each takes a new runId: what it waited for before is forgotten. *)

StillWaiting(runners) == {w \in waiting : w[1] \notin runners}

(* A client object that is not the one in use nor one being made. *)
NewId == CHOOSE id \in 1 .. Cardinality(hydrating) + 2 :
             id \notin {app.client} \cup {h.id : h \in hydrating}

(* Mutant: the client is not asked for. *)
IsHydratedByKey == app.address = wallet /\ shared.key = wallet

IsHydrated == app.address = wallet /\ app.client # 0 /\ shared.key = wallet

(* No account: the first use to notice forgets the promise and the state. *)
HydrateDisconnected(runners) ==
    /\ wallet = NoWallet
    /\ IF shared.key # NoWallet
       THEN /\ shared' = [key |-> NoWallet, promise |-> Gone]
            /\ app' = clearWalletState
       ELSE UNCHANGED <<shared, app>>
    /\ waiting' = StillWaiting(runners)
    /\ UNCHANGED hydrating

HydrateNothing(runners) ==
    /\ wallet # NoWallet
    /\ IsHydrated
    /\ waiting' = StillWaiting(runners)
    /\ UNCHANGED <<app, shared, hydrating>>

(* Mutant: the address is set only with the client. *)
HydrateAccountLate(runners) ==
    /\ wallet # NoWallet
    /\ ~IsHydrated
    /\ UNCHANGED app
    /\ LET joins == shared.promise \in hydrating /\ shared.promise.wallet = wallet
           promise == IF joins THEN shared.promise
                      ELSE [id |-> NewId, wallet |-> wallet]
       IN /\ hydrating' = hydrating \cup {promise}
          /\ shared' = [shared EXCEPT !.promise = promise]
          /\ waiting' = StillWaiting(runners) \cup (runners \X {promise.id})

HydrateAccount(runners) ==
    /\ wallet # NoWallet
    /\ ~IsHydrated
    /\ app' = setWalletState(wallet, IF app.address = wallet THEN app.client ELSE 0)
    /\ LET joins == shared.promise \in hydrating /\ shared.promise.wallet = wallet
           promise == IF joins THEN shared.promise
                      ELSE [id |-> NewId, wallet |-> wallet]
       IN /\ hydrating' = hydrating \cup {promise}
          /\ shared' = [shared EXCEPT !.promise = promise]
          /\ waiting' = StillWaiting(runners) \cup (runners \X {promise.id})

hydrateWallet(runners) ==
    \/ HydrateDisconnected(runners)
    \/ HydrateNothing(runners)
    \/ HydrateAccount(runners)

-----------------------------------------------------------------------------
(* The providers' effects. *)

AddressChanged == seen[2] # app.address
Runs(k) == AddressChanged \/ (k = "identity" /\ seen[3] # app.client)
HasNothing(k) ==
    \/ app.address = NoWallet
    \/ k = "trusted-provider" /\ app.address = platformOwner
Loads(k) == Runs(k) /\ ~HasNothing(k)
Clears(k) == Runs(k) /\ HasNothing(k)

(* Mutant: requests are not numbered. *)
SupersedesNothing(k) == FALSE

(* A newer request makes the older ones stale; the identity provider does    *)
(* not take a new request when the wallet disconnects.                       *)
Supersedes(k) == Loads(k) \/ (Clears(k) /\ k # "identity")

(* queryCache.query: a fetch under way is shared, else a new one starts.  A   *)
(* cached answer is a fetch that is answered at once.                        *)
Queried == {k \in Kinds : Loads(k)}

RunProviders ==
    /\ loads' = {[l EXCEPT !.current = @ /\ ~Supersedes(l.kind)] : l \in loads}
                  \cup {[kind |-> k, wallet |-> app.address, current |-> TRUE] : k \in Queried}
    /\ inflight' = inflight \cup {<<k, app.address>> : k \in Queried}
    /\ shown' = [k \in Kinds |-> IF Clears(k) THEN NoWallet ELSE shown[k]]
    /\ loading' = [k \in Kinds |-> IF Runs(k) THEN Loads(k) ELSE loading[k]]
    /\ failed' = [k \in Kinds |-> failed[k] /\ ~Runs(k)]

(* One commit: the effects whose dependencies changed, in the uses that were *)
(* mounted and in a use that is new with this commit.                        *)
Commit(new) ==
    /\ seen # Deps \/ new # {}
    /\ seen' = Deps
    /\ mounted' = mounted \cup new
    /\ hydrateWallet(IF seen # Deps THEN mounted \cup new ELSE new)
    /\ RunProviders
    /\ UNCHANGED <<wallet, faults>>

CommitEffects == Commit({}) /\ UNCHANGED changes

Mount ==
    /\ changes < MaxChanges
    /\ changes' = changes + 1
    /\ \E i \in Hooks \ mounted : Commit({i})

-----------------------------------------------------------------------------
(* Promises that settle. *)

(* TrexClient.connectWithWallet and the native balance cannot fail.  The     *)
(* uses that still wait for this hydration take its client; it also starts   *)
(* the identity's query for its account.                                     *)
FinishHydration(h) ==
    /\ h \in hydrating
    /\ hydrating' = hydrating \ {h}
    /\ shared' = [key |-> h.wallet,
                  promise |-> IF shared.promise \in hydrating
                                   /\ shared.promise.wallet = h.wallet
                              THEN Gone ELSE shared.promise]
    /\ waiting' = {w \in waiting : w[2] # h.id}
    /\ app' = IF waiting' # waiting THEN setWalletState(h.wallet, h.id)
              ELSE app
    /\ inflight' = inflight \cup ({"identity"} \X {h.wallet})
    /\ UNCHANGED <<wallet, mounted, seen, shownVars, changes, faults>>

(* Mutant: a late answer is applied. *)
AppliesAlways(l) == TRUE

(* A load applies its answer if no newer request was made. *)
Applies(l) == l.current

Waiting(key) == {l \in loads : <<l.kind, l.wallet>> = key}

(* The continuations of the loads that waited for the key.  A permissions    *)
(* load clears the flag even when a newer one is under way.                  *)
Settle(key, answered) ==
    LET kind == key[1]
        applied == {l \in Waiting(key) : Applies(l)}
    IN /\ loads' = loads \ Waiting(key)
       /\ loading' = [loading EXCEPT ![kind] =
                        @ /\ IF kind = "permissions" THEN Waiting(key) = {}
                             ELSE applied = {}]
       /\ shown' = [shown EXCEPT ![kind] =
                      IF applied = {} THEN @
                      ELSE IF answered THEN key[2]
                      ELSE IF kind = "trusted-provider" THEN NoWallet ELSE @]
       /\ failed' = [failed EXCEPT ![kind] = IF applied = {} THEN @ ELSE ~answered]

FetchAnswers(key) ==
    /\ key \in inflight
    /\ inflight' = inflight \ {key}
    /\ Settle(key, TRUE)
    /\ UNCHANGED <<wallet, seen, changes, faults, appVars>>

FetchFails(key) ==
    /\ key \in inflight
    /\ faults < MaxFaults
    /\ faults' = faults + 1
    /\ inflight' = inflight \ {key}
    /\ Settle(key, FALSE)
    /\ UNCHANGED <<wallet, seen, changes, appVars>>

-----------------------------------------------------------------------------
(* The user, who changes the account at a human pace: React has committed    *)
(* the previous change.                                                      *)

MayChangeAccount == changes < MaxChanges /\ seen[1] = wallet

(* The extension connects, disconnects or switches its account. *)
SelectAccount(w) ==
    /\ MayChangeAccount
    /\ changes' = changes + 1
    /\ w # wallet
    /\ wallet' = w
    /\ UNCHANGED <<seen, faults, appVars, inflight, shownVars>>

(* The disconnect button: the adapter disconnects, then the state is cleared. *)
disconnectWallet ==
    /\ MayChangeAccount
    /\ changes' = changes + 1
    /\ wallet # NoWallet
    /\ wallet' = NoWallet
    /\ app' = clearWalletState
    /\ UNCHANGED <<seen, faults, mounted, hydrating, shared, waiting, inflight, shownVars>>

(* A page that used the hook is left.  Its ref keeps the runId it had, so    *)
(* what it waits for still counts.                                           *)
Unmount(i) ==
    /\ i \in mounted \ {Header}
    /\ mounted' = mounted \ {i}
    /\ waiting' = {<<IF w[1] = i THEN Gone ELSE w[1], w[2]>> : w \in waiting}
    /\ UNCHANGED <<wallet, app, seen, hydrating, shared, changes, faults, inflight,
                    shownVars>>

(* The browser does not rest while a commit or a promise is pending.  (Who   *)
(* comes first is left open.)                                                *)
Browser ==
    \/ CommitEffects
    \/ \E h \in hydrating : FinishHydration(h)
    \/ \E key \in Keys : FetchAnswers(key) \/ FetchFails(key)

Next ==
    \/ Browser
    \/ Mount
    \/ \E w \in Accounts : SelectAccount(w)
    \/ disconnectWallet
    \/ \E i \in Hooks : Unmount(i)

Fairness == WF_vars(Browser)

Spec == Init /\ [][Next]_vars /\ Fairness

-----------------------------------------------------------------------------
(* While an account is connected the application never rests with another:   *)
(* a late hydration of a page that was left may bring an old account back,   *)
(* but always with a commit to come that corrects it.                        *)
AddressFollowsWallet ==
    wallet # NoWallet /\ app.address # wallet => seen # Deps

(* What the providers show of another account than the application's is on   *)
(* its way out: a commit or the newest load is to come, or that load failed  *)
(* (then the old identity and permissions stay).  The claim-provider role    *)
(* does not stay, and its loading flag is up.                                *)
ShownIsReplaced ==
    app.address # NoWallet =>
        \A k \in Kinds : shown[k] \notin {NoWallet, app.address} =>
            \/ seen # Deps
            \/ \E l \in loads : l = [kind |-> k, wallet |-> app.address, current |-> TRUE]
                                /\ (k = "trusted-provider" => loading[k])
            \/ failed[k] /\ k # "trusted-provider"

(* Once the account stays, the application has its address, a client for it, *)
(* and shows its identity unless reading it failed.                          *)
SessionSettles ==
    <>[](wallet # NoWallet =>
           /\ app.address = wallet
           /\ app.client # 0
           /\ shown["identity"] = wallet \/ failed["identity"])

(* docs/STATE_MANAGEMENT.md: "Wallet disconnect automatically clears all     *)
(* related data."  When nothing is under way and no account is connected,    *)
(* the application has no address and shows nothing.  An account that        *)
(* disconnects during its first hydration is not noticed, since              *)
(* sharedHydrationKey still says that there is none; and the identity        *)
(* provider shows the answer of a load that was under way.                   *)
DisconnectClears ==
    wallet = NoWallet /\ seen = Deps /\ hydrating = {} /\ loads = {} =>
        /\ app.address = NoWallet
        /\ \A k \in Kinds : shown[k] = NoWallet
=============================================================================
