---------------------------- MODULE FracksToken ----------------------------
(***************************************************************************)
(* fracks-token and fracks-token-hook over Token-2022, composed with the    *)
(* compliance router and the identity registry, for one mint.               *)
(*                                                                          *)
(* A holder's transfer takes two transactions.  The token program's         *)
(* `transfer` evaluates pause, freezes, identities and compliance and       *)
(* writes an approval; later the holder's Token-2022 transfer invokes the   *)
(* hook, which only matches the approval and its balances.  Anything may    *)
(* happen in between.  Operator moves (forced_transfer, recovery) approve   *)
(* and settle in one transaction.                                           *)
(*                                                                          *)
(* A wallet may own several token accounts (validate_token_account checks   *)
(* mint and owner only).  A Token-2022 transfer of an account to itself     *)
(* returns before the hook and moves nothing, so routes join two different  *)
(* accounts.                                                                *)
(*                                                                          *)
(* The freeze and support accounts are not derived from the wallets.  A     *)
(* caller may leave one out by naming an empty account, and it then reads   *)
(* as absent; another wallet's is refused or skipped.  `passed` is the set  *)
(* of those that the caller does name.                                      *)
(***************************************************************************)
EXTENDS Functions, Compliance, IdentityRegistry

CONSTANTS
    Accounts,   \* Token-2022 token accounts of the mint
    OwnerOf,    \* token account -> wallet
    Operators,  \* signers that may be owner or agents of the token
    Amounts     \* amounts passed to the instructions

ASSUME TokenAssumption ==
    /\ IsFiniteSet(Accounts)
    /\ OwnerOf \in [Accounts -> Wallets]
    /\ Amounts \subseteq Nat
    /\ Operators # {}

VARIABLES
    bal,         \* token account -> amount
    supply,      \* supply of the Token-2022 mint
    paused,      \* TokenState.paused
    owner,       \* OwnerState.owner
    agents,      \* wallets with an AgentRole account
    frozen,      \* wallets with a FrozenWallet account
    partial,     \* wallet -> PartialFreeze.frozen_amount, or NoPartial
    approvals,   \* route -> holder-keyed TransferApproval, or NoApproval
    recoveries,  \* route -> amount of the consumed RECOVERY approval, or NoRecovery
    unread       \* history: frozen wallets whose freeze an instruction did not read

tokenVars == <<bal, supply, paused, owner, agents, frozen, partial, approvals,
               recoveries, unread>>
vars == <<complianceVars, identityVars, tokenVars>>

Routes == {r \in Accounts \X Accounts : r[1] # r[2]}
NoPartial == -1
NoRecovery == -1
NoApproval == [amount |-> -1, from_balance |-> 0, to_balance |-> 0,
               from_country |-> "none", to_country |-> "none"]

Holders == {a \in Accounts : bal[a] > 0}

(* initialize_token, after the factory has deployed the suite *)
TokenInit ==
    /\ bal = [a \in Accounts |-> 0]
    /\ supply = 0
    /\ paused = FALSE
    /\ owner \in Operators
    /\ agents = {}
    /\ frozen = {}
    /\ partial = [w \in Wallets |-> NoPartial]
    /\ approvals = [r \in Routes |-> NoApproval]
    /\ recoveries = [r \in Routes |-> NoRecovery]
    /\ unread = {}

Init == ComplianceInit /\ IdentityInit /\ TokenInit

-----------------------------------------------------------------------------
(* authorize_operator *)
Authorized(by) == by = owner \/ by \in agents

CountryOf(wallet) == identity[wallet].country

(* read_partial_freeze_amount and the saturating subtraction *)
FrozenAmount(wallet) == IF partial[wallet] = NoPartial THEN 0 ELSE partial[wallet]
SatSub(a, b) == IF a >= b THEN a - b ELSE 0
Transferable(account, passed) ==
    SatSub(bal[account],
           IF "from_partial_freeze" \in passed THEN FrozenAmount(OwnerOf[account]) ELSE 0)

(* The modules not in force for the movement being evaluated (history). *)
WaiveNow == waived' = waived \cup (ModuleKinds \ InForce)

(* ensure_wallet_not_frozen: what it finds in the freeze accounts it is      *)
(* given, those of the wallets in `asked`; the rest goes into the history.   *)
FreezeAccounts == {"from_frozen", "to_frozen", "from_partial_freeze"}
Asked(from, to, passed) == {w \in Wallets : \/ w = from /\ "from_frozen" \in passed
                                            \/ w = to /\ "to_frozen" \in passed}
NotFrozenSender(from, to, passed) ==          \* mutant: the receiver's is not read
    "from_frozen" \in passed => from \notin frozen
NotFrozen(from, to, passed) == Asked(from, to, passed) \cap frozen = {}
Overlook(from, to, passed) ==
    unread' = unread \cup (({from, to} \ Asked(from, to, passed)) \cap frozen)

(* transfer: evaluate, then write the approval, replacing an older one *)
Transfer(src, dst, amount, passed) ==
    LET from == OwnerOf[src]  to == OwnerOf[dst] IN
    /\ ~paused
    /\ NotFrozen(from, to, passed)
    /\ amount <= Transferable(src, passed)
    /\ Verified(from) /\ Verified(to)
    /\ EvaluateCompliance(FALSE, from, amount, bal[dst], CountryOf(from), CountryOf(to), passed)
    /\ approvals' = [approvals EXCEPT ![<<src, dst>>] =
         [amount |-> amount, from_balance |-> bal[src], to_balance |-> bal[dst],
          from_country |-> CountryOf(from), to_country |-> CountryOf(to)]]
    /\ WaiveNow
    /\ Overlook(from, to, passed)
    /\ UNCHANGED <<now, router, counters, misled, identityVars, bal, supply, paused,
                   owner, agents, frozen, partial, recoveries>>

(* Token-2022 moves the tokens, the hook forwards the balances after *)
Settle(src, dst, amount, from_country, to_country) ==
    /\ bal[src] >= amount
    /\ bal[dst] + amount <= MaxU64
    /\ bal' = [bal EXCEPT ![src] = @ - amount, ![dst] = @ + amount]
    /\ Transferred(OwnerOf[src], amount, bal[src] - amount, bal[dst] + amount,
                   from_country, to_country)
    /\ Reported(modules)

MatchesSender(approval, src, dst) ==          \* mutant: receiver's balance not pinned
    /\ approval # NoApproval
    /\ bal[src] = approval.from_balance

(* validate_transfer_approval and the two balance checks.  The hook sees the *)
(* balances after the move; stated here on the balances before it.           *)
Matches(approval, src, dst) ==
    /\ approval # NoApproval
    /\ bal[src] = approval.from_balance
    /\ bal[dst] = approval.to_balance

(* A consumed TRANSFER approval is never read again: it is as good as absent. *)
ConsumeNothing(approval) == approval          \* mutant: approval stays usable
Consume(approval) == NoApproval

(* execute_transfer_hook, invoked by the holder's Token-2022 transfer *)
ExecuteTransfer(src, dst) ==
    LET a == approvals[<<src, dst>>] IN
    /\ Matches(a, src, dst)
    /\ Settle(src, dst, a.amount, a.from_country, a.to_country)
    /\ approvals' = [approvals EXCEPT ![<<src, dst>>] = Consume(a)]
    /\ UNCHANGED <<waived, identityVars, supply, paused, owner, agents, frozen,
                   partial, recoveries, unread>>

(* The instructions of operators.  They name their support accounts, because *)
(* the updates made in the same transaction fail without them; of the freeze *)
(* accounts they read only the receiver's.                                   *)
Mint(by, dst, amount, passed) ==
    LET to == OwnerOf[dst] IN
    /\ Authorized(by)
    /\ ~paused
    /\ NotFrozen(to, to, passed)
    /\ Verified(to)
    /\ EvaluateCompliance(TRUE, to, amount, bal[dst], CountryOf(to), CountryOf(to),
                          SupportAccounts)
    /\ Created(amount, bal[dst] + amount, CountryOf(to))
    /\ supply + amount <= MaxU64
    /\ bal' = [bal EXCEPT ![dst] = @ + amount]
    /\ supply' = supply + amount
    /\ Reported(InForce)
    /\ WaiveNow
    /\ Overlook(to, to, passed)
    /\ UNCHANGED <<identityVars, paused, owner, agents, frozen, partial, approvals, recoveries>>

(* burn ties neither the identity storage nor the compliance state it is     *)
(* given to the token: the identity, and with it the country, may be one of  *)
(* another storage, and the modules that are told those of another router.   *)
Burn(by, src, amount, country, told) ==
    /\ Authorized(by)
    /\ ~paused
    /\ bal[src] >= amount
    /\ supply >= amount
    /\ \/ told /\ Destroyed(amount, bal[src] - amount, country) /\ Reported(modules)
       \/ ~told /\ UNCHANGED <<now, router, counters>> /\ Reported({})
    /\ bal' = [bal EXCEPT ![src] = @ - amount]
    /\ supply' = supply - amount
    /\ UNCHANGED <<waived, identityVars, paused, owner, agents, frozen, partial,
                   approvals, recoveries, unread>>

(* forced_transfer needs an existing PartialFreeze account of the mint, but  *)
(* any wallet's will do: `held` is the one whose amount it lowers.  Its      *)
(* FORCED approval replaces the RECOVERY one of the same route.              *)
ForcedTransfer(by, src, dst, amount, held, passed) ==
    LET from == OwnerOf[src]  to == OwnerOf[dst] IN
    /\ Authorized(by)
    /\ ~paused
    /\ NotFrozen(to, to, passed)
    /\ HasActiveIdentity(from)
    /\ Verified(to)
    /\ partial[held] # NoPartial
    /\ EvaluateCompliance(FALSE, from, amount, bal[dst], CountryOf(from), CountryOf(to),
                          SupportAccounts)
    /\ Settle(src, dst, amount, CountryOf(from), CountryOf(to))
    /\ partial' = [partial EXCEPT ![held] = SatSub(@, amount)]
    /\ recoveries' = [recoveries EXCEPT ![<<src, dst>>] = NoRecovery]
    /\ WaiveNow
    /\ Overlook(to, to, passed)
    /\ UNCHANGED <<identityVars, supply, paused, owner, agents, frozen, approvals>>

(* recovery evaluates no compliance rule *)
Recovery(by, src, dst, amount, passed) ==
    LET lost == OwnerOf[src]  new == OwnerOf[dst] IN
    /\ Authorized(by)
    /\ ~paused
    /\ lost # new
    /\ NotFrozen(new, new, passed)
    /\ Verified(new)
    /\ HasActiveIdentity(lost)
    /\ Settle(src, dst, amount, CountryOf(lost), CountryOf(new))
    /\ recoveries' = [recoveries EXCEPT ![<<src, dst>>] = amount]
    /\ waived' = ModuleKinds
    /\ Overlook(new, new, passed)
    /\ UNCHANGED <<identityVars, supply, paused, owner, agents, frozen, partial, approvals>>

(* finalize_recovery.  `finalized = true` is assigned to an account owned by *)
(* the hook program and is not written back, so the approval stays as it is. *)
(* The identity that takes over, `heir`, need not be the new wallet's.       *)
FinalizeRecovery(by, src, dst, heir) ==
    /\ Authorized(by)
    /\ recoveries[<<src, dst>>] # NoRecovery
    /\ HasActiveIdentity(OwnerOf[src])
    /\ MoveIdentity(OwnerOf[src], heir)
    /\ UNCHANGED <<complianceVars, tokenVars>>

-----------------------------------------------------------------------------
(* Administration.  The first five require the owner's signature. *)
SetPaused(value) ==
    /\ paused' = value
    /\ UNCHANGED <<bal, supply, owner, agents, frozen, partial, approvals, recoveries, unread>>

AddAgent(agent) ==
    /\ agent \notin agents
    /\ agents' = agents \cup {agent}
    /\ UNCHANGED <<bal, supply, paused, owner, frozen, partial, approvals, recoveries, unread>>

RemoveAgent(agent) ==
    /\ agent \in agents
    /\ agents' = agents \ {agent}
    /\ UNCHANGED <<bal, supply, paused, owner, frozen, partial, approvals, recoveries, unread>>

TransferOwnership(new_owner) ==
    /\ owner' = new_owner
    /\ UNCHANGED <<bal, supply, paused, agents, frozen, partial, approvals, recoveries, unread>>

FreezeWallet(by, wallet) ==
    /\ Authorized(by)
    /\ wallet \notin frozen
    /\ frozen' = frozen \cup {wallet}
    /\ UNCHANGED <<bal, supply, paused, owner, agents, partial, approvals, recoveries, unread>>

UnfreezeWallet(by, wallet) ==
    /\ Authorized(by)
    /\ wallet \in frozen
    /\ frozen' = frozen \ {wallet}
    /\ UNCHANGED <<bal, supply, paused, owner, agents, partial, approvals, recoveries, unread>>

FreezePartial(by, wallet, amount) ==
    /\ Authorized(by)
    /\ amount > 0
    /\ FrozenAmount(wallet) + amount <= MaxU64
    /\ partial' = [partial EXCEPT ![wallet] = FrozenAmount(wallet) + amount]
    /\ UNCHANGED <<bal, supply, paused, owner, agents, frozen, approvals, recoveries, unread>>

(* closes the account when nothing stays frozen *)
UnfreezePartial(by, wallet, amount) ==
    /\ Authorized(by)
    /\ amount > 0
    /\ FrozenAmount(wallet) >= amount
    /\ partial' = [partial EXCEPT ![wallet] =
                     IF FrozenAmount(wallet) = amount THEN NoPartial
                     ELSE FrozenAmount(wallet) - amount]
    /\ UNCHANGED <<bal, supply, paused, owner, agents, frozen, approvals, recoveries, unread>>

AdminNext ==
    \/ \E b \in BOOLEAN : SetPaused(b)
    \/ \E o \in Operators : AddAgent(o) \/ RemoveAgent(o) \/ TransferOwnership(o)
    \/ \E o \in Operators, w \in Wallets : FreezeWallet(o, w) \/ UnfreezeWallet(o, w)
    \/ \E o \in Operators, w \in Wallets, n \in Amounts :
         FreezePartial(o, w, n) \/ UnfreezePartial(o, w, n)

MoveNext ==
    \/ \E r \in Routes, n \in Amounts, passed \in SUBSET (FreezeAccounts \cup SupportAccounts) :
         Transfer(r[1], r[2], n, passed)
    \/ \E r \in Routes : ExecuteTransfer(r[1], r[2])
    \/ \E o \in Operators, a \in Accounts, n \in Amounts, passed \in SUBSET {"to_frozen"} :
         Mint(o, a, n, passed)
    \/ \E o \in Operators, a \in Accounts, n \in Amounts, c \in Countries, told \in BOOLEAN :
         Burn(o, a, n, c, told)
    \/ \E o \in Operators, r \in Routes, n \in Amounts, passed \in SUBSET {"to_frozen"} :
         \/ \E w \in Wallets : ForcedTransfer(o, r[1], r[2], n, w, passed)
         \/ Recovery(o, r[1], r[2], n, passed)
    \/ \E o \in Operators, r \in Routes, w \in Wallets : FinalizeRecovery(o, r[1], r[2], w)

Next ==
    \/ MoveNext
    \/ AdminNext /\ UNCHANGED <<complianceVars, identityVars>>
    \/ ComplianceNext /\ UNCHANGED <<identityVars, tokenVars>>
    \/ IdentityNext /\ UNCHANGED <<complianceVars, tokenVars>>

Spec == Init /\ [][Next]_vars

-----------------------------------------------------------------------------
(* Token accounts, mint, flags, freezes and approvals hold their types. *)
TokenTypeOK ==
    /\ bal \in [Accounts -> 0..MaxU64]
    /\ supply \in 0..MaxU64
    /\ paused \in BOOLEAN
    /\ owner \in Operators
    /\ agents \subseteq Operators
    /\ frozen \subseteq Wallets
    /\ partial \in [Wallets -> 0..MaxU64 \cup {NoPartial}]
    /\ approvals \in [Routes -> {NoApproval} \cup
         [amount : Amounts, from_balance : 0..MaxU64, to_balance : 0..MaxU64,
          from_country : Countries, to_country : Countries]]
    /\ recoveries \in [Routes -> Amounts \cup {NoRecovery}]
    /\ unread \subseteq Wallets

(* Every account of the suite holds a value of its declared type. *)
TypeOK == ComplianceTypeOK /\ IdentityTypeOK /\ TokenTypeOK

(* mod-max-investors and mod-supply-cap count what the mint and the token    *)
(* accounts really hold, across approvals, settlements, operator moves,      *)
(* mints and burns, as long as the module was told of every movement (a mint *)
(* while the modules are paused tells nobody, nor need a burn) and of no     *)
(* other (the router's callbacks are open to everybody).                     *)
CountersExact ==
    /\ "MaxInvestors" \notin misled => holder_count = Cardinality(Holders)
    /\ "SupplyCap" \notin misled => total_supply = supply

(* mod-supply-cap: while the module was told of every movement and of no     *)
(* other the supply of the mint stays within the cap, also when the owner    *)
(* lowers the cap.                                                           *)
SupplyCapHolds == "SupplyCap" \notin misled => supply <= max_supply

(* mod-max-balance: a token account never holds more than max_balance as     *)
(* long as no movement was evaluated without the rule.  The hook does not    *)
(* evaluate it again: it is the pinned balances that carry the check from    *)
(* approval to settlement.                                                   *)
MaxBalanceHolds == "MaxBalance" \notin waived => \A a \in Accounts : bal[a] <= max_balance

(* fracks-irs: the count of registered identities survives recoveries.       *)
RegisteredCountExact ==
    registered_count = Cardinality({w \in Wallets : Registered(w)})

(* Why MaxBalanceHolds is inductive: an approval that is still pending was    *)
(* evaluated against max_balance, on balances the hook will insist on.       *)
ApprovalsWithinMaxBalance ==
    "MaxBalance" \notin waived =>
        \A r \in Routes : approvals[r] # NoApproval =>
            approvals[r].to_balance + approvals[r].amount <= max_balance

(* Why SupplyCapHolds is inductive: neither created nor set_max_supply ever  *)
(* leaves the module's own total above its cap.                              *)
TotalWithinCap == total_supply <= max_supply

(* The inductive invariant of Spec. *)
IInv ==
    /\ TypeOK
    /\ CountersExact
    /\ TotalWithinCap
    /\ MaxBalanceHolds
    /\ ApprovalsWithinMaxBalance
    /\ RegisteredCountExact

(* While the token is paused nothing is minted or burned, and balances change *)
(* only when the hook settles an approval the holder obtained earlier: by     *)
(* exactly its amount, on exactly its balances, and using it up.              *)
PausedMovesOnlyApproved ==
    [][paused /\ bal' # bal =>
         /\ supply' = supply
         /\ \E r \in Routes : LET a == approvals[r] IN
              /\ a # NoApproval /\ approvals'[r] = NoApproval
              /\ bal = [bal EXCEPT ![r[1]] = a.from_balance, ![r[2]] = a.to_balance]
              /\ bal' = [bal EXCEPT ![r[1]] = @ - a.amount, ![r[2]] = @ + a.amount]]_vars

(* What a freeze is worth.  As long as every instruction that concerns a     *)
(* frozen wallet was given its freeze account, the approvals that can still  *)
(* move its tokens, out or in, only become fewer, and its accounts gain only *)
(* what the hook settles of them: neither a mint nor an operator's move      *)
(* reaches it.                                                               *)
FrozenGainsNothingNew ==
    [][\A w \in frozen \ unread' :
         /\ \A r \in Routes : w \in {OwnerOf[r[1]], OwnerOf[r[2]]}
              => approvals'[r] \in {approvals[r], NoApproval}
         /\ \A a \in Accounts : OwnerOf[a] = w /\ bal'[a] > bal[a] =>
              \E r \in Routes : /\ r[2] = a
                               /\ approvals[r] # NoApproval /\ approvals'[r] = NoApproval
                               /\ bal'[a] = bal[a] + approvals[r].amount]_vars

(* mod-country-cap: whatever countries are recorded when, the counts add up  *)
(* to the number of holding accounts, as long as the module was told of      *)
(* every movement and of no other: each holder is counted once, though       *)
(* perhaps not where its identity says today.                                *)
CountryCountsAddUp ==
    "CountryCap" \notin misled =>
        SumFunction([c \in Countries |-> CountOf(c)]) = Cardinality(Holders)

(* mod-daily-limit: once a wallet's window is open it only accumulates, and  *)
(* the next window opens no earlier than DaySeconds after it, so no two      *)
(* windows of a wallet overlap.                                              *)
DailyWindowsAreDisjoint ==
    [][\A w \in Wallets : usage[w].window > 0 /\ usage'[w] # usage[w] =>
         IF usage'[w].window = usage[w].window
         THEN usage'[w].volume > usage[w].volume
         ELSE usage'[w].window >= usage[w].window + DaySeconds]_vars

(* No instruction creates or loses tokens: the mint's supply is what the      *)
(* token accounts hold together.                                             *)
SupplyIsHeld == supply = SumFunction(bal)

(* The suite implements the ledger: whatever the modules, identities, roles   *)
(* and freezes do, tokens move only as TokenLedger allows, and a pause leaves *)
(* nothing but the use of approvals that were there before.                   *)
Permit(a) == IF a = NoApproval THEN [amount |-> -1]
             ELSE [amount |-> a.amount, from |-> a.from_balance, to |-> a.to_balance]
Ledger == INSTANCE TokenLedger WITH
    Limit <- MaxU64, balance <- bal, total <- supply, halted <- paused,
    permits <- [r \in Routes |-> Permit(approvals[r])]
LedgerSpec == Ledger!Spec
=============================================================================
