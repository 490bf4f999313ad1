---------------------------- MODULE PurchaseFlow ----------------------------
(***************************************************************************)
(* Primary issuance of one token: an investor's purchase request (a row of  *)
(* the backend's TokenPurchaseRequest table) is reviewed by the claim        *)
(* provider, approved by the issuer, settled by a mint on chain, and marked   *)
(* MINTED.  The three web pages and the backend share no transaction: each   *)
(* page acts on the row it loaded earlier and reports with a PATCH that the   *)
(* backend applies without comparing the row's status, and the chain and the  *)
(* table are changed by different calls, any of which may fail.              *)
(*                                                                           *)
(* The investor's FID exists (the request form refuses to submit without),   *)
(* but fetchFid and fetchWalletIdentity answer null when a read fails.        *)
(*                                                                           *)
(* The chain counts in base units.  A request's amount and the limits are    *)
(* entered in tokens, here in fractions 1/Grain of one; the issuer page      *)
(* converts with six decimals whatever those of the token.                   *)
(***************************************************************************)
EXTENDS Integers, FiniteSets, Sequences, Functions

CONSTANTS
    Investors,        \* investor wallets
    MaxRows,          \* bound on purchase requests ever created
    Amounts,          \* amounts an investor may enter
    Grain,            \* fractions to a token in which amounts are entered
    TokenUnit,        \* base units to a token: 10 to the power of its decimals
    PageUnit,         \* base units to a token for the issuer page: 1_000_000
    Forms,            \* open request forms (browser tabs of investors)
    ProviderPages,    \* open claim-provider pages
    DeskPages,        \* open issuer pages
    Topics,           \* required_claim_topics, out of 1 (KYC) and 2 (AML)
    Providers,        \* topics for which the request names a provider
    LegacyClaims,     \* <<investor, topic>> claims signed with an older key
    Whitelisted,      \* investors with an active IRS identity to begin with
    Country,          \* the investors' countries
    AllowedCountries, CountryCap, MaxAmount, MaxBalance, MaxInvestors,
    MaxSupply,        \* the token's compliance parameters, limits as entered
    MaxMints,         \* bound on mints
    MaxCalls,         \* bound on PATCH calls under way at once
    MaxFaults         \* bound on failed reads and lost calls, on rotations of the
                      \* provider's key and removals of identities

ASSUME PurchaseFlowAssumption ==
    /\ MaxRows \in Nat /\ MaxCalls \in Nat /\ MaxMints \in Nat /\ MaxFaults \in Nat
    /\ Amounts \subseteq Nat
    /\ Grain \in Nat \ {0} /\ TokenUnit \in Nat \ {0} /\ PageUnit \in Nat \ {0}
    /\ Topics \subseteq {1, 2}
    /\ Providers \subseteq Topics
    /\ Whitelisted \subseteq Investors
    /\ LegacyClaims \subseteq Investors \X Topics
    /\ ProviderPages \cap DeskPages = {}

VARIABLES
    rows,      \* request id -> row; DELETED rows are kept so ids are not reused
    form,      \* form -> a create() call in progress in the backend
    rev,       \* provider page -> the row it shows and its approval's progress
    desk,      \* issuer page -> the row and identity it shows, its mint's progress
    net,       \* PATCH .../status calls that are under way
    resume,    \* rows whose resumeAfterIdentity has read the row, not written it
    claim,     \* investor -> topic -> key that signed the claim, or "none"
    signer,    \* the provider FID's signer key: "wallet" or "other"
    irs,       \* investor -> wallet identity in the token's IRS
    mints,     \* confirmed mints; the index is the transaction hash
    ledger,    \* TOKENS_MINTED entries of BlockchainTransaction
    idx,       \* how many of the mints the indexer has copied to the tables
    faults,    \* faults so far
    raced      \* history: rows some call acted on with an outdated view, or
               \* whose call's answer was lost

vars == <<rows, form, rev, desk, net, resume, claim, signer, irs, mints,
          ledger, idx, faults, raced>>
onChain == <<claim, signer, irs, mints>>

-----------------------------------------------------------------------------
(* The table and its statuses. *)

Ids == 1..MaxRows
NoRow == [status |-> "NONE"]
CLOSED_STATUSES == {"REJECTED", "CANCELLED", "MINTED"}
ACTIVE_STATUSES ==
    {"SUBMITTED", "PENDING_KYC", "PENDING_AML", "PENDING_ISSUER_REVIEW",
     "APPROVED_FOR_MINT", "ACTION_REQUIRED_INVESTOR_IDENTITY"}
VALID_STATUSES == ACTIVE_STATUSES \cup CLOSED_STATUSES

Exists(r) == rows[r].status \notin {"NONE", "DELETED"}
RowsWith(statuses) == {r \in Ids : rows[r].status \in statuses}
WalletsWith(statuses) == {rows[r].inv : r \in RowsWith(statuses)}

(* getActiveRequestForInvestor: status NOT IN (CLOSED_STATUSES). *)
HasOpenRequestActiveOnly(i) ==           \* mutant: approved requests are over
    i \in WalletsWith(ACTIVE_STATUSES \ {"APPROVED_FOR_MINT"})
HasOpenRequest(i) ==
    \E r \in Ids : Exists(r) /\ rows[r].inv = i
                   /\ rows[r].status \notin CLOSED_STATUSES

getResumeStatus ==
    IF 1 \in Topics \cap Providers THEN "PENDING_KYC"
    ELSE IF 2 \in Topics \cap Providers THEN "PENDING_AML"
    ELSE "PENDING_ISSUER_REVIEW"

(* The form always sends investorFidRegistered: true. *)
getInitialStatus(fidRegistered) ==
    IF fidRegistered THEN getResumeStatus ELSE "ACTION_REQUIRED_INVESTOR_IDENTITY"

-----------------------------------------------------------------------------
(* From tokens to base units. *)

(* decimalToBaseUnits of the backend, toTokenAmountBn of the deployment:     *)
(* digits beyond the token's decimals are cut off.                           *)
decimalToBaseUnits(value) == (value * TokenUnit) \div Grain

(* baseAmount of handleMintPurchaseRequest: Math.round(amount * 1_000_000). *)
baseAmount(value) == (2 * value * PageUnit + Grain) \div (2 * Grain)

-----------------------------------------------------------------------------
(* The chain, as far as this flow sees it. *)

MintsOf(r) == {k \in DOMAIN mints : mints[k].row = r}
Minted(ks) == SumFunction([k \in ks |-> mints[k].amt])
BalanceAt(n, i) == Minted({k \in 1..n : mints[k].inv = i})
Balance(i) == BalanceAt(Len(mints), i)
Supply == Minted(DOMAIN mints)
Holders == {i \in Investors : Balance(i) > 0}

(* validateRecipientClaimsForMint: every required topic has a claim signed   *)
(* with the provider FID's present signer key.                               *)
ClaimsValid(i) == \A t \in Topics : claim[i][t] = signer
StaleClaim(i) == \E t \in Topics : claim[i][t] \notin {"none", signer}

(* verifySupplyCapForMint and the modules it mirrors. *)
ModulesAccept(i, amt) ==
    /\ Country[i] \in AllowedCountries
    /\ amt <= decimalToBaseUnits(MaxAmount)
    /\ Balance(i) + amt <= decimalToBaseUnits(MaxBalance)
    /\ Supply + amt <= decimalToBaseUnits(MaxSupply)
    /\ amt > 0 => Cardinality(Holders \cup {i}) <= MaxInvestors

(* fracks-token mint: the recipient is verified, to_balance_after must be    *)
(* the balance the caller saw plus the amount, and the modules agree.        *)
ChainMints(i, amt, balanceSeen) ==
    /\ irs[i] = "active"
    /\ ClaimsValid(i)
    /\ Balance(i) = balanceSeen
    /\ ModulesAccept(i, amt)

-----------------------------------------------------------------------------
Init ==
    /\ rows = [r \in Ids |-> NoRow]
    /\ form = [f \in Forms |-> [pc |-> "idle"]]
    /\ rev = [p \in ProviderPages |-> [pc |-> "empty"]]
    /\ desk = [t \in DeskPages |-> [pc |-> "empty"]]
    /\ net = {}
    /\ resume = {}
    /\ claim = [i \in Investors |-> [t \in Topics |->
                   IF <<i, t>> \in LegacyClaims THEN "other" ELSE "none"]]
    /\ signer = "wallet"
    /\ irs = [i \in Investors |-> IF i \in Whitelisted THEN "active" ELSE "absent"]
    /\ mints = <<>>
    /\ ledger = {}
    /\ idx = 0
    /\ faults = 0
    /\ raced = {}

Fault == faults < MaxFaults /\ faults' = faults + 1

-----------------------------------------------------------------------------
(* The investor: the request form, deleting a request, resuming it. *)

CurrentBalance(i) == IF MaxInvestors > 0 THEN Balance(i) ELSE BalanceAt(idx, i)
reservedSupply ==
    SumFunction([r \in RowsWith(ACTIVE_STATUSES) |-> decimalToBaseUnits(rows[r].amt)])
activeNewInvestors(i) == {j \in WalletsWith(ACTIVE_STATUSES) \ {i} : BalanceAt(idx, j) = 0}
getCountryRequestWallets(c) ==
    {j \in WalletsWith(ACTIVE_STATUSES \cup {"MINTED"}) : Country[j] = c}

calculateCompliance(i, amt) ==
    LET units == decimalToBaseUnits(amt) IN
    /\ ~HasOpenRequest(i)
    /\ Country[i] \in AllowedCountries
    /\ units > 0
    /\ units <= decimalToBaseUnits(MaxAmount)
    /\ CurrentBalance(i) + units <= decimalToBaseUnits(MaxBalance)
    /\ CurrentBalance(i) = 0 =>
         /\ MaxInvestors > 0 =>
              Cardinality(Holders) + Cardinality(activeNewInvestors(i)) < MaxInvestors
         /\ Cardinality(getCountryRequestWallets(Country[i]) \cup {i}) <= CountryCap
    /\ Minted(1..idx) + reservedSupply + units <= decimalToBaseUnits(MaxSupply)

(* handleSubmit posts the form; create() runs validateCompliance. *)
Submit(f, i, amt) ==
    /\ form[f].pc = "idle"
    /\ calculateCompliance(i, amt)
    /\ form' = [form EXCEPT ![f] = [pc |-> "validated", inv |-> i, amt |-> amt]]
    /\ UNCHANGED <<rows, rev, desk, net, resume, onChain, ledger, idx, faults, raced>>

(* create(): the second look for an open request, or the 409. *)
CreateCheck(f) ==
    /\ form[f].pc = "validated"
    /\ form' = [form EXCEPT ![f] =
                  IF HasOpenRequest(form[f].inv) THEN [pc |-> "idle"]
                  ELSE [pc |-> "checked", inv |-> form[f].inv, amt |-> form[f].amt,
                        saw |-> {r \in Ids : rows[r] # NoRow}]]
    /\ UNCHANGED <<rows, rev, desk, net, resume, onChain, ledger, idx, faults, raced>>

(* create(): the INSERT, a statement of its own. *)
CreateInsert(f) ==
    /\ form[f].pc = "checked"
    /\ \E r \in Ids :
         /\ rows[r] = NoRow
         /\ \A s \in 1..(r - 1) : rows[s] # NoRow
         /\ rows' = [rows EXCEPT ![r] =
                       [inv |-> form[f].inv, amt |-> form[f].amt, tx |-> 0,
                        status |-> getInitialStatus(TRUE), saw |-> form[f].saw]]
    /\ form' = [form EXCEPT ![f] = [pc |-> "idle"]]
    /\ UNCHANGED <<rev, desk, net, resume, onChain, ledger, idx, faults, raced>>

(* deletePurchaseRequest / remove: whatever the row's status. *)
Delete(r) ==
    /\ Exists(r)
    /\ rows' = [rows EXCEPT ![r].status = "DELETED"]
    /\ UNCHANGED <<form, rev, desk, net, resume, onChain, ledger, idx, faults, raced>>

(* resumeAfterIdentity reads the row ... *)
ResumeRead(r) ==
    /\ rows[r].status = "ACTION_REQUIRED_INVESTOR_IDENTITY"
    /\ r \notin resume
    /\ resume' = resume \cup {r}
    /\ UNCHANGED <<rows, form, rev, desk, net, onChain, ledger, idx, faults, raced>>

(* ... and writes the status, whatever it has become. *)
ResumeWrite(r) ==
    /\ r \in resume
    /\ resume' = resume \ {r}
    /\ rows' = IF Exists(r) THEN [rows EXCEPT ![r].status = getResumeStatus] ELSE rows
    /\ raced' = IF rows[r].status = "ACTION_REQUIRED_INVESTOR_IDENTITY"
                THEN raced ELSE raced \cup {r}
    /\ UNCHANGED <<form, rev, desk, net, onChain, ledger, idx, faults>>

-----------------------------------------------------------------------------
(* PATCH /token-purchase-requests/:id/status and its answers. *)

(* A call some page makes: the row and status it shows, what it asks for,    *)
(* the mint's hash, and the identity the page shows once it is answered.     *)
Call(page, view, next, tx, shows) ==
    [page |-> page, row |-> view.row, seen |-> view.seen, next |-> next,
     tx |-> tx, shows |-> shows]

Sent(m) == IF Cardinality(net) < MaxCalls THEN {net \cup {m}} ELSE {}

(* updateStatus: the row takes any valid status; the hash goes with it. *)
updateStatus(m) ==
    [rows EXCEPT ![m.row].status = m.next,
                 ![m.row].tx = IF m.next = "MINTED" THEN m.tx ELSE @]

(* The TOKENS_MINTED entry, when the call carries a hash. *)
LedgerWith(m) == IF m.tx = 0 THEN ledger ELSE ledger \cup {m.tx}

Outdated(m) == IF rows[m.row].status = m.seen THEN {} ELSE {m.row}

(* The issuer page shows the new status, the provider page reloads.          *)
ShowOnDesk(m) ==
    [t \in DeskPages |->
        IF t = m.page /\ desk[t].pc # "empty" /\ desk[t].row = m.row
        THEN [desk[t] EXCEPT !.seen = m.next,
                             !.ident = IF m.shows = "same" THEN @ ELSE m.shows]
        ELSE desk[t]]
CloseOnProvider(m) ==
    [p \in ProviderPages |-> IF p = m.page THEN [pc |-> "empty"] ELSE rev[p]]
ReopenOnProvider(m) ==
    [p \in ProviderPages |->
        IF p = m.page THEN [rev[p] EXCEPT !.pc = "shown"] ELSE rev[p]]

Answered(m) ==
    /\ m \in net
    /\ Exists(m.row)
    /\ m.next \in VALID_STATUSES
    /\ rows' = updateStatus(m)
    /\ ledger' = LedgerWith(m)
    /\ raced' = raced \cup Outdated(m)
    /\ net' = net \ {m}
    /\ desk' = ShowOnDesk(m)
    /\ rev' = CloseOnProvider(m)
    /\ UNCHANGED <<form, resume, onChain, idx, faults>>

(* findOne throws: the row is gone. *)
NotFound(m) ==
    /\ m \in net
    /\ ~Exists(m.row)
    /\ net' = net \ {m}
    /\ rev' = ReopenOnProvider(m)
    /\ UNCHANGED <<rows, form, desk, resume, onChain, ledger, idx, faults, raced>>

(* The call or its answer is lost, or the ledger entry fails after the row   *)
(* was updated: apiFetch throws, the page keeps what it shows.               *)
Failed(m) ==
    /\ m \in net
    /\ Fault
    /\ \/ UNCHANGED <<rows, ledger>>
       \/ /\ Exists(m.row)
          /\ rows' = updateStatus(m)
          /\ ledger' \in {ledger, LedgerWith(m)}
    /\ raced' = raced \cup {m.row}
    /\ net' = net \ {m}
    /\ rev' = ReopenOnProvider(m)
    /\ UNCHANGED <<form, desk, resume, onChain, idx>>

-----------------------------------------------------------------------------
(* The claim provider's page. *)

(* loadRequests: rows that wait for this provider's review. *)
ProviderLoad(p, r) ==
    /\ rev[p].pc \in {"empty", "shown"}
    /\ rows[r].status \in {"PENDING_KYC", "PENDING_AML"}
    /\ rev' = [rev EXCEPT ![p] = [pc |-> "shown", row |-> r, seen |-> rows[r].status]]
    /\ UNCHANGED <<rows, form, desk, net, resume, onChain, ledger, idx, faults, raced>>

getReviewTopic(v) == IF v.seen = "PENDING_AML" THEN 2 ELSE 1
nextStatus(v) ==
    IF getReviewTopic(v) = 1 /\ 2 \in Topics THEN "PENDING_AML" ELSE "PENDING_ISSUER_REVIEW"

Forward(p, next) ==
    /\ net' \in Sent(Call(p, rev[p], next, 0, "same"))
    /\ rev' = [rev EXCEPT ![p].pc = "sent"]

(* approveRequest up to its first transaction: no FID sends the request      *)
(* back to the investor, a valid claim forwards it, a claim signed with an   *)
(* older key is revoked first, no claim is issued.                           *)
ProviderApprove(p) ==
    /\ rev[p].pc = "shown"
    /\ LET i == rows[rev[p].row].inv
           t == getReviewTopic(rev[p])
       IN \/ /\ Fault                    \* fetchFid could not read the account
             /\ Forward(p, "ACTION_REQUIRED_INVESTOR_IDENTITY")
             /\ UNCHANGED claim
          \/ /\ claim[i][t] = signer
             /\ Forward(p, nextStatus(rev[p]))
             /\ UNCHANGED <<claim, faults>>
          \/ /\ claim[i][t] # signer
             /\ claim' = [claim EXCEPT ![i][t] = "none"]   \* revokeActiveClaimForTopic
             /\ rev' = [rev EXCEPT ![p].pc = "issue"]
             /\ UNCHANGED <<net, faults>>
    /\ UNCHANGED <<rows, form, desk, resume, signer, irs, mints, ledger, idx, raced>>

(* issueClaim: refused unless the FID's signer is the connected wallet; a    *)
(* claim that another page issued meanwhile (DuplicateClaimTopicIssuer)      *)
(* forwards the request as a fresh one does.                                 *)
ProviderIssue(p) ==
    /\ rev[p].pc = "issue"
    /\ LET i == rows[rev[p].row].inv
           t == getReviewTopic(rev[p])
       IN \/ /\ claim[i][t] # "none" \/ signer = "wallet"
             /\ claim' = [claim EXCEPT ![i][t] = IF @ = "none" THEN signer ELSE @]
             /\ Forward(p, nextStatus(rev[p]))
          \/ /\ claim[i][t] = "none" /\ signer # "wallet"
             /\ rev' = [rev EXCEPT ![p].pc = "shown"]
             /\ UNCHANGED <<claim, net>>
    /\ UNCHANGED <<rows, form, desk, resume, signer, irs, mints, ledger, idx, faults, raced>>

ProviderReject(p) ==
    /\ rev[p].pc = "shown"
    /\ Forward(p, "REJECTED")
    /\ UNCHANGED <<rows, form, desk, resume, onChain, ledger, idx, faults, raced>>

(* setOwnFidSignerKey *)
RotateSigner ==
    /\ Fault
    /\ signer' = IF signer = "wallet" THEN "other" ELSE "wallet"
    /\ UNCHANGED <<rows, form, rev, desk, net, resume, claim, irs, mints, ledger, idx, raced>>

-----------------------------------------------------------------------------
(* The issuer's page. *)

(* The page's effect loads the requests; issuerPurchaseQueue filters them.   *)
DeskLoad(t, r) ==
    /\ desk[t].pc \in {"empty", "idle"}
    /\ rows[r].status \in {"PENDING_ISSUER_REVIEW", "APPROVED_FOR_MINT"}
    /\ desk' = [desk EXCEPT ![t] = [pc |-> "idle", row |-> r, seen |-> rows[r].status,
                                    ident |-> "unknown", balance |-> 0, held |-> "NONE"]]
    /\ UNCHANGED <<rows, form, rev, net, resume, onChain, ledger, idx, faults, raced>>

InQueue(t) ==
    desk[t].pc = "idle" /\ desk[t].seen \in {"PENDING_ISSUER_REVIEW", "APPROVED_FOR_MINT"}
InvestorOf(t) == rows[desk[t].row].inv

(* The identity effect: fetchWalletIdentity, which hides a failed read. *)
DeskIdentity(t) ==
    /\ InQueue(t)
    /\ \/ /\ desk' = [desk EXCEPT ![t].ident = irs[InvestorOf(t)]]
          /\ UNCHANGED faults
       \/ /\ Fault
          /\ desk' = [desk EXCEPT ![t].ident = "absent"]
    /\ UNCHANGED <<rows, form, rev, net, resume, onChain, ledger, idx, raced>>

(* Mark Settlement Approved *)
DeskApprove(t) ==
    /\ InQueue(t)
    /\ desk[t].seen = "PENDING_ISSUER_REVIEW"
    /\ net' \in Sent(Call(t, desk[t], "APPROVED_FOR_MINT", 0, "same"))
    /\ UNCHANGED <<rows, form, rev, desk, resume, onChain, ledger, idx, faults, raced>>

(* Whitelist / Register Investor: an identity that exists is only shown. *)
DeskWhitelist(t) ==
    /\ InQueue(t)
    /\ desk[t].ident = "absent"
    /\ LET i == InvestorOf(t)
       IN \/ /\ irs[i] # "absent"
             /\ desk' = [desk EXCEPT ![t].ident = irs[i]]
             /\ UNCHANGED <<irs, net>>
          \/ /\ irs[i] = "absent"
             /\ irs' = [irs EXCEPT ![i] = "inactive"]
             /\ net' \in Sent(Call(t, desk[t], desk[t].seen, 0, "inactive"))
             /\ UNCHANGED desk
    /\ UNCHANGED <<rows, form, rev, resume, claim, signer, mints, ledger, idx, faults, raced>>

(* Activate Identity *)
DeskActivate(t) ==
    /\ InQueue(t)
    /\ desk[t].ident = "inactive"
    /\ irs[InvestorOf(t)] # "absent"
    /\ irs' = [irs EXCEPT ![InvestorOf(t)] = "active"]
    /\ net' \in Sent(Call(t, desk[t], desk[t].seen, 0, "active"))
    /\ UNCHANGED <<rows, form, rev, desk, resume, claim, signer, mints, ledger, idx, faults, raced>>

(* Delete Registry Identity *)
DeskRemoveIdentity(t) ==
    /\ InQueue(t)
    /\ Fault
    /\ irs[InvestorOf(t)] # "absent"
    /\ irs' = [irs EXCEPT ![InvestorOf(t)] = "absent"]
    /\ desk' = [desk EXCEPT ![t].ident = "absent"]
    /\ UNCHANGED <<rows, form, rev, net, resume, claim, signer, mints, ledger, idx, raced>>

MintButtonAnyStatus(t) ==                \* mutant: the status is not looked at
    desk[t].pc = "idle" /\ desk[t].ident = "active"
MintButton(t) ==
    InQueue(t) /\ desk[t].seen = "APPROVED_FOR_MINT" /\ desk[t].ident = "active"

(* handleMintPurchaseRequest up to the transaction: TokenService.mint reads  *)
(* the balance and repeats the chain's checks.  A claim signed with an older  *)
(* key sends the request back to KYC.                                         *)
DeskMint(t) ==
    /\ MintButton(t)
    /\ LET i == InvestorOf(t)
       IN \/ /\ irs[i] = "active"
             /\ ClaimsValid(i)
             /\ ModulesAccept(i, baseAmount(rows[desk[t].row].amt))
             /\ desk' = [desk EXCEPT ![t].pc = "minting", ![t].balance = Balance(i),
                                      ![t].held = desk[t].seen]
             /\ UNCHANGED net
          \/ /\ irs[i] = "active"
             /\ StaleClaim(i)
             /\ net' \in Sent(Call(t, desk[t], "PENDING_KYC", 0, "same"))
             /\ UNCHANGED desk
    /\ UNCHANGED <<rows, form, rev, resume, onChain, ledger, idx, faults, raced>>

(* What makes a second mint of the row possible: the handler holds a status  *)
(* the row no longer has, or the MINTED call of an earlier mint is under way *)
(* (mintTokens.isPending ends with the transaction, not with that call).     *)
MintOutdated(t) ==
    IF \/ rows[desk[t].row].status # desk[t].held
       \/ \E m \in net : m.row = desk[t].row /\ m.next = "MINTED"
    THEN {desk[t].row} ELSE {}

Reported(t, tx) ==
    Call(t, [row |-> desk[t].row, seen |-> desk[t].held], "MINTED", tx, "same")

(* The mint transaction.  Confirmed, it is reported; when the confirmation   *)
(* is lost, or the chain refuses, the page only shows the error.             *)
DeskSendReportsAnyway(t) ==              \* mutant: the hash is reported before
    /\ desk[t].pc = "minting"            \* the transaction is confirmed
    /\ Len(mints) < MaxMints
    /\ net' \in Sent(Reported(t, Len(mints) + 1))
    /\ desk' = [desk EXCEPT ![t].pc = "idle", ![t].balance = 0, ![t].held = "NONE"]
    /\ UNCHANGED <<rows, form, rev, resume, onChain, ledger, idx, faults, raced>>

DeskSend(t) ==
    /\ desk[t].pc = "minting"
    /\ LET r == desk[t].row
           i == rows[r].inv
           amt == baseAmount(rows[r].amt)
           tx == Len(mints) + 1
       IN \/ /\ ChainMints(i, amt, desk[t].balance)
             /\ Len(mints) < MaxMints
             /\ mints' = Append(mints, [inv |-> i, amt |-> amt, row |-> r])
             /\ \/ /\ net' \in Sent(Reported(t, tx))
                   /\ raced' = raced \cup MintOutdated(t)
                   /\ UNCHANGED faults
                \/ /\ Fault
                   /\ raced' = raced \cup {r}
                   /\ UNCHANGED net
          \/ /\ ~ChainMints(i, amt, desk[t].balance)
             /\ UNCHANGED <<mints, net, raced, faults>>
    /\ desk' = [desk EXCEPT ![t].pc = "idle", ![t].balance = 0, ![t].held = "NONE"]
    /\ UNCHANGED <<rows, form, rev, resume, claim, signer, irs, ledger, idx>>

-----------------------------------------------------------------------------
(* The indexer, which copies supply and balances in its own time (Indexer). *)

Sync ==
    /\ idx # Len(mints)
    /\ idx' = Len(mints)
    /\ UNCHANGED <<rows, form, rev, desk, net, resume, onChain, ledger, faults, raced>>

-----------------------------------------------------------------------------
Next ==
    \/ \E f \in Forms :
         \/ \E i \in Investors, amt \in Amounts : Submit(f, i, amt)
         \/ CreateCheck(f)
         \/ CreateInsert(f)
    \/ \E r \in Ids : Delete(r) \/ ResumeRead(r) \/ ResumeWrite(r)
    \/ \E m \in net : Answered(m) \/ NotFound(m) \/ Failed(m)
    \/ \E p \in ProviderPages :
         \/ \E r \in Ids : ProviderLoad(p, r)
         \/ ProviderApprove(p) \/ ProviderIssue(p) \/ ProviderReject(p)
    \/ RotateSigner
    \/ \E t \in DeskPages :
         \/ \E r \in Ids : DeskLoad(t, r)
         \/ DeskIdentity(t) \/ DeskApprove(t) \/ DeskWhitelist(t) \/ DeskActivate(t)
         \/ DeskRemoveIdentity(t) \/ DeskMint(t) \/ DeskSend(t)
    \/ Sync

Spec == Init /\ [][Next]_vars

-----------------------------------------------------------------------------
Row == [inv : Investors, amt : Amounts, tx : 0..MaxMints, saw : SUBSET Ids,
        status : VALID_STATUSES \cup {"DELETED"}]

(* Every variable has its type. *)
TypeOK ==
    /\ rows \in [Ids -> Row \cup {NoRow}]
    /\ \A f \in Forms : form[f].pc \in {"idle", "validated", "checked"}
    /\ \A p \in ProviderPages : rev[p].pc \in {"empty", "shown", "issue", "sent"}
    /\ \A t \in DeskPages : desk[t].pc \in {"empty", "idle", "minting"}
    /\ \A m \in net : m.next \in VALID_STATUSES /\ m.tx \in 0..MaxMints
    /\ resume \subseteq Ids
    /\ claim \in [Investors -> [Topics -> {"none", "wallet", "other"}]]
    /\ irs \in [Investors -> {"absent", "inactive", "active"}]
    /\ \A k \in DOMAIN mints : mints[k] \in [inv : Investors, amt : Nat, row : Ids]
    /\ ledger \subseteq 1..MaxMints
    /\ faults \in 0..MaxFaults
    /\ raced \subseteq Ids

(* A row that says MINTED names a confirmed mint of that very request: to     *)
(* its investor, under a hash no other row has, of exactly the base units      *)
(* that handleMintPurchaseRequest makes of its amount.  For the amount asked   *)
(* for, these are the right base units of a token with six decimals.           *)
MintedRowsDelivered ==
    \A r \in RowsWith({"MINTED"}) :
        /\ rows[r].tx \in DOMAIN mints
        /\ mints[rows[r].tx] = [inv |-> rows[r].inv, amt |-> baseAmount(rows[r].amt), row |-> r]

(* handleMintPurchaseRequest and updateStatus settle a request once, unless   *)
(* an answer was lost or a page acted on an outdated status: the chain itself *)
(* does not know requests.                                                    *)
OneMintPerUndisturbedRow ==
    \A r \in Ids \ raced : Cardinality(MintsOf(r)) <= 1

(* create() keeps an investor at one open request: two open ones were         *)
(* inserted by calls that overlapped, or one was reopened by an outdated      *)
(* PATCH.                                                                     *)
OpenTwinsOverlapped ==
    \A r, s \in RowsWith(ACTIVE_STATUSES) \ raced :
        r # s /\ rows[r].inv = rows[s].inv => r \notin rows[s].saw /\ s \notin rows[r].saw

(* The ledger implements the delivery log: an entry appears only after its    *)
(* mint is confirmed, once, and stays.                                        *)
Log == INSTANCE DeliveryLog WITH Deliveries <- 1..MaxMints,
                                 delivered <- DOMAIN mints, recorded <- ledger
LogSpec == Log!Spec
=============================================================================
