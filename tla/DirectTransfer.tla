--------------------------- MODULE DirectTransfer ---------------------------
(***************************************************************************)
(* Transfers from one holder straight to another wallet.  Two pages of the   *)
(* sender run a preflight and send the transfer on chain; one of them may     *)
(* instead open a TokenTransferRequest, which the claim provider and the      *)
(* issuer work through until the recipient is eligible.  A transfer is        *)
(* reported after the fact as a request that is already TRANSFERRED, and the  *)
(* backend folds it into an open request for the same recipient if it finds   *)
(* one.  Each backend call reads, writes the row and writes the ledger in     *)
(* three statements without a transaction, and compares no status.           *)
(*                                                                           *)
(* The sender is eligible throughout.  Requests of other senders meet these   *)
(* only in the recipient's claims and identity.                              *)
(***************************************************************************)
EXTENDS Integers, FiniteSets, Sequences, Functions

CONSTANTS
    Recipients,      \* recipient wallets
    Amounts,         \* amounts the sender may enter
    SenderBalance,   \* the sender's balance at the start
    Topics,          \* claim topics the token requires, out of 1 and 2
    TransferPages,   \* open transfer pages, which can start an onboarding
    PortfolioPages,  \* open investor pages, which can only check and send
    ProviderPages,   \* open claim-provider pages
    IssuerPages,     \* open issuer pages
    MaxRows,         \* bound on requests ever created
    MaxTxs,          \* bound on claim and transfer transactions
    MaxFaults        \* bound on lost calls, failed reads and simulations, revoked claims

Forms == TransferPages \cup PortfolioPages
Actors == Forms \cup ProviderPages \cup IssuerPages

ASSUME DirectTransferAssumption ==
    /\ SenderBalance \in Nat
    /\ Amounts \subseteq Nat \ {0}
    /\ Topics \subseteq {1, 2}
    /\ MaxRows \in Nat /\ MaxTxs \in Nat /\ MaxFaults \in Nat
    /\ Forms \cap (ProviderPages \cup IssuerPages) = {}
    /\ ProviderPages \cap IssuerPages = {} /\ TransferPages \cap PortfolioPages = {}

VARIABLES
    rows,      \* id -> TokenTransferRequest row, or NoRow
    view,      \* page -> the preflight or the request it shows, or Nothing
    call,      \* page -> the call it waits for, or Idle
    fids,      \* recipients with a FID
    claims,    \* recipient -> topics with a valid claim
    irs,       \* recipient -> wallet identity in the token's IRS
    approval,  \* recipient -> the hook's TransferApproval, or NoApproval
    txs,       \* confirmed claim and transfer transactions; the index is the hash
    ledger,    \* hash -> actionType in BlockchainTransaction, or "none"
    faults,    \* faults so far
    raced      \* history: rows two calls worked on at once, that an outdated PATCH
               \* reopened, or whose recipient lost a claim

vars == <<rows, view, call, fids, claims, irs, approval, txs, ledger, faults, raced>>
onChain == <<fids, claims, irs, approval, txs>>

Ids == 1..MaxRows
NoRow == [status |-> "NONE"]
Nothing == [status |-> "NONE"]
Idle == [pc |-> "idle"]
NoApproval == [amt |-> 0]
CLOSED_STATUSES == {"TRANSFERRED", "REJECTED", "CANCELLED"}
VALID_STATUSES == CLOSED_STATUSES \cup
    {"DRAFT", "ACTION_REQUIRED_RECIPIENT_FID", "PENDING_KYC", "PENDING_AML",
     "PENDING_ISSUER_WHITELIST", "PENDING_ISSUER_ACTIVATION", "READY_TO_TRANSFER",
     "TRANSFER_SIMULATION_FAILED", "SENDER_NOT_ELIGIBLE", "SENDER_FROZEN",
     "SENDER_CLAIM_EXPIRED", "INSUFFICIENT_TRANSFERABLE_BALANCE"}

Exists(r) == rows[r].status # "NONE"
Open(r) == Exists(r) /\ rows[r].status \notin CLOSED_STATUSES
Fault == faults < MaxFaults /\ faults' = faults + 1

-----------------------------------------------------------------------------
(* The chain, as far as this flow sees it. *)

Transfers == {k \in DOMAIN txs : txs[k].kind = "transfer"}
Balance == SenderBalance - SumFunction([k \in Transfers |-> txs[k].amt])

(* checkWalletEligibility: claims are looked up through the wallet identity. *)
Missing(to) == IF irs[to] = "absent" THEN Topics ELSE Topics \ claims[to]
Eligible(to) == Missing(to) = {} /\ irs[to] = "active"

(* preflightTransfer's status for an eligible sender, which is also the       *)
(* status startRecipientOnboarding sends.                                     *)
PreflightStatus(to, amt) ==
    IF Balance < amt THEN "INSUFFICIENT_TRANSFERABLE_BALANCE"
    ELSE IF to \notin fids THEN "ACTION_REQUIRED_RECIPIENT_FID"
    ELSE IF 1 \in Missing(to) THEN "PENDING_KYC"
    ELSE IF 2 \in Missing(to) THEN "PENDING_AML"
    ELSE IF irs[to] = "absent" THEN "PENDING_ISSUER_WHITELIST"
    ELSE IF irs[to] = "inactive" THEN "PENDING_ISSUER_ACTIVATION"
    ELSE "READY_TO_TRANSFER"

-----------------------------------------------------------------------------
Init ==
    /\ rows = [r \in Ids |-> NoRow]
    /\ view = [a \in Actors |-> Nothing]
    /\ call = [a \in Actors |-> Idle]
    /\ fids \in SUBSET Recipients
    /\ claims \in [Recipients -> SUBSET Topics]        \* issued for other tokens
    /\ \A to \in Recipients \ fids : claims[to] = {}
    /\ irs = [to \in Recipients |-> "absent"]
    /\ approval = [to \in Recipients |-> NoApproval]
    /\ txs = <<>>
    /\ ledger = [k \in 1..MaxTxs |-> "none"]
    /\ faults = 0
    /\ raced = {}

-----------------------------------------------------------------------------
(* The sender's pages. *)

(* runPreflight, runDirectTransferPreflight; the simulation may fail for a    *)
(* rule of a module.                                                          *)
Preflight(f, to, amt) ==
    /\ call[f] = Idle
    /\ LET status == PreflightStatus(to, amt)
           Show(s) == view' = [view EXCEPT ![f] = [to |-> to, amt |-> amt, status |-> s]]
       IN \/ Show(status) /\ UNCHANGED faults
          \/ Fault /\ status = "READY_TO_TRANSFER" /\ Show("TRANSFER_SIMULATION_FAILED")
    /\ view' # view
    /\ UNCHANGED <<rows, call, onChain, ledger, raced>>

(* A POST of the form's request, with the hash of a transfer or 0. *)
Post(f, status, tx) ==
    [pc |-> "post", to |-> view[f].to, amt |-> view[f].amt, status |-> status, tx |-> tx]

(* startRecipientOnboarding *)
Onboard(f) ==
    /\ call[f] = Idle
    /\ view[f].status \notin {"NONE", "READY_TO_TRANSFER", "INSUFFICIENT_TRANSFERABLE_BALANCE"}
    /\ call' = [call EXCEPT ![f] = Post(f, view[f].status, 0)]
    /\ UNCHANGED <<rows, view, onChain, ledger, faults, raced>>

RulesOnly(to, amt) == Eligible(to)       \* mutant: the balance is not compared
Approves(to, amt) == Eligible(to) /\ Balance >= amt

(* sendTransfer, sendDirectTransfer on a preflight that was ok.  The approve   *)
(* transaction checks the rules and stores the approval of this route, over an *)
(* earlier one; a refusal leaves the page as it was ...                        *)
ApproveTransfer(f) ==
    LET to == view[f].to
        amt == view[f].amt
    IN /\ call[f] = Idle
       /\ view[f].status = "READY_TO_TRANSFER"
       /\ Approves(to, amt)
       /\ approval' = [approval EXCEPT ![to] = [amt |-> amt, pinned |-> Balance]]
       /\ call' = [call EXCEPT ![f] = [pc |-> "transfer"]]
       /\ UNCHANGED <<rows, view, fids, claims, irs, txs, ledger, faults, raced>>

(* ... and transferChecked settles it if amount and balances still match. *)
Settles(to, amt) == approval[to] = [amt |-> amt, pinned |-> Balance]

ReportBeforeConfirm(f) ==                \* mutant: the hash is reported unconfirmed
    /\ call[f].pc = "transfer"
    /\ Len(txs) < MaxTxs
    /\ call' = [call EXCEPT ![f] = Post(f, "TRANSFERRED", Len(txs) + 1)]
    /\ UNCHANGED <<rows, view, onChain, ledger, faults, raced>>

TransferTokens(f) ==
    LET to == view[f].to
        amt == view[f].amt
    IN /\ call[f].pc = "transfer"
       /\ \/ /\ Settles(to, amt)
             /\ Len(txs) < MaxTxs
             /\ txs' = Append(txs, [kind |-> "transfer", to |-> to, amt |-> amt])
             /\ approval' = [approval EXCEPT ![to] = NoApproval]
             /\ \/ /\ call' = [call EXCEPT ![f] = Post(f, "TRANSFERRED", Len(txs) + 1)]
                   /\ UNCHANGED faults
                \/ Fault /\ call' = [call EXCEPT ![f] = Idle]   \* confirmation lost
          \/ /\ ~Settles(to, amt)
             /\ call' = [call EXCEPT ![f] = Idle]
             /\ UNCHANGED <<txs, approval, faults>>
       /\ UNCHANGED <<rows, view, fids, claims, irs, ledger, raced>>

-----------------------------------------------------------------------------
(* The backend: create and updateStatus, one statement a step. *)

WorkingOn(r) == {a \in Actors : "id" \in DOMAIN call[a] /\ call[a].id = r}
Joins(r) == raced' = IF WorkingOn(r) = {} THEN raced ELSE raced \cup {r}

Patch(r, status, claimTx, tx) ==
    [pc |-> "patch", id |-> r, status |-> status, claim |-> claimTx, tx |-> tx]

NoDuplicateOnceReady(to) ==              \* mutant: a ready request does not count
    {r \in Ids : Open(r) /\ rows[r].to = to /\ rows[r].status # "READY_TO_TRANSFER"}
Duplicates(to) == {r \in Ids : Open(r) /\ rows[r].to = to}

(* create: a duplicate is refused, or updated when tokens have moved ... *)
FindDuplicate(f) ==
    /\ call[f].pc = "post"
    /\ call[f].status \in VALID_STATUSES
    /\ LET c == call[f]
           dup == Duplicates(c.to)
       IN \/ /\ dup = {}
             /\ call' = [call EXCEPT ![f] = [pc |-> "insert", to |-> c.to, amt |-> c.amt,
                                             status |-> c.status, tx |-> c.tx,
                                             saw |-> {r \in Ids : Exists(r)}]]
             /\ UNCHANGED raced
          \/ /\ c.status = "TRANSFERRED"
             /\ \E r \in dup : /\ call' = [call EXCEPT ![f] = Patch(r, c.status, 0, c.tx)]
                               /\ Joins(r)
          \/ /\ c.status # "TRANSFERRED" /\ dup # {}
             /\ call' = [call EXCEPT ![f] = Idle]
             /\ UNCHANGED raced
    /\ UNCHANGED <<rows, view, onChain, ledger, faults>>

(* ... and its INSERT. *)
InsertRow(f) ==
    /\ call[f].pc = "insert"
    /\ \E r \in Ids :
         /\ ~Exists(r)
         /\ \A s \in 1..(r - 1) : Exists(s)
         /\ rows' = [rows EXCEPT ![r] =
                       [to |-> call[f].to, amt |-> call[f].amt, status |-> call[f].status,
                        kyc |-> 0, aml |-> 0, tx |-> call[f].tx, saw |-> call[f].saw]]
         /\ call' = [call EXCEPT ![f] = [pc |-> "record", id |-> r, claim |-> 0,
                                         status |-> call[f].status, tx |-> call[f].tx,
                                         was |-> call[f].status]]
    /\ UNCHANGED <<view, onChain, ledger, faults, raced>>

(* updateStatus: findOne ... *)
FindOne(a) ==
    /\ call[a].pc = "patch"
    /\ call[a].status \in VALID_STATUSES
    /\ call' = [call EXCEPT ![a] = [pc |-> "update", id |-> call[a].id,
                                    status |-> call[a].status, claim |-> call[a].claim,
                                    tx |-> call[a].tx, was |-> rows[call[a].id].status]]
    /\ UNCHANGED <<rows, view, onChain, ledger, faults, raced>>

(* ... the UPDATE, whose claim column follows the status that was read ... *)
BothColumnsAtKyc(c, topic) ==            \* mutant: the condition copied
    c.claim # 0 /\ c.was = "PENDING_KYC"
FillsColumn(c, topic) ==
    c.claim # 0 /\ c.was = (IF topic = 1 THEN "PENDING_KYC" ELSE "PENDING_AML")

HashAlways(c) == TRUE                    \* mutant: transferTxHash whatever the status
WritesHash(c) == c.status = "TRANSFERRED"

UpdateRow(a) ==
    /\ call[a].pc = "update"
    /\ LET c == call[a]
           row == rows[c.id]
       IN /\ rows' = [rows EXCEPT ![c.id] =
                        [row EXCEPT !.status = c.status,
                                    !.kyc = IF FillsColumn(c, 1) THEN c.claim ELSE row.kyc,
                                    !.aml = IF FillsColumn(c, 2) THEN c.claim ELSE row.aml,
                                    !.tx = IF WritesHash(c) THEN c.tx ELSE row.tx]]
          /\ raced' = IF ~Open(c.id) /\ c.status \notin CLOSED_STATUSES
                      THEN raced \cup {c.id} ELSE raced
    /\ call' = [call EXCEPT ![a].pc = "record"]
    /\ UNCHANGED <<view, onChain, ledger, faults>>

(* What the page shows once its call has been answered, or has failed. *)
Answered(a) ==
    [view EXCEPT ![a] =
        IF a \in Forms /\ call[a].status # "TRANSFERRED" THEN @
        ELSE IF a \in IssuerPages /\ call[a].status = "PENDING_ISSUER_ACTIVATION"
             THEN [@ EXCEPT !.status = call[a].status]
        ELSE Nothing]
Unanswered(a) ==
    [view EXCEPT ![a] = IF a \in Forms /\ call[a].status = "TRANSFERRED" THEN Nothing ELSE @]

(* ... and recordLedgerEntries. *)
Record(a) ==
    /\ call[a].pc = "record"
    /\ LET c == call[a]
       IN ledger' = [k \in DOMAIN ledger |->
                       IF k = c.claim /\ c.was = "PENDING_KYC" THEN "KYC_CLAIM"
                       ELSE IF k = c.claim /\ c.was = "PENDING_AML" THEN "AML_CLAIM"
                       ELSE IF k = c.tx THEN "TOKEN_TRANSFER"
                       ELSE ledger[k]]
    /\ view' = Answered(a)
    /\ call' = [call EXCEPT ![a] = Idle]
    /\ UNCHANGED <<rows, onChain, faults, raced>>

(* A call fails before or between its statements. *)
Lost(a) ==
    /\ Fault
    /\ call[a].pc \in {"post", "insert", "patch", "update", "record"}
    /\ view' = Unanswered(a)
    /\ call' = [call EXCEPT ![a] = Idle]
    /\ UNCHANGED <<rows, onChain, ledger, raced>>

-----------------------------------------------------------------------------
(* The provider's and the issuer's pages. *)

Shows(a) == IF a \in ProviderPages THEN {"PENDING_KYC", "PENDING_AML"}
            ELSE {"PENDING_ISSUER_WHITELIST", "PENDING_ISSUER_ACTIVATION"}

Load(a, r) ==
    /\ call[a] = Idle
    /\ rows[r].status \in Shows(a)
    /\ view' = [view EXCEPT ![a] = [id |-> r, status |-> rows[r].status]]
    /\ view' # view
    /\ UNCHANGED <<rows, call, onChain, ledger, faults, raced>>

ReviewTopic(p) == IF view[p].status = "PENDING_AML" THEN 2 ELSE 1
Forward(p, claimTx) ==
    Patch(view[p].id,
          IF ReviewTopic(p) = 1 /\ 2 \in Topics THEN "PENDING_AML"
          ELSE "PENDING_ISSUER_WHITELIST", claimTx, 0)

(* approveTransferRequest, up to checkTokenScopedClaimForRequest ... *)
Review(p) ==
    /\ call[p] = Idle
    /\ view[p] # Nothing
    /\ LET r == view[p].id
           to == rows[r].to
           NoFid == call' = [call EXCEPT ![p] = Patch(r, "ACTION_REQUIRED_RECIPIENT_FID", 0, 0)]
       IN /\ \/ to \notin fids /\ NoFid /\ UNCHANGED faults
             \/ Fault /\ to \in fids /\ NoFid        \* fetchFid answers null on an error
             \/ /\ to \in fids
                /\ call' = [call EXCEPT ![p] = IF ReviewTopic(p) \in claims[to] THEN Forward(p, 0)
                                               ELSE [pc |-> "issue", id |-> r]]
                /\ UNCHANGED faults
          /\ Joins(r)
    /\ UNCHANGED <<rows, view, onChain, ledger>>

(* ... and issueClaim, refused by the chain when another page was first. *)
IssueClaim(p) ==
    /\ call[p].pc = "issue"
    /\ LET to == rows[call[p].id].to
           topic == ReviewTopic(p)
       IN \/ /\ topic \in claims[to]
             /\ call' = [call EXCEPT ![p] = Forward(p, 0)]
             /\ UNCHANGED <<claims, txs, faults>>
          \/ /\ topic \notin claims[to]
             /\ Len(txs) < MaxTxs
             /\ claims' = [claims EXCEPT ![to] = @ \cup {topic}]
             /\ txs' = Append(txs, [kind |-> "claim", to |-> to, topic |-> topic])
             /\ \/ call' = [call EXCEPT ![p] = Forward(p, Len(txs) + 1)] /\ UNCHANGED faults
                \/ Fault /\ call' = [call EXCEPT ![p] = Idle]   \* confirmation lost
    /\ UNCHANGED <<rows, view, fids, irs, approval, ledger, raced>>

(* handleWhitelistTransferRecipient; an identity that exists is kept. *)
Whitelist(d) ==
    /\ call[d] = Idle
    /\ view[d].status = "PENDING_ISSUER_WHITELIST"
    /\ LET r == view[d].id
           to == rows[r].to
       IN /\ irs[to] # "absent" \/ to \in fids
          /\ irs' = [irs EXCEPT ![to] = IF @ = "absent" THEN "inactive" ELSE @]
          /\ call' = [call EXCEPT ![d] = Patch(r, "PENDING_ISSUER_ACTIVATION", 0, 0)]
          /\ Joins(r)
    /\ UNCHANGED <<rows, view, fids, claims, approval, txs, ledger, faults>>

(* handleActivateTransferRecipient *)
Activate(d) ==
    /\ call[d] = Idle
    /\ view[d].status = "PENDING_ISSUER_ACTIVATION"
    /\ LET r == view[d].id
           to == rows[r].to
       IN /\ irs[to] # "absent"
          /\ irs' = [irs EXCEPT ![to] = "active"]
          /\ call' = [call EXCEPT ![d] = Patch(r, "READY_TO_TRANSFER", 0, 0)]
          /\ Joins(r)
    /\ UNCHANGED <<rows, view, fids, claims, approval, txs, ledger, faults>>

-----------------------------------------------------------------------------
(* What recipients and providers do elsewhere. *)

RegisterFid(to) ==
    /\ to \notin fids
    /\ fids' = fids \cup {to}
    /\ UNCHANGED <<rows, view, call, claims, irs, approval, txs, ledger, faults, raced>>

RevokeClaim(to) ==
    /\ Fault
    /\ \E t \in claims[to] : claims' = [claims EXCEPT ![to] = @ \ {t}]
    /\ raced' = raced \cup {r \in Ids : Exists(r) /\ rows[r].to = to}
    /\ UNCHANGED <<rows, view, call, fids, irs, approval, txs, ledger>>

-----------------------------------------------------------------------------
Next ==
    \/ \E f \in Forms :
         \/ \E to \in Recipients, amt \in Amounts : Preflight(f, to, amt)
         \/ ApproveTransfer(f) \/ TransferTokens(f) \/ FindDuplicate(f) \/ InsertRow(f)
    \/ \E f \in TransferPages : Onboard(f)
    \/ \E a \in Actors : FindOne(a) \/ UpdateRow(a) \/ Record(a) \/ Lost(a)
    \/ \E a \in ProviderPages \cup IssuerPages, r \in Ids : Load(a, r)
    \/ \E p \in ProviderPages : Review(p) \/ IssueClaim(p)
    \/ \E d \in IssuerPages : Whitelist(d) \/ Activate(d)
    \/ \E to \in Recipients : RegisterFid(to) \/ RevokeClaim(to)

Spec == Init /\ [][Next]_vars

-----------------------------------------------------------------------------
(* Every variable has its type; in particular the sender's balance does not   *)
(* go below zero although two pages of the sender approve on one balance.     *)
TypeOK ==
    /\ \A r \in Ids : Exists(r) =>
         /\ rows[r].status \in VALID_STATUSES /\ rows[r].saw \subseteq Ids
         /\ {rows[r].kyc, rows[r].aml, rows[r].tx} \subseteq 0..MaxTxs
    /\ \A a \in Actors : call[a].pc \in {"idle", "transfer", "issue", "post", "insert",
                                         "patch", "update", "record"}
    /\ fids \subseteq Recipients
    /\ \A to \in Recipients : claims[to] \subseteq Topics
    /\ irs \in [Recipients -> {"absent", "inactive", "active"}]
    /\ Balance \in Nat
    /\ ledger \in [1..MaxTxs -> {"none", "KYC_CLAIM", "AML_CLAIM", "TOKEN_TRANSFER"}]
    /\ faults \in 0..MaxFaults
    /\ raced \subseteq Ids

(* A request that says TRANSFERRED names a confirmed transfer to its          *)
(* recipient, and no two requests name the same one, although create() folds  *)
(* a report into a request it found earlier.                                  *)
TransferredNamesItsTransfer ==
    \A r \in Ids : rows[r].status = "TRANSFERRED" =>
        /\ rows[r].tx \in Transfers
        /\ txs[rows[r].tx].to = rows[r].to
        /\ \A s \in Ids \ {r} : Exists(s) => rows[s].tx # rows[r].tx

(* kycClaimTxHash and amlClaimTxHash hold claims of their topic, unless two    *)
(* calls worked on the request at once or a claim was revoked meanwhile: the   *)
(* column follows the status read by the PATCH, the topic the one that the     *)
(* page loaded.                                                                *)
ClaimHashesFitTheirColumn ==
    \A r \in Ids \ raced : Exists(r) =>
        /\ rows[r].kyc # 0 => txs[rows[r].kyc].kind = "claim" /\ txs[rows[r].kyc].topic = 1
        /\ rows[r].aml # 0 => txs[rows[r].aml].kind = "claim" /\ txs[rows[r].aml].topic = 2

(* create() keeps one open request per recipient: two open ones were inserted  *)
(* by calls that overlapped, or an outdated PATCH reopened one.                *)
OpenTwinsOverlapped ==
    \A r, s \in Ids \ raced : r # s /\ Open(r) /\ Open(s) /\ rows[r].to = rows[s].to =>
        r \notin rows[s].saw /\ s \notin rows[r].saw

(* A transfer's hash leaves a request only for that of a later transfer, and   *)
(* only if the request was reopened or two reports were folded into it at once.*)
HashStays ==
    [][\A r \in Ids : Exists(r) /\ rows[r].tx # 0 /\ rows'[r].tx # rows[r].tx =>
           r \in raced /\ rows'[r].tx \in Transfers]_vars

(* The ledger's transfers implement the delivery log. *)
Log == INSTANCE DeliveryLog WITH
    Deliveries <- 1..MaxTxs, delivered <- Transfers,
    recorded <- {k \in 1..MaxTxs : ledger[k] = "TOKEN_TRANSFER"}
LogSpec == Log!Spec
=============================================================================
