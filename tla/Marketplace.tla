---------------------------- MODULE Marketplace ----------------------------
(***************************************************************************)
(* The secondary market of one token: a seller's listings, buyers' intents,  *)
(* the review that makes a buyer eligible, and the seller's acceptance, which *)
(* simulates, approves and sends the transfer on chain and then reports it.   *)
(* createBuyIntent only takes requests for all that remains of a listing, so  *)
(* a listing is sold whole; updateBuyIntentStatus reads intent and listing    *)
(* before the transaction that writes them, and compares no status.           *)
(***************************************************************************)
EXTENDS Integers, FiniteSets, Sequences, Functions

CONSTANTS
    Listings,       \* listings the seller may create, each of Lot base units
    Buyers,         \* buyer wallets
    Lot,            \* amountBaseUnits of a listing
    Amounts,        \* amounts a buyer's request may carry
    SellerBalance,  \* the seller's balance at the start
    Topics,         \* claim topics the token requires, out of 1 and 2
    MaxIntents,     \* bound on buy intents ever created
    MaxTransfers,   \* bound on transfers on chain
    MaxFaults       \* bound on lost calls, failed reads and lost eligibility

ASSUME MarketplaceAssumption ==
    /\ Lot \in Nat \ {0}
    /\ SellerBalance \in Nat
    /\ Amounts \subseteq Nat
    /\ Topics \subseteq {1, 2}
    /\ MaxIntents \in Nat /\ MaxTransfers \in Nat /\ MaxFaults \in Nat

VARIABLES
    listing,    \* listing -> TokenSellListing row, or NoListing
    intents,    \* id -> TokenBuyIntent row, or NoIntent
    buying,     \* buyer -> a createBuyIntent call in progress in the backend
    claims,     \* buyer -> topics with a valid claim on chain
    irs,        \* buyer -> wallet identity in the token's IRS
    view,       \* page -> the intent and status it loaded, or NoIntent: the pages
                \* of the provider, the issuer and the buyers
    selling,    \* intents on the seller's page
    acc,        \* intent -> acceptAndTransferBuyIntent in progress
    transfers,  \* confirmed transfers; the index is the transaction hash
    history,    \* hashes in TokenTransferHistory
    faults,     \* faults so far
    raced       \* history: listings with overlapping acceptances, or for which
                \* an answer was lost

vars == <<listing, intents, buying, claims, irs, view, selling, acc, transfers,
          history, faults, raced>>
onChain == <<claims, irs, transfers>>

Ids == 1..MaxIntents
NoListing == [status |-> "NONE"]
NoIntent == [status |-> "NONE"]
Idle == [pc |-> "idle"]
Pages == {"provider", "issuer", "buyer"}
OPEN_LISTING_STATUSES == {"LISTED", "PARTIALLY_FILLED"}
BUY_INTENT_CLOSED_STATUSES == {"TRANSFERRED", "REJECTED", "CANCELLED", "EXPIRED"}
BUY_INTENT_STATUSES == BUY_INTENT_CLOSED_STATUSES \cup
    {"ACTION_REQUIRED_BUYER_FID", "PENDING_KYC", "PENDING_AML",
     "PENDING_ISSUER_WHITELIST", "PENDING_ISSUER_ACTIVATION",
     "READY_FOR_SELLER_ACCEPTANCE", "READY_TO_TRANSFER",
     "TRANSFER_SIMULATION_FAILED", "INSUFFICIENT_TRANSFERABLE_BALANCE"}

Exists(i) == intents[i].status # "NONE"
ListingOf(i) == listing[intents[i].of]
Fault == faults < MaxFaults /\ faults' = faults + 1

-----------------------------------------------------------------------------
(* The chain, as far as this flow sees it. *)

Moved(txs) == SumFunction([k \in txs |-> transfers[k].amt])
Balance == SellerBalance - Moved(DOMAIN transfers)
TransfersOf(l) == {k \in DOMAIN transfers : intents[transfers[k].intent].of = l}

(* checkWalletEligibility, for a buyer who has a FID.  Claims are looked up   *)
(* through the wallet identity: without one every topic counts as missing.   *)
Missing(b) == IF irs[b] = "absent" THEN Topics ELSE Topics \ claims[b]
Eligible(b) == Missing(b) = {} /\ irs[b] = "active"
ChainTransfers(i) == Eligible(intents[i].buyer) /\ Balance >= intents[i].amt

(* getBuyIntentStatus / getMarketplaceBuyIntentStatus of a preflight. *)
BuyIntentStatus(b, amt) ==
    CASE 1 \in Missing(b) -> "PENDING_KYC"
      [] 1 \notin Missing(b) /\ 2 \in Missing(b) -> "PENDING_AML"
      [] Missing(b) = {} /\ irs[b] = "absent" -> "PENDING_ISSUER_WHITELIST"
      [] Missing(b) = {} /\ irs[b] = "inactive" -> "PENDING_ISSUER_ACTIVATION"
      [] Eligible(b) /\ Balance >= amt -> "READY_FOR_SELLER_ACCEPTANCE"
      [] OTHER -> "INSUFFICIENT_TRANSFERABLE_BALANCE"

-----------------------------------------------------------------------------
Init ==
    /\ listing = [l \in Listings |-> NoListing]
    /\ intents = [i \in Ids |-> NoIntent]
    /\ buying = [b \in Buyers |-> Idle]
    /\ claims \in [Buyers -> SUBSET Topics]             \* issued for other tokens
    /\ irs \in [Buyers -> {"absent", "inactive", "active"}]   \* from earlier purchases
    /\ view = [p \in Pages |-> NoIntent]
    /\ selling = {}
    /\ acc = [i \in Ids |-> Idle]
    /\ transfers = <<>>
    /\ history = {}
    /\ faults = 0
    /\ raced = {}

-----------------------------------------------------------------------------
(* The seller's listings. *)

(* createListing: checkSellerListingCapacity does not know other listings.   *)
CreateListing(l) ==
    /\ listing[l] = NoListing
    /\ Balance >= Lot
    /\ listing' = [listing EXCEPT ![l] = [status |-> "LISTED", remaining |-> Lot]]
    /\ UNCHANGED <<intents, buying, onChain, view, selling, acc, history, faults, raced>>

(* cancelListing from a page that showed the listing open; the backend sets   *)
(* the status whatever it is.                                                 *)
CancelListing(l) ==
    /\ listing[l] # NoListing
    /\ listing[l].status # "CANCELLED"
    /\ listing' = [listing EXCEPT ![l].status = "CANCELLED"]
    /\ UNCHANGED <<intents, buying, onChain, view, selling, acc, history, faults, raced>>

-----------------------------------------------------------------------------
(* The buyer. *)

HasOpenIntent(b, l) ==
    \E i \in Ids : Exists(i) /\ intents[i].of = l /\ intents[i].buyer = b
                   /\ intents[i].status \notin BUY_INTENT_CLOSED_STATUSES

AmountFitsUpTo(amt, remaining) == amt > 0 /\ amt <= remaining   \* mutant
AmountFits(amt, remaining) == amt > 0 /\ amt = remaining

(* createBuyIntent: preflight in the page, then the backend's checks ... *)
CreateBuyIntent(b, l, amt) ==
    /\ buying[b] = Idle
    /\ listing[l].status \in OPEN_LISTING_STATUSES
    /\ AmountFits(amt, listing[l].remaining)
    /\ ~HasOpenIntent(b, l)
    /\ BuyIntentStatus(b, amt) # "INSUFFICIENT_TRANSFERABLE_BALANCE"
    /\ buying' = [buying EXCEPT ![b] = [pc |-> "insert", of |-> l, amt |-> amt,
                                        status |-> BuyIntentStatus(b, amt)]]
    /\ UNCHANGED <<listing, intents, onChain, view, selling, acc, history, faults, raced>>

(* ... and its INSERT. *)
InsertBuyIntent(b) ==
    /\ buying[b].pc = "insert"
    /\ \E i \in Ids :
         /\ ~Exists(i)
         /\ \A j \in 1..(i - 1) : Exists(j)
         /\ intents' = [intents EXCEPT ![i] =
                          [of |-> buying[b].of, buyer |-> b, amt |-> buying[b].amt,
                           status |-> buying[b].status, tx |-> 0]]
    /\ buying' = [buying EXCEPT ![b] = Idle]
    /\ UNCHANGED <<listing, onChain, view, selling, acc, history, faults, raced>>

(* resumeBuyIntentAfterIdentity *)
ResumeBuyIntent(i) ==
    /\ intents[i].status = "ACTION_REQUIRED_BUYER_FID"
    /\ intents' = [intents EXCEPT ![i].status =
                     CASE 1 \in Topics -> "PENDING_KYC"
                       [] 1 \notin Topics /\ 2 \in Topics -> "PENDING_AML"
                       [] OTHER -> "PENDING_ISSUER_WHITELIST"]
    /\ UNCHANGED <<listing, buying, onChain, view, selling, acc, history, faults, raced>>

-----------------------------------------------------------------------------
(* Pages that load an intent and later PATCH it: the claim provider's, the   *)
(* issuer's transfer queue, and the buyer's own.                             *)

Shows(p) ==
    CASE p = "provider" -> {"PENDING_KYC", "PENDING_AML"}
      [] p = "issuer" -> {"PENDING_ISSUER_WHITELIST", "PENDING_ISSUER_ACTIVATION"}
      [] p = "buyer" -> {"ACTION_REQUIRED_BUYER_FID", "PENDING_KYC", "PENDING_AML",
                         "PENDING_ISSUER_WHITELIST", "PENDING_ISSUER_ACTIVATION",
                         "TRANSFER_SIMULATION_FAILED"}

Load(p, i) ==
    /\ intents[i].status \in Shows(p)
    /\ view' = [view EXCEPT ![p] = [intent |-> i, status |-> intents[i].status]]
    /\ view' # view
    /\ UNCHANGED <<listing, intents, buying, onChain, selling, acc, history, faults, raced>>

(* updateBuyIntentStatus with a status that moves no tokens, and the page     *)
(* dropping or reloading the intent; or the call is lost and neither happens. *)
Patch(p, i, status) ==
    \/ /\ intents' = [intents EXCEPT ![i].status = status]
       /\ view' = [view EXCEPT ![p] = NoIntent]
       /\ UNCHANGED faults
    \/ Fault /\ UNCHANGED <<intents, view>>

(* recheckBuyerIntentEligibility: a FID that cannot be read counts as none.  *)
Recheck ==
    /\ view["buyer"] # NoIntent
    /\ LET i == view["buyer"].intent
       IN \/ Patch("buyer", i, BuyIntentStatus(intents[i].buyer, intents[i].amt))
          \/ /\ Fault
             /\ irs[intents[i].buyer] = "absent"
             /\ intents' = [intents EXCEPT ![i].status = "ACTION_REQUIRED_BUYER_FID"]
             /\ view' = [view EXCEPT !["buyer"] = NoIntent]
    /\ UNCHANGED <<listing, buying, onChain, selling, acc, history, raced>>

(* approveTransferRequest: issue the claim when it is missing, then forward.  *)
(* A FID that cannot be read sends ACTION_REQUIRED_RECIPIENT_FID, which is no  *)
(* status of a buy intent: the backend refuses it and nothing changes.         *)
ProviderApprove ==
    /\ view["provider"] # NoIntent
    /\ LET v == view["provider"]
           b == intents[v.intent].buyer
           topic == IF v.status = "PENDING_AML" THEN 2 ELSE 1
           nextStatus == IF topic = 1 /\ 2 \in Topics THEN "PENDING_AML"
                         ELSE "PENDING_ISSUER_WHITELIST"
       IN /\ claims' = [claims EXCEPT ![b] = @ \cup {topic}]
          /\ Patch("provider", v.intent, nextStatus)
    /\ UNCHANGED <<listing, buying, irs, selling, acc, transfers, history, raced>>

(* handleWhitelistTransferRecipient; an identity that exists is kept. *)
IssuerWhitelist ==
    /\ view["issuer"].status = "PENDING_ISSUER_WHITELIST"
    /\ LET i == view["issuer"].intent
           b == intents[i].buyer
       IN /\ irs' = [irs EXCEPT ![b] = IF @ = "absent" THEN "inactive" ELSE @]
          /\ \/ /\ intents' = [intents EXCEPT ![i].status = "PENDING_ISSUER_ACTIVATION"]
                /\ view' = [view EXCEPT !["issuer"].status = "PENDING_ISSUER_ACTIVATION"]
                /\ UNCHANGED faults
             \/ Fault /\ UNCHANGED <<intents, view>>
    /\ UNCHANGED <<listing, buying, claims, selling, acc, transfers, history, raced>>

(* handleActivateTransferRecipient *)
IssuerActivate ==
    /\ view["issuer"].status = "PENDING_ISSUER_ACTIVATION"
    /\ LET i == view["issuer"].intent
           b == intents[i].buyer
       IN /\ irs[b] # "absent"
          /\ irs' = [irs EXCEPT ![b] = "active"]
          /\ Patch("issuer", i, "READY_FOR_SELLER_ACCEPTANCE")
    /\ UNCHANGED <<listing, buying, claims, selling, acc, transfers, history, raced>>

(* A claim is revoked on chain while an intent is under way. *)
LoseEligibility(b) ==
    /\ Fault
    /\ claims[b] # {}
    /\ claims' = [claims EXCEPT ![b] = {}]
    /\ UNCHANGED <<listing, intents, buying, irs, view, selling, acc, transfers, history, raced>>

-----------------------------------------------------------------------------
(* The seller's page and acceptAndTransferBuyIntent. *)

SellerLoad(i) ==
    /\ intents[i].status \in {"READY_FOR_SELLER_ACCEPTANCE", "READY_TO_TRANSFER"}
    /\ i \notin selling
    /\ selling' = selling \cup {i}
    /\ UNCHANGED <<listing, intents, buying, onChain, view, acc, history, faults, raced>>

Accepting(l) == {i \in Ids : Exists(i) /\ intents[i].of = l /\ acc[i] # Idle}

(* What updateBuyIntentStatus asks of READY_TO_TRANSFER. *)
SellerMayAcceptAnything(i) == TRUE       \* mutant: the listing is not looked at
SellerMayAccept(i) ==
    /\ ListingOf(i).status \in OPEN_LISTING_STATUSES
    /\ intents[i].amt <= ListingOf(i).remaining

(* The button is disabled for the intent it last started; the simulation is   *)
(* partial when the transaction is too large, and then succeeds regardless.   *)
Accept(i) ==
    /\ i \in selling
    /\ acc[i] = Idle
    /\ \/ /\ SellerMayAccept(i)
          /\ intents' = [intents EXCEPT ![i].status = "READY_TO_TRANSFER"]
          /\ acc' = [acc EXCEPT ![i] = [pc |-> "approve"]]
          /\ raced' = IF Accepting(intents[i].of) = {} THEN raced
                      ELSE raced \cup {intents[i].of}
       \/ /\ ~ChainTransfers(i)
          /\ intents' = [intents EXCEPT ![i].status = "TRANSFER_SIMULATION_FAILED"]
          /\ UNCHANGED <<acc, raced>>
    /\ UNCHANGED <<listing, buying, onChain, view, selling, history, faults>>

(* executeTransfer: the approve transaction, which checks the rules and pins  *)
(* the two balances ...                                                       *)
ApproveTransfer(i) ==
    /\ acc[i].pc = "approve"
    /\ acc' = [acc EXCEPT ![i] = IF ChainTransfers(i)
                                 THEN [pc |-> "transfer", pinned |-> Balance]
                                 ELSE Idle]
    /\ UNCHANGED <<listing, intents, buying, onChain, view, selling, history, faults, raced>>

(* ... and transferChecked, whose hook looks at the balances and at no rule.  *)
(* A lost confirmation is reported to the caller as a failure.                *)
ReportBeforeConfirm(i) ==                \* mutant: the hash is reported unconfirmed
    /\ acc[i].pc = "transfer"
    /\ acc' = [acc EXCEPT ![i] = [pc |-> "report", tx |-> Len(transfers) + 1]]
    /\ UNCHANGED <<listing, intents, buying, onChain, view, selling, history, faults, raced>>

TransferTokens(i) ==
    /\ acc[i].pc = "transfer"
    /\ \/ /\ acc[i].pinned = Balance
          /\ Len(transfers) < MaxTransfers
          /\ transfers' = Append(transfers, [intent |-> i, amt |-> intents[i].amt])
          /\ \/ /\ acc' = [acc EXCEPT ![i] = [pc |-> "report", tx |-> Len(transfers) + 1]]
                /\ UNCHANGED <<faults, raced>>
             \/ /\ Fault
                /\ acc' = [acc EXCEPT ![i] = Idle]
                /\ raced' = raced \cup {intents[i].of}
       \/ /\ acc[i].pinned # Balance
          /\ acc' = [acc EXCEPT ![i] = Idle]
          /\ UNCHANGED <<transfers, faults, raced>>
    /\ UNCHANGED <<listing, intents, buying, claims, irs, view, selling, history>>

RoomUnchecked(i) == TRUE                 \* mutant
RoomFor(i) == intents[i].amt <= ListingOf(i).remaining

(* PATCH TRANSFERRED: the backend reads the listing; a transfer the listing  *)
(* has no room for any more is refused, although it has happened.            *)
ReportRead(i) ==
    /\ acc[i].pc = "report"
    /\ \/ /\ RoomFor(i)
          /\ acc' = [acc EXCEPT ![i] = [pc |-> "commit", tx |-> acc[i].tx,
                                        remaining |-> ListingOf(i).remaining]]
          /\ UNCHANGED <<faults, raced>>
       \/ /\ ~RoomFor(i)
          /\ acc' = [acc EXCEPT ![i] = Idle]
          /\ UNCHANGED <<faults, raced>>
       \/ /\ Fault
          /\ acc' = [acc EXCEPT ![i] = Idle]
          /\ raced' = raced \cup {intents[i].of}
    /\ UNCHANGED <<listing, intents, buying, onChain, view, selling, history>>

(* The transaction: intent, listing and history together, from what was read.*)
ReportCommit(i) ==
    /\ acc[i].pc = "commit"
    /\ LET newRemaining == acc[i].remaining - intents[i].amt
       IN listing' = [listing EXCEPT ![intents[i].of] =
                        [status |-> IF newRemaining = 0 THEN "FILLED" ELSE "PARTIALLY_FILLED",
                         remaining |-> newRemaining]]
    /\ intents' = [intents EXCEPT ![i].status = "TRANSFERRED", ![i].tx = acc[i].tx]
    /\ history' = history \cup {acc[i].tx}
    /\ acc' = [acc EXCEPT ![i] = Idle]
    /\ \/ selling' = selling \ {i} /\ UNCHANGED <<faults, raced>>
       \/ /\ Fault                       \* the answer is lost: the page keeps the row
          /\ raced' = raced \cup {intents[i].of}
          /\ UNCHANGED selling
    /\ UNCHANGED <<buying, onChain, view>>

-----------------------------------------------------------------------------
Next ==
    \/ \E l \in Listings :
         \/ CreateListing(l) \/ CancelListing(l)
         \/ \E b \in Buyers, amt \in Amounts : CreateBuyIntent(b, l, amt)
    \/ \E b \in Buyers : InsertBuyIntent(b) \/ LoseEligibility(b)
    \/ \E i \in Ids :
         \/ \E p \in Pages : Load(p, i)
         \/ ResumeBuyIntent(i) \/ SellerLoad(i) \/ Accept(i) \/ ApproveTransfer(i)
         \/ TransferTokens(i) \/ ReportRead(i) \/ ReportCommit(i)
    \/ Recheck \/ ProviderApprove \/ IssuerWhitelist \/ IssuerActivate

Spec == Init /\ [][Next]_vars

-----------------------------------------------------------------------------
(* Every variable has its type; in particular amountRemaining never goes     *)
(* below zero (parseAmount would refuse every later request).                *)
TypeOK ==
    /\ \A l \in Listings : listing[l] # NoListing =>
         /\ listing[l].status \in OPEN_LISTING_STATUSES \cup {"FILLED", "CANCELLED"}
         /\ listing[l].remaining \in 0..Lot
    /\ \A i \in Ids : Exists(i) =>
         /\ intents[i].status \in BUY_INTENT_STATUSES
         /\ intents[i].tx \in 0..MaxTransfers
    /\ \A b \in Buyers : claims[b] \subseteq Topics
    /\ irs \in [Buyers -> {"absent", "inactive", "active"}]
    /\ \A i \in Ids : acc[i].pc \in {"idle", "approve", "transfer", "report", "commit"}
    /\ selling \subseteq Ids
    /\ Balance \in Nat
    /\ history \subseteq 1..MaxTransfers
    /\ faults \in 0..MaxFaults

(* What is left of a listing accounts for the transfers recorded for it,      *)
(* although updateBuyIntentStatus writes a remainder it read earlier.         *)
RemainderAccountsForHistory ==
    \A l \in Listings : listing[l] # NoListing =>
        LET sold == Moved(TransfersOf(l) \cap history)
        IN listing[l].remaining = IF sold >= Lot THEN 0 ELSE Lot - sold

(* A listing is delivered once, unless two acceptances of it overlapped or    *)
(* an answer was lost: the chain does not know listings.                      *)
OneDeliveryPerUndisturbedListing ==
    \A l \in Listings \ raced : Cardinality(TransfersOf(l)) <= 1

(* An intent that says TRANSFERRED names a confirmed transfer of that intent. *)
TransferredWasDelivered ==
    \A i \in Ids : intents[i].status = "TRANSFERRED" =>
        /\ intents[i].tx \in DOMAIN transfers
        /\ transfers[intents[i].tx].intent = i

(* TokenTransferHistory implements the delivery log. *)
Log == INSTANCE DeliveryLog WITH Deliveries <- 1..MaxTransfers,
                                 delivered <- DOMAIN transfers, recorded <- history
LogSpec == Log!Spec
=============================================================================
