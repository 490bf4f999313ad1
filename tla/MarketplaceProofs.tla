-------------------------- MODULE MarketplaceProofs --------------------------
(***************************************************************************)
(* Proofs about Marketplace: what remains of a listing accounts for the      *)
(* transfers on record, a listing is delivered once while nothing overlaps,  *)
(* an intent marked TRANSFERRED was, the seller is never overdrawn, and the  *)
(* transfer history implements the delivery log.                             *)
(*                                                                           *)
(* The inductive invariant rests on listings being sold whole: remaining is  *)
(* Lot or 0 and every amount is Lot (Types).  It adds what an acceptance     *)
(* remembers (AcceptInv), what a recorded hash stands for (Recorded), that   *)
(* what remains is 0 just when a transfer is on record (Remainder), and,     *)
(* for a listing that was not raced, that a transfer precludes further ones: *)
(* its acceptance is reporting, or the listing is used up (OneAcceptance).   *)
(***************************************************************************)
EXTENDS Marketplace, SumTheorems, FiniteSetTheorems, TLAPS

Statuses == {s \in BUY_INTENT_STATUSES : /\ s = "PENDING_KYC" => 1 \in Topics
                                         /\ s = "PENDING_AML" => 2 \in Topics}
ListingType == [status : OPEN_LISTING_STATUSES \cup {"FILLED", "CANCELLED"}, remaining : {0, Lot}]
IntentType == [of : Listings, buyer : Buyers, amt : {Lot}, status : Statuses, tx : 0..MaxTransfers]
BuyingType == [pc : {"insert"}, of : Listings, amt : {Lot}, status : Statuses \ {"TRANSFERRED"}]
ViewType == [intent : Ids, status : Statuses]
TransferType == [intent : Ids, amt : {Lot}]
AccType == [pc : {"approve"}] \cup [pc : {"transfer"}, pinned : Nat]
             \cup [pc : {"report"}, tx : 1..MaxTransfers]
             \cup [pc : {"commit"}, tx : 1..MaxTransfers, remaining : {Lot}]

Types ==
    /\ listing \in [Listings -> ListingType \cup {NoListing}]
    /\ intents \in [Ids -> IntentType \cup {NoIntent}]
    /\ buying \in [Buyers -> BuyingType \cup {Idle}]
    /\ claims \in [Buyers -> SUBSET Topics]
    /\ irs \in [Buyers -> {"absent", "inactive", "active"}]
    /\ view \in [Pages -> ViewType \cup {NoIntent}]
    /\ selling \subseteq Ids
    /\ acc \in [Ids -> AccType \cup {Idle}]
    /\ transfers \in Seq(TransferType) /\ Len(transfers) <= MaxTransfers
    /\ history \subseteq DOMAIN transfers
    /\ faults \in 0..MaxFaults
    /\ Balance \in Nat

(* References lead somewhere. *)
Rows ==
    /\ \A i \in Ids : Exists(i) => ListingOf(i) # NoListing
    /\ \A b \in Buyers : buying[b] # Idle => listing[buying[b].of] # NoListing
    /\ \A p \in Pages : view[p] # NoIntent => Exists(view[p].intent)
    /\ view["provider"] # NoIntent => view["provider"].status \in {"PENDING_KYC", "PENDING_AML"}
    /\ \A i \in selling : Exists(i)
    /\ \A k \in DOMAIN transfers : Exists(transfers[k].intent)

AcceptInv ==
    \A i \in Ids :
      /\ acc[i] # Idle => Exists(i)
      /\ acc[i].pc = "transfer" => acc[i].pinned >= Lot
      /\ acc[i].pc \in {"report", "commit"} => /\ acc[i].tx \in DOMAIN transfers
                                               /\ transfers[acc[i].tx].intent = i

Recorded ==
    \A i \in Ids : Exists(i) =>
      /\ intents[i].tx # 0 => /\ intents[i].tx \in DOMAIN transfers
                              /\ transfers[intents[i].tx].intent = i
      /\ intents[i].status = "TRANSFERRED" => intents[i].tx # 0

Remainder ==
    \A l \in Listings : listing[l] # NoListing =>
        (listing[l].remaining = 0 <=> TransfersOf(l) \cap history # {})

OneAcceptance ==
    \A l \in Listings \ raced :
      /\ \A i, j \in Accepting(l) : i = j
      /\ \A j, k \in TransfersOf(l) : j = k
      /\ \A i \in Accepting(l) : acc[i].pc \in {"approve", "transfer"} => TransfersOf(l) = {}
      /\ Accepting(l) = {} /\ listing[l] # NoListing /\ listing[l].remaining # 0 =>
           TransfersOf(l) = {}

IInv == Types /\ Rows /\ AcceptInv /\ Recorded /\ Remainder /\ OneAcceptance

-----------------------------------------------------------------------------
LEMMA RowsAreSomething ==
    /\ \A r \in IntentType : r # NoIntent /\ r.status # "NONE"
    /\ NoIntent.status = "NONE"
    /\ \A v \in ViewType : v # NoIntent
    /\ \A c \in AccType : c # Idle /\ c.pc # "idle"
    /\ Idle.pc = "idle"
    /\ \A c \in BuyingType : c # Idle
    /\ \A r \in ListingType : r # NoListing
    /\ NoListing.status = "NONE"
BY DEF IntentType, NoIntent, Statuses, BUY_INTENT_STATUSES, BUY_INTENT_CLOSED_STATUSES, ViewType,
       AccType, Idle, BuyingType, ListingType, NoListing, OPEN_LISTING_STATUSES

LEMMA IntentTyped ==
    ASSUME Types, NEW i \in Ids
    PROVE  /\ Exists(i) => intents[i] \in IntentType
           /\ ~Exists(i) => intents[i] = NoIntent
           /\ intents[i].status \in Statuses => Exists(i)
BY RowsAreSomething DEF Types, Exists, Statuses, BUY_INTENT_STATUSES, BUY_INTENT_CLOSED_STATUSES

LEMMA StatusTyped ==
    ASSUME Types, NEW b \in Buyers, NEW amt
    PROVE  BuyIntentStatus(b, amt) \in Statuses /\ BuyIntentStatus(b, amt) # "TRANSFERRED"
<1>1. Missing(b) \subseteq Topics
  BY DEF Missing
<1>2. BuyIntentStatus(b, amt) \in {"PENDING_KYC", "PENDING_AML", "PENDING_ISSUER_WHITELIST",
         "PENDING_ISSUER_ACTIVATION", "READY_FOR_SELLER_ACCEPTANCE",
         "INSUFFICIENT_TRANSFERABLE_BALANCE"}
  BY DEF BuyIntentStatus
<1>3. BuyIntentStatus(b, amt) = "PENDING_KYC" => 1 \in Topics
  BY <1>1 DEF BuyIntentStatus
<1>4. BuyIntentStatus(b, amt) = "PENDING_AML" => 2 \in Topics
  BY <1>1 DEF BuyIntentStatus
<1> QED BY <1>2, <1>3, <1>4 DEF Statuses, BUY_INTENT_STATUSES, BUY_INTENT_CLOSED_STATUSES

(* The sums. *)
LEMMA HashesFinite ==
    ASSUME Types, NEW S \in SUBSET DOMAIN transfers
    PROVE  /\ IsFiniteSet(S)
           /\ \A k \in S : transfers[k].intent \in Ids /\ transfers[k].amt = Lot
<1>1. DOMAIN transfers = 1..Len(transfers) /\ Len(transfers) \in Nat
  BY DEF Types
<1>2. IsFiniteSet(DOMAIN transfers)
  BY <1>1, FS_Interval
<1>3. IsFiniteSet(S)
  BY <1>2, FS_Subset
<1>4. transfers \in Seq(TransferType)
  BY DEF Types
<1>5. \A k \in DOMAIN transfers : transfers[k] \in TransferType
  BY <1>1, <1>4
<1> QED BY <1>3, <1>5 DEF TransferType

LEMMA SumOfAny ==
    ASSUME Types, NEW S \in SUBSET DOMAIN transfers
    PROVE  /\ Moved(S) \in Nat
           /\ S = {} => Moved(S) = 0
           /\ S # {} => Moved(S) >= Lot
<1>1. PICK f : f = [k \in S |-> transfers[k].amt]
  OBVIOUS
<1>2. IsFiniteSet(S) /\ \A k \in S : f[k] = Lot /\ f[k] \in Nat /\ f[k] \in Int
  BY <1>1, HashesFinite, MarketplaceAssumption
<1>3. Moved(S) = SumFunctionOnSet(f, S)
  BY <1>1 DEF Moved, SumFunction
<1>4. SumFunctionOnSet(f, S) \in Nat
  BY <1>2, SumNat
<1>5. CASE S = {}
  BY <1>3, <1>4, <1>5, SumEmpty
<1>6. ASSUME NEW k \in S
      PROVE  SumFunctionOnSet(f, S) >= Lot
  <2>1. SumFunctionOnSet(f, S) = f[k] + SumFunctionOnSet(f, S \ {k})
    BY <1>2, SumRemove
  <2>2. IsFiniteSet(S \ {k}) /\ \A x \in S \ {k} : f[x] \in Nat
    BY <1>2, FS_Subset
  <2>3. SumFunctionOnSet(f, S \ {k}) \in Nat
    BY <2>2, SumNat
  <2> QED BY <1>2, <2>1, <2>3, MarketplaceAssumption
<1> QED BY <1>3, <1>4, <1>5, <1>6

LEMMA BalanceAfter ==
    ASSUME Types, NEW t \in TransferType, transfers' = Append(transfers, t)
    PROVE  Balance' = Balance - Lot
<1> DEFINE n == Len(transfers) + 1
           D == DOMAIN transfers
<1>1. /\ D = 1..Len(transfers) /\ Len(transfers) \in Nat /\ DOMAIN transfers' = D \cup {n}
      /\ transfers'[n] = t /\ \A k \in D : transfers'[k] = transfers[k]
  BY DEF Types
<1>2. n \notin D
  BY <1>1
<1>3. PICK f : f = [k \in D |-> transfers[k].amt]
  OBVIOUS
<1>4. PICK g : g = [k \in DOMAIN transfers' |-> transfers'[k].amt]
  OBVIOUS
<1>5. IsFiniteSet(D) /\ \A k \in D : transfers[k].amt = Lot
  BY HashesFinite
<1>6. \A k \in D : f[k] = Lot /\ f[k] \in Int
  BY <1>3, <1>5, MarketplaceAssumption
<1>7. \A k \in D \cup {n} : g[k] = Lot /\ g[k] \in Int
  BY <1>1, <1>4, <1>5, MarketplaceAssumption DEF TransferType
<1>8. Balance = SellerBalance - SumFunctionOnSet(f, D)
  BY <1>3 DEF Balance, Moved, SumFunction
<1>9. Balance' = SellerBalance - SumFunctionOnSet(g, D \cup {n})
  BY <1>1, <1>4 DEF Balance, Moved, SumFunction
<1> HIDE DEF n, D
<1>10. SumFunctionOnSet(g, D \cup {n}) = g[n] + SumFunctionOnSet(g, D)
  BY <1>2, <1>5, <1>7, SumAdd
<1>11. SumFunctionOnSet(g, D) = SumFunctionOnSet(f, D)
  BY <1>5, <1>6, <1>7, SumSame
<1>12. SumFunctionOnSet(f, D) \in Int
  BY <1>5, <1>6, SumType
<1> QED BY <1>7, <1>8, <1>9, <1>10, <1>11, <1>12, MarketplaceAssumption

-----------------------------------------------------------------------------
(* Steps that touch neither acceptances nor the chain. *)
IntentsKeep ==
    \A i \in Ids :
      /\ Exists(i) => /\ Exists(i)' /\ intents'[i].of = intents[i].of /\ intents'[i].tx = intents[i].tx
                      /\ intents'[i].status = "TRANSFERRED" => intents[i].status = "TRANSFERRED"
      /\ ~Exists(i) /\ Exists(i)' => intents'[i].tx = 0 /\ intents'[i].status # "TRANSFERRED"

ListingsKeep ==
    \A l \in Listings : listing[l] # NoListing =>
        listing'[l] # NoListing /\ listing'[l].remaining = listing[l].remaining

LEMMA SameTransfers ==
    ASSUME Types, Rows, IntentsKeep, transfers' = transfers, NEW l
    PROVE  TransfersOf(l)' = TransfersOf(l)
<1>1. \A k \in DOMAIN transfers : transfers[k].intent \in Ids /\ Exists(transfers[k].intent)
  BY HashesFinite DEF Rows
<1>2. \A k \in DOMAIN transfers :
        intents'[transfers[k].intent].of = intents[transfers[k].intent].of
  BY <1>1 DEF IntentsKeep
<1> QED BY <1>2 DEF TransfersOf

LEMMA SameAccepting ==
    ASSUME Types, AcceptInv, IntentsKeep, acc' = acc, NEW l
    PROVE  Accepting(l)' = Accepting(l)
BY DEF AcceptInv, IntentsKeep, Accepting

LEMMA Quiet ==
    ASSUME IInv, IntentsKeep, ListingsKeep,
           \A l \in Listings : listing'[l] # NoListing => listing[l] # NoListing,
           UNCHANGED <<acc, transfers, history, raced>>, Types', Rows'
    PROVE  IInv'
<1>1. Types /\ Rows /\ AcceptInv /\ Recorded /\ Remainder /\ OneAcceptance
  BY DEF IInv
<1>2. \A l : TransfersOf(l)' = TransfersOf(l) /\ Accepting(l)' = Accepting(l)
  BY <1>1, SameTransfers, SameAccepting
<1>3. AcceptInv'
  BY <1>1 DEF AcceptInv, IntentsKeep
<1>4. Recorded'
  BY <1>1 DEF Recorded, IntentsKeep
<1>5. Remainder'
  BY <1>1, <1>2 DEF Remainder, ListingsKeep
<1>6. OneAcceptance'
  BY <1>1, <1>2 DEF OneAcceptance, ListingsKeep
<1> QED BY <1>3, <1>4, <1>5, <1>6 DEF IInv

LEMMA SameBalance ==
    ASSUME transfers' = transfers
    PROVE  Balance' = Balance
BY DEF Balance, Moved

LEMMA KeepAll ==
    /\ intents' = intents => IntentsKeep
    /\ listing' = listing => ListingsKeep
BY DEF IntentsKeep, ListingsKeep, Exists

LEMMA CreateListingStep ==
    ASSUME IInv, NEW l \in Listings, CreateListing(l)
    PROVE  IInv'
<1>1. /\ Types /\ Rows /\ AcceptInv /\ Recorded /\ Remainder /\ OneAcceptance
      /\ UNCHANGED <<intents, buying, onChain, view, selling, acc, history, faults, raced>>
      /\ listing[l] = NoListing
      /\ listing' = [listing EXCEPT ![l] = [status |-> "LISTED", remaining |-> Lot]]
  BY DEF IInv, CreateListing
<1>2. PICK r \in ListingType : r = [status |-> "LISTED", remaining |-> Lot]
  BY DEF ListingType, OPEN_LISTING_STATUSES
<1>3. r # NoListing /\ r.remaining # 0
  BY <1>2, RowsAreSomething, MarketplaceAssumption
<1>4. /\ listing' \in [Listings -> ListingType \cup {NoListing}]
      /\ listing'[l] = r /\ \A k \in Listings \ {l} : listing'[k] = listing[k]
  BY <1>1, <1>2 DEF Types
<1>5. Types'
  BY <1>1, <1>4, SameBalance DEF Types, onChain
<1>6. IntentsKeep /\ transfers' = transfers /\ ListingsKeep
  BY <1>1, <1>4, KeepAll DEF onChain, ListingsKeep
<1>7. \A k : TransfersOf(k)' = TransfersOf(k) /\ Accepting(k)' = Accepting(k)
  BY <1>1, <1>6, SameTransfers, SameAccepting
<1>8. Rows'
  <2>1. \A i \in Ids : Exists(i) => intents[i].of \in Listings
    BY <1>1, IntentTyped DEF IntentType
  <2>2. \A b \in Buyers : buying[b] # Idle => buying[b].of \in Listings
    BY <1>1 DEF Types, BuyingType
  <2> QED BY <1>1, <1>6, <2>1, <2>2 DEF Rows, Exists, ListingOf, ListingsKeep
<1>9. AcceptInv'
  BY <1>1, <1>6 DEF AcceptInv, Exists
<1>10. Recorded'
  BY <1>1, <1>6 DEF Recorded, Exists
<1>11. TransfersOf(l) = {}
  BY <1>1, HashesFinite DEF TransfersOf, Rows, ListingOf
<1>12. Remainder'
  BY <1>1, <1>3, <1>4, <1>7, <1>11 DEF Remainder
<1>13. OneAcceptance'
  BY <1>1, <1>4, <1>7, <1>11 DEF OneAcceptance
<1> QED BY <1>5, <1>8, <1>9, <1>10, <1>12, <1>13 DEF IInv

LEMMA CancelListingStep ==
    ASSUME IInv, NEW l \in Listings, CancelListing(l)
    PROVE  IInv'
<1>1. /\ Types /\ Rows
      /\ UNCHANGED <<intents, buying, onChain, view, selling, acc, history, faults, raced>>
      /\ listing[l] # NoListing
      /\ listing' = [listing EXCEPT ![l].status = "CANCELLED"]
  BY DEF IInv, CancelListing
<1>2. listing[l] \in ListingType
  BY <1>1 DEF Types
<1>3. PICK r \in ListingType : r = [listing[l] EXCEPT !.status = "CANCELLED"]
  BY <1>2 DEF ListingType
<1>4. r # NoListing /\ r.remaining = listing[l].remaining
  BY <1>2, <1>3, RowsAreSomething DEF ListingType
<1>5. /\ listing' \in [Listings -> ListingType \cup {NoListing}]
      /\ listing'[l] = r /\ \A k \in Listings \ {l} : listing'[k] = listing[k]
  BY <1>1, <1>3 DEF Types
<1>6. IntentsKeep /\ transfers' = transfers /\ ListingsKeep
  BY <1>1, <1>4, <1>5, KeepAll DEF onChain, ListingsKeep
<1>7. Types'
  BY <1>1, <1>5, SameBalance DEF Types, onChain
<1>8. Rows'
  <2>1. \A i \in Ids : Exists(i) => intents[i].of \in Listings
    BY <1>1, IntentTyped DEF IntentType
  <2>2. \A b \in Buyers : buying[b] # Idle => buying[b].of \in Listings
    BY <1>1 DEF Types, BuyingType
  <2> QED BY <1>1, <1>6, <2>1, <2>2 DEF Rows, Exists, ListingOf, ListingsKeep
<1>9. \A k \in Listings : listing'[k] # NoListing => listing[k] # NoListing
  BY <1>1, <1>5
<1> QED BY <1>1, <1>6, <1>7, <1>8, <1>9, Quiet

-----------------------------------------------------------------------------
(* The buyer and the pages. *)

(* Nothing but intents, buying, claims, irs, view, selling and faults.  A     *)
(* step that Keeps those that are not its own keeps the invariant.            *)
LEMMA PageStep ==
    ASSUME IInv, IntentsKeep, UNCHANGED <<listing, acc, transfers, history, raced>>,
           intents' \in [Ids -> IntentType \cup {NoIntent}],
           buying' \in [Buyers -> BuyingType \cup {Idle}],
           claims' \in [Buyers -> SUBSET Topics],
           irs' \in [Buyers -> {"absent", "inactive", "active"}],
           view' \in [Pages -> ViewType \cup {NoIntent}],
           selling' \subseteq Ids,
           faults' \in 0..MaxFaults,
           \A i \in Ids : ~Exists(i) /\ Exists(i)' => listing[intents'[i].of] # NoListing,
           \A b \in Buyers : buying'[b] # Idle => listing[buying'[b].of] # NoListing,
           \A p \in Pages : view'[p] # NoIntent => Exists(view'[p].intent),
           view'["provider"] # NoIntent => view'["provider"].status \in {"PENDING_KYC", "PENDING_AML"},
           \A i \in selling' : Exists(i)
    PROVE  IInv'
<1>1. Types /\ Rows
  BY DEF IInv
<1>2. Types'
  BY <1>1, SameBalance DEF Types
<1>3. \A i \in Ids : Exists(i)' => listing[intents'[i].of] # NoListing
  BY <1>1 DEF IntentsKeep, Rows, ListingOf
<1>4. \A i \in Ids : Exists(i) => Exists(i)'
  BY DEF IntentsKeep
<1>5. \A p \in Pages : view'[p] # NoIntent => view'[p].intent \in Ids
  BY DEF ViewType
<1>6. \A k \in DOMAIN transfers : transfers[k].intent \in Ids
  BY <1>1, HashesFinite
<1>7. Rows'
  <2>1. (\A i \in Ids : Exists(i) => ListingOf(i) # NoListing)'
    BY <1>3 DEF ListingOf
  <2>2. (\A p \in Pages : view[p] # NoIntent => Exists(view[p].intent))'
    BY <1>4, <1>5 DEF Exists
  <2>3. (\A i \in selling : Exists(i))'
    BY <1>4
  <2>4. (\A k \in DOMAIN transfers : Exists(transfers[k].intent))'
    BY <1>1, <1>4, <1>6 DEF Rows, Exists
  <2> QED BY <1>1, <2>1, <2>2, <2>3, <2>4 DEF Rows
<1> QED BY <1>2, <1>7, KeepAll, Quiet

LEMMA StatusSet ==
    ASSUME Types, NEW i \in Ids, Exists(i), NEW s \in Statuses, s # "TRANSFERRED",
           intents' = [intents EXCEPT ![i].status = s]
    PROVE  /\ IntentsKeep /\ intents' \in [Ids -> IntentType \cup {NoIntent}]
           /\ \A j \in Ids : Exists(j)' <=> Exists(j)
<1>1. intents[i] \in IntentType
  BY IntentTyped
<1>2. PICK r \in IntentType : r = [intents[i] EXCEPT !.status = s]
  BY <1>1 DEF IntentType
<1>3. r.of = intents[i].of /\ r.tx = intents[i].tx /\ r.status = s
  BY <1>1, <1>2 DEF IntentType
<1>4. /\ intents' \in [Ids -> IntentType \cup {NoIntent}]
      /\ intents'[i] = r /\ \A j \in Ids \ {i} : intents'[j] = intents[j]
  BY <1>2 DEF Types
<1>5. s # "NONE"
  BY RowsAreSomething, <1>2, <1>3
<1> QED BY <1>3, <1>4, <1>5 DEF IntentsKeep, Exists

LEMMA FaultTyped ==
    ASSUME Types, Fault
    PROVE  faults' \in 0..MaxFaults
BY MarketplaceAssumption DEF Types, Fault

LEMMA SameTyped ==
    ASSUME IInv
    PROVE  /\ intents \in [Ids -> IntentType \cup {NoIntent}]
           /\ buying \in [Buyers -> BuyingType \cup {Idle}]
           /\ claims \in [Buyers -> SUBSET Topics]
           /\ irs \in [Buyers -> {"absent", "inactive", "active"}]
           /\ view \in [Pages -> ViewType \cup {NoIntent}]
           /\ selling \subseteq Ids /\ faults \in 0..MaxFaults
           /\ \A b \in Buyers : buying[b] # Idle => listing[buying[b].of] # NoListing
           /\ \A p \in Pages : view[p] # NoIntent =>
                Exists(view[p].intent) /\ view[p] \in ViewType /\ view[p].intent \in Ids
           /\ view["provider"] # NoIntent => view["provider"].status \in {"PENDING_KYC", "PENDING_AML"}
           /\ \A i \in selling : Exists(i)
BY DEF IInv, Types, Rows, ViewType

LEMMA Patched ==
    ASSUME IInv, NEW p \in Pages, NEW i \in Ids, Exists(i), NEW s \in Statuses, s # "TRANSFERRED",
           Patch(p, i, s)
    PROVE  /\ IntentsKeep /\ intents' \in [Ids -> IntentType \cup {NoIntent}]
           /\ \A j \in Ids : Exists(j)' <=> Exists(j)
           /\ view' \in [Pages -> ViewType \cup {NoIntent}]
           /\ \A q \in Pages : view'[q] \in {view[q], NoIntent}
           /\ faults' \in 0..MaxFaults
<1>1. Types /\ view \in [Pages -> ViewType \cup {NoIntent}] /\ faults \in 0..MaxFaults
      /\ intents \in [Ids -> IntentType \cup {NoIntent}]
  BY SameTyped DEF IInv
<1>2. CASE /\ intents' = [intents EXCEPT ![i].status = s]
           /\ view' = [view EXCEPT ![p] = NoIntent]
           /\ UNCHANGED faults
  BY <1>1, <1>2, StatusSet
<1>3. CASE Fault /\ UNCHANGED <<intents, view>>
  BY <1>1, <1>3, FaultTyped, KeepAll DEF Exists
<1> QED BY <1>2, <1>3 DEF Patch

LEMMA CreateBuyIntentStep ==
    ASSUME IInv, NEW b \in Buyers, NEW l \in Listings, NEW amt, CreateBuyIntent(b, l, amt)
    PROVE  IInv'
<1>1. /\ Types
      /\ UNCHANGED <<listing, intents, onChain, view, selling, acc, history, faults, raced>>
      /\ listing[l].status \in OPEN_LISTING_STATUSES /\ amt > 0 /\ amt = listing[l].remaining
      /\ buying' = [buying EXCEPT ![b] = [pc |-> "insert", of |-> l, amt |-> amt,
                                          status |-> BuyIntentStatus(b, amt)]]
  BY DEF IInv, CreateBuyIntent, AmountFits
<1>2. listing[l] # NoListing /\ listing[l] \in ListingType
  BY <1>1, RowsAreSomething DEF Types, OPEN_LISTING_STATUSES
<1>3. amt = Lot
  BY <1>1, <1>2 DEF ListingType
<1>4. PICK s \in Statuses \ {"TRANSFERRED"} : s = BuyIntentStatus(b, amt)
  BY <1>1, StatusTyped
<1>5. PICK r \in BuyingType : r = [pc |-> "insert", of |-> l, amt |-> amt, status |-> s]
  BY <1>3 DEF BuyingType
<1>6. r.of = l
  BY <1>5
<1>7. /\ buying' \in [Buyers -> BuyingType \cup {Idle}]
      /\ \A c \in Buyers : buying'[c] # Idle => listing[buying'[c].of] # NoListing
  BY <1>1, <1>2, <1>4, <1>5, <1>6, SameTyped
<1>8. IntentsKeep /\ \A j \in Ids : Exists(j)' <=> Exists(j)
  BY <1>1, KeepAll DEF Exists
<1> QED BY <1>1, <1>7, <1>8, SameTyped, PageStep DEF onChain

LEMMA InsertBuyIntentStep ==
    ASSUME IInv, NEW b \in Buyers, InsertBuyIntent(b)
    PROVE  IInv'
<1>1. /\ Types /\ Recorded
      /\ UNCHANGED <<listing, onChain, view, selling, acc, history, faults, raced>>
      /\ buying' = [buying EXCEPT ![b] = Idle] /\ buying[b].pc = "insert"
  BY DEF IInv, InsertBuyIntent
<1>2. buying[b] \in BuyingType /\ buying[b] # Idle
  BY <1>1, RowsAreSomething DEF Types
<1>3. PICK i \in Ids :
        /\ ~Exists(i)
        /\ intents' = [intents EXCEPT ![i] =
                          [of |-> buying[b].of, buyer |-> b, amt |-> buying[b].amt,
                           status |-> buying[b].status, tx |-> 0]]
  BY DEF InsertBuyIntent
<1>4. PICK c \in BuyingType : c = buying[b]
  BY <1>2
<1>5. /\ c.of \in Listings /\ c.amt \in {Lot} /\ c.status \in Statuses /\ c.status # "TRANSFERRED"
      /\ 0 \in 0..MaxTransfers /\ listing[c.of] # NoListing
  BY <1>2, <1>4, SameTyped, MarketplaceAssumption DEF BuyingType
<1>6. PICK r \in IntentType : r = [of |-> c.of, buyer |-> b, amt |-> c.amt, status |-> c.status, tx |-> 0]
  BY <1>5 DEF IntentType
<1>7. r.of = c.of /\ r.tx = 0 /\ r.status = c.status /\ r.status # "NONE"
  BY <1>6, RowsAreSomething
<1>8. /\ intents' \in [Ids -> IntentType \cup {NoIntent}]
      /\ intents'[i] = r /\ \A j \in Ids \ {i} : intents'[j] = intents[j]
  BY <1>1, <1>3, <1>4, <1>6 DEF Types
<1>9. /\ IntentsKeep
      /\ \A j \in Ids : ~Exists(j) /\ Exists(j)' => listing[intents'[j].of] # NoListing
  BY <1>3, <1>5, <1>7, <1>8 DEF IntentsKeep, Exists
<1>10. /\ buying' \in [Buyers -> BuyingType \cup {Idle}]
       /\ \A a \in Buyers : buying'[a] # Idle => listing[buying'[a].of] # NoListing
  BY <1>1, SameTyped
<1>11. UNCHANGED <<listing, claims, irs, view, selling, acc, transfers, history, faults, raced>>
  BY <1>1 DEF onChain
<1> QED BY <1>8, <1>9, <1>10, <1>11, SameTyped, PageStep

LEMMA ResumeStep ==
    ASSUME IInv, NEW i \in Ids, ResumeBuyIntent(i)
    PROVE  IInv'
<1>1. /\ Types /\ intents[i].status = "ACTION_REQUIRED_BUYER_FID"
      /\ UNCHANGED <<listing, buying, claims, irs, view, selling, acc, transfers, history, faults, raced>>
  BY DEF IInv, ResumeBuyIntent, onChain
<1>2. Exists(i)
  BY <1>1 DEF Exists
<1>3. PICK s \in Statuses : s # "TRANSFERRED" /\ intents' = [intents EXCEPT ![i].status = s]
  BY DEF ResumeBuyIntent, Statuses, BUY_INTENT_STATUSES, BUY_INTENT_CLOSED_STATUSES
<1>4. /\ IntentsKeep /\ intents' \in [Ids -> IntentType \cup {NoIntent}]
      /\ \A j \in Ids : Exists(j)' <=> Exists(j)
  BY <1>1, <1>2, <1>3, StatusSet
<1> QED BY <1>1, <1>4, SameTyped, PageStep

LEMMA LoadStep ==
    ASSUME IInv, NEW p \in Pages, NEW i \in Ids, Load(p, i)
    PROVE  IInv'
<1>1. /\ Types /\ intents[i].status \in Shows(p)
      /\ UNCHANGED <<listing, intents, buying, claims, irs, selling, acc, transfers, history, faults, raced>>
      /\ view' = [view EXCEPT ![p] = [intent |-> i, status |-> intents[i].status]]
  BY DEF IInv, Load, onChain
<1>2. Exists(i) /\ intents[i] \in IntentType
  <2>1. intents[i].status # "NONE"
    BY <1>1 DEF Shows, Pages
  <2> QED BY <1>1, <2>1, IntentTyped DEF Exists
<1>3. PICK v \in ViewType : v = [intent |-> i, status |-> intents[i].status]
  BY <1>2 DEF IntentType, ViewType
<1>4. v.intent = i /\ v.status \in Shows(p)
  BY <1>1, <1>3
<1>5. /\ view' \in [Pages -> ViewType \cup {NoIntent}]
      /\ view'[p] = v /\ \A q \in Pages \ {p} : view'[q] = view[q]
  BY <1>1, <1>3, SameTyped
<1>6. /\ \A q \in Pages : view'[q] # NoIntent => Exists(view'[q].intent)
      /\ view'["provider"] # NoIntent => view'["provider"].status \in {"PENDING_KYC", "PENDING_AML"}
  BY <1>2, <1>4, <1>5, SameTyped DEF Pages, Shows
<1>7. IntentsKeep /\ \A j \in Ids : Exists(j)' <=> Exists(j)
  BY <1>1, KeepAll DEF Exists
<1> QED BY <1>1, <1>5, <1>6, <1>7, SameTyped, PageStep

LEMMA RecheckStep ==
    ASSUME IInv, Recheck
    PROVE  IInv'
<1>1. /\ Types /\ view["buyer"] # NoIntent
      /\ UNCHANGED <<listing, buying, claims, irs, selling, acc, transfers, history, raced>>
  BY DEF IInv, Recheck, onChain
<1>2. PICK i \in Ids : i = view["buyer"].intent /\ Exists(i)
  BY <1>1, SameTyped DEF Pages
<1>3. intents[i].buyer \in Buyers
  BY <1>1, <1>2, IntentTyped DEF IntentType
<1>4. PICK s \in Statuses : s # "TRANSFERRED" /\ s = BuyIntentStatus(intents[i].buyer, intents[i].amt)
  BY <1>1, <1>3, StatusTyped
<1>5. CASE Patch("buyer", i, s)
  <2>1. /\ IntentsKeep /\ intents' \in [Ids -> IntentType \cup {NoIntent}]
        /\ \A j \in Ids : Exists(j)' <=> Exists(j)
        /\ view' \in [Pages -> ViewType \cup {NoIntent}]
        /\ \A q \in Pages : view'[q] \in {view[q], NoIntent}
        /\ faults' \in 0..MaxFaults
    BY <1>2, <1>4, <1>5, Patched DEF Pages
  <2> QED BY <1>1, <2>1, SameTyped, PageStep DEF Pages
<1>6. CASE /\ Fault
           /\ intents' = [intents EXCEPT ![i].status = "ACTION_REQUIRED_BUYER_FID"]
           /\ view' = [view EXCEPT !["buyer"] = NoIntent]
  <2>1. "ACTION_REQUIRED_BUYER_FID" \in Statuses
    BY DEF Statuses, BUY_INTENT_STATUSES
  <2>2. /\ IntentsKeep /\ intents' \in [Ids -> IntentType \cup {NoIntent}]
        /\ \A j \in Ids : Exists(j)' <=> Exists(j)
    BY <1>1, <1>2, <1>6, <2>1, StatusSet
  <2>3. /\ view' \in [Pages -> ViewType \cup {NoIntent}]
        /\ \A q \in Pages : view'[q] \in {view[q], NoIntent}
        /\ faults' \in 0..MaxFaults
    BY <1>1, <1>6, SameTyped, FaultTyped
  <2> QED BY <1>1, <2>2, <2>3, SameTyped, PageStep DEF Pages
<1> QED BY <1>2, <1>4, <1>5, <1>6 DEF Recheck

LEMMA ProviderStep ==
    ASSUME IInv, ProviderApprove
    PROVE  IInv'
<1>1. /\ Types /\ view["provider"] # NoIntent
      /\ UNCHANGED <<listing, buying, irs, selling, acc, transfers, history, raced>>
  BY DEF IInv, ProviderApprove
<1>2. PICK i \in Ids : i = view["provider"].intent /\ Exists(i)
  BY <1>1, SameTyped DEF Pages
<1>3. PICK b \in Buyers : b = intents[i].buyer
  BY <1>1, <1>2, IntentTyped DEF IntentType
<1>4. /\ view["provider"].status = "PENDING_KYC" \/ view["provider"].status = "PENDING_AML"
      /\ view["provider"].status \in Statuses
  BY <1>1, SameTyped DEF Pages, ViewType
<1>5. PICK topic \in Topics : topic = IF view["provider"].status = "PENDING_AML" THEN 2 ELSE 1
  BY <1>4 DEF Statuses
<1>6. PICK s \in Statuses : s = (IF topic = 1 /\ 2 \in Topics THEN "PENDING_AML"
                                 ELSE "PENDING_ISSUER_WHITELIST")
  BY DEF Statuses, BUY_INTENT_STATUSES
<1>7. s # "TRANSFERRED"
  BY <1>6
<1>8. /\ claims' = [claims EXCEPT ![b] = claims[b] \cup {topic}]
      /\ Patch("provider", i, s)
  BY <1>2, <1>3, <1>5, <1>6 DEF ProviderApprove
<1>9. claims' \in [Buyers -> SUBSET Topics]
  BY <1>8, SameTyped
<1>10. /\ IntentsKeep /\ intents' \in [Ids -> IntentType \cup {NoIntent}]
       /\ \A j \in Ids : Exists(j)' <=> Exists(j)
       /\ view' \in [Pages -> ViewType \cup {NoIntent}]
       /\ \A q \in Pages : view'[q] \in {view[q], NoIntent}
       /\ faults' \in 0..MaxFaults
  BY <1>2, <1>7, <1>8, Patched DEF Pages
<1> QED BY <1>1, <1>9, <1>10, SameTyped, PageStep DEF Pages

LEMMA WhitelistStep ==
    ASSUME IInv, IssuerWhitelist
    PROVE  IInv'
<1>1. /\ Types /\ view["issuer"].status = "PENDING_ISSUER_WHITELIST"
      /\ UNCHANGED <<listing, buying, claims, selling, acc, transfers, history, raced>>
  BY DEF IInv, IssuerWhitelist
<1>2. view["issuer"] # NoIntent /\ view["issuer"] \in ViewType
  BY <1>1, RowsAreSomething, SameTyped DEF Pages
<1>3. PICK i \in Ids : i = view["issuer"].intent /\ Exists(i)
  BY <1>2, SameTyped DEF Pages
<1>4. PICK b \in Buyers : b = intents[i].buyer
  BY <1>1, <1>3, IntentTyped DEF IntentType
<1>5. irs' = [irs EXCEPT ![b] = IF irs[b] = "absent" THEN "inactive" ELSE irs[b]]
  BY <1>3, <1>4, SameTyped DEF IssuerWhitelist
<1>6. irs' \in [Buyers -> {"absent", "inactive", "active"}]
  BY <1>5, SameTyped
<1>7. "PENDING_ISSUER_ACTIVATION" \in Statuses
  BY DEF Statuses, BUY_INTENT_STATUSES
<1>8. PICK v \in ViewType : v = [view["issuer"] EXCEPT !.status = "PENDING_ISSUER_ACTIVATION"]
  BY <1>2, <1>7 DEF ViewType
<1>9. v.intent = i
  BY <1>2, <1>3, <1>8 DEF ViewType
<1>10. CASE /\ intents' = [intents EXCEPT ![i].status = "PENDING_ISSUER_ACTIVATION"]
            /\ view' = [view EXCEPT !["issuer"].status = "PENDING_ISSUER_ACTIVATION"]
            /\ UNCHANGED faults
  <2>1. /\ IntentsKeep /\ intents' \in [Ids -> IntentType \cup {NoIntent}]
        /\ \A j \in Ids : Exists(j)' <=> Exists(j)
    BY <1>1, <1>3, <1>7, <1>10, StatusSet
  <2>2. view' = [view EXCEPT !["issuer"] = v]
    BY <1>8, <1>10
  <2>3. /\ view' \in [Pages -> ViewType \cup {NoIntent}]
        /\ view'["issuer"] = v /\ \A q \in Pages \ {"issuer"} : view'[q] = view[q]
    BY <2>2, SameTyped DEF Pages
  <2> QED BY <1>1, <1>3, <1>6, <1>9, <1>10, <2>1, <2>3, SameTyped, PageStep DEF Pages
<1>11. CASE Fault /\ UNCHANGED <<intents, view>>
  <2>1. /\ IntentsKeep /\ \A j \in Ids : Exists(j)' <=> Exists(j)
        /\ faults' \in 0..MaxFaults
    BY <1>1, <1>11, KeepAll, FaultTyped DEF Exists
  <2> QED BY <1>1, <1>6, <1>11, <2>1, SameTyped, PageStep
<1> QED BY <1>3, <1>10, <1>11 DEF IssuerWhitelist

LEMMA ActivateStep ==
    ASSUME IInv, IssuerActivate
    PROVE  IInv'
<1>1. /\ Types /\ view["issuer"].status = "PENDING_ISSUER_ACTIVATION"
      /\ UNCHANGED <<listing, buying, claims, selling, acc, transfers, history, raced>>
  BY DEF IInv, IssuerActivate
<1>2. view["issuer"] # NoIntent
  BY <1>1, RowsAreSomething
<1>3. PICK i \in Ids : i = view["issuer"].intent /\ Exists(i)
  BY <1>2, SameTyped DEF Pages
<1>4. PICK b \in Buyers : b = intents[i].buyer
  BY <1>1, <1>3, IntentTyped DEF IntentType
<1>5. /\ irs' = [irs EXCEPT ![b] = "active"]
      /\ Patch("issuer", i, "READY_FOR_SELLER_ACCEPTANCE")
  BY <1>3, <1>4 DEF IssuerActivate
<1>6. irs' \in [Buyers -> {"absent", "inactive", "active"}]
  BY <1>5, SameTyped
<1>7. "READY_FOR_SELLER_ACCEPTANCE" \in Statuses
  BY DEF Statuses, BUY_INTENT_STATUSES
<1>8. /\ IntentsKeep /\ intents' \in [Ids -> IntentType \cup {NoIntent}]
      /\ \A j \in Ids : Exists(j)' <=> Exists(j)
      /\ view' \in [Pages -> ViewType \cup {NoIntent}]
      /\ \A q \in Pages : view'[q] \in {view[q], NoIntent}
      /\ faults' \in 0..MaxFaults
  BY <1>3, <1>5, <1>7, Patched DEF Pages
<1> QED BY <1>1, <1>6, <1>8, SameTyped, PageStep DEF Pages

LEMMA LoseStep ==
    ASSUME IInv, NEW b \in Buyers, LoseEligibility(b)
    PROVE  IInv'
<1>1. /\ Types /\ Fault /\ claims' = [claims EXCEPT ![b] = {}]
      /\ UNCHANGED <<listing, intents, buying, irs, view, selling, acc, transfers, history, raced>>
  BY DEF IInv, LoseEligibility
<1>2. claims' \in [Buyers -> SUBSET Topics] /\ faults' \in 0..MaxFaults
  BY <1>1, SameTyped, FaultTyped
<1>3. IntentsKeep /\ \A j \in Ids : Exists(j)' <=> Exists(j)
  BY <1>1, KeepAll DEF Exists
<1> QED BY <1>1, <1>2, <1>3, SameTyped, PageStep

LEMMA SellerLoadStep ==
    ASSUME IInv, NEW i \in Ids, SellerLoad(i)
    PROVE  IInv'
<1>1. /\ Types /\ intents[i].status \in {"READY_FOR_SELLER_ACCEPTANCE", "READY_TO_TRANSFER"}
      /\ selling' = selling \cup {i}
      /\ UNCHANGED <<listing, intents, buying, claims, irs, view, acc, transfers, history, faults, raced>>
  BY DEF IInv, SellerLoad, onChain
<1>2. Exists(i)
  BY <1>1 DEF Exists
<1>3. selling' \subseteq Ids /\ \A j \in selling' : Exists(j)
  BY <1>1, <1>2, SameTyped
<1>4. IntentsKeep /\ \A j \in Ids : Exists(j)' <=> Exists(j)
  BY <1>1, KeepAll DEF Exists
<1> QED BY <1>1, <1>3, <1>4, SameTyped, PageStep

-----------------------------------------------------------------------------
(* Acceptances.  A step of the acceptance of i, whose listing is l. *)
LEMMA AccTyped ==
    ASSUME Types, NEW i \in Ids
    PROVE  /\ acc[i].pc = "approve" => acc[i] # Idle
           /\ acc[i].pc = "transfer" => acc[i] # Idle /\ acc[i].pinned \in Nat
           /\ acc[i].pc = "report" => acc[i] # Idle /\ acc[i].tx \in 1..MaxTransfers
           /\ acc[i].pc = "commit" => /\ acc[i] # Idle /\ acc[i].tx \in 1..MaxTransfers
                                      /\ acc[i].remaining = Lot
BY RowsAreSomething DEF Types, AccType

LEMMA SameRows ==
    ASSUME Types, Rows, IntentsKeep, UNCHANGED <<listing, buying, view, selling, transfers>>,
           \A j \in Ids : Exists(j)' <=> Exists(j)
    PROVE  Rows'
<1>1. \A i \in Ids : Exists(i)' => listing[intents'[i].of] # NoListing
  BY DEF IntentsKeep, Rows, ListingOf
<1>2. \A p \in Pages : view[p] # NoIntent => view[p].intent \in Ids
  BY DEF Types, ViewType
<1>3. \A k \in DOMAIN transfers : transfers[k].intent \in Ids
  BY HashesFinite
<1>4. (\A i \in Ids : Exists(i) => ListingOf(i) # NoListing)'
  BY <1>1 DEF ListingOf
<1>5. (\A p \in Pages : view[p] # NoIntent => Exists(view[p].intent))'
  BY <1>2 DEF Rows, Exists
<1>6. (\A i \in selling : Exists(i))'
  BY DEF Rows, Types
<1>7. (\A k \in DOMAIN transfers : Exists(transfers[k].intent))'
  BY <1>3 DEF Rows, Exists
<1> QED BY <1>4, <1>5, <1>6, <1>7 DEF Rows

(* Only the acceptance of i, and possibly raced, change; intents keep. *)
LEMMA AcceptanceStep ==
    ASSUME IInv, NEW i \in Ids, Exists(i), NEW c \in AccType \cup {Idle},
           acc' = [acc EXCEPT ![i] = c], IntentsKeep,
           intents' \in [Ids -> IntentType \cup {NoIntent}],
           \A j \in Ids : Exists(j)' <=> Exists(j),
           UNCHANGED <<listing, buying, onChain, view, selling, history>>,
           faults' \in 0..MaxFaults, raced \subseteq raced',
           c.pc = "transfer" => c.pinned >= Lot,
           c.pc \in {"report", "commit"} =>
             acc[i].pc = "report" /\ c.tx = acc[i].tx,
           c.pc \in {"approve", "transfer"} /\ intents[i].of \notin raced' =>
             \/ acc[i].pc \in {"approve", "transfer"}
             \/ Accepting(intents[i].of) = {} /\ TransfersOf(intents[i].of) = {},
           c = Idle /\ intents[i].of \notin raced' /\ acc[i] # Idle =>
             \/ acc[i].pc \in {"approve", "transfer"}
             \/ ListingOf(i).remaining = 0
    PROVE  IInv'
<1>1. Types /\ Rows /\ AcceptInv /\ Recorded /\ Remainder /\ OneAcceptance
  BY DEF IInv
<1>2. /\ acc' \in [Ids -> AccType \cup {Idle}]
      /\ acc'[i] = c /\ \A j \in Ids \ {i} : acc'[j] = acc[j]
      /\ transfers' = transfers /\ irs' = irs /\ claims' = claims
  BY <1>1 DEF Types, onChain
<1>3. Types'
  BY <1>1, <1>2, SameBalance DEF Types
<1>4. Rows'
  BY <1>1, <1>2, SameRows
<1>5. AcceptInv'
  BY <1>1, <1>2, RowsAreSomething DEF AcceptInv
<1>6. Recorded'
  BY <1>1, <1>2 DEF Recorded, IntentsKeep
<1>7. \A l : TransfersOf(l)' = TransfersOf(l)
  BY <1>1, <1>2, SameTransfers
<1>8. Remainder'
  BY <1>1, <1>7 DEF Remainder
<1>9. ASSUME NEW l \in Listings \ raced'
      PROVE  /\ \A j, k \in Accepting(l)' : j = k
             /\ \A j, k \in TransfersOf(l)' : j = k
             /\ \A j \in Accepting(l)' : acc'[j].pc \in {"approve", "transfer"} => TransfersOf(l)' = {}
             /\ Accepting(l)' = {} /\ listing'[l] # NoListing /\ listing'[l].remaining # 0 =>
                  TransfersOf(l)' = {}
  <2>1. /\ \A j, k \in Accepting(l) : j = k
        /\ \A j, k \in TransfersOf(l) : j = k
        /\ \A j \in Accepting(l) : acc[j].pc \in {"approve", "transfer"} => TransfersOf(l) = {}
        /\ Accepting(l) = {} /\ listing[l] # NoListing /\ listing[l].remaining # 0 =>
             TransfersOf(l) = {}
    BY <1>1 DEF OneAcceptance
  <2>2. \A j \in Ids : j \in Accepting(l)' <=> Exists(j) /\ intents[j].of = l /\ acc'[j] # Idle
    BY DEF Accepting, IntentsKeep
  <2>3. Accepting(l)' \subseteq Ids /\ Accepting(l) \subseteq Ids
    BY DEF Accepting
  <2>4. \A j \in Ids : j \in Accepting(l) <=> Exists(j) /\ intents[j].of = l /\ acc[j] # Idle
    BY DEF Accepting
  <2>5. CASE intents[i].of # l
    <3>1. i \notin Accepting(l) /\ i \notin Accepting(l)'
      BY <2>2, <2>4, <2>5
    <3>2. \A j \in Ids \ {i} : j \in Accepting(l)' <=> j \in Accepting(l)
      BY <1>2, <2>2, <2>4
    <3>3. Accepting(l)' = Accepting(l) /\ i \notin Accepting(l)
      BY <2>3, <3>1, <3>2
    <3> QED BY <1>2, <1>7, <2>1, <2>3, <3>3
  <2>6. CASE intents[i].of = l /\ c # Idle
    <3>1. Accepting(l) \subseteq {i}
      <4>1. CASE acc[i] # Idle
        BY <2>1, <2>3, <2>4, <2>6, <4>1
      <4>2. CASE acc[i] = Idle
        BY <1>9, <2>6, <4>2, RowsAreSomething DEF AccType
      <4> QED BY <4>1, <4>2
    <3>2. Accepting(l)' = {i}
      BY <1>2, <2>2, <2>3, <2>4, <2>6, <3>1
    <3>3. c.pc \in {"approve", "transfer"} => TransfersOf(l) = {}
      <4>1. acc[i].pc \in {"approve", "transfer"} => i \in Accepting(l)
        BY <1>1, <2>4, <2>6, RowsAreSomething, AccTyped
      <4> QED BY <1>9, <2>1, <2>6, <4>1
    <3> QED BY <1>2, <1>7, <2>1, <3>2, <3>3
  <2>7. CASE intents[i].of = l /\ c = Idle
    <3>1. Accepting(l)' = Accepting(l) \ {i}
      BY <1>2, <2>2, <2>3, <2>4, <2>7
    <3>2. acc[i] = Idle => Accepting(l)' = Accepting(l)
      BY <2>4, <3>1
    <3>3. acc[i] # Idle => Accepting(l)' = {} /\ i \in Accepting(l)
      BY <2>1, <2>3, <2>4, <2>7, <3>1
    <3>4. acc[i] # Idle /\ listing[l].remaining # 0 => TransfersOf(l) = {}
      BY <1>9, <2>1, <2>7, <3>3 DEF ListingOf
    <3> QED BY <1>2, <1>7, <2>1, <2>3, <3>1, <3>2, <3>3, <3>4
  <2> QED BY <2>5, <2>6, <2>7
<1>10. OneAcceptance'
  BY <1>9 DEF OneAcceptance
<1> QED BY <1>3, <1>4, <1>5, <1>6, <1>8, <1>10 DEF IInv

LEMMA AcceptStep ==
    ASSUME IInv, NEW i \in Ids, Accept(i)
    PROVE  IInv'
<1>1. /\ Types /\ Rows /\ OneAcceptance /\ Exists(i) /\ intents[i] \in IntentType
      /\ i \in selling /\ acc[i] = Idle
      /\ UNCHANGED <<listing, buying, onChain, view, selling, history, faults>>
  BY SameTyped, IntentTyped DEF IInv, Accept
<1>2. CASE /\ SellerMayAccept(i)
           /\ intents' = [intents EXCEPT ![i].status = "READY_TO_TRANSFER"]
           /\ acc' = [acc EXCEPT ![i] = [pc |-> "approve"]]
           /\ raced' = IF Accepting(intents[i].of) = {} THEN raced
                       ELSE raced \cup {intents[i].of}
  <2>1. "READY_TO_TRANSFER" \in Statuses
    BY DEF Statuses, BUY_INTENT_STATUSES
  <2>2. /\ IntentsKeep /\ intents' \in [Ids -> IntentType \cup {NoIntent}]
        /\ \A j \in Ids : Exists(j)' <=> Exists(j)
    BY <1>1, <1>2, <2>1, StatusSet
  <2>3. PICK c \in AccType : c = [pc |-> "approve"]
    BY DEF AccType
  <2>4. c.pc = "approve" /\ c # Idle
    BY <2>3, RowsAreSomething
  <2>5. intents[i].of \in Listings /\ ListingOf(i) # NoListing /\ intents[i].amt = Lot
    BY <1>1 DEF IntentType, Rows
  <2>6. ListingOf(i).remaining # 0
    BY <1>1, <1>2, <2>5, MarketplaceAssumption DEF SellerMayAccept
  <2>7. intents[i].of \notin raced' => Accepting(intents[i].of) = {} /\ intents[i].of \notin raced
    BY <1>2
  <2>8. intents[i].of \notin raced' => TransfersOf(intents[i].of) = {}
    BY <1>1, <2>5, <2>6, <2>7 DEF OneAcceptance, ListingOf
  <2>9. raced \subseteq raced' /\ acc' = [acc EXCEPT ![i] = c] /\ faults' \in 0..MaxFaults
    BY <1>1, <1>2, <2>3, SameTyped
  <2> QED BY <1>1, <2>2, <2>4, <2>7, <2>8, <2>9, AcceptanceStep
<1>3. CASE /\ intents' = [intents EXCEPT ![i].status = "TRANSFER_SIMULATION_FAILED"]
           /\ UNCHANGED <<acc, raced>>
  <2>1. "TRANSFER_SIMULATION_FAILED" \in Statuses
    BY DEF Statuses, BUY_INTENT_STATUSES
  <2>2. /\ IntentsKeep /\ intents' \in [Ids -> IntentType \cup {NoIntent}]
        /\ \A j \in Ids : Exists(j)' <=> Exists(j)
    BY <1>1, <1>3, <2>1, StatusSet
  <2> QED BY <1>1, <1>3, <2>2, SameTyped, PageStep DEF onChain
<1> QED BY <1>2, <1>3 DEF Accept

LEMMA ApproveTransferStep ==
    ASSUME IInv, NEW i \in Ids, ApproveTransfer(i)
    PROVE  IInv'
<1>1. /\ Types /\ AcceptInv /\ acc[i].pc = "approve" /\ acc[i] # Idle /\ Exists(i)
      /\ UNCHANGED <<listing, intents, buying, onChain, view, selling, history, faults, raced>>
  BY AccTyped DEF IInv, ApproveTransfer, AcceptInv
<1>2. IntentsKeep /\ \A j \in Ids : Exists(j)' <=> Exists(j)
  BY <1>1, KeepAll DEF Exists
<1>3. PICK c \in AccType \cup {Idle} :
        /\ acc' = [acc EXCEPT ![i] = c]
        /\ c = Idle \/ (c.pc = "transfer" /\ c.pinned >= Lot)
  <2>1. CASE ChainTransfers(i)
    <3>1. intents[i].amt = Lot
      BY <1>1, IntentTyped DEF IntentType
    <3>2. Balance \in Nat /\ Balance >= Lot
      BY <1>1, <2>1, <3>1 DEF ChainTransfers, Types
    <3>3. PICK c \in AccType : c = [pc |-> "transfer", pinned |-> Balance]
      BY <3>2 DEF AccType
    <3>4. c.pc = "transfer" /\ c.pinned >= Lot
      BY <3>2, <3>3
    <3> QED BY <2>1, <3>3, <3>4 DEF ApproveTransfer
  <2>2. CASE ~ChainTransfers(i)
    BY <2>2 DEF ApproveTransfer
  <2> QED BY <2>1, <2>2
<1> QED BY <1>1, <1>2, <1>3, SameTyped, RowsAreSomething, AcceptanceStep

LEMMA ReportReadStep ==
    ASSUME IInv, NEW i \in Ids, ReportRead(i)
    PROVE  IInv'
<1>1. /\ Types /\ AcceptInv /\ Rows /\ acc[i].pc = "report" /\ acc[i] # Idle /\ Exists(i)
      /\ acc[i].tx \in 1..MaxTransfers
      /\ UNCHANGED <<listing, intents, buying, onChain, view, selling, history>>
  BY AccTyped DEF IInv, ReportRead, AcceptInv
<1>2. IntentsKeep /\ \A j \in Ids : Exists(j)' <=> Exists(j)
  BY <1>1, KeepAll DEF Exists
<1>3. intents[i].of \in Listings /\ intents[i].amt = Lot
  BY <1>1, IntentTyped DEF IntentType
<1>4. ListingOf(i) \in ListingType
  BY <1>1, <1>3 DEF Types, Rows, ListingOf
<1>5. ListingOf(i).remaining \in {0, Lot}
  BY <1>4 DEF ListingType
<1>6. CASE /\ RoomFor(i)
           /\ acc' = [acc EXCEPT ![i] = [pc |-> "commit", tx |-> acc[i].tx,
                                         remaining |-> ListingOf(i).remaining]]
           /\ UNCHANGED <<faults, raced>>
  <2>1. ListingOf(i).remaining = Lot
    BY <1>3, <1>5, <1>6, MarketplaceAssumption DEF RoomFor
  <2>2. PICK c \in AccType : c = [pc |-> "commit", tx |-> acc[i].tx, remaining |-> Lot]
    BY <1>1 DEF AccType
  <2>3. c.pc = "commit" /\ c.tx = acc[i].tx /\ c # Idle
    BY <2>2, RowsAreSomething
  <2>4. acc' = [acc EXCEPT ![i] = c]
    BY <1>6, <2>1, <2>2
  <2> QED BY <1>1, <1>2, <1>6, <2>3, <2>4, SameTyped, AcceptanceStep
<1>7. CASE ~RoomFor(i) /\ acc' = [acc EXCEPT ![i] = Idle] /\ UNCHANGED <<faults, raced>>
  <2>1. ListingOf(i).remaining = 0
    BY <1>3, <1>5, <1>7, MarketplaceAssumption DEF RoomFor
  <2> QED BY <1>1, <1>2, <1>7, <2>1, SameTyped, RowsAreSomething, AcceptanceStep
<1>8. CASE Fault /\ acc' = [acc EXCEPT ![i] = Idle] /\ raced' = raced \cup {intents[i].of}
  <2>1. faults' \in 0..MaxFaults /\ raced \subseteq raced' /\ intents[i].of \in raced'
    BY <1>1, <1>8, FaultTyped
  <2> QED BY <1>1, <1>2, <1>8, <2>1, SameTyped, RowsAreSomething, AcceptanceStep
<1> QED BY <1>6, <1>7, <1>8 DEF ReportRead

(* The transfer is confirmed. *)
LEMMA TransferConfirmed ==
    ASSUME IInv, NEW i \in Ids, acc[i].pc = "transfer", acc[i].pinned = Balance,
           Len(transfers) < MaxTransfers,
           transfers' = Append(transfers, [intent |-> i, amt |-> intents[i].amt]),
           UNCHANGED <<listing, intents, buying, claims, irs, view, selling, history>>,
           faults' \in 0..MaxFaults, raced \subseteq raced',
           \/ acc' = [acc EXCEPT ![i] = [pc |-> "report", tx |-> Len(transfers) + 1]]
           \/ acc' = [acc EXCEPT ![i] = Idle] /\ intents[i].of \in raced'
    PROVE  IInv'
<1> DEFINE n == Len(transfers) + 1
<1>1. /\ Types /\ Rows /\ AcceptInv /\ Recorded /\ Remainder /\ OneAcceptance
      /\ acc[i] # Idle /\ Exists(i) /\ acc[i].pinned >= Lot
  BY AccTyped DEF IInv, AcceptInv
<1>2. intents[i].of \in Listings /\ intents[i].amt = Lot
  BY <1>1, IntentTyped DEF IntentType
<1>3. PICK t \in TransferType : t = [intent |-> i, amt |-> Lot]
  BY DEF TransferType
<1>4. transfers' = Append(transfers, t) /\ t.intent = i
  BY <1>2, <1>3
<1>5. /\ transfers' \in Seq(TransferType) /\ Len(transfers) \in Nat
      /\ DOMAIN transfers = 1..Len(transfers) /\ DOMAIN transfers' = DOMAIN transfers \cup {n}
      /\ n \notin DOMAIN transfers /\ n \in 1..MaxTransfers /\ Len(transfers') = n
      /\ transfers'[n] = t /\ \A k \in DOMAIN transfers : transfers'[k] = transfers[k]
  BY <1>1, <1>4, MarketplaceAssumption DEF Types
<1>6. Balance' \in Nat
  <2>1. Balance' = Balance - Lot
    BY <1>1, <1>4, BalanceAfter
  <2> QED BY <1>1, <2>1, MarketplaceAssumption DEF Types
<1>7. PICK c \in AccType \cup {Idle} :
        /\ acc' = [acc EXCEPT ![i] = c]
        /\ \/ c # Idle /\ c.pc = "report" /\ c.tx = n
           \/ c = Idle /\ intents[i].of \in raced'
  <2>1. CASE acc' = [acc EXCEPT ![i] = [pc |-> "report", tx |-> n]]
    <3>1. PICK c \in AccType : c = [pc |-> "report", tx |-> n]
      BY <1>5 DEF AccType
    <3>2. c # Idle /\ c.pc = "report" /\ c.tx = n
      BY <3>1, RowsAreSomething
    <3> QED BY <2>1, <3>1, <3>2
  <2>2. CASE acc' = [acc EXCEPT ![i] = Idle] /\ intents[i].of \in raced'
    BY <2>2
  <2> QED BY <2>1, <2>2
<1>8. /\ acc' \in [Ids -> AccType \cup {Idle}]
      /\ acc'[i] = c /\ \A j \in Ids \ {i} : acc'[j] = acc[j]
  BY <1>1, <1>7 DEF Types
<1> HIDE DEF n
<1>9. Types'
  <2>1. Len(transfers') <= MaxTransfers /\ history' \subseteq DOMAIN transfers'
    BY <1>1, <1>5, MarketplaceAssumption DEF Types
  <2> QED BY <1>1, <1>5, <1>6, <1>8, <2>1 DEF Types
<1>10. Rows'
  <2>1. \A k \in DOMAIN transfers' : Exists(transfers'[k].intent)
    BY <1>1, <1>4, <1>5 DEF Rows
  <2> QED BY <1>1, <2>1 DEF Rows, Exists, ListingOf
<1>11. AcceptInv'
  <2>1. ASSUME NEW j \in Ids
        PROVE  /\ acc'[j] # Idle => Exists(j)
               /\ acc'[j].pc = "transfer" => acc'[j].pinned >= Lot
               /\ acc'[j].pc \in {"report", "commit"} => /\ acc'[j].tx \in DOMAIN transfers'
                                                         /\ transfers'[acc'[j].tx].intent = j
    <3>1. CASE j = i
      BY <1>1, <1>4, <1>5, <1>7, <1>8, <3>1, RowsAreSomething
    <3>2. CASE j # i
      BY <1>1, <1>5, <1>8, <3>2 DEF AcceptInv
    <3> QED BY <3>1, <3>2
  <2> QED BY <2>1 DEF AcceptInv, Exists
<1>12. Recorded'
  BY <1>1, <1>5 DEF Recorded, Exists
<1>13. /\ TransfersOf(intents[i].of)' = TransfersOf(intents[i].of) \cup {n}
       /\ \A l : l # intents[i].of => TransfersOf(l)' = TransfersOf(l)
  BY <1>4, <1>5 DEF TransfersOf
<1>14. n \notin history
  BY <1>1, <1>5 DEF Types
<1>15. Remainder'
  BY <1>1, <1>13, <1>14 DEF Remainder
<1>16. ASSUME NEW l \in Listings \ raced'
       PROVE  /\ \A j, k \in Accepting(l)' : j = k
              /\ \A j, k \in TransfersOf(l)' : j = k
              /\ \A j \in Accepting(l)' : acc'[j].pc \in {"approve", "transfer"} => TransfersOf(l)' = {}
              /\ Accepting(l)' = {} /\ listing'[l] # NoListing /\ listing'[l].remaining # 0 =>
                   TransfersOf(l)' = {}
  <2>1. /\ \A j, k \in Accepting(l) : j = k
        /\ \A j, k \in TransfersOf(l) : j = k
        /\ \A j \in Accepting(l) : acc[j].pc \in {"approve", "transfer"} => TransfersOf(l) = {}
        /\ Accepting(l) = {} /\ listing[l] # NoListing /\ listing[l].remaining # 0 =>
             TransfersOf(l) = {}
    BY <1>1 DEF OneAcceptance
  <2>2. Accepting(l)' = {j \in Ids : Exists(j) /\ intents[j].of = l /\ acc'[j] # Idle}
    BY DEF Accepting, Exists
  <2>3. Accepting(l) = {j \in Ids : Exists(j) /\ intents[j].of = l /\ acc[j] # Idle}
    BY DEF Accepting
  <2>4. CASE intents[i].of # l
    <3>1. Accepting(l)' = Accepting(l) /\ i \notin Accepting(l)
      BY <1>8, <2>2, <2>3, <2>4
    <3> QED BY <1>8, <1>13, <2>1, <2>3, <2>4, <3>1
  <2>5. CASE intents[i].of = l
    <3>1. c # Idle /\ c.pc = "report"
      BY <1>7, <1>16, <2>5
    <3>2. Accepting(l) = {i} /\ Accepting(l)' = Accepting(l)
      BY <1>1, <1>8, <2>1, <2>2, <2>3, <2>5, <3>1
    <3>3. TransfersOf(l) = {}
      BY <2>1, <3>2
    <3> QED BY <1>8, <1>13, <2>5, <3>1, <3>2, <3>3
  <2> QED BY <2>4, <2>5
<1>17. OneAcceptance'
  BY <1>16 DEF OneAcceptance
<1> QED BY <1>9, <1>10, <1>11, <1>12, <1>15, <1>17 DEF IInv

LEMMA TransferTokensStep ==
    ASSUME IInv, NEW i \in Ids, TransferTokens(i)
    PROVE  IInv'
<1>1. /\ Types /\ AcceptInv /\ acc[i].pc = "transfer" /\ acc[i] # Idle /\ Exists(i)
      /\ UNCHANGED <<listing, intents, buying, claims, irs, view, selling, history>>
  BY AccTyped DEF IInv, TransferTokens, AcceptInv
<1>2. CASE /\ acc[i].pinned = Balance
           /\ Len(transfers) < MaxTransfers
           /\ transfers' = Append(transfers, [intent |-> i, amt |-> intents[i].amt])
           /\ \/ /\ acc' = [acc EXCEPT ![i] = [pc |-> "report", tx |-> Len(transfers) + 1]]
                 /\ UNCHANGED <<faults, raced>>
              \/ /\ Fault
                 /\ acc' = [acc EXCEPT ![i] = Idle]
                 /\ raced' = raced \cup {intents[i].of}
  <2>1. faults' \in 0..MaxFaults /\ raced \subseteq raced'
    BY <1>1, <1>2, SameTyped, FaultTyped
  <2> QED BY <1>1, <1>2, <2>1, TransferConfirmed
<1>3. CASE acc' = [acc EXCEPT ![i] = Idle] /\ UNCHANGED <<transfers, faults, raced>>
  <2>1. IntentsKeep /\ \A j \in Ids : Exists(j)' <=> Exists(j)
    BY <1>1, KeepAll DEF Exists
  <2> QED BY <1>1, <1>3, <2>1, SameTyped, RowsAreSomething, AcceptanceStep DEF onChain
<1> QED BY <1>2, <1>3 DEF TransferTokens

(* The transaction of updateBuyIntentStatus: intent, listing and history. *)
LEMMA ReportCommitStep ==
    ASSUME IInv, NEW i \in Ids, ReportCommit(i)
    PROVE  IInv'
<1> DEFINE l == intents[i].of
           n == acc[i].tx
<1>1. /\ Types /\ Rows /\ AcceptInv /\ Recorded /\ Remainder /\ OneAcceptance
      /\ acc[i] # Idle /\ Exists(i) /\ intents[i] \in IntentType
      /\ n \in DOMAIN transfers /\ n \in 1..MaxTransfers /\ transfers[n].intent = i
      /\ acc[i].remaining = Lot
      /\ UNCHANGED <<buying, claims, irs, transfers, view>>
      /\ history' = history \cup {n}
      /\ acc' = [acc EXCEPT ![i] = Idle]
  BY AccTyped, IntentTyped DEF IInv, ReportCommit, AcceptInv, onChain
<1>2. l \in Listings /\ intents[i].amt = Lot
  BY <1>1 DEF IntentType
<1>3. PICK r \in ListingType : r = [status |-> "FILLED", remaining |-> 0]
  BY DEF ListingType
<1>4. r # NoListing /\ r.remaining = 0
  BY <1>3, RowsAreSomething
<1>5. listing' = [listing EXCEPT ![l] = r]
  <2>1. acc[i].remaining - intents[i].amt = 0
    BY <1>1, <1>2, MarketplaceAssumption
  <2> QED BY <1>3, <2>1 DEF ReportCommit
<1>6. /\ listing' \in [Listings -> ListingType \cup {NoListing}]
      /\ listing'[l] = r /\ \A k \in Listings \ {l} : listing'[k] = listing[k]
  BY <1>1, <1>2, <1>5 DEF Types
<1>7. "TRANSFERRED" \in Statuses
  BY DEF Statuses, BUY_INTENT_STATUSES, BUY_INTENT_CLOSED_STATUSES
<1>8. PICK q \in IntentType : q = [intents[i] EXCEPT !.status = "TRANSFERRED"]
  BY <1>1, <1>7 DEF IntentType
<1>9. n \in 0..MaxTransfers
  BY <1>1
<1>10. PICK s \in IntentType : s = [q EXCEPT !.tx = n]
  BY <1>9 DEF IntentType
<1>11. intents' = [intents EXCEPT ![i] = s]
  <2>1. intents' = [intents EXCEPT ![i] = [[intents[i] EXCEPT !.status = "TRANSFERRED"] EXCEPT !.tx = n]]
    <3> HIDE DEF n
    <3>1. intents' = [intents EXCEPT ![i].status = "TRANSFERRED", ![i].tx = n]
      BY DEF ReportCommit, n
    <3>2. intents \in [Ids -> IntentType \cup {NoIntent}]
      BY <1>1 DEF Types
    <3> QED BY <3>1, <3>2
  <2> QED BY <1>8, <1>10, <2>1
<1>12. s.of = l /\ s.tx = n /\ s.status = "TRANSFERRED"
  BY <1>1, <1>8, <1>10 DEF IntentType
<1>13. /\ intents' \in [Ids -> IntentType \cup {NoIntent}]
       /\ intents'[i] = s /\ \A j \in Ids \ {i} : intents'[j] = intents[j]
  BY <1>1, <1>11 DEF Types
<1>14. /\ acc' \in [Ids -> AccType \cup {Idle}]
       /\ acc'[i] = Idle /\ \A j \in Ids \ {i} : acc'[j] = acc[j]
  BY <1>1 DEF Types
<1>15. selling' \subseteq selling /\ faults' \in 0..MaxFaults /\ raced \subseteq raced'
  BY <1>1, SameTyped, FaultTyped DEF ReportCommit
<1> HIDE DEF n, l
<1>16. /\ \A j \in Ids : Exists(j)' <=> Exists(j)
       /\ \A j \in Ids : intents'[j].of = intents[j].of
  BY <1>1, <1>12, <1>13 DEF Exists, l
<1>17. Types'
  BY <1>1, <1>6, <1>13, <1>14, <1>15, SameBalance DEF Types
<1>18. \A k \in DOMAIN transfers : transfers[k].intent \in Ids
  BY <1>1, HashesFinite
<1>19. \A k : TransfersOf(k)' = TransfersOf(k)
  BY <1>1, <1>16, <1>18 DEF TransfersOf
<1>20. Rows'
  <2>1. \A k \in Listings : listing[k] # NoListing => listing'[k] # NoListing
    BY <1>4, <1>6
  <2>2. \A j \in Ids : Exists(j) => intents[j].of \in Listings
    BY <1>1, IntentTyped DEF IntentType
  <2>3. (\A j \in Ids : Exists(j) => ListingOf(j) # NoListing)'
    BY <1>1, <1>16, <2>1, <2>2 DEF Rows, ListingOf
  <2>4. (\A b \in Buyers : buying[b] # Idle => listing[buying[b].of] # NoListing)'
    BY <1>1, <2>1 DEF Rows, Types, BuyingType
  <2>5. \A p \in Pages : view[p] # NoIntent => view[p].intent \in Ids
    BY <1>1 DEF Types, ViewType
  <2>6. (\A p \in Pages : view[p] # NoIntent => Exists(view[p].intent))'
    BY <1>1, <1>16, <2>5 DEF Rows, Exists
  <2>7. (\A j \in selling : Exists(j))'
    BY <1>1, <1>15, <1>16, SameTyped
  <2>8. (\A k \in DOMAIN transfers : Exists(transfers[k].intent))'
    BY <1>1, <1>16, <1>18 DEF Rows, Exists
  <2> QED BY <1>1, <2>3, <2>4, <2>6, <2>7, <2>8 DEF Rows
<1>21. AcceptInv'
  BY <1>1, <1>14, <1>16, RowsAreSomething DEF AcceptInv
<1>22. Recorded'
  <2>1. ASSUME NEW j \in Ids, Exists(j)'
        PROVE  /\ intents'[j].tx # 0 => /\ intents'[j].tx \in DOMAIN transfers'
                                        /\ transfers'[intents'[j].tx].intent = j
               /\ intents'[j].status = "TRANSFERRED" => intents'[j].tx # 0
    <3>1. CASE j = i
      BY <1>1, <1>12, <1>13, <3>1
    <3>2. CASE j # i
      BY <1>1, <1>13, <1>16, <2>1, <3>2 DEF Recorded
    <3> QED BY <3>1, <3>2
  <2> QED BY <2>1 DEF Recorded
<1>23. n \in TransfersOf(l) /\ \A k : k # l => n \notin TransfersOf(k)
  BY <1>1 DEF TransfersOf, l
<1>24. Remainder'
  <2>1. ASSUME NEW k \in Listings, listing'[k] # NoListing
        PROVE  listing'[k].remaining = 0 <=> TransfersOf(k)' \cap history' # {}
    <3>1. CASE k = l
      BY <1>1, <1>4, <1>6, <1>19, <1>23, <3>1
    <3>2. CASE k # l
      BY <1>1, <1>6, <1>19, <1>23, <2>1, <3>2 DEF Remainder
    <3> QED BY <3>1, <3>2
  <2> QED BY <2>1 DEF Remainder
<1>25. OneAcceptance'
  <2>1. ASSUME NEW k \in Listings \ raced'
        PROVE  /\ \A j, m \in Accepting(k)' : j = m
               /\ \A j, m \in TransfersOf(k)' : j = m
               /\ \A j \in Accepting(k)' : acc'[j].pc \in {"approve", "transfer"} => TransfersOf(k)' = {}
               /\ Accepting(k)' = {} /\ listing'[k] # NoListing /\ listing'[k].remaining # 0 =>
                    TransfersOf(k)' = {}
    <3>1. /\ \A j, m \in Accepting(k) : j = m
          /\ \A j, m \in TransfersOf(k) : j = m
          /\ \A j \in Accepting(k) : acc[j].pc \in {"approve", "transfer"} => TransfersOf(k) = {}
          /\ Accepting(k) = {} /\ listing[k] # NoListing /\ listing[k].remaining # 0 =>
               TransfersOf(k) = {}
      BY <1>1, <1>15 DEF OneAcceptance
    <3>2. Accepting(k)' = {j \in Ids : Exists(j) /\ intents[j].of = k /\ acc'[j] # Idle}
      BY <1>16 DEF Accepting
    <3>3. Accepting(k) = {j \in Ids : Exists(j) /\ intents[j].of = k /\ acc[j] # Idle}
      BY DEF Accepting
    <3>4. Accepting(k)' = Accepting(k) \ {i}
      BY <1>14, <3>2, <3>3
    <3>5. \A j \in Accepting(k)' : acc'[j] = acc[j]
      BY <1>14, <3>2
    <3>6. CASE k = l
      BY <1>4, <1>6, <1>19, <3>1, <3>4, <3>5, <3>6
    <3>7. CASE k # l
      <4>1. i \notin Accepting(k)
        BY <3>3, <3>7 DEF l
      <4>2. Accepting(k)' = Accepting(k)
        BY <3>4, <4>1
      <4> QED BY <1>6, <1>19, <3>1, <3>5, <3>7, <4>2
    <3> QED BY <3>6, <3>7
  <2> QED BY <2>1 DEF OneAcceptance
<1> QED BY <1>17, <1>20, <1>21, <1>22, <1>24, <1>25 DEF IInv

-----------------------------------------------------------------------------
LEMMA InitInvariant ==
    ASSUME Init
    PROVE  IInv
<1>1. DOMAIN transfers = {} /\ transfers \in Seq(TransferType) /\ Len(transfers) = 0
  BY DEF Init
<1>2. Balance \in Nat
  <2>1. PICK f : f = [k \in {} |-> transfers[k].amt]
    OBVIOUS
  <2>2. Balance = SellerBalance - SumFunctionOnSet(f, {})
    BY <1>1, <2>1 DEF Balance, Moved, SumFunction
  <2> QED BY <2>2, SumEmpty, MarketplaceAssumption
<1>3. Types
  BY <1>1, <1>2, MarketplaceAssumption DEF Init, Types
<1>4. \A i \in Ids : ~Exists(i)
  BY RowsAreSomething DEF Init, Exists
<1>5. Rows
  BY <1>1, <1>4 DEF Init, Rows, Pages
<1>6. AcceptInv
  BY RowsAreSomething DEF Init, AcceptInv
<1>7. Recorded
  BY <1>4 DEF Recorded
<1>8. Remainder
  BY DEF Init, Remainder
<1>9. OneAcceptance
  BY <1>1, <1>4 DEF Init, OneAcceptance, Accepting, TransfersOf
<1> QED BY <1>3, <1>5, <1>6, <1>7, <1>8, <1>9 DEF IInv

LEMMA NextInvariant ==
    ASSUME IInv, [Next]_vars
    PROVE  IInv'
<1>1. CASE UNCHANGED vars
  <2>1. /\ IntentsKeep /\ \A j \in Ids : Exists(j)' <=> Exists(j)
        /\ UNCHANGED <<listing, intents, buying, claims, irs, view, selling, acc, transfers,
                       history, faults, raced>>
    BY <1>1, KeepAll DEF vars, Exists
  <2> QED BY <2>1, SameTyped, PageStep
<1>2. ASSUME NEW l \in Listings,
             \/ CreateListing(l) \/ CancelListing(l)
             \/ \E b \in Buyers, amt \in Amounts : CreateBuyIntent(b, l, amt)
      PROVE  IInv'
  BY <1>2, CreateListingStep, CancelListingStep, CreateBuyIntentStep
<1>3. ASSUME NEW b \in Buyers, InsertBuyIntent(b) \/ LoseEligibility(b)
      PROVE  IInv'
  BY <1>3, InsertBuyIntentStep, LoseStep
<1>4. ASSUME NEW i \in Ids,
             \/ \E p \in Pages : Load(p, i)
             \/ ResumeBuyIntent(i) \/ SellerLoad(i) \/ Accept(i) \/ ApproveTransfer(i)
             \/ TransferTokens(i) \/ ReportRead(i) \/ ReportCommit(i)
      PROVE  IInv'
  BY <1>4, LoadStep, ResumeStep, SellerLoadStep, AcceptStep, ApproveTransferStep,
     TransferTokensStep, ReportReadStep, ReportCommitStep
<1>5. CASE Recheck \/ ProviderApprove \/ IssuerWhitelist \/ IssuerActivate
  BY <1>5, RecheckStep, ProviderStep, WhitelistStep, ActivateStep
<1> QED BY <1>1, <1>2, <1>3, <1>4, <1>5 DEF Next

(* Every reachable state of the market satisfies the inductive invariant.     *)
THEOREM MarketInvariant == Spec => []IInv
<1>1. Init => IInv
  BY InitInvariant
<1>2. IInv /\ [Next]_vars => IInv'
  BY NextInvariant
<1> QED BY <1>1, <1>2, PTL DEF Spec

(* Every variable has its type: amountRemaining stays between zero and the    *)
(* listed amount, and the seller's balance does not go below zero however     *)
(* acceptances interleave.                                                    *)
THEOREM TypeCorrect == Spec => []TypeOK
<1>1. IInv => TypeOK
  <2> SUFFICES ASSUME IInv PROVE TypeOK
    OBVIOUS
  <2>1. Types
    BY DEF IInv
  <2>2. \A l \in Listings : listing[l] # NoListing =>
         /\ listing[l].status \in OPEN_LISTING_STATUSES \cup {"FILLED", "CANCELLED"}
         /\ listing[l].remaining \in 0..Lot
    BY <2>1, MarketplaceAssumption DEF Types, ListingType
  <2>3. \A i \in Ids : Exists(i) =>
         /\ intents[i].status \in BUY_INTENT_STATUSES
         /\ intents[i].tx \in 0..MaxTransfers
    BY <2>1, IntentTyped DEF IntentType, Statuses
  <2>4. \A b \in Buyers : claims[b] \subseteq Topics
    BY <2>1 DEF Types
  <2>5. \A i \in Ids : acc[i].pc \in {"idle", "approve", "transfer", "report", "commit"}
    BY <2>1 DEF Types, AccType, Idle
  <2>6. history \subseteq 1..MaxTransfers
    <3>1. DOMAIN transfers = 1..Len(transfers) /\ Len(transfers) \in Nat
      BY <2>1 DEF Types
    <3> QED BY <2>1, <3>1, MarketplaceAssumption DEF Types
  <2> QED BY <2>1, <2>2, <2>3, <2>4, <2>5, <2>6 DEF TypeOK, Types
<1> QED BY <1>1, MarketInvariant, PTL

(* amountRemaining is the listed amount less what the history has recorded    *)
(* for the listing, although updateBuyIntentStatus subtracts from a remainder *)
(* that it read before its transaction.                                       *)
THEOREM RemainderCorrect == Spec => []RemainderAccountsForHistory
<1>1. IInv => RemainderAccountsForHistory
  <2> SUFFICES ASSUME IInv, NEW l \in Listings, listing[l] # NoListing
               PROVE  listing[l].remaining = IF Moved(TransfersOf(l) \cap history) >= Lot THEN 0
                                             ELSE Lot - Moved(TransfersOf(l) \cap history)
    BY DEF RemainderAccountsForHistory
  <2> DEFINE S == TransfersOf(l) \cap history
  <2>1. Types /\ S \in SUBSET DOMAIN transfers
    BY DEF IInv, TransfersOf
  <2>2. listing[l].remaining \in {0, Lot}
    BY <2>1 DEF Types, ListingType
  <2>3. listing[l].remaining = 0 <=> S # {}
    BY DEF IInv, Remainder
  <2> HIDE DEF S
  <2>4. Moved(S) \in Nat /\ (S = {} => Moved(S) = 0) /\ (S # {} => Moved(S) >= Lot)
    BY <2>1, SumOfAny
  <2>5. listing[l].remaining = IF Moved(S) >= Lot THEN 0 ELSE Lot - Moved(S)
    BY <2>2, <2>3, <2>4, MarketplaceAssumption
  <2> QED BY <2>5 DEF S
<1> QED BY <1>1, MarketInvariant, PTL

(* A listing for which no two acceptances overlapped and no answer was lost   *)
(* has at most one transfer on chain, though nothing on chain knows it.       *)
THEOREM OneDeliveryCorrect == Spec => []OneDeliveryPerUndisturbedListing
<1>1. IInv => OneDeliveryPerUndisturbedListing
  <2> SUFFICES ASSUME IInv, NEW l \in Listings \ raced
               PROVE  Cardinality(TransfersOf(l)) <= 1
    BY DEF OneDeliveryPerUndisturbedListing
  <2>1. \A j, k \in TransfersOf(l) : j = k
    BY DEF IInv, OneAcceptance
  <2>2. CASE TransfersOf(l) = {}
    BY <2>2, FS_EmptySet
  <2>3. ASSUME NEW k \in TransfersOf(l)
        PROVE  Cardinality(TransfersOf(l)) <= 1
    <3>1. TransfersOf(l) = {k}
      BY <2>1
    <3> QED BY <3>1, FS_Singleton
  <2> QED BY <2>2, <2>3
<1> QED BY <1>1, MarketInvariant, PTL

(* A buy intent that says TRANSFERRED names a confirmed transfer made for it. *)
THEOREM TransferredCorrect == Spec => []TransferredWasDelivered
<1>1. IInv => TransferredWasDelivered
  BY DEF IInv, Recorded, TransferredWasDelivered, Exists
<1> QED BY <1>1, MarketInvariant, PTL

-----------------------------------------------------------------------------
LEMMA LogNext ==
    ASSUME IInv, [Next]_vars
    PROVE  [Log!Next]_<<DOMAIN transfers, history>>
<1>1. Types /\ AcceptInv
  BY DEF IInv
<1>2. CASE UNCHANGED <<transfers, history>>
  BY <1>2
<1>3. ASSUME NEW i \in Ids, TransferTokens(i), ~UNCHANGED <<transfers, history>>
      PROVE  [Log!Next]_<<DOMAIN transfers, history>>
  <2>1. /\ transfers' = Append(transfers, [intent |-> i, amt |-> intents[i].amt])
        /\ Len(transfers) < MaxTransfers /\ history' = history
    BY <1>3 DEF TransferTokens
  <2>2. /\ DOMAIN transfers' = DOMAIN transfers \cup {Len(transfers) + 1}
        /\ Len(transfers) + 1 \in 1..MaxTransfers /\ Len(transfers) + 1 \notin DOMAIN transfers
    BY <1>1, <2>1, MarketplaceAssumption DEF Types
  <2>3. Log!Deliver(Len(transfers) + 1)
    BY <2>1, <2>2 DEF Log!Deliver
  <2> QED BY <2>2, <2>3 DEF Log!Next
<1>4. ASSUME NEW i \in Ids, ReportCommit(i)
      PROVE  [Log!Next]_<<DOMAIN transfers, history>>
  <2>1. /\ acc[i].tx \in 1..MaxTransfers /\ acc[i].tx \in DOMAIN transfers
        /\ transfers' = transfers /\ history' = history \cup {acc[i].tx}
    BY <1>1, <1>4, AccTyped DEF ReportCommit, AcceptInv, onChain
  <2>2. CASE acc[i].tx \in history
    <3>1. history' = history
      BY <2>1, <2>2
    <3> QED BY <2>1, <3>1
  <2>3. CASE acc[i].tx \notin history
    <3>1. Log!Record(acc[i].tx)
      BY <2>1, <2>3 DEF Log!Record
    <3> QED BY <2>1, <3>1 DEF Log!Next
  <2> QED BY <2>2, <2>3
<1>5. \/ UNCHANGED <<transfers, history>>
      \/ \E i \in Ids : TransferTokens(i) \/ ReportCommit(i)
  BY DEF Next, vars, onChain, CreateListing, CancelListing, CreateBuyIntent, InsertBuyIntent,
         LoseEligibility, Load, ResumeBuyIntent, SellerLoad, Accept, ApproveTransfer, ReportRead,
         Recheck, ProviderApprove, IssuerWhitelist, IssuerActivate
<1> QED BY <1>2, <1>3, <1>4, <1>5

(* Marketplace implements DeliveryLog: TokenTransferHistory lists only        *)
(* transfers that the chain has confirmed, and neither is taken back.         *)
THEOREM MarketLogCorrect == Spec => LogSpec
<1>1. Init => Log!Init
  BY DEF Init, Log!Init
<1>2. IInv /\ [Next]_vars => [Log!Next]_<<DOMAIN transfers, history>>
  BY LogNext
<1> QED BY <1>1, <1>2, MarketInvariant, PTL DEF Spec, LogSpec, Log!Spec

=============================================================================
