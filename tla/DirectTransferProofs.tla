------------------------ MODULE DirectTransferProofs ------------------------
(***************************************************************************)
(* Proofs about DirectTransfer: a request that says TRANSFERRED names its    *)
(* own transfer, claim hashes are in their column, twins overlapped, the     *)
(* sender's balance stays a number, and the ledger implements the log.       *)
(*                                                                           *)
(* The inductive invariant has four parts.  Shapes gives every row, view,    *)
(* call and transaction its fields.  Hashes says that every hash a call or   *)
(* a row carries is that of a confirmed transaction of the right kind, and   *)
(* that a transfer's hash has one carrier.  Overlap says what the history    *)
(* variable raced has to hold.  Reviews relates what a provider's page has   *)
(* loaded to the claims and to the request as it is by now.                  *)
(***************************************************************************)
EXTENDS DirectTransfer, SumTheorems, TLAPS

Hash == 0..MaxTxs
Statuses == {s \in VALID_STATUSES : /\ s = "PENDING_KYC" => 1 \in Topics
                                    /\ s = "PENDING_AML" => 2 \in Topics}
RowType == [to : Recipients, amt : Amounts, status : Statuses, kyc : Hash, aml : Hash,
            tx : Hash, saw : SUBSET Ids]
TransferTx == [kind : {"transfer"}, to : Recipients, amt : Amounts]
ClaimTx == [kind : {"claim"}, to : Recipients, topic : {1, 2}]
PostCall == [pc : {"post"}, to : Recipients, amt : Amounts, status : Statuses, tx : Hash]
InsertCall == [pc : {"insert"}, to : Recipients, amt : Amounts, status : Statuses, tx : Hash,
               saw : SUBSET Ids]
IssueCall == [pc : {"issue"}, id : Ids]
PatchCall == [pc : {"patch"}, id : Ids, status : Statuses, claim : Hash, tx : Hash]
WriteCall == [pc : {"update", "record"}, id : Ids, status : Statuses, claim : Hash, tx : Hash,
              was : Statuses]
FormCalls == {Idle} \cup [pc : {"transfer"}] \cup PostCall \cup InsertCall \cup PatchCall
             \cup WriteCall
DeskCalls == {Idle} \cup IssueCall \cup PatchCall \cup WriteCall
PreflightView == [to : Recipients, amt : Amounts, status : Statuses \ CLOSED_STATUSES]
DeskView(a) == [id : Ids, status : Shows(a) \cap Statuses]

Shapes ==
    /\ rows \in [Ids -> RowType \cup {NoRow}]
    /\ DOMAIN view = Actors /\ DOMAIN call = Actors
    /\ \A f \in Forms : view[f] \in PreflightView \cup {Nothing} /\ call[f] \in FormCalls
    /\ \A a \in Actors \ Forms : view[a] \in DeskView(a) \cup {Nothing} /\ call[a] \in DeskCalls
    /\ \A a \in Actors : call[a] # Idle => view[a] # Nothing
    /\ fids \subseteq Recipients
    /\ claims \in [Recipients -> SUBSET Topics]
    /\ irs \in [Recipients -> {"absent", "inactive", "active"}]
    /\ txs \in Seq(TransferTx \cup ClaimTx) /\ Len(txs) <= MaxTxs
    /\ ledger \in [1..MaxTxs -> {"none", "KYC_CLAIM", "AML_CLAIM", "TOKEN_TRANSFER"}]
    /\ faults \in 0..MaxFaults
    /\ raced \subseteq Ids

(* Approvals were pinned on a balance that covered them. *)
Funded ==
    /\ approval \in [Recipients -> [amt : Amounts, pinned : Int] \cup {NoApproval}]
    /\ \A to \in Recipients : approval[to] # NoApproval => approval[to].pinned >= approval[to].amt
    /\ Balance \in Nat

ClaimTxs == {k \in DOMAIN txs : txs[k].kind = "claim"}
Posts(c) == c.pc \in {"post", "insert"}
Writes(c) == c.pc \in {"patch", "update"}
Works(c) == c.pc \in {"issue", "patch", "update", "record"}

(* The hashes in a call, for the recipient it is about. *)
CallHashes(c) ==
    /\ Posts(c) => /\ c.status = "TRANSFERRED" <=> c.tx # 0
                   /\ c.tx # 0 => c.tx \in Transfers /\ txs[c.tx].to = c.to
    /\ Works(c) => Exists(c.id)
    /\ c.pc \in {"patch", "update", "record"} =>
         /\ c.status = "TRANSFERRED" <=> c.tx # 0
         /\ c.tx # 0 => c.tx \in Transfers /\ txs[c.tx].to = rows[c.id].to
         /\ c.claim # 0 => c.claim \in ClaimTxs
    /\ Writes(c) => c.status # "PENDING_KYC"

RowHashes(r) ==
    /\ rows[r].status = "TRANSFERRED" => rows[r].tx # 0
    /\ rows[r].tx # 0 => rows[r].tx \in Transfers /\ txs[rows[r].tx].to = rows[r].to

Carries(c, k) == (Posts(c) \/ Writes(c)) /\ c.tx = k

Hashes ==
    /\ \A a \in Actors : CallHashes(call[a])
    /\ \A r \in Ids : Exists(r) => RowHashes(r)
    /\ \A k \in 1..MaxTxs : ledger[k] = "TOKEN_TRANSFER" => k \in Transfers

(* A transfer's hash has one carrier: a row, or a call that has yet to write it. *)
OneCarrier ==
    /\ \A r, s \in Ids : r # s /\ Exists(r) /\ Exists(s) /\ rows[r].tx # 0 => rows[r].tx # rows[s].tx
    /\ \A a \in Actors, r \in Ids : Exists(r) /\ rows[r].tx # 0 => ~Carries(call[a], rows[r].tx)
    /\ \A a, b \in Actors : \A k \in 1..MaxTxs :
         a # b /\ Carries(call[a], k) => ~Carries(call[b], k)

Overlap ==
    /\ \A a, b \in Actors :
         a # b /\ Works(call[a]) /\ Works(call[b]) /\ call[a].id = call[b].id => call[a].id \in raced
    /\ \A r \in Ids : Open(r) /\ rows[r].tx # 0 => r \in raced
    /\ \A a \in Actors : Writes(call[a]) /\ call[a].tx # 0 /\ rows[call[a].id].tx # 0
                           => call[a].id \in raced

(* What a duplicate check has seen of the same recipient is closed. *)
SeenClosed(saw, to) ==
    \A r \in saw : Exists(r) /\ (Open(r) /\ rows[r].to = to => r \in raced)
Seen ==
    /\ \A a \in Actors : call[a].pc = "insert" => SeenClosed(call[a].saw, call[a].to)
    /\ \A r \in Ids : Exists(r) => SeenClosed(rows[r].saw, rows[r].to)

(* The claim in a call does not contradict the status the column follows. *)
FitsStatus(k, status) ==
    /\ txs[k].topic = 1 => status # "PENDING_AML"
    /\ txs[k].topic = 2 => status # "PENDING_KYC"

CallReview(c) ==
    /\ Writes(c) /\ c.status = "PENDING_AML" /\ c.id \notin raced => 1 \in claims[rows[c.id].to]
    /\ c.pc = "patch" /\ c.claim # 0 /\ c.id \notin raced => FitsStatus(c.claim, rows[c.id].status)
    /\ c.pc = "update" /\ c.claim # 0 /\ c.id \notin raced => FitsStatus(c.claim, c.was)

PageReview(p) ==
    view[p] # Nothing =>
    LET r == view[p].id
    IN /\ Exists(r)
       /\ call[p].pc = "issue" => call[p].id = r
       /\ view[p].status = "PENDING_AML" => rows[r].status # "PENDING_KYC"
       /\ view[p].status = "PENDING_KYC" /\ rows[r].status = "PENDING_AML" /\ r \notin raced
            => 1 \in claims[rows[r].to]

RowReview(r) ==
    /\ rows[r].kyc # 0 => rows[r].kyc \in ClaimTxs /\ txs[rows[r].kyc].topic = 1
    /\ rows[r].aml # 0 => rows[r].aml \in ClaimTxs /\ txs[rows[r].aml].topic = 2

Reviews ==
    /\ \A a \in Actors : CallReview(call[a])
    /\ \A p \in Actors \ Forms : PageReview(p)
    /\ \A p \in Actors \ ProviderPages : call[p].pc # "issue"
    /\ \A r \in Ids \ raced : Exists(r) => RowReview(r)

IInv == Shapes /\ Funded /\ Hashes /\ OneCarrier /\ Overlap /\ Seen /\ Reviews

-----------------------------------------------------------------------------
LEMMA Calls ==
    ASSUME Shapes, NEW a \in Actors
    PROVE  /\ call[a].pc \in {"idle", "transfer", "post", "insert", "issue", "patch", "update",
                              "record"}
           /\ call[a].pc = "idle" => call[a] = Idle
           /\ call[a].pc = "transfer" => a \in Forms
           /\ call[a].pc = "post" => a \in Forms /\ call[a] \in PostCall
           /\ call[a].pc = "insert" => a \in Forms /\ call[a] \in InsertCall
           /\ call[a].pc = "issue" => a \notin Forms /\ call[a] \in IssueCall
           /\ call[a].pc = "patch" => call[a] \in PatchCall
           /\ call[a].pc \in {"update", "record"} => call[a] \in WriteCall
           /\ "id" \in DOMAIN call[a] <=> Works(call[a])
           /\ Works(call[a]) => call[a].id \in Ids
<1>1. call[a] \in FormCalls \/ call[a] \in DeskCalls
  BY DEF Shapes
<1>2. a \in Forms => call[a] \in FormCalls
  BY DEF Shapes
<1>3. a \notin Forms => call[a] \in DeskCalls
  BY DEF Shapes
<1>4. CASE call[a] = Idle
  BY <1>4 DEF Idle, Works
<1>5. CASE call[a] \in [pc : {"transfer"}]
  BY <1>3, <1>5 DEF Idle, Works, DeskCalls, IssueCall, PatchCall, WriteCall
<1>6. CASE call[a] \in PostCall
  BY <1>3, <1>6 DEF Idle, Works, DeskCalls, PostCall, IssueCall, PatchCall, WriteCall
<1>7. CASE call[a] \in InsertCall
  BY <1>3, <1>7 DEF Idle, Works, DeskCalls, InsertCall, IssueCall, PatchCall, WriteCall
<1>8. CASE call[a] \in IssueCall
  BY <1>2, <1>8 DEF Idle, Works, FormCalls, PostCall, InsertCall, IssueCall, PatchCall, WriteCall
<1>9. CASE call[a] \in PatchCall
  BY <1>9 DEF Works, PatchCall
<1>10. CASE call[a] \in WriteCall
  BY <1>10 DEF Works, WriteCall
<1> QED BY <1>1, <1>4, <1>5, <1>6, <1>7, <1>8, <1>9, <1>10 DEF FormCalls, DeskCalls

LEMMA RowShape ==
    ASSUME Shapes, NEW r \in Ids
    PROVE  /\ Exists(r) => /\ rows[r] \in RowType
                           /\ rows[r].to \in Recipients /\ rows[r].tx \in Hash
                           /\ rows[r].status \in Statuses
           /\ ~Exists(r) => rows[r] = NoRow
<1>1. rows[r] \in RowType \/ rows[r] = NoRow
  BY DEF Shapes
<1> QED BY <1>1 DEF Exists, RowType, NoRow, Statuses, VALID_STATUSES, CLOSED_STATUSES

-----------------------------------------------------------------------------
(* A step that changes one page's call and view, and perhaps adds to raced.   *)
OneCall(a) ==
    /\ rows' = rows /\ txs' = txs /\ claims' = claims
    /\ raced \subseteq raced' /\ raced' \subseteq Ids
    /\ \A b \in Actors \ {a} : call'[b] = call[b] /\ view'[b] = view[b]

(* The same, when it may also add a transaction and claims. *)
Grows(a) ==
    /\ rows' = rows
    /\ \A k \in DOMAIN txs : k \in DOMAIN txs' /\ txs'[k] = txs[k]
    /\ \A to \in Recipients : claims[to] \subseteq claims'[to]
    /\ raced \subseteq raced' /\ raced' \subseteq Ids
    /\ \A b \in Actors \ {a} : call'[b] = call[b] /\ view'[b] = view[b]

(* What the page's new call has to satisfy. *)
Joined(a) ==
    Works(call'[a]) =>
      \/ Works(call[a]) /\ call'[a].id = call[a].id
      \/ call'[a].id \in raced'
      \/ \A b \in Actors \ {a} : Works(call[b]) => call[b].id # call'[a].id

LEMMA CarriedExists ==
    ASSUME IInv, NEW a \in Actors, NEW k \in 1..MaxTxs, Carries(call[a], k)
    PROVE  k \in DOMAIN txs
BY DEF IInv, Hashes, CallHashes, Carries, Posts, Writes, Transfers

LEMMA OneCallKeeps ==
    ASSUME IInv, NEW a \in Actors, Grows(a), Joined(a),
           CallHashes(call[a])',
           \A k \in 1..MaxTxs : Carries(call'[a], k) => Carries(call[a], k) \/ k \notin DOMAIN txs,
           Writes(call'[a]) /\ call'[a].tx # 0 /\ rows[call'[a].id].tx # 0 => call'[a].id \in raced',
           call'[a].pc = "insert" => SeenClosed(call[a].saw, call[a].to)',
           CallReview(call[a])',
           a \notin Forms => PageReview(a)',
           a \notin ProviderPages => call'[a].pc # "issue"
    PROVE  /\ \A b \in Actors : CallHashes(call[b])'
           /\ \A r \in Ids : Exists(r)' => RowHashes(r)'
           /\ OneCarrier' /\ Overlap' /\ Seen' /\ Reviews'
<1> USE DEF Grows, IInv
<1>0. /\ \A r : Exists(r)' = Exists(r) /\ Open(r)' = Open(r)
      /\ Transfers \subseteq Transfers' /\ ClaimTxs \subseteq ClaimTxs'
      /\ \A k \in Transfers \cup ClaimTxs : txs'[k] = txs[k]
  BY DEF Exists, Open, Transfers, ClaimTxs
<1>00. \A r \in Ids : Exists(r) => rows[r].to \in Recipients
  BY RowShape
<1>1. \A b \in Actors : CallHashes(call[b])'
  <2> SUFFICES ASSUME NEW b \in Actors \ {a}
               PROVE  CallHashes(call[b])'
    OBVIOUS
  <2>1. CallHashes(call[b]) /\ call'[b] = call[b]
    BY DEF Hashes
  <2> QED BY <1>0, <2>1 DEF CallHashes, Posts, Works, Writes
<1>2. \A r \in Ids : Exists(r)' => RowHashes(r)'
  BY <1>0 DEF Hashes, RowHashes
<1>3. OneCarrier'
  <2>1. \A r \in Ids : Exists(r) /\ rows[r].tx # 0 => rows[r].tx \in 1..MaxTxs /\ rows[r].tx \in DOMAIN txs
    BY RowShape, DirectTransferAssumption DEF Hash, Hashes, RowHashes, Transfers
  <2>2. \A b \in Actors : \A k \in 1..MaxTxs :
          Carries(call'[b], k) => Carries(call[b], k) \/ (b = a /\ k \notin DOMAIN txs)
    OBVIOUS
  <2>3. \A b \in Actors, k \in 1..MaxTxs : Carries(call[b], k) => k \in DOMAIN txs
    BY CarriedExists
  <2>4. (\A r, s \in Ids : r # s /\ Exists(r) /\ Exists(s) /\ rows[r].tx # 0 => rows[r].tx # rows[s].tx)'
    BY <1>0 DEF OneCarrier
  <2>5. (\A b \in Actors, r \in Ids : Exists(r) /\ rows[r].tx # 0 => ~Carries(call[b], rows[r].tx))'
    BY <1>0, <2>1, <2>2 DEF OneCarrier
  <2>6. (\A b, d \in Actors : \A k \in 1..MaxTxs :
           b # d /\ Carries(call[b], k) => ~Carries(call[d], k))'
    BY <2>2, <2>3 DEF OneCarrier
  <2> QED BY <2>4, <2>5, <2>6 DEF OneCarrier
<1>4. Overlap'
  <2>1. (\A b, d \in Actors :
         b # d /\ Works(call[b]) /\ Works(call[d]) /\ call[b].id = call[d].id => call[b].id \in raced)'
    BY DEF Overlap, Joined
  <2>2. (\A r \in Ids : Open(r) /\ rows[r].tx # 0 => r \in raced)'
    BY <1>0 DEF Overlap
  <2>3. (\A b \in Actors : Writes(call[b]) /\ call[b].tx # 0 /\ rows[call[b].id].tx # 0
                           => call[b].id \in raced)'
    BY DEF Overlap
  <2> QED BY <2>1, <2>2, <2>3 DEF Overlap
<1>5. Seen'
  BY <1>0 DEF Seen, SeenClosed
<1>6. Reviews'
  <2>1. (\A b \in Actors : CallReview(call[b]))'
    <3> SUFFICES ASSUME NEW b \in Actors \ {a}
                 PROVE  CallReview(call[b])'
      OBVIOUS
    <3>1. CallReview(call[b]) /\ CallHashes(call[b]) /\ call'[b] = call[b]
      BY DEF Reviews, Hashes
    <3>2. Works(call[b]) => call[b].id \in Ids /\ Exists(call[b].id)
      BY <3>1, Calls DEF CallHashes
    <3> QED BY <1>0, <1>00, <3>1, <3>2 DEF CallReview, CallHashes, FitsStatus, Works, Writes
  <2>2. (\A p \in Actors \ Forms : PageReview(p))'
    <3> SUFFICES ASSUME NEW p \in Actors \ Forms, p # a, view[p] # Nothing
                 PROVE  PageReview(p)'
      BY DEF PageReview
    <3>1. PageReview(p) /\ call'[p] = call[p] /\ view'[p] = view[p]
      BY DEF Reviews
    <3>2. view[p].id \in Ids
      BY DEF Shapes, DeskView
    <3> QED BY <1>0, <1>00, <3>1, <3>2 DEF PageReview
  <2>3. (\A p \in Actors \ ProviderPages : call[p].pc # "issue")'
    BY DEF Reviews
  <2>4. (\A r \in Ids \ raced : Exists(r) => RowReview(r))'
    BY <1>0 DEF Reviews, RowReview
  <2> QED BY <2>1, <2>2, <2>3, <2>4 DEF Reviews
<1> QED BY <1>1, <1>2, <1>3, <1>4, <1>5, <1>6

LEMMA OneCallGrows ==
    ASSUME NEW a \in Actors, OneCall(a)
    PROVE  Grows(a)
BY DEF OneCall, Grows

(* The fields of the page's new call and view, and of what else may change.   *)
Fits(a) ==
    /\ DOMAIN view' = Actors /\ DOMAIN call' = Actors
    /\ a \in Forms => view'[a] \in PreflightView \cup {Nothing} /\ call'[a] \in FormCalls
    /\ a \notin Forms => view'[a] \in DeskView(a) \cup {Nothing} /\ call'[a] \in DeskCalls
    /\ call'[a] # Idle => view'[a] # Nothing
    /\ faults' \in 0..MaxFaults

LEMMA OneCallFits ==
    ASSUME Shapes, NEW a \in Actors, OneCall(a), Fits(a), fids' = fids,
           irs' \in [Recipients -> {"absent", "inactive", "active"}],
           ledger' \in [1..MaxTxs -> {"none", "KYC_CLAIM", "AML_CLAIM", "TOKEN_TRANSFER"}]
    PROVE  Shapes'
<1> USE DEF OneCall, Fits
<1>1. (\A f \in Forms : view[f] \in PreflightView \cup {Nothing} /\ call[f] \in FormCalls)'
  BY DEF Shapes, Actors
<1>2. (\A b \in Actors \ Forms : view[b] \in DeskView(b) \cup {Nothing} /\ call[b] \in DeskCalls)'
  BY DEF Shapes
<1>3. (\A b \in Actors : call[b] # Idle => view[b] # Nothing)'
  BY DEF Shapes
<1> QED BY <1>1, <1>2, <1>3 DEF Shapes

LEMMA Faults ==
    ASSUME Shapes, Fault \/ UNCHANGED faults
    PROVE  faults' \in 0..MaxFaults
BY DirectTransferAssumption DEF Shapes, Fault

LEMMA FundedStays ==
    ASSUME Funded, approval' = approval, txs' = txs
    PROVE  Funded'
<1>1. Balance' = Balance
  BY DEF Balance, Transfers
<1> QED BY <1>1 DEF Funded

(* The page waits for nothing any more. *)
LEMMA CallEnds ==
    ASSUME IInv, NEW a \in Actors, OneCall(a), Fits(a), call'[a] = Idle,
           a \notin Forms => PageReview(a)',
           fids' = fids, irs' = irs, approval' = approval,
           ledger' \in [1..MaxTxs -> {"none", "KYC_CLAIM", "AML_CLAIM", "TOKEN_TRANSFER"}],
           \A k \in 1..MaxTxs : ledger'[k] = "TOKEN_TRANSFER" => k \in Transfers
    PROVE  IInv'
<1>1. /\ ~Posts(call'[a]) /\ ~Works(call'[a]) /\ ~Writes(call'[a])
      /\ call'[a].pc \notin {"patch", "update", "record", "insert", "issue"}
  BY DEF Idle, Posts, Works, Writes
<1>2. Shapes'
  BY OneCallFits DEF IInv, Shapes
<1>3. Funded'
  BY FundedStays DEF IInv, OneCall
<1>4. Transfers' = Transfers
  BY DEF OneCall, Transfers
<1>5. CallHashes(call[a])' /\ CallReview(call[a])' /\ Joined(a)
  BY <1>1 DEF CallHashes, CallReview, Joined, Posts, Works, Writes
<1>6. \A k \in 1..MaxTxs : Carries(call'[a], k) => Carries(call[a], k)
  BY <1>1 DEF Carries
<1>7. /\ \A b \in Actors : CallHashes(call[b])'
      /\ \A r \in Ids : Exists(r)' => RowHashes(r)'
      /\ OneCarrier' /\ Overlap' /\ Seen' /\ Reviews'
  BY <1>1, <1>5, <1>6, OneCallGrows, OneCallKeeps
<1> QED BY <1>2, <1>3, <1>4, <1>7 DEF IInv, Hashes

LEMMA PreflightInv ==
    ASSUME IInv, NEW f \in Forms, NEW to \in Recipients, NEW amt \in Amounts, Preflight(f, to, amt)
    PROVE  IInv'
<1>0. f \in Actors /\ Shapes
  BY DEF Actors, IInv
<1>1. PICK s \in Statuses \ CLOSED_STATUSES :
        view' = [view EXCEPT ![f] = [to |-> to, amt |-> amt, status |-> s]]
  BY DEF Preflight, PreflightStatus, Missing, Statuses, VALID_STATUSES, CLOSED_STATUSES
<1>2. /\ call' = call /\ call[f] = Idle /\ faults' \in 0..MaxFaults
      /\ UNCHANGED <<rows, onChain, ledger, raced>>
  BY <1>0, Faults DEF Preflight
<1>3. OneCall(f)
  BY <1>0, <1>1, <1>2 DEF OneCall, Shapes, onChain
<1>4. Fits(f)
  BY <1>0, <1>1, <1>2 DEF Fits, Shapes, PreflightView, FormCalls
<1> QED BY <1>0, <1>2, <1>3, <1>4, CallEnds DEF onChain, Shapes, IInv, Hashes

(* The page starts a call or takes it one statement further. *)
LEMMA CallGoesOn ==
    ASSUME IInv, NEW a \in Actors, OneCall(a), Fits(a), Joined(a),
           CallHashes(call[a])', CallReview(call[a])',
           \A k \in 1..MaxTxs : Carries(call'[a], k) => Carries(call[a], k),
           Writes(call'[a]) /\ call'[a].tx # 0 /\ rows[call'[a].id].tx # 0 => call'[a].id \in raced',
           call'[a].pc = "insert" => SeenClosed(call[a].saw, call[a].to)',
           a \notin Forms => PageReview(a)',
           a \notin ProviderPages => call'[a].pc # "issue",
           fids' = fids, irs' \in [Recipients -> {"absent", "inactive", "active"}],
           ledger' = ledger, Funded'
    PROVE  IInv'
<1>1. Shapes'
  BY OneCallFits DEF IInv, Shapes
<1>2. Transfers' = Transfers
  BY DEF OneCall, Transfers
<1>3. /\ \A b \in Actors : CallHashes(call[b])'
      /\ \A r \in Ids : Exists(r)' => RowHashes(r)'
      /\ OneCarrier' /\ Overlap' /\ Seen' /\ Reviews'
  BY OneCallGrows, OneCallKeeps
<1> QED BY <1>1, <1>2, <1>3 DEF IInv, Hashes

LEMMA FormGoesOn ==
    ASSUME Shapes, NEW f \in Forms, NEW c \in FormCalls, call' = [call EXCEPT ![f] = c],
           view' = view, view[f] # Nothing, faults' \in 0..MaxFaults
    PROVE  Fits(f) /\ call'[f] = c
<1>1. f \in Actors
  BY DEF Actors
<1> QED BY <1>1 DEF Fits, Shapes

LEMMA AmountsInt == \A amt \in Amounts : amt \in Int
BY DirectTransferAssumption

LEMMA OnboardInv ==
    ASSUME IInv, NEW f \in TransferPages, Onboard(f)
    PROVE  IInv'
<1>0. f \in Actors /\ f \in Forms /\ Shapes
  BY DEF Actors, Forms, IInv
<1>1. view[f] \in PreflightView /\ view[f] # Nothing
  BY <1>0 DEF Onboard, Shapes, Nothing
<1>2. /\ call' = [call EXCEPT ![f] = [pc |-> "post", to |-> view[f].to, amt |-> view[f].amt,
                                      status |-> view[f].status, tx |-> 0]]
      /\ UNCHANGED <<rows, view, onChain, ledger, faults, raced>>
  BY DEF Onboard, Post
<1>3. call'[f] = [pc |-> "post", to |-> view[f].to, amt |-> view[f].amt,
                  status |-> view[f].status, tx |-> 0]
  BY <1>0, <1>2 DEF Shapes
<1>4. OneCall(f)
  BY <1>0, <1>2 DEF OneCall, Shapes, onChain
<1>5. call'[f] \in PostCall
  BY <1>1, <1>3, DirectTransferAssumption DEF PostCall, PreflightView, Hash
<1>6. Fits(f)
  <2>1. call'[f] \in FormCalls
    BY <1>5 DEF FormCalls
  <2> QED BY <1>0, <1>1, <1>2, <2>1, FormGoesOn DEF Shapes
<1>7. ~Works(call'[f]) /\ ~Writes(call'[f]) /\ call'[f].pc = "post"
  BY <1>3 DEF Works, Writes
<1>8. CallHashes(call[f])' /\ CallReview(call[f])' /\ Joined(f)
  BY <1>1, <1>3, <1>7 DEF CallHashes, CallReview, Joined, PreflightView, CLOSED_STATUSES,
                          Posts, Works, Writes
<1>9. \A k \in 1..MaxTxs : Carries(call'[f], k) => Carries(call[f], k)
  BY <1>3 DEF Carries
<1>10. Funded'
  BY <1>2, FundedStays DEF IInv, onChain
<1> QED BY <1>0, <1>2, <1>4, <1>6, <1>7, <1>8, <1>9, <1>10, CallGoesOn DEF onChain, Shapes

LEMMA ApproveInv ==
    ASSUME IInv, NEW f \in Forms, ApproveTransfer(f)
    PROVE  IInv'
<1>0. f \in Actors /\ Shapes /\ Funded
  BY DEF Actors, IInv
<1>1. view[f] \in PreflightView /\ view[f] # Nothing
  BY <1>0 DEF ApproveTransfer, Shapes, Nothing
<1>2. /\ call' = [call EXCEPT ![f] = [pc |-> "transfer"]]
      /\ UNCHANGED <<rows, view, fids, claims, irs, txs, ledger, faults, raced>>
  BY DEF ApproveTransfer
<1>3. call'[f] = [pc |-> "transfer"]
  BY <1>0, <1>2 DEF Shapes
<1>4. OneCall(f)
  BY <1>0, <1>2 DEF OneCall, Shapes
<1>6. Fits(f)
  <2>1. [pc |-> "transfer"] \in FormCalls
    BY DEF FormCalls
  <2> QED BY <1>0, <1>1, <1>2, <2>1, FormGoesOn DEF Shapes
<1>7. ~Works(call'[f]) /\ ~Writes(call'[f]) /\ ~Posts(call'[f]) /\ call'[f].pc = "transfer"
  BY <1>3 DEF Works, Writes, Posts
<1>8. CallHashes(call[f])' /\ CallReview(call[f])' /\ Joined(f)
  BY <1>3, <1>7 DEF CallHashes, CallReview, Joined, Posts, Works, Writes
<1>9. \A k \in 1..MaxTxs : Carries(call'[f], k) => Carries(call[f], k)
  BY <1>7 DEF Carries
<1>10. Funded'
  <2>1. Balance' = Balance /\ Balance \in Nat
    BY <1>0, <1>2 DEF Balance, Transfers, Funded
  <2>2. view[f].to \in Recipients /\ view[f].amt \in Amounts /\ view[f].amt \in Int
    BY <1>1, AmountsInt DEF PreflightView
  <2>3. /\ approval' = [approval EXCEPT ![view[f].to] = [amt |-> view[f].amt, pinned |-> Balance]]
        /\ Balance >= view[f].amt
    BY DEF ApproveTransfer, Approves
  <2> QED BY <1>0, <2>1, <2>2, <2>3 DEF Funded
<1> QED BY <1>0, <1>2, <1>4, <1>6, <1>7, <1>8, <1>9, <1>10, CallGoesOn DEF Shapes

LEMMA JoinsRaced ==
    ASSUME Shapes, NEW a \in Actors, NEW r \in Ids, Joins(r), ~Works(call[a]), call'[a].id = r
    PROVE  raced \subseteq raced' /\ raced' \subseteq Ids /\ Joined(a)
<1>1. raced \subseteq raced' /\ raced' \subseteq Ids
  BY DEF Joins, Shapes
<1>2. ASSUME NEW b \in Actors, Works(call[b]), call[b].id = r
      PROVE  r \in raced'
  <2>1. b \in WorkingOn(r)
    BY <1>2, Calls DEF WorkingOn
  <2> QED BY <2>1 DEF Joins
<1> QED BY <1>1, <1>2 DEF Joined

LEMMA FindDuplicateInv ==
    ASSUME IInv, NEW f \in Forms, FindDuplicate(f)
    PROVE  IInv'
<1> DEFINE c == call[f]
<1>0. f \in Actors /\ Shapes /\ c \in PostCall /\ ~Works(c)
  BY Calls DEF Actors, IInv, FindDuplicate, Works
<1>1. /\ c.to \in Recipients /\ c.amt \in Amounts /\ c.status \in Statuses /\ c.tx \in Hash
      /\ view[f] # Nothing
  BY <1>0 DEF PostCall, Shapes, FindDuplicate, Idle
<1>2. UNCHANGED <<rows, view, onChain, ledger, faults>>
  BY DEF FindDuplicate
<1>3. Funded'
  BY <1>2, FundedStays DEF IInv, onChain
<1>4. /\ c.status = "TRANSFERRED" <=> c.tx # 0
      /\ c.tx # 0 => c.tx \in Transfers /\ txs[c.tx].to = c.to
  BY <1>0 DEF IInv, Hashes, CallHashes, FindDuplicate, Posts
<1>5. \A r : Exists(r)' = Exists(r) /\ Open(r)' = Open(r)
  BY <1>2 DEF Exists, Open
<1>6. Transfers' = Transfers
  BY <1>2 DEF Transfers, onChain
<1>7. Carries(c, c.tx)
  BY <1>0 DEF Carries, Posts, PostCall
<1>8. CASE Duplicates(c.to) = {} /\ raced' = raced /\
           call' = [call EXCEPT ![f] = [pc |-> "insert", to |-> c.to, amt |-> c.amt,
                                        status |-> c.status, tx |-> c.tx,
                                        saw |-> {r \in Ids : Exists(r)}]]
  <2> DEFINE d == [pc |-> "insert", to |-> c.to, amt |-> c.amt, status |-> c.status,
                   tx |-> c.tx, saw |-> {r \in Ids : Exists(r)}]
  <2>1. d \in FormCalls
    BY <1>1 DEF FormCalls, InsertCall
  <2>2. Fits(f) /\ call'[f] = d
    <3> HIDE DEF d
    <3> QED BY <1>0, <1>1, <1>2, <1>8, <2>1, FormGoesOn DEF d, Shapes
  <2>3. OneCall(f)
    BY <1>0, <1>2, <1>8 DEF OneCall, Shapes, onChain
  <2>4. ~Works(call'[f]) /\ ~Writes(call'[f]) /\ call'[f].pc = "insert"
    BY <2>2 DEF Works, Writes
  <2>5. CallReview(call[f])' /\ Joined(f)
    BY <2>4 DEF CallReview, Joined, Writes, Works
  <2>6. CallHashes(call[f])'
    BY <1>2, <1>4, <1>6, <2>2, <2>4 DEF CallHashes, Works, Writes, onChain
  <2>7. SeenClosed(call[f].saw, call[f].to)'
    BY <1>2, <1>5, <1>8, <2>2 DEF SeenClosed, Duplicates
  <2>8. \A k \in 1..MaxTxs : Carries(call'[f], k) => Carries(call[f], k)
    BY <1>7, <2>2 DEF Carries
  <2> QED BY <1>0, <1>2, <1>3, <2>2, <2>3, <2>4, <2>5, <2>6, <2>7, <2>8, CallGoesOn
          DEF onChain, Shapes
<1>9. ASSUME c.status = "TRANSFERRED", NEW r \in Duplicates(c.to), Joins(r),
             call' = [call EXCEPT ![f] = Patch(r, c.status, 0, c.tx)]
      PROVE  IInv'
  <2> DEFINE d == [pc |-> "patch", id |-> r, status |-> c.status, claim |-> 0, tx |-> c.tx]
  <2>0. r \in Ids /\ Open(r) /\ Exists(r) /\ rows[r].to = c.to
    BY DEF Duplicates, Open
  <2>1. d \in FormCalls
    BY <1>1, <2>0, DirectTransferAssumption DEF FormCalls, PatchCall, Hash
  <2>2. Fits(f) /\ call'[f] = d
    <3> HIDE DEF d
    <3> QED BY <1>0, <1>1, <1>2, <1>9, <2>1, FormGoesOn DEF d, Shapes, Patch
  <2>3. raced \subseteq raced' /\ raced' \subseteq Ids /\ Joined(f)
    BY <1>0, <1>9, <2>0, <2>2, JoinsRaced
  <2>4. OneCall(f)
    BY <1>0, <1>2, <1>9, <2>3 DEF OneCall, Shapes, onChain
  <2>5. CallReview(call[f])'
    BY <1>9, <2>2 DEF CallReview
  <2>6. CallHashes(call[f])'
    BY <1>2, <1>4, <1>5, <1>6, <1>9, <2>0, <2>2 DEF CallHashes, Posts, Works, Writes, onChain
  <2>7. rows[r].tx # 0 => r \in raced'
    BY <2>0, <2>3 DEF IInv, Overlap
  <2>8. \A k \in 1..MaxTxs : Carries(call'[f], k) => Carries(call[f], k)
    BY <1>7, <2>2 DEF Carries
  <2>9. call'[f].pc = "patch" /\ call'[f].id = r
    BY <2>2
  <2> QED BY <1>0, <1>2, <1>3, <2>2, <2>3, <2>4, <2>5, <2>6, <2>7, <2>8, <2>9, CallGoesOn
          DEF onChain, Shapes
<1>10. CASE call' = [call EXCEPT ![f] = Idle] /\ raced' = raced
  <2>1. Fits(f) /\ call'[f] = Idle
    BY <1>0, <1>1, <1>2, <1>10, FormGoesOn DEF Shapes, FormCalls
  <2>2. OneCall(f)
    BY <1>0, <1>2, <1>10 DEF OneCall, Shapes, onChain
  <2> QED BY <1>0, <1>2, <2>1, <2>2, CallEnds DEF onChain, Shapes, IInv, Hashes
<1> QED BY <1>8, <1>9, <1>10 DEF FindDuplicate

LEMMA FindOneInv ==
    ASSUME IInv, NEW a \in Actors, FindOne(a)
    PROVE  IInv'
<1> DEFINE c == call[a]
           d == [pc |-> "update", id |-> c.id, status |-> c.status, claim |-> c.claim,
                 tx |-> c.tx, was |-> rows[c.id].status]
<1>0. Shapes /\ c \in PatchCall /\ Works(c) /\ Writes(c) /\ c.pc = "patch" /\ view[a] # Nothing
  BY Calls DEF IInv, FindOne, Works, Writes, Shapes, Idle
<1>1. c.id \in Ids /\ c.status \in Statuses /\ c.claim \in Hash /\ c.tx \in Hash /\ Exists(c.id)
  BY <1>0 DEF PatchCall, IInv, Hashes, CallHashes
<1>2. rows[c.id].status \in Statuses
  BY <1>0, <1>1, RowShape
<1>3. call' = [call EXCEPT ![a] = d] /\ UNCHANGED <<rows, view, onChain, ledger, faults, raced>>
  BY DEF FindOne
<1>4. d \in WriteCall
  BY <1>1, <1>2 DEF WriteCall
<1>5. call'[a] = d
  BY <1>0, <1>3 DEF Shapes
<1>6. OneCall(a)
  BY <1>0, <1>3 DEF OneCall, Shapes, onChain
<1>7. Fits(a)
  <2>1. d \in FormCalls /\ d \in DeskCalls
    BY <1>4 DEF FormCalls, DeskCalls
  <2> HIDE DEF d
  <2> QED BY <1>0, <1>3, <1>5, <2>1 DEF Fits, Shapes
<1>8. Funded'
  BY <1>3, FundedStays DEF IInv, onChain
<1>9. /\ Transfers' = Transfers /\ ClaimTxs' = ClaimTxs
      /\ \A r : Exists(r)' = Exists(r)
  BY <1>3 DEF Transfers, ClaimTxs, Exists, onChain
<1>10. call'[a].pc = "update" /\ call'[a].id = c.id /\ call'[a].tx = c.tx
  BY <1>5
<1>11. CallHashes(call[a])'
  BY <1>0, <1>3, <1>5, <1>9 DEF IInv, Hashes, CallHashes, Posts, Works, Writes, onChain
<1>12. CallReview(call[a])'
  BY <1>0, <1>3, <1>5 DEF IInv, Reviews, CallReview, FitsStatus, Writes, onChain
<1>13. \A k \in 1..MaxTxs : Carries(call'[a], k) => Carries(call[a], k)
  BY <1>0, <1>10 DEF Carries
<1>14. Joined(a)
  BY <1>0, <1>10 DEF Joined
<1>15. c.tx # 0 /\ rows[c.id].tx # 0 => c.id \in raced'
  BY <1>0, <1>3 DEF IInv, Overlap
<1>16. a \notin Forms => PageReview(a)'
  BY <1>3, <1>9, <1>10 DEF IInv, Reviews, PageReview, onChain
<1> QED BY <1>0, <1>3, <1>6, <1>7, <1>8, <1>10, <1>11, <1>12, <1>13, <1>14, <1>15, <1>16, CallGoesOn
        DEF onChain, Shapes

(* A page's view while its call is answered or fails: as it was, cleared, or   *)
(* moved on to the activation of the same request.                             *)
LEMMA ViewAfterCall ==
    ASSUME IInv, NEW a \in Actors, call[a] # Idle, NEW v,
           \/ v = view[a]
           \/ v = Nothing
           \/ /\ a \in IssuerPages
              /\ v = [view[a] EXCEPT !.status = "PENDING_ISSUER_ACTIVATION"],
           view' = [view EXCEPT ![a] = v], call' = [call EXCEPT ![a] = Idle], rows' = rows,
           claims' = claims, raced' = raced, faults' \in 0..MaxFaults
    PROVE  Fits(a) /\ call'[a] = Idle /\ (a \notin Forms => PageReview(a)')
<1>1. Shapes /\ view'[a] = v /\ call'[a] = Idle
  BY DEF Shapes, IInv
<1>2. view[a] # Nothing
  BY <1>1 DEF Shapes
<1>3. \A r : Exists(r)' = Exists(r)
  BY DEF Exists
<1>4. Idle \in FormCalls /\ Idle \in DeskCalls
  BY DEF FormCalls, DeskCalls
<1>5. CASE v = view[a]
  <2>1. Fits(a)
    BY <1>1, <1>4, <1>5 DEF Fits, Shapes
  <2>2. a \notin Forms => PageReview(a)'
    BY <1>1, <1>3, <1>5 DEF IInv, Reviews, PageReview, Idle
  <2> QED BY <1>1, <2>1, <2>2
<1>6. CASE v = Nothing
  <2>1. Fits(a)
    BY <1>1, <1>4, <1>6 DEF Fits, Shapes
  <2>2. PageReview(a)'
    BY <1>1, <1>6 DEF PageReview
  <2> QED BY <1>1, <2>1, <2>2
<1>7. CASE a \in IssuerPages /\ v = [view[a] EXCEPT !.status = "PENDING_ISSUER_ACTIVATION"]
  <2>1. a \notin Forms /\ a \notin ProviderPages
    BY <1>7, DirectTransferAssumption
  <2>2. view[a] \in DeskView(a)
    BY <1>1, <1>2, <2>1 DEF Shapes
  <2>3. v = [id |-> view[a].id, status |-> "PENDING_ISSUER_ACTIVATION"]
    BY <1>7, <2>2 DEF DeskView
  <2>4. v \in DeskView(a)
    BY <2>1, <2>2, <2>3 DEF DeskView, Shows, Statuses, VALID_STATUSES
  <2>5. Fits(a)
    BY <1>1, <1>4, <2>1, <2>4 DEF Fits, Shapes
  <2>6. Exists(view[a].id)
    BY <1>2, <2>1 DEF IInv, Reviews, PageReview
  <2>7. PageReview(a)'
    BY <1>1, <1>3, <2>3, <2>6 DEF PageReview, Idle
  <2> QED BY <1>1, <2>5, <2>7
<1> QED BY <1>5, <1>6, <1>7

LEMMA RecordInv ==
    ASSUME IInv, NEW a \in Actors, Record(a)
    PROVE  IInv'
<1> DEFINE c == call[a]
<1>0. Shapes /\ c \in WriteCall /\ c # Idle /\ c.pc = "record"
  BY Calls DEF IInv, Record, Idle
<1>1. /\ c.claim # 0 => c.claim \in ClaimTxs
      /\ c.tx # 0 => c.tx \in Transfers
  BY <1>0 DEF IInv, Hashes, CallHashes
<1>2. /\ call' = [call EXCEPT ![a] = Idle] /\ view' = Answered(a)
      /\ UNCHANGED <<rows, onChain, faults, raced>>
  BY DEF Record
<1>3. PICK v : /\ view' = [view EXCEPT ![a] = v]
               /\ \/ v = view[a]
                  \/ v = Nothing
                  \/ /\ a \in IssuerPages
                     /\ v = [view[a] EXCEPT !.status = "PENDING_ISSUER_ACTIVATION"]
  BY <1>0, <1>2 DEF Answered, Shapes
<1>4. Fits(a) /\ call'[a] = Idle /\ (a \notin Forms => PageReview(a)')
  BY <1>0, <1>2, <1>3, ViewAfterCall DEF onChain, Shapes
<1>5. OneCall(a)
  BY <1>0, <1>2, <1>3 DEF OneCall, Shapes, onChain
<1>6. ledger' = [k \in 1..MaxTxs |->
                   IF k = c.claim /\ c.was = "PENDING_KYC" THEN "KYC_CLAIM"
                   ELSE IF k = c.claim /\ c.was = "PENDING_AML" THEN "AML_CLAIM"
                   ELSE IF k = c.tx THEN "TOKEN_TRANSFER"
                   ELSE ledger[k]]
  BY <1>0 DEF Record, Shapes
<1>7. ledger' \in [1..MaxTxs -> {"none", "KYC_CLAIM", "AML_CLAIM", "TOKEN_TRANSFER"}]
  BY <1>0, <1>6 DEF Shapes
<1>8. \A k \in 1..MaxTxs : ledger'[k] = "TOKEN_TRANSFER" => k \in Transfers
  BY <1>1, <1>6 DEF IInv, Hashes
<1> QED BY <1>2, <1>4, <1>5, <1>7, <1>8, CallEnds DEF onChain

LEMMA LostInv ==
    ASSUME IInv, NEW a \in Actors, Lost(a)
    PROVE  IInv'
<1>0. Shapes /\ call[a] # Idle /\ faults' \in 0..MaxFaults
  BY Faults DEF IInv, Lost, Idle
<1>2. /\ call' = [call EXCEPT ![a] = Idle] /\ view' = Unanswered(a)
      /\ UNCHANGED <<rows, onChain, ledger, raced>>
  BY DEF Lost
<1>3. PICK v : view' = [view EXCEPT ![a] = v] /\ (v = view[a] \/ v = Nothing)
  BY <1>0, <1>2 DEF Unanswered, Shapes
<1>4. Fits(a) /\ call'[a] = Idle /\ (a \notin Forms => PageReview(a)')
  BY <1>0, <1>2, <1>3, ViewAfterCall DEF onChain
<1>5. OneCall(a)
  BY <1>0, <1>2, <1>3 DEF OneCall, Shapes, onChain
<1> QED BY <1>0, <1>2, <1>4, <1>5, CallEnds DEF onChain, Shapes, IInv, Hashes

LEMMA LoadInv ==
    ASSUME IInv, NEW a \in ProviderPages \cup IssuerPages, NEW r \in Ids, Load(a, r)
    PROVE  IInv'
<1>0. a \in Actors /\ a \notin Forms /\ Shapes
  BY DirectTransferAssumption DEF Actors, IInv
<1>1. /\ call' = call /\ call[a] = Idle /\ rows[r].status \in Shows(a)
      /\ view' = [view EXCEPT ![a] = [id |-> r, status |-> rows[r].status]]
      /\ UNCHANGED <<rows, onChain, ledger, faults, raced>>
  BY DEF Load
<1>2. view'[a] = [id |-> r, status |-> rows[r].status]
  BY <1>0, <1>1 DEF Shapes
<1>3. OneCall(a)
  BY <1>0, <1>1 DEF OneCall, Shapes, onChain
<1>5. Exists(r)
  BY <1>1 DEF Exists, Shows
<1>4. Fits(a)
  <2>1. rows[r].status \in Statuses
    BY <1>0, <1>5, RowShape
  <2> QED BY <1>0, <1>1, <1>2, <2>1 DEF Fits, Shapes, DeskView
<1>6. PageReview(a)'
  BY <1>1, <1>2, <1>5 DEF PageReview, Exists, Idle
<1> QED BY <1>0, <1>1, <1>3, <1>4, <1>6, CallEnds DEF onChain, Shapes, IInv, Hashes

(* A provider's or an issuer's page sends a PATCH without a claim. *)
LEMMA DeskPatches ==
    ASSUME IInv, NEW a \in Actors \ Forms, view[a] # Nothing, NEW r \in Ids, r = view[a].id,
           NEW s \in Statuses, s # "TRANSFERRED", s # "PENDING_KYC",
           s = "PENDING_AML" => 1 \in claims[rows[r].to],
           call' = [call EXCEPT ![a] = Patch(r, s, 0, 0)], view' = view,
           \/ call[a] = Idle /\ Joins(r)
           \/ call[a].pc = "issue" /\ raced' = raced,
           rows' = rows, txs' = txs, claims' = claims, fids' = fids, approval' = approval,
           irs' \in [Recipients -> {"absent", "inactive", "active"}],
           ledger' = ledger, faults' \in 0..MaxFaults
    PROVE  IInv'
<1> DEFINE d == [pc |-> "patch", id |-> r, status |-> s, claim |-> 0, tx |-> 0]
<1>0. Shapes /\ a \in Actors /\ a \notin Forms
  BY DEF IInv
<1>1. /\ Exists(r)
      /\ call[a].pc = "issue" => call[a].id = r
      /\ view[a].status = "PENDING_AML" => rows[r].status # "PENDING_KYC"
      /\ view[a].status = "PENDING_KYC" /\ rows[r].status = "PENDING_AML" /\ r \notin raced
            => 1 \in claims[rows[r].to]
  BY DEF IInv, Reviews, PageReview
<1>2. call'[a] = d
  BY <1>0 DEF Shapes, Patch
<1>3. d \in DeskCalls
  BY DirectTransferAssumption DEF DeskCalls, PatchCall, Hash
<1>4. Fits(a)
  <2> HIDE DEF d
  <2> QED BY <1>0, <1>2, <1>3 DEF Fits, Shapes
<1>5. call'[a].pc = "patch" /\ call'[a].id = r /\ call'[a].tx = 0 /\ call'[a].claim = 0
      /\ call'[a].status = s
  BY <1>2
<1>6. raced \subseteq raced' /\ raced' \subseteq Ids /\ Joined(a)
  <2>1. CASE call[a] = Idle /\ Joins(r)
    <3>1. ~Works(call[a])
      BY <2>1 DEF Works, Idle
    <3> QED BY <1>0, <1>5, <2>1, <3>1, JoinsRaced
  <2>2. CASE call[a].pc = "issue" /\ raced' = raced
    BY <1>0, <1>1, <1>5, <2>2 DEF Joined, Works, Shapes
  <2> QED BY <2>1, <2>2
<1>7. OneCall(a)
  BY <1>0, <1>6 DEF OneCall, Shapes
<1>8. \A q : Exists(q)' = Exists(q)
  BY DEF Exists
<1>9. CallHashes(call[a])'
  BY <1>1, <1>5, <1>8 DEF CallHashes, Posts, Works, Writes
<1>10. CallReview(call[a])'
  BY <1>5 DEF CallReview
<1>11. \A k \in 1..MaxTxs : Carries(call'[a], k) => Carries(call[a], k)
  BY <1>5 DEF Carries
<1>12. PageReview(a)'
  BY <1>1, <1>5, <1>6, <1>8 DEF PageReview
<1>13. Funded'
  BY FundedStays DEF IInv
<1> QED BY <1>0, <1>4, <1>5, <1>6, <1>7, <1>9, <1>10, <1>11, <1>12, <1>13, CallGoesOn

LEMMA DeskShape ==
    ASSUME IInv, NEW a \in ProviderPages \cup IssuerPages, view[a] # Nothing
    PROVE  /\ a \in Actors \ Forms /\ view[a] \in DeskView(a) /\ view[a].id \in Ids
           /\ Exists(view[a].id) /\ rows[view[a].id].to \in Recipients
           /\ a \in ProviderPages => view[a].status \in {"PENDING_KYC", "PENDING_AML"}
           /\ view[a].status \in Statuses
<1>1. a \in Actors \ Forms
  BY DirectTransferAssumption DEF Actors
<1>2. view[a] \in DeskView(a)
  BY <1>1 DEF IInv, Shapes
<1>3. view[a].id \in Ids /\ view[a].status \in Shows(a) /\ view[a].status \in Statuses
  BY <1>2 DEF DeskView
<1>4. Exists(view[a].id)
  BY <1>1 DEF IInv, Reviews, PageReview
<1> QED BY <1>1, <1>2, <1>3, <1>4, RowShape DEF IInv, Shows

LEMMA ReviewInv ==
    ASSUME IInv, NEW p \in ProviderPages, Review(p)
    PROVE  IInv'
<1> DEFINE r == view[p].id
           to == rows[r].to
<1>0. /\ Shapes /\ p \in Actors \ Forms /\ view[p] # Nothing /\ call[p] = Idle
      /\ r \in Ids /\ Exists(r) /\ to \in Recipients
      /\ view[p].status \in {"PENDING_KYC", "PENDING_AML"}
  BY DeskShape DEF IInv, Review
<1>1. /\ Joins(r) /\ UNCHANGED <<rows, view, onChain, ledger>> /\ faults' \in 0..MaxFaults
  BY <1>0, Faults DEF Review
<1>2. CASE call' = [call EXCEPT ![p] = Patch(r, "ACTION_REQUIRED_RECIPIENT_FID", 0, 0)]
  <2>1. "ACTION_REQUIRED_RECIPIENT_FID" \in Statuses
    BY DEF Statuses, VALID_STATUSES
  <2> QED BY <1>0, <1>1, <1>2, <2>1, DeskPatches DEF onChain, Shapes
<1>3. CASE ReviewTopic(p) \in claims[to] /\ call' = [call EXCEPT ![p] = Forward(p, 0)]
  <2>1. PICK s \in Statuses : /\ s \in {"PENDING_AML", "PENDING_ISSUER_WHITELIST"}
                              /\ s = "PENDING_AML" => ReviewTopic(p) = 1
                              /\ Forward(p, 0) = Patch(r, s, 0, 0)
    BY DEF Forward, Statuses, VALID_STATUSES
  <2>2. s = "PENDING_AML" => 1 \in claims[rows[r].to]
    BY <1>3, <2>1
  <2> QED BY <1>0, <1>1, <1>3, <2>1, <2>2, DeskPatches DEF onChain, Shapes
<1>4. CASE call' = [call EXCEPT ![p] = [pc |-> "issue", id |-> r]]
  <2>1. call'[p] = [pc |-> "issue", id |-> r]
    BY <1>0, <1>4 DEF Shapes
  <2>2. [pc |-> "issue", id |-> r] \in DeskCalls
    BY <1>0 DEF DeskCalls, IssueCall
  <2>3. Fits(p)
    BY <1>0, <1>1, <2>1, <2>2, <1>4 DEF Fits, Shapes
  <2>4. call'[p].pc = "issue" /\ call'[p].id = r
    BY <2>1
  <2>5. raced \subseteq raced' /\ raced' \subseteq Ids /\ Joined(p)
    <3>1. ~Works(call[p])
      BY <1>0 DEF Works, Idle
    <3> QED BY <1>0, <1>1, <2>4, <3>1, JoinsRaced
  <2>6. OneCall(p)
    BY <1>0, <1>1, <1>4, <2>5 DEF OneCall, Shapes, onChain
  <2>7. Exists(r)' /\ Exists(call[p].id)'
    BY <1>0, <1>1, <2>4 DEF Exists
  <2>8. CallHashes(call[p])' /\ CallReview(call[p])'
    BY <2>4, <2>7 DEF CallHashes, CallReview, Posts, Works, Writes
  <2>9. \A k \in 1..MaxTxs : Carries(call'[p], k) => Carries(call[p], k)
    BY <2>4 DEF Carries, Posts, Writes
  <2>10. PageReview(p)'
    BY <1>0, <1>1, <2>4, <2>5, <2>7 DEF IInv, Reviews, PageReview, onChain
  <2>11. Funded'
    BY <1>1, FundedStays DEF IInv, onChain
  <2>12. ~Writes(call'[p])
    BY <2>4 DEF Writes
  <2> QED BY <1>0, <1>1, <2>3, <2>4, <2>5, <2>6, <2>8, <2>9, <2>10, <2>11, <2>12, CallGoesOn
          DEF onChain, Shapes
<1> QED BY <1>2, <1>3, <1>4 DEF Review

LEMMA WhitelistInv ==
    ASSUME IInv, NEW d \in IssuerPages, Whitelist(d) \/ Activate(d)
    PROVE  IInv'
<1> DEFINE r == view[d].id
<1>0. view[d] # Nothing /\ call[d] = Idle
  BY DEF Whitelist, Activate, Nothing
<1>1. Shapes /\ d \in Actors \ Forms /\ r \in Ids /\ rows[r].to \in Recipients
  BY <1>0, DeskShape DEF IInv
<1>2. /\ Joins(r) /\ UNCHANGED <<rows, view, fids, claims, approval, txs, ledger, faults>>
      /\ \E s \in {"PENDING_ISSUER_ACTIVATION", "READY_TO_TRANSFER"} :
           call' = [call EXCEPT ![d] = Patch(r, s, 0, 0)]
  BY DEF Whitelist, Activate
<1>3. irs' \in [Recipients -> {"absent", "inactive", "active"}]
  BY <1>1 DEF Shapes, Whitelist, Activate
<1>4. PICK s \in Statuses : /\ s \in {"PENDING_ISSUER_ACTIVATION", "READY_TO_TRANSFER"}
                            /\ call' = [call EXCEPT ![d] = Patch(r, s, 0, 0)]
  BY <1>2 DEF Statuses, VALID_STATUSES
<1> QED BY <1>0, <1>1, <1>2, <1>3, <1>4, DeskPatches DEF Shapes

-----------------------------------------------------------------------------
LEMMA TxsGrow ==
    ASSUME Shapes, Len(txs) < MaxTxs, NEW t \in TransferTx \cup ClaimTx, txs' = Append(txs, t)
    PROVE  /\ txs' \in Seq(TransferTx \cup ClaimTx) /\ Len(txs') <= MaxTxs
           /\ Len(txs) + 1 \in 1..MaxTxs /\ Len(txs) + 1 \notin DOMAIN txs
           /\ DOMAIN txs' = DOMAIN txs \cup {Len(txs) + 1}
           /\ \A k \in DOMAIN txs : txs'[k] = txs[k]
           /\ txs'[Len(txs) + 1] = t
BY DirectTransferAssumption DEF Shapes

LEMMA TransfersFinite ==
    ASSUME Shapes
    PROVE  IsFiniteSet(Transfers) /\ \A k \in Transfers : txs[k].amt \in Int /\ txs[k] \in TransferTx
<1>1. DOMAIN txs = 1..Len(txs) /\ Len(txs) \in Nat
  BY DEF Shapes
<1>2. IsFiniteSet(1..Len(txs))
  BY <1>1, FS_Interval
<1>3. IsFiniteSet(Transfers)
  BY <1>1, <1>2, FS_Subset DEF Transfers
<1>4. ASSUME NEW k \in Transfers
      PROVE  txs[k].amt \in Int /\ txs[k] \in TransferTx
  <2>1. txs[k] \in TransferTx \cup ClaimTx /\ txs[k].kind = "transfer"
    BY <1>1 DEF Transfers, Shapes
  <2>2. txs[k] \in TransferTx
    BY <2>1 DEF ClaimTx
  <2>3. txs[k].amt \in Amounts
    BY <2>2 DEF TransferTx
  <2> QED BY <2>2, <2>3, AmountsInt
<1> QED BY <1>3, <1>4

LEMMA BalanceAfter ==
    ASSUME Shapes, NEW n, n \notin DOMAIN txs, NEW amt \in Int,
           Transfers' = Transfers \cup {n}, txs'[n].amt = amt,
           \A k \in Transfers : txs'[k] = txs[k]
    PROVE  Balance' = Balance - amt
<1>1. PICK f : f = [k \in Transfers |-> txs[k].amt]
  OBVIOUS
<1>2. PICK g : g = [k \in Transfers |-> txs[k].amt]'
  OBVIOUS
<1>3. IsFiniteSet(Transfers) /\ n \notin Transfers
  BY TransfersFinite DEF Transfers
<1>4. \A k \in Transfers : f[k] \in Int
  BY <1>1, TransfersFinite
<1>5. \A k \in Transfers \cup {n} : g[k] \in Int
  BY <1>1, <1>2, <1>4
<1>6. SumFunctionOnSet(g, Transfers \cup {n}) = g[n] + SumFunctionOnSet(g, Transfers)
  BY <1>3, <1>5, SumAdd
<1>7. SumFunctionOnSet(g, Transfers) = SumFunctionOnSet(f, Transfers)
  BY <1>1, <1>2, <1>3, <1>4, SumSame
<1>8. SumFunctionOnSet(f, Transfers) \in Int
  BY <1>3, <1>4, SumType
<1>9. Balance = SenderBalance - SumFunctionOnSet(f, Transfers)
  BY <1>1 DEF Balance, SumFunction
<1>10. Balance' = SenderBalance - SumFunctionOnSet(g, Transfers \cup {n})
  BY <1>2 DEF Balance, SumFunction
<1>11. g[n] = amt
  BY <1>2
<1> QED BY <1>6, <1>7, <1>8, <1>9, <1>10, <1>11, DirectTransferAssumption

(* A page's transaction is confirmed: its call and txs change. *)
LEMMA ShapesGrow ==
    ASSUME Shapes, NEW a \in Actors, Grows(a), Fits(a), raced' = raced, fids' = fids, irs' = irs,
           ledger' = ledger, claims' \in [Recipients -> SUBSET Topics],
           txs' \in Seq(TransferTx \cup ClaimTx), Len(txs') <= MaxTxs
    PROVE  Shapes'
<1> USE DEF Grows, Fits
<1>1. (\A f \in Forms : view[f] \in PreflightView \cup {Nothing} /\ call[f] \in FormCalls)'
  BY DEF Shapes, Actors
<1>2. (\A b \in Actors \ Forms : view[b] \in DeskView(b) \cup {Nothing} /\ call[b] \in DeskCalls)'
  BY DEF Shapes
<1>3. (\A b \in Actors : call[b] # Idle => view[b] # Nothing)'
  BY DEF Shapes
<1> QED BY <1>1, <1>2, <1>3 DEF Shapes

LEMMA TransferTokensInv ==
    ASSUME IInv, NEW f \in Forms, TransferTokens(f)
    PROVE  IInv'
<1> DEFINE to == view[f].to
           amt == view[f].amt
           n == Len(txs) + 1
           t == [kind |-> "transfer", to |-> to, amt |-> amt]
           d == [pc |-> "post", to |-> to, amt |-> amt, status |-> "TRANSFERRED", tx |-> n]
<1>0. /\ f \in Actors /\ Shapes /\ Funded /\ call[f].pc = "transfer" /\ call[f] # Idle
      /\ UNCHANGED <<rows, view, fids, claims, irs, ledger, raced>>
  BY DEF Actors, IInv, TransferTokens, Idle
<1>1. view[f] \in PreflightView /\ view[f] # Nothing
  BY <1>0 DEF Shapes
<1>2. to \in Recipients /\ amt \in Amounts /\ amt \in Int
  BY <1>1, AmountsInt DEF PreflightView
<1>3. faults' \in 0..MaxFaults
  BY <1>0, Faults DEF TransferTokens
<1>4. CASE ~Settles(to, amt)
  <2>1. call' = [call EXCEPT ![f] = Idle] /\ UNCHANGED <<txs, approval, faults>>
    BY <1>4 DEF TransferTokens
  <2>2. Fits(f) /\ call'[f] = Idle
    BY <1>0, <1>1, <1>3, <2>1, FormGoesOn DEF FormCalls
  <2>3. OneCall(f)
    BY <1>0, <2>1 DEF OneCall, Shapes
  <2> QED BY <1>0, <2>1, <2>2, <2>3, CallEnds DEF Shapes, IInv, Hashes
<1>5. CASE Settles(to, amt)
  <2>1. /\ Len(txs) < MaxTxs /\ txs' = Append(txs, t)
        /\ approval' = [approval EXCEPT ![to] = NoApproval]
        /\ call' = [call EXCEPT ![f] = d] \/ call' = [call EXCEPT ![f] = Idle]
    BY <1>5 DEF TransferTokens, Post
  <2>2. t \in TransferTx
    BY <1>2 DEF TransferTx
  <2>3. /\ txs' \in Seq(TransferTx \cup ClaimTx) /\ Len(txs') <= MaxTxs
        /\ n \in 1..MaxTxs /\ n \notin DOMAIN txs /\ DOMAIN txs' = DOMAIN txs \cup {n}
        /\ \A k \in DOMAIN txs : txs'[k] = txs[k]
        /\ txs'[n] = t
    <3> HIDE DEF t
    <3> QED BY <1>0, <2>1, <2>2, TxsGrow
  <2>4. n \in Hash /\ n # 0
    BY <2>3 DEF Hash
  <2>5. Transfers' = Transfers \cup {n} /\ \A k \in Transfers : txs'[k] = txs[k]
    BY <2>3 DEF Transfers
  <2> HIDE DEF n
  <2>6. Fits(f) /\ (call'[f] = d \/ call'[f] = Idle)
    <3>1. d \in FormCalls /\ Idle \in FormCalls
      BY <1>2, <2>4 DEF FormCalls, PostCall, Statuses, VALID_STATUSES, CLOSED_STATUSES
    <3> HIDE DEF d
    <3> QED BY <1>0, <1>1, <1>3, <2>1, <3>1, FormGoesOn
  <2>7. Grows(f)
    BY <1>0, <2>1, <2>3 DEF Grows, Shapes
  <2>8. Shapes'
    BY <1>0, <2>3, <2>6, <2>7, ShapesGrow DEF Shapes
  <2>9. Funded'
    <3>1. txs'[n].amt = amt
      BY <2>3
    <3>2. Balance' = Balance - amt
      BY <1>0, <1>2, <2>3, <2>5, <3>1, BalanceAfter
    <3>3. approval[to] = [amt |-> amt, pinned |-> Balance] /\ amt # 0
      BY <1>2, <1>5, DirectTransferAssumption DEF Settles
    <3>4. approval[to].amt = amt /\ approval[to].pinned = Balance /\ approval[to] # NoApproval
      BY <3>3 DEF NoApproval
    <3>5. Balance >= amt /\ Balance \in Nat
      BY <1>0, <1>2, <3>4 DEF Funded
    <3>6. Balance' \in Nat
      BY <1>2, <3>2, <3>5
    <3> QED BY <1>0, <2>1, <3>6 DEF Funded
  <2>10. /\ ~Works(call'[f]) /\ ~Writes(call'[f])
         /\ call'[f].pc \notin {"insert", "issue", "patch", "update", "record"}
    BY <2>6 DEF Works, Writes, Idle
  <2>11. CallReview(call[f])' /\ Joined(f)
    BY <2>10 DEF CallReview, Joined, Works, Writes
  <2>12. CallHashes(call[f])'
    <3>1. n \in Transfers' /\ txs'[n].to = to
      BY <2>3, <2>5
    <3>2. CASE call'[f] = d
      BY <2>4, <2>10, <3>1, <3>2 DEF CallHashes, Works, Writes
    <3>3. CASE call'[f] = Idle
      BY <3>3 DEF CallHashes, Posts, Works, Writes, Idle
    <3> QED BY <2>6, <3>2, <3>3
  <2>13. \A k \in 1..MaxTxs : Carries(call'[f], k) => k \notin DOMAIN txs
    BY <2>3, <2>6 DEF Carries, Posts, Writes, Idle
  <2>14. /\ \A b \in Actors : CallHashes(call[b])'
         /\ \A r \in Ids : Exists(r)' => RowHashes(r)'
         /\ OneCarrier' /\ Overlap' /\ Seen' /\ Reviews'
    BY <1>0, <2>7, <2>10, <2>11, <2>12, <2>13, OneCallKeeps
  <2> QED BY <1>0, <2>5, <2>8, <2>9, <2>14 DEF IInv, Hashes
<1> QED BY <1>4, <1>5

LEMMA IssueClaimInv ==
    ASSUME IInv, NEW p \in ProviderPages, IssueClaim(p)
    PROVE  IInv'
<1> DEFINE r == view[p].id
           to == rows[r].to
           topic == ReviewTopic(p)
           n == Len(txs) + 1
           t == [kind |-> "claim", to |-> to, topic |-> topic]
<1>0. /\ Shapes /\ Funded /\ p \in Actors /\ call[p].pc = "issue" /\ call[p] # Idle
      /\ UNCHANGED <<rows, view, fids, irs, approval, ledger, raced>>
  BY DEF Actors, IInv, IssueClaim, Idle
<1>1. /\ view[p] # Nothing
  BY <1>0 DEF Shapes
<1>2. /\ p \in Actors \ Forms /\ r \in Ids /\ Exists(r) /\ to \in Recipients
      /\ view[p].status \in {"PENDING_KYC", "PENDING_AML"} /\ view[p].status \in Statuses
  BY <1>1, DeskShape
<1>3. /\ call[p].id = r
      /\ view[p].status = "PENDING_AML" => rows[r].status # "PENDING_KYC"
      /\ view[p].status = "PENDING_KYC" /\ rows[r].status = "PENDING_AML" /\ r \notin raced
            => 1 \in claims[to]
  BY <1>0, <1>1, <1>2 DEF IInv, Reviews, PageReview
<1>4. faults' \in 0..MaxFaults
  BY <1>0, Faults DEF IssueClaim
<1>5. topic \in {1, 2} /\ (topic = 1 <=> view[p].status = "PENDING_KYC") /\ topic \in Topics
  BY <1>2 DEF ReviewTopic, Statuses
<1>6. \A k : \E s \in Statuses : /\ s \in {"PENDING_AML", "PENDING_ISSUER_WHITELIST"}
                                 /\ s = "PENDING_AML" => topic = 1
                                 /\ Forward(p, k) = Patch(r, s, k, 0)
  BY DEF Forward, Statuses, VALID_STATUSES
<1>7. CASE topic \in claims[to] /\ call' = [call EXCEPT ![p] = Forward(p, 0)]
           /\ UNCHANGED <<claims, txs, faults>>
  <2>1. PICK s \in Statuses : /\ s \in {"PENDING_AML", "PENDING_ISSUER_WHITELIST"}
                              /\ s = "PENDING_AML" => topic = 1
                              /\ Forward(p, 0) = Patch(r, s, 0, 0)
    BY <1>6
  <2>2. s = "PENDING_AML" => 1 \in claims[rows[r].to]
    BY <1>7, <2>1
  <2> QED BY <1>0, <1>1, <1>2, <1>4, <1>7, <2>1, <2>2, DeskPatches DEF Shapes
<1>8. ASSUME topic \notin claims[to], Len(txs) < MaxTxs,
             claims' = [claims EXCEPT ![to] = @ \cup {topic}], txs' = Append(txs, t),
             \/ call' = [call EXCEPT ![p] = Forward(p, n)]
             \/ call' = [call EXCEPT ![p] = Idle]
      PROVE  IInv'
  <2>2. t \in ClaimTx
    BY <1>2, <1>5 DEF ClaimTx
  <2>3. /\ txs' \in Seq(TransferTx \cup ClaimTx) /\ Len(txs') <= MaxTxs
        /\ n \in 1..MaxTxs /\ n \notin DOMAIN txs /\ DOMAIN txs' = DOMAIN txs \cup {n}
        /\ \A k \in DOMAIN txs : txs'[k] = txs[k]
        /\ txs'[n] = t
    <3> HIDE DEF t
    <3> QED BY <1>0, <1>8, <2>2, TxsGrow
  <2>4. n \in Hash /\ n # 0
    BY <2>3 DEF Hash
  <2>5. /\ Transfers' = Transfers /\ \A k \in Transfers : txs'[k] = txs[k]
        /\ n \in ClaimTxs' /\ txs'[n].topic = topic
    BY <2>3 DEF Transfers, ClaimTxs
  <2> HIDE DEF n
  <2>6. PICK s \in Statuses : /\ s \in {"PENDING_AML", "PENDING_ISSUER_WHITELIST"}
                              /\ s = "PENDING_AML" => topic = 1
                              /\ Forward(p, n) = Patch(r, s, n, 0)
    BY <1>6
  <2> DEFINE d == [pc |-> "patch", id |-> r, status |-> s, claim |-> n, tx |-> 0]
  <2>7. Fits(p) /\ (call'[p] = d \/ call'[p] = Idle)
    <3>1. d \in DeskCalls /\ Idle \in DeskCalls
      BY <1>2, <2>4, DirectTransferAssumption DEF DeskCalls, PatchCall, Hash
    <3>2. call' = [call EXCEPT ![p] = d] \/ call' = [call EXCEPT ![p] = Idle]
      BY <1>8, <2>6 DEF Patch
    <3> HIDE DEF d
    <3> QED BY <1>0, <1>1, <1>2, <1>4, <3>1, <3>2 DEF Fits, Shapes
  <2>8. claims'[to] = claims[to] \cup {topic} /\ claims' \in [Recipients -> SUBSET Topics]
    BY <1>0, <1>2, <1>5, <1>8 DEF Shapes
  <2>9. Grows(p)
    BY <1>0, <1>2, <1>8, <2>3 DEF Grows, Shapes
  <2>10. Shapes'
    BY <1>0, <2>3, <2>7, <2>9, <2>8, ShapesGrow
  <2>11. Funded'
    <3>1. [k \in Transfers |-> txs[k].amt]' = [k \in Transfers |-> txs[k].amt]
      BY <2>5
    <3>2. Balance' = Balance
      BY <3>1 DEF Balance
    <3> QED BY <1>0, <3>2 DEF Funded
  <2>12. \A q : Exists(q)' = Exists(q)
    BY <1>0 DEF Exists
  <2>13. CASE call'[p] = Idle
    <3>1. /\ ~Posts(call'[p]) /\ ~Works(call'[p]) /\ ~Writes(call'[p])
          /\ call'[p].pc \notin {"patch", "update", "record", "insert", "issue"}
      BY <2>13 DEF Idle, Posts, Works, Writes
    <3>2. CallHashes(call[p])' /\ CallReview(call[p])' /\ Joined(p)
      BY <3>1 DEF CallHashes, CallReview, Joined, Posts, Works, Writes
    <3>3. \A k \in 1..MaxTxs : ~Carries(call'[p], k)
      BY <3>1 DEF Carries
    <3>4. PageReview(p)'
      BY <1>0, <1>2, <1>3, <2>12, <2>8, <3>1 DEF PageReview
    <3>5. /\ \A b \in Actors : CallHashes(call[b])'
          /\ \A q \in Ids : Exists(q)' => RowHashes(q)'
          /\ OneCarrier' /\ Overlap' /\ Seen' /\ Reviews'
      BY <1>0, <2>9, <3>1, <3>2, <3>3, <3>4, OneCallKeeps
    <3> QED BY <1>0, <2>5, <2>10, <2>11, <3>5 DEF IInv, Hashes
  <2>14. CASE call'[p] = d
    <3>1. /\ call'[p].pc = "patch" /\ call'[p].id = r /\ call'[p].tx = 0 /\ call'[p].claim = n
          /\ call'[p].status = s
      BY <2>14
    <3>2. CallHashes(call[p])'
      <4>1. Exists(call[p].id)'
        BY <1>0, <1>2, <3>1 DEF Exists
      <4> QED BY <2>5, <2>6, <3>1, <4>1 DEF CallHashes, Posts, Works, Writes
    <3>3. CallReview(call[p])'
      <4>1. topic = 1 /\ r \notin raced => rows[r].status # "PENDING_AML"
        BY <1>3, <1>5, <1>8
      <4>2. topic = 2 => rows[r].status # "PENDING_KYC"
        BY <1>2, <1>3, <1>5
      <4>3. s = "PENDING_AML" => 1 \in claims'[to]
        BY <2>6, <2>8
      <4> QED BY <1>0, <2>5, <3>1, <4>1, <4>2, <4>3 DEF CallReview, FitsStatus
    <3>4. \A k \in 1..MaxTxs : ~Carries(call'[p], k)
      BY <3>1 DEF Carries
    <3>5. PageReview(p)'
      BY <1>0, <1>2, <1>3, <2>8, <2>12, <3>1 DEF PageReview
    <3>6. Joined(p)
      BY <1>0, <1>3, <3>1 DEF Joined, Works
    <3>7. /\ \A b \in Actors : CallHashes(call[b])'
          /\ \A q \in Ids : Exists(q)' => RowHashes(q)'
          /\ OneCarrier' /\ Overlap' /\ Seen' /\ Reviews'
      BY <1>0, <2>9, <3>1, <3>2, <3>3, <3>4, <3>5, <3>6, OneCallKeeps
    <3> QED BY <1>0, <2>5, <2>10, <2>11, <3>7 DEF IInv, Hashes
  <2> QED BY <2>7, <2>13, <2>14
<1> QED BY <1>3, <1>7, <1>8 DEF IssueClaim

-----------------------------------------------------------------------------
LEMMA InsertRowInv ==
    ASSUME IInv, NEW f \in Forms, InsertRow(f)
    PROVE  IInv'
<1> DEFINE c == call[f]
<1>0. /\ f \in Actors /\ Shapes /\ c \in InsertCall /\ c.pc = "insert" /\ view[f] # Nothing
      /\ UNCHANGED <<view, onChain, ledger, faults, raced>>
  BY Calls DEF Actors, IInv, InsertRow, Shapes, Idle
<1>1. PICK r \in Ids :
        /\ ~Exists(r)
        /\ rows' = [rows EXCEPT ![r] = [to |-> c.to, amt |-> c.amt, status |-> c.status,
                                        kyc |-> 0, aml |-> 0, tx |-> c.tx, saw |-> c.saw]]
        /\ call' = [call EXCEPT ![f] = [pc |-> "record", id |-> r, claim |-> 0,
                                        status |-> c.status, tx |-> c.tx, was |-> c.status]]
  BY DEF InsertRow
<1>2. /\ c.to \in Recipients /\ c.amt \in Amounts /\ c.status \in Statuses /\ c.tx \in Hash
      /\ c.saw \in SUBSET Ids
  BY <1>0 DEF InsertCall
<1>3. /\ rows'[r] = [to |-> c.to, amt |-> c.amt, status |-> c.status,
                     kyc |-> 0, aml |-> 0, tx |-> c.tx, saw |-> c.saw]
      /\ \A q \in Ids \ {r} : rows'[q] = rows[q]
      /\ DOMAIN rows' = Ids
  BY <1>0, <1>1 DEF Shapes
<1>4. /\ call'[f] = [pc |-> "record", id |-> r, claim |-> 0,
                     status |-> c.status, tx |-> c.tx, was |-> c.status]
      /\ \A b \in Actors \ {f} : call'[b] = call[b]
      /\ DOMAIN call' = Actors
  BY <1>0, <1>1 DEF Shapes
<1>5. rows'[r] \in RowType /\ call'[f] \in WriteCall
  BY <1>2, <1>3, <1>4, DirectTransferAssumption DEF RowType, WriteCall, Hash
<1>6. Shapes'
  <2>1. rows' \in [Ids -> RowType \cup {NoRow}]
    <3>1. rows \in [Ids -> RowType \cup {NoRow}]
      BY <1>0 DEF Shapes
    <3>2. \A q \in Ids : rows'[q] \in RowType \cup {NoRow}
      BY <1>3, <1>5, <3>1
    <3> QED BY <1>1, <1>3, <3>1, <3>2
  <2>2. call'[f] \in FormCalls
    BY <1>5 DEF FormCalls
  <2>3. (\A g \in Forms : view[g] \in PreflightView \cup {Nothing} /\ call[g] \in FormCalls)'
    BY <1>0, <1>4, <2>2 DEF Shapes, Actors
  <2>4. (\A b \in Actors \ Forms : view[b] \in DeskView(b) \cup {Nothing} /\ call[b] \in DeskCalls)'
    BY <1>0, <1>4 DEF Shapes
  <2>5. (\A b \in Actors : call[b] # Idle => view[b] # Nothing)'
    BY <1>0, <1>4 DEF Shapes
  <2> QED BY <1>0, <1>4, <2>1, <2>3, <2>4, <2>5 DEF Shapes, onChain
<1>7. Funded'
  BY <1>0, FundedStays DEF IInv, onChain
<1>8. /\ \A q \in Ids : Exists(q) => q # r /\ Exists(q)' /\ rows'[q] = rows[q] /\ Open(q)' = Open(q)
      /\ \A q \in Ids \ {r} : Exists(q)' = Exists(q)
      /\ Exists(r)' /\ txs' = txs /\ Transfers' = Transfers /\ ClaimTxs' = ClaimTxs
  <2>1. c.status # "NONE"
    BY <1>2 DEF Statuses, VALID_STATUSES, CLOSED_STATUSES
  <2> QED BY <1>0, <1>1, <1>3, <2>1 DEF Exists, Open, Transfers, ClaimTxs, onChain
<1>9. /\ c.status = "TRANSFERRED" <=> c.tx # 0
      /\ c.tx # 0 => c.tx \in Transfers /\ txs[c.tx].to = c.to
      /\ SeenClosed(c.saw, c.to)
  BY <1>0 DEF IInv, Hashes, CallHashes, Posts, Seen
<1>10. \A b \in Actors : Works(call[b]) => call[b].id \in Ids /\ Exists(call[b].id)
  BY <1>0, Calls DEF IInv, Hashes, CallHashes
<1>11. Hashes'
  <2>1. ASSUME NEW b \in Actors PROVE CallHashes(call[b])'
    <3>1. CASE b = f
      BY <1>3, <1>4, <1>8, <1>9, <3>1 DEF CallHashes, Posts, Works, Writes
    <3>2. CASE b # f
      <4>1. call'[b] = call[b] /\ CallHashes(call[b])
        BY <1>4, <3>2 DEF IInv, Hashes
      <4> QED BY <1>8, <1>10, <4>1 DEF CallHashes, Posts, Works, Writes
    <3> QED BY <3>1, <3>2
  <2>2. ASSUME NEW q \in Ids, Exists(q)' PROVE RowHashes(q)'
    <3>1. CASE q = r
      BY <1>3, <1>8, <1>9, <3>1 DEF RowHashes
    <3>2. CASE q # r
      BY <1>8, <2>2, <3>2 DEF RowHashes, IInv, Hashes
    <3> QED BY <3>1, <3>2
  <2> QED BY <1>0, <1>8, <2>1, <2>2 DEF IInv, Hashes
<1>12. /\ \A b \in Actors, k \in 1..MaxTxs : Carries(call'[b], k) => b # f /\ Carries(call[b], k)
       /\ Carries(c, c.tx)
  BY <1>0, <1>4 DEF Carries, Posts, Writes
<1>13. \A q \in Ids : Exists(q) /\ rows[q].tx # 0 => rows[q].tx \in 1..MaxTxs
  BY <1>0, RowShape, DirectTransferAssumption DEF Hash
<1>14. c.tx # 0 => c.tx \in 1..MaxTxs
  BY <1>2, DirectTransferAssumption DEF Hash
<1>15. rows'[r].tx = c.tx
  BY <1>3
<1>16. OneCarrier'
  <2>0. OneCarrier
    BY DEF IInv
  <2>1. ASSUME NEW q \in Ids, NEW s \in Ids, q # s, Exists(q)', Exists(s)', rows'[q].tx # 0
        PROVE  rows'[q].tx # rows'[s].tx
    <3>1. CASE q # r /\ s # r
      BY <1>8, <2>0, <2>1, <3>1 DEF OneCarrier
    <3>2. CASE q = r
      BY <1>0, <1>8, <1>12, <1>15, <2>0, <2>1, <3>2 DEF OneCarrier
    <3>3. CASE s = r
      BY <1>0, <1>8, <1>12, <1>15, <2>0, <2>1, <3>3 DEF OneCarrier
    <3> QED BY <3>1, <3>2, <3>3
  <2>2. ASSUME NEW b \in Actors, NEW q \in Ids, Exists(q)', rows'[q].tx # 0
        PROVE  ~Carries(call'[b], rows'[q].tx)
    <3>1. CASE q # r
      BY <1>8, <1>12, <1>13, <2>0, <2>2, <3>1 DEF OneCarrier
    <3>2. CASE q = r
      BY <1>0, <1>12, <1>14, <1>15, <2>0, <2>2, <3>2 DEF OneCarrier
    <3> QED BY <3>1, <3>2
  <2>3. ASSUME NEW b \in Actors, NEW d \in Actors, NEW k \in 1..MaxTxs, b # d, Carries(call'[b], k)
        PROVE  ~Carries(call'[d], k)
    BY <1>12, <2>0, <2>3 DEF OneCarrier
  <2> QED BY <2>1, <2>2, <2>3 DEF OneCarrier
<1>17. Overlap'
  <2>0. Overlap /\ raced' = raced
    BY <1>0 DEF IInv
  <2>1. ASSUME NEW b \in Actors, NEW d \in Actors, b # d, Works(call'[b]), Works(call'[d]),
               call'[b].id = call'[d].id
        PROVE  call'[b].id \in raced'
    BY <1>4, <1>8, <1>10, <2>0, <2>1 DEF Overlap
  <2>2. ASSUME NEW q \in Ids, Open(q)', rows'[q].tx # 0
        PROVE  q \in raced'
    <3>1. CASE q # r
      BY <1>3, <2>0, <2>2, <3>1 DEF Overlap, Open, Exists
    <3>2. CASE q = r
      BY <1>3, <1>9, <2>2, <3>2 DEF Open, CLOSED_STATUSES
    <3> QED BY <3>1, <3>2
  <2>3. ASSUME NEW b \in Actors, Writes(call'[b]), call'[b].tx # 0, rows'[call'[b].id].tx # 0
        PROVE  call'[b].id \in raced'
    <3>1. b # f
      BY <1>4, <2>3 DEF Writes
    <3>2. Works(call[b]) /\ call'[b] = call[b]
      BY <1>4, <2>3, <3>1 DEF Works, Writes
    <3> QED BY <1>8, <1>10, <2>0, <2>3, <3>2 DEF Overlap
  <2> QED BY <2>1, <2>2, <2>3 DEF Overlap
<1>18. Seen'
  <2>0. Seen /\ raced' = raced
    BY <1>0 DEF IInv
  <2>2. ASSUME NEW b \in Actors, call'[b].pc = "insert"
        PROVE  SeenClosed(call[b].saw, call[b].to)'
    <3>1. b # f /\ call'[b] = call[b]
      BY <1>4, <2>2
    <3>2. call[b].saw \in SUBSET Ids
      BY <1>0, <2>2, <3>1, Calls DEF InsertCall
    <3>3. SeenClosed(call[b].saw, call[b].to)
      BY <2>0, <2>2, <3>1 DEF Seen
    <3> QED BY <1>8, <2>0, <3>1, <3>2, <3>3 DEF SeenClosed
  <2>3. ASSUME NEW q \in Ids, Exists(q)'
        PROVE  SeenClosed(rows[q].saw, rows[q].to)'
    <3>1. CASE q = r
      BY <1>2, <1>3, <1>8, <1>9, <2>0, <3>1 DEF SeenClosed
    <3>2. CASE q # r
      <4>1. Exists(q) /\ rows'[q] = rows[q] /\ rows[q].saw \in SUBSET Ids
        BY <1>0, <1>8, <2>3, <3>2, RowShape DEF RowType
      <4>2. SeenClosed(rows[q].saw, rows[q].to)
        BY <2>0, <4>1 DEF Seen
      <4> QED BY <1>8, <2>0, <4>1, <4>2 DEF SeenClosed
    <3> QED BY <3>1, <3>2
  <2> QED BY <2>2, <2>3 DEF Seen
<1>19. Reviews'
  <2>0. Reviews /\ raced' = raced /\ claims' = claims /\ view' = view
    BY <1>0 DEF IInv, onChain
  <2>1. ASSUME NEW b \in Actors PROVE CallReview(call[b])'
    <3>1. CASE b = f
      BY <1>4, <3>1 DEF CallReview, Writes
    <3>2. CASE b # f
      <4>1. call'[b] = call[b] /\ CallReview(call[b])
        BY <1>4, <2>0, <3>2 DEF Reviews
      <4> QED BY <1>8, <1>10, <2>0, <4>1 DEF CallReview, FitsStatus, Works, Writes
    <3> QED BY <3>1, <3>2
  <2>2. ASSUME NEW p \in Actors \ Forms PROVE PageReview(p)'
    <3>1. PageReview(p) /\ call'[p] = call[p] /\ view'[p] = view[p]
      BY <1>4, <2>0 DEF Reviews
    <3>2. view[p] # Nothing => view[p].id \in Ids
      BY <1>0 DEF Shapes, DeskView
    <3> QED BY <1>8, <2>0, <3>1, <3>2 DEF PageReview
  <2>3. ASSUME NEW p \in Actors \ ProviderPages PROVE call'[p].pc # "issue"
    BY <1>4, <2>0 DEF Reviews
  <2>4. ASSUME NEW q \in Ids \ raced', Exists(q)' PROVE RowReview(q)'
    BY <1>3, <1>8, <2>0, <2>4 DEF Reviews, RowReview
  <2> QED BY <2>1, <2>2, <2>3, <2>4 DEF Reviews
<1> QED BY <1>6, <1>7, <1>11, <1>16, <1>17, <1>18, <1>19 DEF IInv

LEMMA UpdateRowInv ==
    ASSUME IInv, NEW a \in Actors, UpdateRow(a)
    PROVE  IInv'
<1> DEFINE c == call[a]
           r == c.id
           old == rows[r]
           new == [to |-> old.to, amt |-> old.amt, status |-> c.status,
                   kyc |-> IF FillsColumn(c, 1) THEN c.claim ELSE old.kyc,
                   aml |-> IF FillsColumn(c, 2) THEN c.claim ELSE old.aml,
                   tx |-> IF WritesHash(c) THEN c.tx ELSE old.tx, saw |-> old.saw]
<1>0. /\ Shapes /\ c \in WriteCall /\ c.pc = "update" /\ Works(c) /\ Writes(c) /\ view[a] # Nothing
      /\ UNCHANGED <<view, onChain, ledger, faults>>
  BY Calls DEF IInv, UpdateRow, Works, Writes, Shapes, Idle
<1>1. /\ r \in Ids /\ c.status \in Statuses /\ c.claim \in Hash /\ c.tx \in Hash
      /\ c.was \in Statuses /\ Exists(r) /\ c.status # "PENDING_KYC"
      /\ c.status = "TRANSFERRED" <=> c.tx # 0
      /\ c.tx # 0 => c.tx \in Transfers /\ txs[c.tx].to = old.to
      /\ c.claim # 0 => c.claim \in ClaimTxs
  BY <1>0 DEF WriteCall, IInv, Hashes, CallHashes
<1>2. /\ old \in RowType /\ old.to \in Recipients /\ old.amt \in Amounts /\ old.kyc \in Hash
      /\ old.aml \in Hash /\ old.tx \in Hash /\ old.saw \in SUBSET Ids
  BY <1>0, <1>1, RowShape DEF RowType
<1>3. rows' = [rows EXCEPT ![r] = new]
  <2>1. rows' = [rows EXCEPT ![r] =
                   [old EXCEPT !.status = c.status,
                               !.kyc = IF FillsColumn(c, 1) THEN c.claim ELSE old.kyc,
                               !.aml = IF FillsColumn(c, 2) THEN c.claim ELSE old.aml,
                               !.tx = IF WritesHash(c) THEN c.tx ELSE old.tx]]
    BY DEF UpdateRow
  <2>2. PICK k1 \in Hash, k2 \in Hash, k3 \in Hash :
          /\ k1 = IF FillsColumn(c, 1) THEN c.claim ELSE old.kyc
          /\ k2 = IF FillsColumn(c, 2) THEN c.claim ELSE old.aml
          /\ k3 = IF WritesHash(c) THEN c.tx ELSE old.tx
    BY <1>1, <1>2
  <2>3. PICK o \in RowType, s \in Statuses : o = old /\ s = c.status
    BY <1>1, <1>2
  <2>4. [o EXCEPT !.status = s, !.kyc = k1, !.aml = k2, !.tx = k3]
          = [to |-> o.to, amt |-> o.amt, status |-> s, kyc |-> k1, aml |-> k2,
             tx |-> k3, saw |-> o.saw]
    <3> HIDE DEF new, old, c, r
    <3>1. PICK p \in RowType : p = [o EXCEPT !.status = s]
      BY DEF RowType
    <3>2. p = [to |-> o.to, amt |-> o.amt, status |-> s, kyc |-> o.kyc, aml |-> o.aml, tx |-> o.tx,
               saw |-> o.saw]
      BY <3>1 DEF RowType
    <3>3. PICK q \in RowType : q = [p EXCEPT !.kyc = k1]
      BY DEF RowType
    <3>4. q = [to |-> p.to, amt |-> p.amt, status |-> p.status, kyc |-> k1, aml |-> p.aml,
               tx |-> p.tx, saw |-> p.saw]
      BY <3>3 DEF RowType
    <3>5. PICK w \in RowType : w = [q EXCEPT !.aml = k2]
      BY DEF RowType
    <3>6. w = [to |-> q.to, amt |-> q.amt, status |-> q.status, kyc |-> q.kyc, aml |-> k2,
               tx |-> q.tx, saw |-> q.saw]
      BY <3>5 DEF RowType
    <3>7. [w EXCEPT !.tx = k3] = [to |-> w.to, amt |-> w.amt, status |-> w.status, kyc |-> w.kyc,
                                  aml |-> w.aml, tx |-> k3, saw |-> w.saw]
      BY DEF RowType
    <3>8. [o EXCEPT !.status = s, !.kyc = k1, !.aml = k2, !.tx = k3] = [w EXCEPT !.tx = k3]
      BY <3>1, <3>3, <3>5, Zenon
    <3> QED BY <3>2, <3>4, <3>6, <3>7, <3>8
  <2> QED BY <2>1, <2>2, <2>3, <2>4
<1>4. /\ rows'[r] = new /\ DOMAIN rows' = Ids
      /\ \A q \in Ids \ {r} : rows'[q] = rows[q]
  BY <1>0, <1>1, <1>3 DEF Shapes
<1>5. /\ rows'[r].to = old.to /\ rows'[r].saw = old.saw /\ rows'[r].status = c.status
      /\ rows'[r].tx = IF c.tx # 0 THEN c.tx ELSE old.tx
      /\ rows'[r].kyc = IF FillsColumn(c, 1) THEN c.claim ELSE old.kyc
      /\ rows'[r].aml = IF FillsColumn(c, 2) THEN c.claim ELSE old.aml
  BY <1>1, <1>4 DEF WritesHash
<1>6. new \in RowType
  BY <1>1, <1>2 DEF RowType
<1> HIDE DEF new
<1>7. /\ call' = [call EXCEPT ![a].pc = "record"]
      /\ raced' = IF ~Open(r) /\ c.status \notin CLOSED_STATUSES THEN raced \cup {r} ELSE raced
  BY DEF UpdateRow
<1>8. /\ call'[a] = [pc |-> "record", id |-> r, status |-> c.status, claim |-> c.claim,
                     tx |-> c.tx, was |-> c.was]
      /\ \A b \in Actors \ {a} : call'[b] = call[b]
      /\ DOMAIN call' = Actors
  BY <1>0, <1>7 DEF Shapes, WriteCall
<1>9. call'[a] \in WriteCall
  BY <1>1, <1>8 DEF WriteCall
<1>10. Shapes'
  <2>1. rows' \in [Ids -> RowType \cup {NoRow}]
    <3>1. rows \in [Ids -> RowType \cup {NoRow}]
      BY <1>0 DEF Shapes
    <3> QED BY <1>1, <1>3, <1>6, <3>1
  <2>2. call'[a] \in FormCalls /\ call'[a] \in DeskCalls
    BY <1>9 DEF FormCalls, DeskCalls
  <2>3. (\A g \in Forms : view[g] \in PreflightView \cup {Nothing} /\ call[g] \in FormCalls)'
    BY <1>0, <1>8, <2>2 DEF Shapes, Actors
  <2>4. (\A b \in Actors \ Forms : view[b] \in DeskView(b) \cup {Nothing} /\ call[b] \in DeskCalls)'
    BY <1>0, <1>8, <2>2 DEF Shapes
  <2>5. (\A b \in Actors : call[b] # Idle => view[b] # Nothing)'
    BY <1>0, <1>8 DEF Shapes
  <2>6. raced' \subseteq Ids
    BY <1>0, <1>1, <1>7 DEF Shapes
  <2> QED BY <1>0, <1>8, <2>1, <2>3, <2>4, <2>5, <2>6 DEF Shapes, onChain
<1>11. Funded'
  BY <1>0, FundedStays DEF IInv, onChain
<1>12. /\ \A q \in Ids : Exists(q)' = Exists(q) /\ rows'[q].to = rows[q].to
       /\ \A q \in Ids \ {r} : Open(q)' = Open(q)
       /\ txs' = txs /\ Transfers' = Transfers /\ ClaimTxs' = ClaimTxs /\ raced \subseteq raced'
  <2>1. c.status # "NONE"
    BY <1>1 DEF Statuses, VALID_STATUSES, CLOSED_STATUSES
  <2> QED BY <1>0, <1>1, <1>4, <1>5, <1>7, <2>1 DEF Exists, Open, Transfers, ClaimTxs, onChain
<1>13. \A b \in Actors : Works(call[b]) => call[b].id \in Ids /\ Exists(call[b].id)
  BY <1>0, Calls DEF IInv, Hashes, CallHashes
<1>14. Hashes'
  <2>1. ASSUME NEW b \in Actors PROVE CallHashes(call[b])'
    <3>1. CASE b = a
      BY <1>1, <1>5, <1>8, <1>12, <3>1 DEF CallHashes, Posts, Works, Writes
    <3>2. CASE b # a
      <4>1. call'[b] = call[b] /\ CallHashes(call[b])
        BY <1>8, <3>2 DEF IInv, Hashes
      <4> QED BY <1>12, <1>13, <4>1 DEF CallHashes, Posts, Works, Writes
    <3> QED BY <3>1, <3>2
  <2>2. ASSUME NEW q \in Ids, Exists(q)' PROVE RowHashes(q)'
    <3>1. RowHashes(q)
      BY <1>12, <2>2 DEF IInv, Hashes
    <3>2. CASE q = r
      BY <1>1, <1>5, <1>12, <3>1, <3>2 DEF RowHashes
    <3>3. CASE q # r
      BY <1>4, <1>12, <3>1, <3>3 DEF RowHashes
    <3> QED BY <3>2, <3>3
  <2> QED BY <1>0, <1>12, <2>1, <2>2 DEF IInv, Hashes
<1>15. /\ \A b \in Actors, k \in 1..MaxTxs : Carries(call'[b], k) => b # a /\ Carries(call[b], k)
       /\ Carries(c, c.tx)
  BY <1>0, <1>8 DEF Carries, Posts, Writes
<1>16. \A q \in Ids : Exists(q) /\ rows[q].tx # 0 => rows[q].tx \in 1..MaxTxs
  BY <1>0, RowShape, DirectTransferAssumption DEF Hash
<1>17. c.tx # 0 => c.tx \in 1..MaxTxs
  BY <1>1, DirectTransferAssumption DEF Hash
<1>18. OneCarrier'
  <2>0. OneCarrier
    BY DEF IInv
  <2>1. ASSUME NEW q \in Ids, NEW s \in Ids, q # s, Exists(q)', Exists(s)', rows'[q].tx # 0
        PROVE  rows'[q].tx # rows'[s].tx
    <3>0. Exists(q) /\ Exists(s)
      BY <1>12, <2>1
    <3>1. CASE q # r /\ s # r
      BY <1>4, <2>0, <2>1, <3>0, <3>1 DEF OneCarrier
    <3>2. CASE q = r
      BY <1>4, <1>5, <1>15, <2>0, <2>1, <3>0, <3>2 DEF OneCarrier
    <3>3. CASE s = r
      BY <1>4, <1>5, <1>15, <2>0, <2>1, <3>0, <3>3 DEF OneCarrier
    <3> QED BY <3>1, <3>2, <3>3
  <2>2. ASSUME NEW b \in Actors, NEW q \in Ids, Exists(q)', rows'[q].tx # 0
        PROVE  ~Carries(call'[b], rows'[q].tx)
    <3>0. Exists(q)
      BY <1>12, <2>2
    <3>1. CASE rows'[q].tx = rows[q].tx
      BY <1>15, <1>16, <2>0, <2>2, <3>0, <3>1 DEF OneCarrier
    <3>2. CASE q = r /\ c.tx # 0
      BY <1>5, <1>15, <1>17, <2>0, <3>2 DEF OneCarrier
    <3> QED BY <1>4, <1>5, <3>1, <3>2
  <2>3. ASSUME NEW b \in Actors, NEW d \in Actors, NEW k \in 1..MaxTxs, b # d, Carries(call'[b], k)
        PROVE  ~Carries(call'[d], k)
    BY <1>15, <2>0, <2>3 DEF OneCarrier
  <2> QED BY <2>1, <2>2, <2>3 DEF OneCarrier
<1>19. \A b \in Actors \ {a} : Works(call[b]) /\ call[b].id = r => r \in raced
  BY <1>0 DEF IInv, Overlap
<1>20. Overlap'
  <2>0. Overlap
    BY DEF IInv
  <2>1. ASSUME NEW b \in Actors, NEW d \in Actors, b # d, Works(call'[b]), Works(call'[d]),
               call'[b].id = call'[d].id
        PROVE  call'[b].id \in raced'
    BY <1>0, <1>8, <1>12, <2>0, <2>1 DEF Overlap
  <2>2. ASSUME NEW q \in Ids, Open(q)', rows'[q].tx # 0
        PROVE  q \in raced'
    <3>1. CASE q # r
      BY <1>4, <1>12, <2>0, <2>2, <3>1 DEF Overlap
    <3>2. CASE q = r
      <4>1. c.status \notin CLOSED_STATUSES
        BY <1>5, <2>2, <3>2 DEF Open
      <4>2. c.tx = 0
        BY <1>1, <4>1 DEF CLOSED_STATUSES
      <4> QED BY <1>1, <1>5, <1>7, <1>12, <2>0, <2>2, <3>2, <4>1, <4>2 DEF Overlap
    <3> QED BY <3>1, <3>2
  <2>3. ASSUME NEW b \in Actors, Writes(call'[b]), call'[b].tx # 0, rows'[call'[b].id].tx # 0
        PROVE  call'[b].id \in raced'
    <3>1. b # a
      BY <1>8, <2>3 DEF Writes
    <3>2. Works(call[b]) /\ call'[b] = call[b]
      BY <1>8, <2>3, <3>1 DEF Works, Writes
    <3>3. CASE call[b].id = r
      BY <1>12, <1>19, <3>1, <3>2, <3>3
    <3>4. CASE call[b].id # r
      BY <1>4, <1>12, <1>13, <2>0, <2>3, <3>2, <3>4 DEF Overlap
    <3> QED BY <3>3, <3>4
  <2> QED BY <2>1, <2>2, <2>3 DEF Overlap
<1>21. \A q \in Ids : Open(q)' => Open(q) \/ q \in raced'
  BY <1>5, <1>7, <1>12 DEF Open
<1>22. Seen'
  <2>0. Seen
    BY DEF IInv
  <2>2. ASSUME NEW b \in Actors, call'[b].pc = "insert"
        PROVE  SeenClosed(call[b].saw, call[b].to)'
    <3>1. b # a /\ call'[b] = call[b]
      BY <1>8, <2>2
    <3>2. call[b].saw \in SUBSET Ids
      BY <1>0, <2>2, <3>1, Calls DEF InsertCall
    <3>3. SeenClosed(call[b].saw, call[b].to)
      BY <2>0, <2>2, <3>1 DEF Seen
    <3> QED BY <1>12, <1>21, <3>1, <3>2, <3>3 DEF SeenClosed
  <2>3. ASSUME NEW q \in Ids, Exists(q)'
        PROVE  SeenClosed(rows[q].saw, rows[q].to)'
    <3>1. Exists(q) /\ rows'[q].saw = rows[q].saw /\ rows[q].saw \in SUBSET Ids
      BY <1>0, <1>4, <1>5, <1>12, <2>3, RowShape DEF RowType
    <3>2. SeenClosed(rows[q].saw, rows[q].to)
      BY <2>0, <3>1 DEF Seen
    <3> QED BY <1>12, <1>21, <3>1, <3>2 DEF SeenClosed
  <2> QED BY <2>2, <2>3 DEF Seen
<1>23. Reviews'
  <2>0. Reviews /\ claims' = claims /\ view' = view
    BY <1>0 DEF IInv, onChain
  <2>1. ASSUME NEW b \in Actors PROVE CallReview(call[b])'
    <3>1. CASE b = a
      BY <1>8, <3>1 DEF CallReview, Writes
    <3>2. CASE b # a
      <4>1. call'[b] = call[b] /\ CallReview(call[b])
        BY <1>8, <2>0, <3>2 DEF Reviews
      <4>2. CASE Works(call[b]) /\ call[b].id # r
        BY <1>4, <1>12, <1>13, <2>0, <4>1, <4>2 DEF CallReview, FitsStatus
      <4>3. CASE Works(call[b]) /\ call[b].id = r
        BY <1>12, <1>19, <3>2, <4>1, <4>3 DEF CallReview
      <4>4. CASE ~Works(call[b])
        BY <4>1, <4>4 DEF CallReview, Works, Writes
      <4> QED BY <4>2, <4>3, <4>4
    <3> QED BY <3>1, <3>2
  <2>2. ASSUME NEW p \in Actors \ Forms PROVE PageReview(p)'
    <3>1. PageReview(p) /\ view'[p] = view[p]
      BY <2>0 DEF Reviews
    <3>2. view[p] # Nothing => view[p].id \in Ids
      BY <1>0 DEF Shapes, DeskView
    <3>3. call'[p].pc = "issue" => call'[p] = call[p]
      BY <1>8
    <3>4. CASE view[p].id # r
      BY <1>4, <1>12, <2>0, <3>1, <3>2, <3>3, <3>4 DEF PageReview
    <3>5. CASE view[p].id = r
      <4>1. rows'[r].status = "PENDING_AML" /\ r \notin raced' => 1 \in claims'[old.to]
        BY <1>0, <1>5, <1>12, <2>0 DEF Reviews, CallReview
      <4> QED BY <1>1, <1>5, <1>12, <2>0, <3>1, <3>2, <3>3, <3>5, <4>1 DEF PageReview
    <3> QED BY <3>4, <3>5
  <2>3. ASSUME NEW p \in Actors \ ProviderPages PROVE call'[p].pc # "issue"
    BY <1>8, <2>0 DEF Reviews
  <2>4. ASSUME NEW q \in Ids \ raced', Exists(q)' PROVE RowReview(q)'
    <3>1. q \notin raced /\ Exists(q) /\ RowReview(q)
      BY <1>12, <2>0, <2>4 DEF Reviews
    <3>2. CASE q # r
      BY <1>4, <1>12, <3>1, <3>2 DEF RowReview
    <3>3. CASE q = r
      <4>1. c.claim # 0 => FitsStatus(c.claim, c.was) /\ c.claim \in ClaimTxs
        BY <1>0, <1>1, <2>0, <3>1, <3>3 DEF Reviews, CallReview
      <4>2. c.claim \in ClaimTxs => txs[c.claim].topic \in {1, 2}
        <5> SUFFICES ASSUME c.claim \in ClaimTxs PROVE txs[c.claim].topic \in {1, 2}
          OBVIOUS
        <5>1. txs[c.claim] \in TransferTx \cup ClaimTx /\ txs[c.claim].kind = "claim"
          BY <1>0 DEF ClaimTxs, Shapes
        <5> QED BY <5>1 DEF TransferTx, ClaimTx
      <4> QED BY <1>5, <1>12, <3>1, <3>3, <4>1, <4>2 DEF RowReview, FillsColumn, FitsStatus
    <3> QED BY <3>2, <3>3
  <2> QED BY <2>1, <2>2, <2>3, <2>4 DEF Reviews
<1> QED BY <1>10, <1>11, <1>14, <1>18, <1>20, <1>22, <1>23 DEF IInv

LEMMA RegisterFidInv ==
    ASSUME IInv, NEW to \in Recipients, RegisterFid(to)
    PROVE  IInv'
<1>1. /\ fids' = fids \cup {to}
      /\ UNCHANGED <<rows, view, call, claims, irs, approval, txs, ledger, faults, raced>>
  BY DEF RegisterFid
<1>2. Shapes'
  BY <1>1 DEF IInv, Shapes
<1>3. Funded'
  BY <1>1, FundedStays DEF IInv
<1>4. /\ \A r : Exists(r)' = Exists(r) /\ Open(r)' = Open(r)
      /\ Transfers' = Transfers /\ ClaimTxs' = ClaimTxs
  BY <1>1 DEF Exists, Open, Transfers, ClaimTxs
<1>5. Hashes' /\ OneCarrier'
  BY <1>1, <1>4 DEF IInv, Hashes, CallHashes, RowHashes, OneCarrier
<1>6. Overlap' /\ Seen'
  BY <1>1, <1>4 DEF IInv, Overlap, Seen, SeenClosed
<1>7. Reviews'
  BY <1>1, <1>4 DEF IInv, Reviews, CallReview, PageReview, RowReview, FitsStatus
<1> QED BY <1>2, <1>3, <1>5, <1>6, <1>7 DEF IInv

LEMMA RevokeClaimInv ==
    ASSUME IInv, NEW to \in Recipients, RevokeClaim(to)
    PROVE  IInv'
<1>0. Shapes /\ faults' \in 0..MaxFaults
  BY Faults DEF IInv, RevokeClaim
<1>1. /\ \E t \in claims[to] : claims' = [claims EXCEPT ![to] = @ \ {t}]
      /\ raced' = raced \cup {r \in Ids : Exists(r) /\ rows[r].to = to}
      /\ UNCHANGED <<rows, view, call, fids, irs, approval, txs, ledger>>
  BY DEF RevokeClaim
<1>2. /\ claims' \in [Recipients -> SUBSET Topics]
      /\ \A w \in Recipients \ {to} : claims'[w] = claims[w]
      /\ raced' \subseteq Ids /\ raced \subseteq raced'
  BY <1>0, <1>1 DEF Shapes
<1>3. Shapes'
  BY <1>0, <1>1, <1>2 DEF Shapes
<1>4. Funded'
  BY <1>1, FundedStays DEF IInv
<1>5. /\ \A r : Exists(r)' = Exists(r) /\ Open(r)' = Open(r)
      /\ Transfers' = Transfers /\ ClaimTxs' = ClaimTxs
  BY <1>1 DEF Exists, Open, Transfers, ClaimTxs
<1>6. Hashes' /\ OneCarrier'
  BY <1>1, <1>5 DEF IInv, Hashes, CallHashes, RowHashes, OneCarrier
<1>7. Overlap' /\ Seen'
  BY <1>1, <1>2, <1>5 DEF IInv, Overlap, Seen, SeenClosed
<1>8. \A r \in Ids \ raced' : Exists(r) => r \notin raced /\ claims'[rows[r].to] = claims[rows[r].to]
  BY <1>0, <1>1, <1>2, RowShape
<1>9. Reviews'
  <2>0. Reviews
    BY DEF IInv
  <2>1. ASSUME NEW b \in Actors PROVE CallReview(call[b])'
    <3>1. call'[b] = call[b] /\ CallReview(call[b])
      BY <1>1, <2>0 DEF Reviews
    <3>2. Writes(call[b]) => call[b].id \in Ids /\ Exists(call[b].id)
      BY <1>0, Calls DEF IInv, Hashes, CallHashes, Works, Writes
    <3> QED BY <1>1, <1>2, <1>8, <3>1, <3>2 DEF CallReview, FitsStatus, Writes
  <2>2. ASSUME NEW p \in Actors \ Forms PROVE PageReview(p)'
    <3>1. PageReview(p) /\ call'[p] = call[p] /\ view'[p] = view[p]
      BY <1>1, <2>0 DEF Reviews
    <3>2. view[p] # Nothing => view[p].id \in Ids
      BY <1>0 DEF Shapes, DeskView
    <3> QED BY <1>1, <1>5, <1>8, <3>1, <3>2 DEF PageReview
  <2>3. ASSUME NEW p \in Actors \ ProviderPages PROVE call'[p].pc # "issue"
    BY <1>1, <2>0 DEF Reviews
  <2>4. ASSUME NEW q \in Ids \ raced', Exists(q)' PROVE RowReview(q)'
    BY <1>1, <1>2, <1>5, <2>0, <2>4 DEF Reviews, RowReview
  <2> QED BY <2>1, <2>2, <2>3, <2>4 DEF Reviews
<1> QED BY <1>3, <1>4, <1>6, <1>7, <1>9 DEF IInv

-----------------------------------------------------------------------------
LEMMA InitInv ==
    ASSUME Init
    PROVE  IInv
<1>1. /\ \A r \in Ids : rows[r] = NoRow /\ ~Exists(r) /\ ~Open(r)
      /\ \A a \in Actors : call[a] = Idle /\ view[a] = Nothing
  BY DEF Init, Exists, Open, NoRow
<1>2. \A a \in Actors : /\ ~Posts(call[a]) /\ ~Works(call[a]) /\ ~Writes(call[a])
                        /\ call[a].pc = "idle"
  BY <1>1 DEF Idle, Posts, Works, Writes
<1>3. Shapes
  <2>1. Idle \in FormCalls /\ Idle \in DeskCalls
    BY DEF FormCalls, DeskCalls
  <2>2. txs \in Seq(TransferTx \cup ClaimTx) /\ Len(txs) <= MaxTxs
    BY DirectTransferAssumption DEF Init
  <2>3. rows \in [Ids -> RowType \cup {NoRow}] /\ faults \in 0..MaxFaults
    BY DirectTransferAssumption DEF Init
  <2>4. DOMAIN view = Actors /\ DOMAIN call = Actors /\ Forms \subseteq Actors
    BY DEF Init, Actors
  <2> QED BY <1>1, <2>1, <2>2, <2>3, <2>4 DEF Init, Shapes
<1>4. Funded
  <2>1. Transfers = {} /\ IsFiniteSet({})
    BY FS_EmptySet DEF Init, Transfers
  <2>2. PICK f : f = [k \in Transfers |-> txs[k].amt]
    OBVIOUS
  <2>3. DOMAIN f = {}
    BY <2>1, <2>2
  <2>4. SumFunctionOnSet(f, {}) = 0
    BY SumEmpty
  <2>5. Balance = SenderBalance
    <3>1. Balance = SenderBalance - SumFunction(f)
      BY <2>2 DEF Balance
    <3>2. SumFunction(f) = 0
      BY <2>3, <2>4 DEF SumFunction
    <3> QED BY <3>1, <3>2, DirectTransferAssumption
  <2> QED BY <2>5, DirectTransferAssumption DEF Init, Funded
<1>5. Hashes
  BY <1>1, <1>2 DEF Init, Hashes, CallHashes
<1>6. OneCarrier
  BY <1>1, <1>2 DEF OneCarrier, Carries
<1>7. Overlap /\ Seen
  BY <1>1, <1>2 DEF Overlap, Seen
<1>8. Reviews
  BY <1>1, <1>2 DEF Reviews, CallReview, PageReview
<1> QED BY <1>3, <1>4, <1>5, <1>6, <1>7, <1>8 DEF IInv

LEMMA NextInv ==
    ASSUME IInv, [Next]_vars
    PROVE  IInv'
<1>1. CASE UNCHANGED vars
  <2>0. UNCHANGED <<rows, view, call, fids, claims, irs, approval, txs, ledger, faults, raced>>
    BY <1>1 DEF vars
  <2>1. /\ \A r : Exists(r)' = Exists(r) /\ Open(r)' = Open(r)
        /\ Transfers' = Transfers /\ ClaimTxs' = ClaimTxs
    BY <2>0 DEF Exists, Open, Transfers, ClaimTxs
  <2>2. Shapes' /\ Funded'
    BY <2>0, FundedStays DEF IInv, Shapes
  <2>3. Hashes' /\ OneCarrier'
    BY <2>0, <2>1 DEF IInv, Hashes, CallHashes, RowHashes, OneCarrier
  <2>4. Overlap' /\ Seen'
    BY <2>0, <2>1 DEF IInv, Overlap, Seen, SeenClosed
  <2>5. Reviews'
    BY <2>0, <2>1 DEF IInv, Reviews, CallReview, PageReview, RowReview, FitsStatus
  <2> QED BY <2>2, <2>3, <2>4, <2>5 DEF IInv
<1>2. CASE Next
  <2>1. ASSUME NEW f \in Forms, NEW to \in Recipients, NEW amt \in Amounts, Preflight(f, to, amt)
        PROVE  IInv'
    BY <2>1, PreflightInv
  <2>2. ASSUME NEW f \in Forms,
               ApproveTransfer(f) \/ TransferTokens(f) \/ FindDuplicate(f) \/ InsertRow(f)
        PROVE  IInv'
    BY <2>2, ApproveInv, TransferTokensInv, FindDuplicateInv, InsertRowInv
  <2>3. ASSUME NEW f \in TransferPages, Onboard(f)
        PROVE  IInv'
    BY <2>3, OnboardInv
  <2>4. ASSUME NEW a \in Actors, FindOne(a) \/ UpdateRow(a) \/ Record(a) \/ Lost(a)
        PROVE  IInv'
    BY <2>4, FindOneInv, UpdateRowInv, RecordInv, LostInv
  <2>5. ASSUME NEW a \in ProviderPages \cup IssuerPages, NEW r \in Ids, Load(a, r)
        PROVE  IInv'
    BY <2>5, LoadInv
  <2>6. ASSUME NEW p \in ProviderPages, Review(p) \/ IssueClaim(p)
        PROVE  IInv'
    BY <2>6, ReviewInv, IssueClaimInv
  <2>7. ASSUME NEW d \in IssuerPages, Whitelist(d) \/ Activate(d)
        PROVE  IInv'
    BY <2>7, WhitelistInv
  <2>8. ASSUME NEW to \in Recipients, RegisterFid(to) \/ RevokeClaim(to)
        PROVE  IInv'
    BY <2>8, RegisterFidInv, RevokeClaimInv
  <2> QED BY <1>2, <2>1, <2>2, <2>3, <2>4, <2>5, <2>6, <2>7, <2>8 DEF Next
<1> QED BY <1>1, <1>2

(* The four parts together hold in every state of every behaviour of the pages, *)
(* the backend and the chain.                                                  *)
THEOREM DirectInvariant == Spec => []IInv
BY InitInv, NextInv, PTL DEF Spec

(* Every variable keeps its type in every state, for any number of pages,      *)
(* recipients and requests; in particular pages that approve on one balance    *)
(* of the sender cannot overdraw it.                                           *)
THEOREM TypeCorrect == Spec => []TypeOK
<1>1. IInv => TypeOK
  <2> SUFFICES ASSUME IInv PROVE TypeOK
    OBVIOUS
  <2>0. Shapes /\ Funded
    BY DEF IInv
  <2>1. ASSUME NEW r \in Ids, Exists(r)
        PROVE  /\ rows[r].status \in VALID_STATUSES /\ rows[r].saw \subseteq Ids
               /\ {rows[r].kyc, rows[r].aml, rows[r].tx} \subseteq 0..MaxTxs
    BY <2>0, <2>1, RowShape DEF RowType, Statuses, Hash
  <2>2. \A a \in Actors : call[a].pc \in {"idle", "transfer", "issue", "post", "insert",
                                          "patch", "update", "record"}
    BY <2>0, Calls
  <2> QED BY <2>0, <2>1, <2>2 DEF TypeOK, Shapes, Funded
<1> QED BY <1>1, DirectInvariant, PTL

(* create() may fold a report into a request it found earlier, and pages of    *)
(* one sender report at the same time; still a request that says TRANSFERRED   *)
(* names a confirmed transfer to its recipient which no other request names.   *)
THEOREM TransferredCorrect == Spec => []TransferredNamesItsTransfer
<1>1. IInv => TransferredNamesItsTransfer
  <2> SUFFICES ASSUME IInv, NEW r \in Ids, rows[r].status = "TRANSFERRED"
               PROVE  /\ rows[r].tx \in Transfers
                      /\ txs[rows[r].tx].to = rows[r].to
                      /\ \A s \in Ids \ {r} : Exists(s) => rows[s].tx # rows[r].tx
    BY DEF TransferredNamesItsTransfer
  <2>1. Exists(r)
    BY DEF Exists
  <2>2. rows[r].tx # 0 /\ rows[r].tx \in Transfers /\ txs[rows[r].tx].to = rows[r].to
    BY <2>1 DEF IInv, Hashes, RowHashes
  <2> QED BY <2>1, <2>2 DEF IInv, OneCarrier
<1> QED BY <1>1, DirectInvariant, PTL

(* UpdateRow picks the claim column by the status the PATCH read, the page     *)
(* issued for the status it had loaded: on a request nobody raced for, the     *)
(* hash in a column is that of a claim of the column's topic.                  *)
THEOREM ClaimColumnsCorrect == Spec => []ClaimHashesFitTheirColumn
<1>1. IInv => ClaimHashesFitTheirColumn
  BY DEF IInv, Reviews, RowReview, ClaimTxs, ClaimHashesFitTheirColumn
<1> QED BY <1>1, DirectInvariant, PTL

(* Two open requests for one recipient were inserted by create() calls whose   *)
(* duplicate checks overlapped, or one was reopened.                           *)
THEOREM TwinsCorrect == Spec => []OpenTwinsOverlapped
<1>1. IInv => OpenTwinsOverlapped
  BY DEF IInv, Seen, SeenClosed, Open, OpenTwinsOverlapped
<1> QED BY <1>1, DirectInvariant, PTL

(* Only UpdateRow of a TRANSFERRED report rewrites transferTxHash, and it      *)
(* replaces another transfer's hash only on a raced request.                   *)
THEOREM HashStaysCorrect == Spec => HashStays
<1>1. IInv /\ [Next]_vars =>
        [\A r \in Ids : Exists(r) /\ rows[r].tx # 0 /\ rows'[r].tx # rows[r].tx =>
           r \in raced /\ rows'[r].tx \in Transfers]_vars
  <2> SUFFICES ASSUME IInv, [Next]_vars, NEW r \in Ids, Exists(r), rows[r].tx # 0,
                      rows'[r].tx # rows[r].tx
               PROVE  r \in raced /\ rows'[r].tx \in Transfers
    OBVIOUS
  <2>1. CASE rows' = rows
    BY <2>1
  <2>2. ASSUME NEW f \in Forms, InsertRow(f) PROVE FALSE
    BY <2>2 DEF InsertRow, IInv, Shapes
  <2>3. ASSUME NEW a \in Actors, UpdateRow(a)
        PROVE  r \in raced /\ rows'[r].tx \in Transfers
    <3>0. /\ Shapes /\ call[a].pc = "update" /\ Works(call[a]) /\ Writes(call[a])
          /\ call[a].id \in Ids
      BY <2>3, Calls DEF IInv, UpdateRow, Works, Writes
    <3>1. rows[r] \in RowType
      BY <3>0, RowShape
    <3>2. PICK x : rows' = [rows EXCEPT ![call[a].id] = x]
      BY <2>3 DEF UpdateRow
    <3>3. call[a].id = r
      BY <3>0, <3>2 DEF Shapes
    <3>4. rows'[r].tx = IF WritesHash(call[a]) THEN call[a].tx ELSE rows[r].tx
      <4>1. rows'[r] = [rows[r] EXCEPT !.status = call[a].status,
                          !.kyc = IF FillsColumn(call[a], 1) THEN call[a].claim ELSE rows[r].kyc,
                          !.aml = IF FillsColumn(call[a], 2) THEN call[a].claim ELSE rows[r].aml,
                          !.tx = IF WritesHash(call[a]) THEN call[a].tx ELSE rows[r].tx]
        BY <2>3, <3>0, <3>3 DEF UpdateRow, Shapes
      <4> QED BY <3>1, <4>1 DEF RowType
    <3>5. call[a].tx # 0 /\ call[a].tx \in Transfers /\ rows'[r].tx = call[a].tx
      BY <3>0, <3>4 DEF WritesHash, IInv, Hashes, CallHashes
    <3> QED BY <3>0, <3>3, <3>5 DEF IInv, Overlap
  <2>4. rows' = rows \/ (\E f \in Forms : InsertRow(f)) \/ (\E a \in Actors : UpdateRow(a))
    BY DEF Next, vars, Preflight, Onboard, ApproveTransfer, TransferTokens, FindDuplicate, FindOne,
           Record, Lost, Load, Review, IssueClaim, Whitelist, Activate, RegisterFid, RevokeClaim
  <2> QED BY <2>1, <2>2, <2>3, <2>4
<1> QED BY <1>1, DirectInvariant, PTL DEF Spec, HashStays

-----------------------------------------------------------------------------
LEMMA LogNext ==
    ASSUME IInv, [Next]_vars
    PROVE  [Log!Next]_<<Transfers, {k \in 1..MaxTxs : ledger[k] = "TOKEN_TRANSFER"}>>
<1> DEFINE recorded == {k \in 1..MaxTxs : ledger[k] = "TOKEN_TRANSFER"}
<1>0. Shapes
  BY DEF IInv
<1>1. CASE UNCHANGED <<txs, ledger>>
  BY <1>1 DEF Transfers
<1>2. ASSUME NEW f \in Forms, TransferTokens(f), txs' # txs
      PROVE  \E d \in 1..MaxTxs : Log!Deliver(d)
  <2> DEFINE t == [kind |-> "transfer", to |-> view[f].to, amt |-> view[f].amt]
             n == Len(txs) + 1
  <2>1. txs' = Append(txs, t) /\ Len(txs) < MaxTxs /\ ledger' = ledger
        /\ call[f].pc = "transfer" /\ call[f] # Idle /\ f \in Actors
    BY <1>2 DEF TransferTokens, Idle, Actors
  <2>2. view[f] \in PreflightView
    BY <1>0, <2>1 DEF Shapes
  <2>3. t \in TransferTx
    BY <2>2 DEF PreflightView, TransferTx
  <2>4. /\ n \in 1..MaxTxs /\ n \notin DOMAIN txs /\ DOMAIN txs' = DOMAIN txs \cup {n}
        /\ \A k \in DOMAIN txs : txs'[k] = txs[k]
        /\ txs'[n] = t
    <3> HIDE DEF t
    <3> QED BY <1>0, <2>1, <2>3, TxsGrow
  <2>5. n \notin Transfers /\ Transfers' = Transfers \cup {n} /\ recorded' = recorded
    BY <2>1, <2>4 DEF Transfers
  <2> HIDE DEF n
  <2> QED BY <2>4, <2>5 DEF Log!Deliver
<1>3. ASSUME NEW p \in ProviderPages, IssueClaim(p), txs' # txs
      PROVE  UNCHANGED <<Transfers, recorded>>
  <2>1. PICK x, y : txs' = Append(txs, [kind |-> "claim", to |-> x, topic |-> y])
    BY <1>3 DEF IssueClaim
  <2>2. ledger' = ledger
    BY <1>3 DEF IssueClaim
  <2>3. txs \in Seq(TransferTx \cup ClaimTx)
    BY <1>0 DEF Shapes
  <2>4. Transfers' = Transfers
    BY <2>1, <2>3 DEF Transfers
  <2> QED BY <2>2, <2>4
<1>4. ASSUME NEW a \in Actors, Record(a)
      PROVE  \/ UNCHANGED <<Transfers, recorded>>
             \/ \E d \in 1..MaxTxs : Log!Record(d)
  <2> DEFINE c == call[a]
  <2>1. c \in WriteCall /\ c.pc = "record" /\ txs' = txs
    BY <1>0, <1>4, Calls DEF Record, onChain
  <2>2. /\ c.tx # 0 => c.tx \in Transfers
        /\ c.claim # 0 => c.claim \in ClaimTxs
        /\ c.tx \in Hash
    BY <2>1 DEF IInv, Hashes, CallHashes, WriteCall
  <2>3. ledger' = [k \in 1..MaxTxs |->
                     IF k = c.claim /\ c.was = "PENDING_KYC" THEN "KYC_CLAIM"
                     ELSE IF k = c.claim /\ c.was = "PENDING_AML" THEN "AML_CLAIM"
                     ELSE IF k = c.tx THEN "TOKEN_TRANSFER"
                     ELSE ledger[k]]
    BY <1>0, <1>4 DEF Record, Shapes
  <2>4. \A k \in recorded : k \in Transfers /\ k \notin ClaimTxs
    BY DEF IInv, Hashes, Transfers, ClaimTxs
  <2>5. \A k \in Transfers : k \notin ClaimTxs
    BY DEF Transfers, ClaimTxs
  <2>6. Transfers' = Transfers
    BY <2>1 DEF Transfers
  <2>7. CASE c.tx = 0 \/ c.tx \in recorded
    <3>1. recorded' = recorded
      BY <2>2, <2>3, <2>4, <2>7
    <3> QED BY <2>6, <3>1
  <2>8. CASE c.tx # 0 /\ c.tx \notin recorded
    <3>1. c.tx \in 1..MaxTxs
      BY <2>2, <2>8, DirectTransferAssumption DEF Hash
    <3>2. recorded' = recorded \cup {c.tx}
      BY <2>2, <2>3, <2>4, <2>5, <2>8, <3>1
    <3> QED BY <2>2, <2>6, <2>8, <3>1, <3>2 DEF Log!Record
  <2> QED BY <2>7, <2>8
<1>5. \/ UNCHANGED <<txs, ledger>>
      \/ \E f \in Forms : TransferTokens(f) /\ txs' # txs
      \/ \E p \in ProviderPages : IssueClaim(p) /\ txs' # txs
      \/ \E a \in Actors : Record(a)
  BY DEF Next, vars, onChain, Preflight, Onboard, ApproveTransfer, TransferTokens, FindDuplicate,
         InsertRow, FindOne, UpdateRow, Lost, Load, Review, IssueClaim, Whitelist, Activate,
         RegisterFid, RevokeClaim
<1> QED BY <1>1, <1>2, <1>3, <1>4, <1>5 DEF Log!Next

(* DirectTransfer implements DeliveryLog: the ledger lists a TOKEN_TRANSFER    *)
(* only once the chain has confirmed it, and Record never turns the entry of   *)
(* a transfer into that of a claim.                                            *)
THEOREM DirectLogCorrect == Spec => LogSpec
<1>1. Init => Log!Init
  BY DEF Init, Log!Init, Transfers
<1>2. IInv /\ [Next]_vars =>
        [Log!Next]_<<Transfers, {k \in 1..MaxTxs : ledger[k] = "TOKEN_TRANSFER"}>>
  BY LogNext
<1> QED BY <1>1, <1>2, DirectInvariant, PTL DEF Spec, LogSpec, Log!Spec

=============================================================================
