------------------------- MODULE PurchaseFlowProofs -------------------------
(***************************************************************************)
(* Proofs about PurchaseFlow: a row that says MINTED names its own mint, a   *)
(* request that nothing disturbed is minted once, an investor's open         *)
(* requests come from overlapping calls, and the TOKENS_MINTED entries       *)
(* implement the delivery log.                                               *)
(*                                                                           *)
(* The inductive invariant says what a PATCH under way may carry: it saw an  *)
(* open status, so it is outdated for a settled row, and MINTED only with    *)
(* the hash of that row's mint (Calls).  As long as a row is not raced, its  *)
(* mint is on record or its MINTED call is under way (Once), and the rows    *)
(* that create() saw closed stay closed (Closed).                            *)
(***************************************************************************)
EXTENDS PurchaseFlow, SumTheorems, FiniteSetTheorems, TLAPS

Idle == [pc |-> "idle"]
Empty == [pc |-> "empty"]
FormType == [pc : {"validated"}, inv : Investors, amt : Amounts]
              \cup [pc : {"checked"}, inv : Investors, amt : Amounts, saw : SUBSET Ids]
RevType == [pc : {"shown", "issue", "sent"}, row : Ids, seen : {"PENDING_KYC", "PENDING_AML"}]
DeskType == [pc : {"idle", "minting"}, row : Ids, seen : VALID_STATUSES,
             ident : {"unknown", "absent", "inactive", "active"}, balance : Int,
             held : {"NONE", "APPROVED_FOR_MINT"}]
CallType == [page : ProviderPages \cup DeskPages, row : Ids, seen : ACTIVE_STATUSES,
             next : VALID_STATUSES, tx : 0..MaxMints, shows : {"same", "inactive", "active"}]
MintType == [inv : Investors, amt : Nat, row : Ids]

Types ==
    /\ rows \in [Ids -> Row \cup {NoRow}]
    /\ form \in [Forms -> FormType \cup {Idle}]
    /\ rev \in [ProviderPages -> RevType \cup {Empty}]
    /\ desk \in [DeskPages -> DeskType \cup {Empty}]
    /\ net \subseteq CallType
    /\ resume \subseteq Ids
    /\ claim \in [Investors -> [Topics -> {"none", "wallet", "other"}]]
    /\ signer \in {"wallet", "other"}
    /\ irs \in [Investors -> {"absent", "inactive", "active"}]
    /\ mints \in Seq(MintType) /\ Len(mints) <= MaxMints
    /\ ledger \subseteq DOMAIN mints
    /\ faults \in 0..MaxFaults
    /\ raced \subseteq Ids

(* What the pages, the calls and the mints name exists. *)
Refs ==
    /\ \A p \in ProviderPages : rev[p] # Empty => rows[rev[p].row] # NoRow
    /\ \A t \in DeskPages : desk[t] # Empty => rows[desk[t].row] # NoRow
    /\ \A m \in net : rows[m.row] # NoRow
    /\ \A r \in resume : rows[r] # NoRow
    /\ \A k \in DOMAIN mints : /\ rows[mints[k].row] # NoRow
                               /\ mints[k].inv = rows[mints[k].row].inv
                               /\ mints[k].amt = baseAmount(rows[mints[k].row].amt)

IsMintOf(k, r) == k \in DOMAIN mints /\ mints[k].row = r

Calls ==
    /\ \A m \in net : IF m.next = "MINTED" THEN IsMintOf(m.tx, m.row) ELSE m.tx = 0
    /\ \A t \in DeskPages : desk[t].pc = "minting" => desk[t].held = "APPROVED_FOR_MINT"

(* A provider page waits for the one call it has made. *)
Sending ==
    /\ \A m \in net : m.page \in ProviderPages => rev[m.page].pc = "sent"
    /\ \A m, n \in net : m.page \in ProviderPages /\ m.page = n.page => m = n

Settled == \A r \in Ids : rows[r].status = "MINTED" => IsMintOf(rows[r].tx, r)

Reporting(r) == \E m \in net : m.row = r /\ m.next = "MINTED"

Once ==
    \A r \in Ids \ raced :
      /\ \A j, k \in MintsOf(r) : j = k
      /\ MintsOf(r) # {} => rows[r].status \in {"MINTED", "DELETED"} \/ Reporting(r)

(* Of the rows in saw, those of investor i are closed. *)
SawClosed(saw, i) ==
    \A s \in saw : /\ rows[s] # NoRow
                   /\ s \notin raced /\ rows[s].inv = i => rows[s].status \notin ACTIVE_STATUSES

Closed ==
    /\ \A r \in Ids : rows[r] # NoRow => SawClosed(rows[r].saw, rows[r].inv)
    /\ \A f \in Forms : form[f].pc = "checked" => SawClosed(form[f].saw, form[f].inv)

IInv == Types /\ Refs /\ Calls /\ Sending /\ Settled /\ Once /\ Closed

-----------------------------------------------------------------------------
(* The types. *)

LEMMA RowsAreSomething ==
    /\ \A r \in Row : r # NoRow /\ r.status # "NONE"
    /\ NoRow.status = "NONE"
    /\ \A c \in FormType : c # Idle /\ c.pc # "idle"
    /\ Idle.pc = "idle"
    /\ \A v \in RevType : v # Empty /\ v.pc # "empty"
    /\ \A v \in DeskType : v # Empty /\ v.pc # "empty"
    /\ Empty.pc = "empty"
BY DEF Row, NoRow, VALID_STATUSES, ACTIVE_STATUSES, CLOSED_STATUSES, FormType, Idle, RevType,
       DeskType, Empty

LEMMA RowTyped ==
    ASSUME Types, NEW r \in Ids
    PROVE  /\ rows[r] # NoRow <=> rows[r] \in Row
           /\ rows[r].status # "NONE" <=> rows[r] \in Row
           /\ Exists(r) => rows[r] \in Row /\ rows[r] # NoRow
           /\ rows[r].status \in VALID_STATUSES => Exists(r)
BY RowsAreSomething DEF Types, Exists, VALID_STATUSES, ACTIVE_STATUSES, CLOSED_STATUSES

LEMMA PagesTyped ==
    ASSUME Types
    PROVE  /\ \A f \in Forms : form[f].pc # "idle" => form[f] \in FormType
           /\ \A f \in Forms : form[f].pc = "checked" =>
                form[f].inv \in Investors /\ form[f].amt \in Amounts /\ form[f].saw \in SUBSET Ids
           /\ \A p \in ProviderPages : rev[p].pc # "empty" =>
                rev[p] \in RevType /\ rev[p] # Empty /\ rev[p].row \in Ids
           /\ \A t \in DeskPages : desk[t].pc # "empty" =>
                desk[t] \in DeskType /\ desk[t] # Empty /\ desk[t].row \in Ids
BY RowsAreSomething DEF Types, FormType, RevType, DeskType, Idle

LEMMA CallTyped ==
    ASSUME IInv, NEW m \in net
    PROVE  /\ m \in CallType /\ m.row \in Ids /\ m.seen \in ACTIVE_STATUSES
           /\ m.next \in VALID_STATUSES /\ m.tx \in 0..MaxMints
           /\ rows[m.row] \in Row
           /\ IF m.next = "MINTED" THEN IsMintOf(m.tx, m.row) ELSE m.tx = 0
<1>1. m \in CallType /\ rows[m.row] # NoRow
  BY DEF IInv, Types, Refs
<1>2. m.row \in Ids
  BY <1>1 DEF CallType
<1> QED BY <1>1, <1>2, RowTyped DEF IInv, Calls, CallType

LEMMA MintTyped ==
    ASSUME Types, NEW k \in DOMAIN mints
    PROVE  /\ mints[k] \in MintType
           /\ mints[k].inv \in Investors /\ mints[k].amt \in Nat /\ mints[k].row \in Ids
<1>1. mints[k] \in MintType
  BY DEF Types
<1> QED BY <1>1 DEF MintType

LEMMA BaseAmountTyped == \A a \in Amounts : baseAmount(a) \in Nat
<1> SUFFICES ASSUME NEW a \in Amounts PROVE baseAmount(a) \in Nat
  OBVIOUS
<1>1. a \in Nat /\ Grain \in Nat /\ Grain > 0 /\ PageUnit \in Nat
  BY PurchaseFlowAssumption
<1>2. PICK x \in Nat : x = 2 * a * PageUnit
  BY <1>1
<1>3. PICK g \in Nat : g = 2 * Grain /\ g > 0
  BY <1>1
<1>4. (x + Grain) \div g \in Nat
  BY <1>1, <1>2, <1>3
<1> QED BY <1>2, <1>3, <1>4 DEF baseAmount

(* In a token with the decimals the issuer page assumes, an amount without    *)
(* more digits than that becomes the same base units on the page and in the   *)
(* backend.                                                                   *)
LEMMA SixDecimals ==
    ASSUME TokenUnit = PageUnit, NEW a \in Amounts, NEW n \in Nat, a * TokenUnit = n * Grain
    PROVE  baseAmount(a) = n /\ decimalToBaseUnits(a) = n
<1>1. a \in Nat /\ Grain \in Nat /\ Grain > 0 /\ PageUnit \in Nat
  BY PurchaseFlowAssumption
<1>2. \A g \in Nat, m \in Nat : g > 0 => (m * g) \div g = m
  OBVIOUS
<1>3. \A g \in Nat, m \in Nat, h \in Nat : g > h => (m * g + h) \div g = m
  OBVIOUS
<1>4. decimalToBaseUnits(a) = n
  BY <1>1, <1>2 DEF decimalToBaseUnits
<1>5. 2 * a * PageUnit + Grain = n * (2 * Grain) + Grain
  BY <1>1
<1>6. baseAmount(a) = n
  BY <1>1, <1>3, <1>5 DEF baseAmount
<1> QED BY <1>4, <1>6

LEMMA BalanceTyped ==
    ASSUME Types, NEW i
    PROVE  Balance(i) \in Int
<1>1. DOMAIN mints = 1..Len(mints) /\ Len(mints) \in Nat
  BY DEF Types
<1>2. PICK S : S = {k \in 1..Len(mints) : mints[k].inv = i}
  OBVIOUS
<1>3. PICK f : f = [k \in S |-> mints[k].amt]
  OBVIOUS
<1>4. IsFiniteSet(S)
  <2>1. IsFiniteSet(1..Len(mints)) /\ S \subseteq 1..Len(mints)
    BY <1>1, <1>2, FS_Interval
  <2> QED BY <2>1, FS_Subset
<1>5. \A k \in S : f[k] \in Int
  <2>1. \A k \in DOMAIN mints : mints[k].amt \in Nat
    BY MintTyped
  <2>2. \A k \in S : k \in DOMAIN mints
    BY <1>1, <1>2
  <2>3. \A k \in S : f[k] = mints[k].amt
    BY <1>3
  <2> QED BY <2>1, <2>2, <2>3
<1>6. Balance(i) = SumFunctionOnSet(f, S)
  BY <1>2, <1>3 DEF Balance, BalanceAt, Minted, SumFunction
<1> QED BY <1>4, <1>5, <1>6, SumType

LEMMA FaultTyped ==
    ASSUME Types, Fault
    PROVE  faults' \in 0..MaxFaults
BY PurchaseFlowAssumption DEF Types, Fault

-----------------------------------------------------------------------------
(* A step of a page, of the backend's reads or of the indexer: the rows, the  *)
(* mints and the history stay, and no new call reports a mint.                *)
LEMMA PageStep ==
    ASSUME IInv, UNCHANGED <<rows, mints, ledger, raced>>,
           form' \in [Forms -> FormType \cup {Idle}],
           rev' \in [ProviderPages -> RevType \cup {Empty}],
           desk' \in [DeskPages -> DeskType \cup {Empty}],
           net \subseteq net', net' \subseteq CallType,
           resume' \subseteq Ids,
           claim' \in [Investors -> [Topics -> {"none", "wallet", "other"}]],
           signer' \in {"wallet", "other"},
           irs' \in [Investors -> {"absent", "inactive", "active"}],
           faults' \in 0..MaxFaults,
           \A p \in ProviderPages : rev'[p] # Empty => rows[rev'[p].row] # NoRow,
           \A t \in DeskPages : desk'[t] # Empty => rows[desk'[t].row] # NoRow,
           \A m \in net' \ net : rows[m.row] # NoRow /\ m.next # "MINTED" /\ m.tx = 0,
           \A p \in ProviderPages : rev[p].pc = "sent" => rev'[p].pc = "sent",
           \A m \in net' \ net : /\ m.page \in ProviderPages => rev[m.page].pc # "sent"
                                                       /\ rev'[m.page].pc = "sent"
                                /\ \A n \in net' \ net : m = n,
           \A r \in resume' : rows[r] # NoRow,
           \A t \in DeskPages : desk'[t].pc = "minting" => desk'[t].held = "APPROVED_FOR_MINT",
           \A f \in Forms : form'[f].pc = "checked" => SawClosed(form'[f].saw, form'[f].inv)
    PROVE  IInv'
<1>1. Types /\ Refs /\ Calls /\ Sending /\ Settled /\ Once /\ Closed
  BY DEF IInv
<1>2. Types'
  BY <1>1 DEF Types
<1>3. Refs'
  BY <1>1 DEF Refs
<1>4. \A k, r : IsMintOf(k, r)' <=> IsMintOf(k, r)
  BY DEF IsMintOf
<1>5. Calls'
  BY <1>1, <1>4 DEF Calls
<1>6. Settled' /\ Sending'
  BY <1>1, <1>4 DEF Settled, Sending
<1>7. \A r : MintsOf(r)' = MintsOf(r) /\ (Reporting(r) => Reporting(r)')
  BY DEF MintsOf, Reporting
<1>8. Once'
  BY <1>1, <1>7 DEF Once
<1>9. \A saw, i : SawClosed(saw, i)' <=> SawClosed(saw, i)
  BY DEF SawClosed
<1>10. Closed'
  BY <1>1, <1>9 DEF Closed
<1> QED BY <1>2, <1>3, <1>5, <1>6, <1>8, <1>10 DEF IInv

(* What PageStep asks of the variables that a step does not change. *)
LEMMA SameTyped ==
    ASSUME IInv
    PROVE  /\ Types
           /\ form \in [Forms -> FormType \cup {Idle}]
           /\ rev \in [ProviderPages -> RevType \cup {Empty}]
           /\ desk \in [DeskPages -> DeskType \cup {Empty}]
           /\ net \subseteq CallType
           /\ resume \subseteq Ids
           /\ claim \in [Investors -> [Topics -> {"none", "wallet", "other"}]]
           /\ signer \in {"wallet", "other"}
           /\ irs \in [Investors -> {"absent", "inactive", "active"}]
           /\ faults \in 0..MaxFaults
           /\ \A p \in ProviderPages : rev[p] # Empty => rows[rev[p].row] # NoRow
           /\ \A t \in DeskPages : desk[t] # Empty => rows[desk[t].row] # NoRow
           /\ \A r \in resume : rows[r] # NoRow
           /\ \A t \in DeskPages : desk[t].pc = "minting" => desk[t].held = "APPROVED_FOR_MINT"
           /\ \A f \in Forms : form[f].pc = "checked" => SawClosed(form[f].saw, form[f].inv)
           /\ \A m \in net : m.page \in ProviderPages => rev[m.page].pc = "sent"
BY DEF IInv, Types, Refs, Calls, Closed, Sending

-----------------------------------------------------------------------------
(* The investor's steps that write no row, and the environment's. *)

LEMMA CreateReadSteps ==
    ASSUME IInv, NEW f \in Forms,
           (\E i \in Investors, amt \in Amounts : Submit(f, i, amt)) \/ CreateCheck(f)
    PROVE  IInv'
<1>1. UNCHANGED <<rows, rev, desk, net, resume, claim, signer, irs, mints, ledger, idx, faults, raced>>
  BY DEF Submit, CreateCheck, onChain
<1>2. PICK c \in FormType \cup {Idle} :
        /\ form' = [form EXCEPT ![f] = c]
        /\ c.pc = "checked" => SawClosed(c.saw, c.inv)
  <2>1. ASSUME NEW i \in Investors, NEW amt \in Amounts, Submit(f, i, amt)
        PROVE  \E c \in FormType \cup {Idle} :
                 /\ form' = [form EXCEPT ![f] = c]
                 /\ c.pc = "checked" => SawClosed(c.saw, c.inv)
    <3>1. PICK c \in FormType : c = [pc |-> "validated", inv |-> i, amt |-> amt]
      BY DEF FormType
    <3>2. c.pc # "checked" /\ form' = [form EXCEPT ![f] = c]
      BY <2>1, <3>1 DEF Submit
    <3> QED BY <3>2
  <2>2. CASE CreateCheck(f) /\ HasOpenRequest(form[f].inv)
    BY <2>2, RowsAreSomething DEF CreateCheck, Idle
  <2>3. CASE CreateCheck(f) /\ ~HasOpenRequest(form[f].inv)
    <3>1. form[f].inv \in Investors /\ form[f].amt \in Amounts
      BY <2>3, SameTyped, PagesTyped DEF CreateCheck, FormType
    <3>2. PICK S \in SUBSET Ids : S = {r \in Ids : rows[r] # NoRow}
      OBVIOUS
    <3>3. PICK c \in FormType : c = [pc |-> "checked", inv |-> form[f].inv, amt |-> form[f].amt, saw |-> S]
      BY <3>1 DEF FormType
    <3>4. \A s \in S : rows[s] # NoRow /\ (rows[s].inv = form[f].inv => rows[s].status \notin ACTIVE_STATUSES)
      BY <2>3, <3>2, SameTyped, RowTyped
         DEF HasOpenRequest, Exists, ACTIVE_STATUSES, CLOSED_STATUSES
    <3>5. SawClosed(S, form[f].inv)
      BY <3>4 DEF SawClosed
    <3> QED BY <2>3, <3>2, <3>3, <3>5 DEF CreateCheck
  <2> QED BY <2>1, <2>2, <2>3
<1>3. /\ form' \in [Forms -> FormType \cup {Idle}]
      /\ \A g \in Forms : form'[g].pc = "checked" => SawClosed(form'[g].saw, form'[g].inv)
  BY <1>2, SameTyped
<1> QED BY <1>1, <1>3, SameTyped, PageStep

LEMMA ResumeReadStep ==
    ASSUME IInv, NEW r \in Ids, ResumeRead(r)
    PROVE  IInv'
<1>1. /\ UNCHANGED <<rows, form, rev, desk, net, claim, signer, irs, mints, ledger, idx, faults, raced>>
      /\ resume' = resume \cup {r} /\ Exists(r)
  BY DEF ResumeRead, onChain, Exists
<1>2. rows[r] # NoRow
  BY <1>1, SameTyped, RowTyped
<1> QED BY <1>1, <1>2, SameTyped, PageStep

LEMMA RotateStep ==
    ASSUME IInv, RotateSigner
    PROVE  IInv'
<1>1. /\ UNCHANGED <<rows, form, rev, desk, net, resume, claim, irs, mints, ledger, idx, raced>>
      /\ signer' \in {"wallet", "other"} /\ faults' \in 0..MaxFaults
  BY SameTyped, FaultTyped DEF RotateSigner
<1> QED BY <1>1, SameTyped, PageStep

LEMMA SyncStep ==
    ASSUME IInv, Sync
    PROVE  IInv'
<1>1. UNCHANGED <<rows, form, rev, desk, net, resume, claim, signer, irs, mints, ledger, faults, raced>>
  BY DEF Sync, onChain
<1> QED BY <1>1, SameTyped, PageStep

-----------------------------------------------------------------------------
(* The claim provider's page. *)

(* A call that asks for something other than MINTED. *)
LEMMA NewCall ==
    ASSUME IInv, NEW page \in ProviderPages \cup DeskPages, NEW v,
           v.row \in Ids, rows[v.row] # NoRow, v.seen \in ACTIVE_STATUSES,
           NEW next \in VALID_STATUSES, next # "MINTED",
           NEW shows \in {"same", "inactive", "active"},
           net' \in Sent(Call(page, v, next, 0, shows))
    PROVE  /\ net \subseteq net' /\ net' \subseteq CallType
           /\ \A m \in net' \ net : rows[m.row] # NoRow /\ m.next # "MINTED" /\ m.tx = 0
           /\ \A m \in net' \ net : m.page = page /\ \A n \in net' \ net : m = n
<1>1. PICK m \in CallType : m = Call(page, v, next, 0, shows)
  BY PurchaseFlowAssumption DEF CallType, Call
<1>2. m.row = v.row /\ m.next = next /\ m.tx = 0 /\ m.page = page
  BY <1>1 DEF Call
<1>3. net' = net \cup {m}
  BY <1>1 DEF Sent
<1> QED BY <1>1, <1>2, <1>3, SameTyped

LEMMA RevSet ==
    ASSUME IInv, NEW p \in ProviderPages, rev[p].pc \notin {"empty", "sent"},
           NEW pc \in {"shown", "issue", "sent"},
           rev' = [rev EXCEPT ![p].pc = pc]
    PROVE  /\ rev' \in [ProviderPages -> RevType \cup {Empty}]
           /\ rev'[p].pc = pc
           /\ \A q \in ProviderPages : rev[q].pc = "sent" => rev'[q].pc = "sent"
           /\ \A q \in ProviderPages : rev'[q] # Empty => rows[rev'[q].row] # NoRow
<1>1. rev[p] \in RevType /\ rows[rev[p].row] # NoRow
  BY SameTyped, PagesTyped
<1>2. PICK v \in RevType : v = [rev[p] EXCEPT !.pc = pc]
  BY <1>1 DEF RevType
<1>3. v.row = rev[p].row /\ v.pc = pc
  BY <1>1, <1>2 DEF RevType
<1>4. rev' = [rev EXCEPT ![p] = v]
  BY <1>2
<1> QED BY <1>1, <1>3, <1>4, SameTyped

LEMMA Forwarded ==
    ASSUME IInv, NEW p \in ProviderPages, rev[p].pc \notin {"empty", "sent"},
           NEW next \in VALID_STATUSES, next # "MINTED", Forward(p, next)
    PROVE  /\ rev' \in [ProviderPages -> RevType \cup {Empty}]
           /\ \A q \in ProviderPages : rev'[q] # Empty => rows[rev'[q].row] # NoRow
           /\ net \subseteq net' /\ net' \subseteq CallType
           /\ \A m \in net' \ net : rows[m.row] # NoRow /\ m.next # "MINTED" /\ m.tx = 0
           /\ \A q \in ProviderPages : rev[q].pc = "sent" => rev'[q].pc = "sent"
           /\ \A m \in net' \ net : /\ m.page \in ProviderPages => rev[m.page].pc # "sent"
                                                       /\ rev'[m.page].pc = "sent"
                                /\ \A n \in net' \ net : m = n
<1>1. rev[p] \in RevType /\ rows[rev[p].row] # NoRow /\ rev[p].row \in Ids
  BY SameTyped, PagesTyped
<1>2. rev[p].seen \in ACTIVE_STATUSES
  BY <1>1 DEF RevType, ACTIVE_STATUSES
<1>3. net' \in Sent(Call(p, rev[p], next, 0, "same")) /\ rev' = [rev EXCEPT ![p].pc = "sent"]
  BY DEF Forward
<1>4. /\ rev' \in [ProviderPages -> RevType \cup {Empty}]
      /\ \A q \in ProviderPages : rev'[q] # Empty => rows[rev'[q].row] # NoRow
      /\ \A q \in ProviderPages : rev[q].pc = "sent" => rev'[q].pc = "sent"
      /\ rev'[p].pc = "sent"
  BY <1>3, RevSet
<1>5. /\ net \subseteq net' /\ net' \subseteq CallType
      /\ \A m \in net' \ net : rows[m.row] # NoRow /\ m.next # "MINTED" /\ m.tx = 0
      /\ \A m \in net' \ net : m.page = p /\ \A n \in net' \ net : m = n
  BY <1>1, <1>2, <1>3, NewCall
<1> QED BY <1>4, <1>5

LEMMA StatusesValid ==
    /\ ACTIVE_STATUSES \subseteq VALID_STATUSES
    /\ "MINTED" \notin ACTIVE_STATUSES
    /\ "ACTION_REQUIRED_INVESTOR_IDENTITY" \in ACTIVE_STATUSES
    /\ getResumeStatus \in ACTIVE_STATUSES
    /\ \A v : nextStatus(v) \in ACTIVE_STATUSES
    /\ \A v : getReviewTopic(v) \in {1, 2}
BY DEF ACTIVE_STATUSES, VALID_STATUSES, getResumeStatus, nextStatus, getReviewTopic

LEMMA ProviderLoadStep ==
    ASSUME IInv, NEW p \in ProviderPages, NEW r \in Ids, ProviderLoad(p, r)
    PROVE  IInv'
<1>1. UNCHANGED <<rows, form, desk, net, resume, claim, signer, irs, mints, ledger, idx, faults, raced>>
  BY DEF ProviderLoad, onChain
<1>2. PICK v \in RevType : v = [pc |-> "shown", row |-> r, seen |-> rows[r].status]
  BY DEF ProviderLoad, RevType
<1>3. v.row = r /\ rev' = [rev EXCEPT ![p] = v]
  BY <1>2 DEF ProviderLoad
<1>4. rows[r] # NoRow
  BY SameTyped, RowTyped DEF ProviderLoad
<1>5. /\ rev' \in [ProviderPages -> RevType \cup {Empty}]
      /\ \A q \in ProviderPages : rev'[q] # Empty => rows[rev'[q].row] # NoRow
      /\ \A q \in ProviderPages : rev[q].pc = "sent" => rev'[q].pc = "sent"
  BY <1>3, <1>4, SameTyped DEF ProviderLoad
<1> QED BY <1>1, <1>5, SameTyped, PageStep

LEMMA ProviderApproveStep ==
    ASSUME IInv, NEW p \in ProviderPages, ProviderApprove(p)
    PROVE  IInv'
<1> DEFINE i == rows[rev[p].row].inv
           t == getReviewTopic(rev[p])
<1>1. /\ UNCHANGED <<rows, form, desk, resume, signer, irs, mints, ledger, idx, raced>>
      /\ rev[p].pc \notin {"empty", "sent"}
  BY DEF ProviderApprove
<1>2. CASE Fault /\ Forward(p, "ACTION_REQUIRED_INVESTOR_IDENTITY") /\ UNCHANGED claim
  <2>1. faults' \in 0..MaxFaults
    BY <1>2, SameTyped, FaultTyped
  <2> QED BY <1>1, <1>2, <2>1, Forwarded, StatusesValid, SameTyped, PageStep
<1>3. CASE Forward(p, nextStatus(rev[p])) /\ UNCHANGED <<claim, faults>>
  <2>1. nextStatus(rev[p]) \in VALID_STATUSES /\ nextStatus(rev[p]) # "MINTED"
    BY StatusesValid
  <2> QED BY <1>1, <1>3, <2>1, Forwarded, SameTyped, PageStep
<1>4. CASE /\ claim' = [claim EXCEPT ![i][t] = "none"]
           /\ rev' = [rev EXCEPT ![p].pc = "issue"]
           /\ UNCHANGED <<net, faults>>
  <2>1. claim' \in [Investors -> [Topics -> {"none", "wallet", "other"}]]
    BY <1>4, SameTyped
  <2> QED BY <1>1, <1>4, <2>1, RevSet, SameTyped, PageStep
<1> QED BY <1>2, <1>3, <1>4 DEF ProviderApprove

LEMMA ProviderIssueStep ==
    ASSUME IInv, NEW p \in ProviderPages, ProviderIssue(p)
    PROVE  IInv'
<1> DEFINE i == rows[rev[p].row].inv
           t == getReviewTopic(rev[p])
<1>1. /\ UNCHANGED <<rows, form, desk, resume, signer, irs, mints, ledger, idx, faults, raced>>
      /\ rev[p].pc \notin {"empty", "sent"}
  BY DEF ProviderIssue
<1>2. CASE /\ claim' = [claim EXCEPT ![i][t] = IF @ = "none" THEN signer ELSE @]
           /\ Forward(p, nextStatus(rev[p]))
  <2>1. claim' \in [Investors -> [Topics -> {"none", "wallet", "other"}]]
    BY <1>2, SameTyped
  <2>2. nextStatus(rev[p]) \in VALID_STATUSES /\ nextStatus(rev[p]) # "MINTED"
    BY StatusesValid
  <2> QED BY <1>1, <1>2, <2>1, <2>2, Forwarded, SameTyped, PageStep
<1>3. CASE rev' = [rev EXCEPT ![p].pc = "shown"] /\ UNCHANGED <<claim, net>>
  BY <1>1, <1>3, RevSet, SameTyped, PageStep
<1> QED BY <1>2, <1>3 DEF ProviderIssue

LEMMA ProviderRejectStep ==
    ASSUME IInv, NEW p \in ProviderPages, ProviderReject(p)
    PROVE  IInv'
<1>1. /\ UNCHANGED <<rows, form, desk, resume, claim, signer, irs, mints, ledger, idx, faults, raced>>
      /\ rev[p].pc \notin {"empty", "sent"} /\ Forward(p, "REJECTED")
  BY DEF ProviderReject, onChain
<1>2. "REJECTED" \in VALID_STATUSES
  BY DEF VALID_STATUSES, CLOSED_STATUSES
<1> QED BY <1>1, <1>2, Forwarded, SameTyped, PageStep

-----------------------------------------------------------------------------
(* The issuer's page. *)

LEMMA DeskSet ==
    ASSUME IInv, NEW t \in DeskPages, desk[t].pc # "empty", NEW v \in DeskType, v.row = desk[t].row,
           v.pc = "minting" => v.held = "APPROVED_FOR_MINT",
           desk' = [desk EXCEPT ![t] = v]
    PROVE  /\ desk' \in [DeskPages -> DeskType \cup {Empty}]
           /\ \A q \in DeskPages : desk'[q] # Empty => rows[desk'[q].row] # NoRow
           /\ \A q \in DeskPages : desk'[q].pc = "minting" => desk'[q].held = "APPROVED_FOR_MINT"
<1>1. desk[t] # Empty
  BY SameTyped, PagesTyped
<1> QED BY <1>1, SameTyped

LEMMA IdentSet ==
    ASSUME IInv, NEW t \in DeskPages, desk[t].pc # "empty",
           NEW ident \in {"absent", "inactive", "active"},
           desk' = [desk EXCEPT ![t].ident = ident]
    PROVE  /\ desk' \in [DeskPages -> DeskType \cup {Empty}]
           /\ \A q \in DeskPages : desk'[q] # Empty => rows[desk'[q].row] # NoRow
           /\ \A q \in DeskPages : desk'[q].pc = "minting" => desk'[q].held = "APPROVED_FOR_MINT"
<1>1. desk[t] \in DeskType
  BY SameTyped, PagesTyped
<1>2. PICK v \in DeskType : v = [desk[t] EXCEPT !.ident = ident]
  BY <1>1 DEF DeskType
<1>3. v.row = desk[t].row /\ v.pc = desk[t].pc /\ v.held = desk[t].held
  BY <1>1, <1>2 DEF DeskType
<1>4. desk' = [desk EXCEPT ![t] = v]
  BY <1>2
<1>5. v.pc = "minting" => v.held = "APPROVED_FOR_MINT"
  BY <1>3, SameTyped
<1> QED BY <1>3, <1>4, <1>5, DeskSet

LEMMA Queued ==
    ASSUME IInv, NEW t \in DeskPages, InQueue(t)
    PROVE  /\ desk[t].pc # "empty" /\ desk[t] \in DeskType /\ desk[t].row \in Ids
           /\ rows[desk[t].row] # NoRow
           /\ desk[t].seen \in ACTIVE_STATUSES
           /\ desk[t].seen \in VALID_STATUSES /\ desk[t].seen # "MINTED"
           /\ InvestorOf(t) \in Investors
<1>1. desk[t].pc # "empty" /\ desk[t].seen \in ACTIVE_STATUSES
  BY DEF InQueue, ACTIVE_STATUSES
<1>2. desk[t] \in DeskType /\ desk[t].row \in Ids /\ rows[desk[t].row] # NoRow
  BY <1>1, SameTyped, PagesTyped
<1>3. rows[desk[t].row] \in Row
  BY <1>2, SameTyped, RowTyped
<1>4. InvestorOf(t) \in Investors
  BY <1>3 DEF InvestorOf, Row
<1> QED BY <1>1, <1>2, <1>4, StatusesValid

LEMMA DeskCall ==
    ASSUME IInv, NEW t \in DeskPages, InQueue(t),
           NEW next \in VALID_STATUSES, next # "MINTED",
           NEW shows \in {"same", "inactive", "active"},
           net' \in Sent(Call(t, desk[t], next, 0, shows))
    PROVE  /\ net \subseteq net' /\ net' \subseteq CallType
           /\ \A m \in net' \ net : rows[m.row] # NoRow /\ m.next # "MINTED" /\ m.tx = 0
           /\ \A m \in net' \ net : /\ m.page \in ProviderPages => rev[m.page].pc # "sent"
                                                       /\ rev'[m.page].pc = "sent"
                                /\ \A n \in net' \ net : m = n
<1>1. /\ net \subseteq net' /\ net' \subseteq CallType
      /\ \A m \in net' \ net : rows[m.row] # NoRow /\ m.next # "MINTED" /\ m.tx = 0
      /\ \A m \in net' \ net : m.page = t /\ \A n \in net' \ net : m = n
  BY Queued, NewCall
<1> QED BY <1>1, PurchaseFlowAssumption

LEMMA DeskLoadStep ==
    ASSUME IInv, NEW t \in DeskPages, NEW r \in Ids, DeskLoad(t, r)
    PROVE  IInv'
<1>1. UNCHANGED <<rows, form, rev, net, resume, claim, signer, irs, mints, ledger, idx, faults, raced>>
  BY DEF DeskLoad, onChain
<1>2. PICK v \in DeskType : v = [pc |-> "idle", row |-> r, seen |-> rows[r].status,
                                 ident |-> "unknown", balance |-> 0, held |-> "NONE"]
  <2>1. PICK s \in VALID_STATUSES : s = rows[r].status
    BY DEF DeskLoad, VALID_STATUSES, ACTIVE_STATUSES
  <2>2. [pc |-> "idle", row |-> r, seen |-> s, ident |-> "unknown", balance |-> 0,
         held |-> "NONE"] \in DeskType
    BY DEF DeskType
  <2> QED BY <2>1, <2>2
<1>3. v.row = r /\ v.pc # "minting" /\ desk' = [desk EXCEPT ![t] = v]
  BY <1>2 DEF DeskLoad
<1>4. rows[r] # NoRow
  BY SameTyped, RowTyped DEF DeskLoad
<1>5. /\ desk' \in [DeskPages -> DeskType \cup {Empty}]
      /\ \A q \in DeskPages : desk'[q] # Empty => rows[desk'[q].row] # NoRow
      /\ \A q \in DeskPages : desk'[q].pc = "minting" => desk'[q].held = "APPROVED_FOR_MINT"
  BY <1>3, <1>4, SameTyped
<1> QED BY <1>1, <1>5, SameTyped, PageStep

LEMMA DeskIdentityStep ==
    ASSUME IInv, NEW t \in DeskPages, DeskIdentity(t)
    PROVE  IInv'
<1>1. /\ UNCHANGED <<rows, form, rev, net, resume, claim, signer, irs, mints, ledger, idx, raced>>
      /\ InQueue(t)
  BY DEF DeskIdentity, onChain
<1>2. PICK ident \in {"absent", "inactive", "active"} : desk' = [desk EXCEPT ![t].ident = ident]
  BY <1>1, Queued, SameTyped DEF DeskIdentity
<1>3. faults' \in 0..MaxFaults
  BY SameTyped, FaultTyped DEF DeskIdentity
<1> QED BY <1>1, <1>2, <1>3, Queued, IdentSet, SameTyped, PageStep

LEMMA DeskApproveStep ==
    ASSUME IInv, NEW t \in DeskPages, DeskApprove(t)
    PROVE  IInv'
<1>1. /\ UNCHANGED <<rows, form, rev, desk, resume, claim, signer, irs, mints, ledger, idx, faults, raced>>
      /\ InQueue(t) /\ net' \in Sent(Call(t, desk[t], "APPROVED_FOR_MINT", 0, "same"))
  BY DEF DeskApprove, onChain
<1>2. "APPROVED_FOR_MINT" \in VALID_STATUSES
  BY DEF VALID_STATUSES, ACTIVE_STATUSES
<1> QED BY <1>1, <1>2, Queued, DeskCall, SameTyped, PageStep

LEMMA DeskWhitelistStep ==
    ASSUME IInv, NEW t \in DeskPages, DeskWhitelist(t)
    PROVE  IInv'
<1> DEFINE i == InvestorOf(t)
<1>1. /\ UNCHANGED <<rows, form, rev, resume, claim, signer, mints, ledger, idx, faults, raced>>
      /\ InQueue(t)
  BY DEF DeskWhitelist
<1>2. CASE /\ desk' = [desk EXCEPT ![t].ident = irs[i]]
           /\ UNCHANGED <<irs, net>>
  <2>1. irs[i] \in {"absent", "inactive", "active"}
    BY <1>1, Queued, SameTyped
  <2> QED BY <1>1, <1>2, <2>1, Queued, IdentSet, SameTyped, PageStep
<1>3. CASE /\ irs' = [irs EXCEPT ![i] = "inactive"]
           /\ net' \in Sent(Call(t, desk[t], desk[t].seen, 0, "inactive"))
           /\ UNCHANGED desk
  <2>1. irs' \in [Investors -> {"absent", "inactive", "active"}]
    BY <1>3, SameTyped
  <2> QED BY <1>1, <1>3, <2>1, Queued, DeskCall, SameTyped, PageStep
<1> QED BY <1>2, <1>3 DEF DeskWhitelist

LEMMA DeskActivateStep ==
    ASSUME IInv, NEW t \in DeskPages, DeskActivate(t)
    PROVE  IInv'
<1>1. /\ UNCHANGED <<rows, form, rev, desk, resume, claim, signer, mints, ledger, idx, faults, raced>>
      /\ InQueue(t) /\ net' \in Sent(Call(t, desk[t], desk[t].seen, 0, "active"))
      /\ irs' = [irs EXCEPT ![InvestorOf(t)] = "active"]
  BY DEF DeskActivate
<1>2. irs' \in [Investors -> {"absent", "inactive", "active"}]
  BY <1>1, SameTyped
<1> QED BY <1>1, <1>2, Queued, DeskCall, SameTyped, PageStep

LEMMA DeskRemoveStep ==
    ASSUME IInv, NEW t \in DeskPages, DeskRemoveIdentity(t)
    PROVE  IInv'
<1>1. /\ UNCHANGED <<rows, form, rev, net, resume, claim, signer, mints, ledger, idx, raced>>
      /\ InQueue(t) /\ faults' \in 0..MaxFaults
      /\ irs' = [irs EXCEPT ![InvestorOf(t)] = "absent"]
      /\ desk' = [desk EXCEPT ![t].ident = "absent"]
  BY SameTyped, FaultTyped DEF DeskRemoveIdentity
<1>2. irs' \in [Investors -> {"absent", "inactive", "active"}]
  BY <1>1, SameTyped
<1> QED BY <1>1, <1>2, Queued, IdentSet, SameTyped, PageStep

LEMMA DeskMintStep ==
    ASSUME IInv, NEW t \in DeskPages, DeskMint(t)
    PROVE  IInv'
<1> DEFINE i == InvestorOf(t)
<1>1. /\ UNCHANGED <<rows, form, rev, resume, claim, signer, irs, mints, ledger, idx, faults, raced>>
      /\ InQueue(t) /\ desk[t].seen = "APPROVED_FOR_MINT"
  BY DEF DeskMint, MintButton, onChain
<1>2. CASE /\ desk' = [desk EXCEPT ![t].pc = "minting", ![t].balance = Balance(i),
                                   ![t].held = desk[t].seen]
           /\ UNCHANGED net
  <2>1. PICK b \in Int : b = Balance(i)
    BY SameTyped, BalanceTyped
  <2>2. desk[t] \in DeskType
    BY <1>1, Queued
  <2>3. PICK v \in DeskType : v = [desk[t] EXCEPT !.pc = "minting", !.balance = b,
                                                  !.held = "APPROVED_FOR_MINT"]
    BY <2>2 DEF DeskType
  <2>4. v.row = desk[t].row /\ v.held = "APPROVED_FOR_MINT"
    BY <2>2, <2>3 DEF DeskType
  <2>5. desk' = [desk EXCEPT ![t] = v]
    BY <1>1, <1>2, <2>1, <2>3, SameTyped
  <2> QED BY <1>1, <1>2, <2>4, <2>5, Queued, DeskSet, SameTyped, PageStep
<1>3. CASE net' \in Sent(Call(t, desk[t], "PENDING_KYC", 0, "same")) /\ UNCHANGED desk
  <2>1. "PENDING_KYC" \in VALID_STATUSES
    BY DEF VALID_STATUSES, ACTIVE_STATUSES
  <2> QED BY <1>1, <1>3, <2>1, Queued, DeskCall, SameTyped, PageStep
<1> QED BY <1>2, <1>3 DEF DeskMint

-----------------------------------------------------------------------------
(* A row changes: a PATCH, a deletion, the write of resumeAfterIdentity.      *)
(* Unless the row is raced, its mint stays accounted for and a closed row     *)
(* stays closed.                                                              *)
LEMMA RowStep ==
    ASSUME IInv, NEW r \in Ids, rows[r] \in Row, NEW q \in Row,
           q.inv = rows[r].inv, q.amt = rows[r].amt, q.saw = rows[r].saw,
           rows' = [rows EXCEPT ![r] = q],
           UNCHANGED <<form, claim, signer, irs, mints>>,
           rev' \in [ProviderPages -> RevType \cup {Empty}],
           desk' \in [DeskPages -> DeskType \cup {Empty}],
           \A p \in ProviderPages : rev'[p] # Empty => rows[rev'[p].row] # NoRow,
           \A t \in DeskPages : desk'[t] # Empty => rows[desk'[t].row] # NoRow,
           \A t \in DeskPages : desk'[t].pc = "minting" => desk'[t].held = "APPROVED_FOR_MINT",
           net' \subseteq net, \A m \in net \ net' : m.row = r,
           \A m \in net' : m.page \in ProviderPages => rev'[m.page].pc = "sent",
           resume' \subseteq resume,
           faults' \in 0..MaxFaults,
           ledger' \subseteq DOMAIN mints,
           raced \subseteq raced', raced' \subseteq Ids,
           q.status = "MINTED" => IsMintOf(q.tx, r),
           r \notin raced' /\ MintsOf(r) # {} =>
               q.status \in {"MINTED", "DELETED"} \/ \E m \in net' : m.row = r /\ m.next = "MINTED",
           r \notin raced' /\ rows[r].status \notin ACTIVE_STATUSES => q.status \notin ACTIVE_STATUSES
    PROVE  IInv'
<1>1. Types /\ Refs /\ Calls /\ Sending /\ Settled /\ Once /\ Closed
  BY DEF IInv
<1>2. /\ rows' \in [Ids -> Row \cup {NoRow}]
      /\ rows'[r] = q /\ \A s \in Ids \ {r} : rows'[s] = rows[s]
  BY <1>1 DEF Types
<1>3. Types'
  BY <1>1, <1>2 DEF Types
<1>4. /\ q # NoRow /\ rows[r] # NoRow
      /\ \A s \in Ids : /\ rows'[s] # NoRow <=> rows[s] # NoRow
                        /\ rows'[s].inv = rows[s].inv /\ rows'[s].amt = rows[s].amt
                        /\ rows'[s].saw = rows[s].saw
  BY <1>1, <1>2, RowsAreSomething
<1>5. Refs'
  <2>1. \A p \in ProviderPages : rev'[p] # Empty => rev'[p].row \in Ids
    BY DEF RevType
  <2>2. \A t \in DeskPages : desk'[t] # Empty => desk'[t].row \in Ids
    BY DEF DeskType
  <2>3. \A m \in net' : m.row \in Ids /\ rows[m.row] # NoRow
    BY <1>1, CallTyped DEF Refs
  <2>4. \A s \in resume' : s \in Ids /\ rows[s] # NoRow
    BY <1>1, SameTyped
  <2>5. \A k \in DOMAIN mints : mints[k].row \in Ids
    BY <1>1, MintTyped
  <2> QED BY <1>1, <1>4, <2>1, <2>2, <2>3, <2>4, <2>5 DEF Refs
<1>6. \A k, s : IsMintOf(k, s)' <=> IsMintOf(k, s)
  BY DEF IsMintOf
<1>7. Calls'
  BY <1>1, <1>6 DEF Calls
<1>8. Settled' /\ Sending'
  BY <1>1, <1>2, <1>6 DEF Settled, Sending
<1>9. \A s : MintsOf(s)' = MintsOf(s)
  BY DEF MintsOf
<1>10. \A s : s # r => (Reporting(s)' <=> Reporting(s))
  BY DEF Reporting
<1>11. Once'
  <2>1. ASSUME NEW s \in Ids \ raced'
        PROVE  /\ \A j, k \in MintsOf(s)' : j = k
               /\ MintsOf(s)' # {} => rows'[s].status \in {"MINTED", "DELETED"} \/ Reporting(s)'
    <3>1. /\ \A j, k \in MintsOf(s) : j = k
          /\ MintsOf(s) # {} => rows[s].status \in {"MINTED", "DELETED"} \/ Reporting(s)
      BY <1>1 DEF Once
    <3>2. CASE s = r
      BY <1>2, <1>9, <3>1, <3>2 DEF Reporting
    <3>3. CASE s # r
      BY <1>2, <1>9, <1>10, <3>1, <3>3
    <3> QED BY <3>2, <3>3
  <2> QED BY <2>1 DEF Once
<1>12. Closed'
  <2>1. \A s \in Ids : rows[s] # NoRow => rows[s].saw \in SUBSET Ids
    BY <1>1, RowTyped DEF Row
  <2>2. ASSUME NEW s \in Ids, rows'[s] # NoRow
        PROVE  (SawClosed(rows[s].saw, rows[s].inv))'
    <3>1. SawClosed(rows[s].saw, rows[s].inv) /\ rows[s].saw \in SUBSET Ids
      BY <1>1, <1>4, <2>1, <2>2 DEF Closed
    <3>2. SawClosed(rows[s].saw, rows[s].inv) => \A u \in rows[s].saw :
             /\ rows'[u] # NoRow
             /\ u \notin raced' /\ rows'[u].inv = rows[s].inv => rows'[u].status \notin ACTIVE_STATUSES
      BY <1>2, <1>4, <3>1 DEF SawClosed
    <3> QED BY <1>4, <3>1, <3>2 DEF SawClosed
  <2>3. ASSUME NEW f \in Forms, form'[f].pc = "checked"
        PROVE  (SawClosed(form[f].saw, form[f].inv))'
    <3>1. form[f].saw \in SUBSET Ids /\ SawClosed(form[f].saw, form[f].inv)
      BY <1>1, <2>3, PagesTyped DEF Closed
    <3>2. \A u \in form[f].saw :
             /\ rows'[u] # NoRow
             /\ u \notin raced' /\ rows'[u].inv = form[f].inv => rows'[u].status \notin ACTIVE_STATUSES
      BY <1>2, <1>4, <3>1 DEF SawClosed
    <3> QED BY <3>2 DEF SawClosed
  <2> QED BY <2>2, <2>3 DEF Closed
<1> QED BY <1>3, <1>5, <1>7, <1>8, <1>11, <1>12 DEF IInv

(* The same when no call is answered. *)
LEMMA StatusWritten ==
    ASSUME IInv, NEW r \in Ids, rows[r] \in Row, NEW q \in Row,
           q.inv = rows[r].inv, q.amt = rows[r].amt, q.saw = rows[r].saw,
           rows' = [rows EXCEPT ![r] = q],
           UNCHANGED <<form, rev, desk, net, claim, signer, irs, mints, ledger, faults>>,
           resume' \subseteq resume,
           raced \subseteq raced', raced' \subseteq Ids,
           q.status = "MINTED" => IsMintOf(q.tx, r),
           r \notin raced' /\ MintsOf(r) # {} =>
               q.status \in {"MINTED", "DELETED"} \/ \E m \in net : m.row = r /\ m.next = "MINTED",
           r \notin raced' /\ rows[r].status \notin ACTIVE_STATUSES => q.status \notin ACTIVE_STATUSES
    PROVE  IInv'
<1>1. /\ rev' \in [ProviderPages -> RevType \cup {Empty}]
      /\ desk' \in [DeskPages -> DeskType \cup {Empty}]
      /\ \A p \in ProviderPages : rev'[p] # Empty => rows[rev'[p].row] # NoRow
      /\ \A t \in DeskPages : desk'[t] # Empty => rows[desk'[t].row] # NoRow
      /\ \A t \in DeskPages : desk'[t].pc = "minting" => desk'[t].held = "APPROVED_FOR_MINT"
      /\ \A m \in net' : m.page \in ProviderPages => rev'[m.page].pc = "sent"
      /\ faults' \in 0..MaxFaults
  BY SameTyped
<1>2. net' \subseteq net /\ (\A m \in net \ net' : m.row = r) /\ ledger' \subseteq DOMAIN mints
  BY DEF IInv, Types
<1>3. r \notin raced' /\ MintsOf(r) # {} =>
         q.status \in {"MINTED", "DELETED"} \/ \E m \in net' : m.row = r /\ m.next = "MINTED"
  OBVIOUS
<1>4. UNCHANGED <<form, claim, signer, irs, mints>>
  OBVIOUS
<1> QED BY <1>1, <1>2, <1>3, <1>4, RowStep

LEMMA DeleteStep ==
    ASSUME IInv, NEW r \in Ids, Delete(r)
    PROVE  IInv'
<1>1. /\ UNCHANGED <<form, rev, desk, net, resume, claim, signer, irs, mints, ledger, idx, faults, raced>>
      /\ rows' = [rows EXCEPT ![r].status = "DELETED"] /\ rows[r] \in Row
  BY SameTyped, RowTyped DEF Delete, onChain
<1>2. PICK q \in Row : q = [rows[r] EXCEPT !.status = "DELETED"]
  BY <1>1 DEF Row
<1>3. /\ q.inv = rows[r].inv /\ q.amt = rows[r].amt /\ q.saw = rows[r].saw
      /\ q.status = "DELETED" /\ q.status \notin ACTIVE_STATUSES
  BY <1>1, <1>2 DEF Row, ACTIVE_STATUSES
<1>4. rows' = [rows EXCEPT ![r] = q] /\ ledger \subseteq DOMAIN mints /\ raced \subseteq Ids
  BY <1>1, <1>2, SameTyped DEF Types
<1> QED BY <1>1, <1>3, <1>4, StatusWritten

LEMMA ResumeWriteStep ==
    ASSUME IInv, NEW r \in Ids, ResumeWrite(r)
    PROVE  IInv'
<1>1. /\ UNCHANGED <<form, rev, desk, net, claim, signer, irs, mints, ledger, idx, faults>>
      /\ resume' \subseteq resume /\ r \in resume
      /\ rows' = IF Exists(r) THEN [rows EXCEPT ![r].status = getResumeStatus] ELSE rows
      /\ raced' = IF rows[r].status = "ACTION_REQUIRED_INVESTOR_IDENTITY"
                  THEN raced ELSE raced \cup {r}
  BY DEF ResumeWrite, onChain
<1>2. rows[r] \in Row /\ ledger \subseteq DOMAIN mints /\ raced \subseteq Ids
  BY <1>1, SameTyped, RowTyped DEF Types
<1>3. PICK q \in Row :
        /\ q.inv = rows[r].inv /\ q.amt = rows[r].amt /\ q.saw = rows[r].saw
        /\ rows' = [rows EXCEPT ![r] = q]
        /\ q.status = "MINTED" => q = rows[r]
  <2>1. CASE Exists(r)
    <3>1. PICK q \in Row : q = [rows[r] EXCEPT !.status = getResumeStatus]
      BY <1>2, StatusesValid DEF Row
    <3>2. /\ q.inv = rows[r].inv /\ q.amt = rows[r].amt /\ q.saw = rows[r].saw
          /\ q.status = getResumeStatus
      BY <1>2, <3>1 DEF Row
    <3> QED BY <1>1, <2>1, <3>1, <3>2, StatusesValid
  <2>2. CASE ~Exists(r)
    BY <1>1, <1>2, <2>2, SameTyped DEF Types
  <2> QED BY <2>1, <2>2
<1>4. raced \subseteq raced' /\ raced' \subseteq Ids
  BY <1>1, <1>2
<1>5. q.status = "MINTED" => IsMintOf(q.tx, r)
  BY <1>3 DEF IInv, Settled
<1>6. CASE rows[r].status = "ACTION_REQUIRED_INVESTOR_IDENTITY"
  <2>1. r \notin raced' /\ MintsOf(r) # {} => \E m \in net : m.row = r /\ m.next = "MINTED"
    BY <1>1, <1>6 DEF IInv, Once, Reporting
  <2>2. rows[r].status \in ACTIVE_STATUSES
    BY <1>6, StatusesValid
  <2> QED BY <1>1, <1>2, <1>3, <1>4, <1>5, <2>1, <2>2, StatusWritten
<1>7. CASE r \in raced'
  BY <1>1, <1>2, <1>3, <1>4, <1>5, <1>7, StatusWritten
<1> QED BY <1>1, <1>6, <1>7

-----------------------------------------------------------------------------
(* The answers of the PATCH calls. *)

LEMMA Patched ==
    ASSUME IInv, NEW m \in net, rows' = updateStatus(m)
    PROVE  \E q \in Row :
             /\ q.inv = rows[m.row].inv /\ q.amt = rows[m.row].amt /\ q.saw = rows[m.row].saw
             /\ rows' = [rows EXCEPT ![m.row] = q]
             /\ q.status = m.next
             /\ q.status = "MINTED" => IsMintOf(q.tx, m.row)
<1> DEFINE r == m.row
           tx == IF m.next = "MINTED" THEN m.tx ELSE rows[r].tx
<1>1. /\ r \in Ids /\ rows[r] \in Row /\ m.next \in VALID_STATUSES /\ m.tx \in 0..MaxMints
      /\ m.next = "MINTED" => IsMintOf(m.tx, r)
  BY CallTyped
<1>2. tx \in 0..MaxMints
  BY <1>1 DEF Row
<1>3. PICK q \in Row : q = [rows[r] EXCEPT !.status = m.next, !.tx = tx]
  BY <1>1, <1>2 DEF Row
<1>4. /\ q.inv = rows[r].inv /\ q.amt = rows[r].amt /\ q.saw = rows[r].saw
      /\ q.status = m.next /\ q.tx = tx
  BY <1>1, <1>3 DEF Row
<1>5. rows' = [rows EXCEPT ![r] = q]
  BY <1>1, <1>3, SameTyped DEF updateStatus, Types
<1> QED BY <1>1, <1>4, <1>5

LEMMA Entered ==
    ASSUME IInv, NEW m \in net
    PROVE  ledger \subseteq DOMAIN mints /\ LedgerWith(m) \subseteq DOMAIN mints
BY SameTyped, CallTyped DEF Types, LedgerWith, IsMintOf

LEMMA Reopened ==
    ASSUME IInv, NEW m \in net, rev' = ReopenOnProvider(m) \/ rev' = CloseOnProvider(m)
    PROVE  /\ rev' \in [ProviderPages -> RevType \cup {Empty}]
           /\ \A p \in ProviderPages : rev'[p] # Empty => rows[rev'[p].row] # NoRow
           /\ \A n \in net \ {m} : n.page \in ProviderPages => rev'[n.page].pc = "sent"
<1>1. ASSUME NEW p \in ProviderPages
      PROVE  /\ rev'[p] \in RevType \cup {Empty}
             /\ rev'[p] # Empty => rows[rev'[p].row] # NoRow
  <2>1. rev[p] \in RevType \cup {Empty} /\ (rev[p] # Empty => rows[rev[p].row] # NoRow)
    BY SameTyped
  <2>2. CASE rev'[p] = rev[p] \/ rev'[p] = Empty
    BY <2>1, <2>2
  <2>3. CASE p = m.page /\ rev'[p] = [rev[p] EXCEPT !.pc = "shown"]
    <3>1. rev[p] \in RevType
      BY <2>1, <2>3, SameTyped DEF Empty
    <3>2. PICK v \in RevType : v = [rev[p] EXCEPT !.pc = "shown"]
      BY <3>1 DEF RevType
    <3>3. v.row = rev[p].row
      BY <3>1, <3>2 DEF RevType
    <3> QED BY <2>1, <2>3, <3>1, <3>2, <3>3, RowsAreSomething
  <2> QED BY <2>2, <2>3 DEF ReopenOnProvider, CloseOnProvider, Empty
<1>2. DOMAIN rev' = ProviderPages /\ rev' = [p \in ProviderPages |-> rev'[p]]
  BY DEF ReopenOnProvider, CloseOnProvider
<1>3. \A n \in net \ {m} : n.page \in ProviderPages => rev'[n.page].pc = "sent"
  BY DEF IInv, Sending, ReopenOnProvider, CloseOnProvider
<1> QED BY <1>1, <1>2, <1>3

LEMMA Shown ==
    ASSUME IInv, NEW m \in net, desk' = ShowOnDesk(m)
    PROVE  /\ desk' \in [DeskPages -> DeskType \cup {Empty}]
           /\ \A t \in DeskPages : desk'[t] # Empty => rows[desk'[t].row] # NoRow
           /\ \A t \in DeskPages : desk'[t].pc = "minting" => desk'[t].held = "APPROVED_FOR_MINT"
<1>1. m.next \in VALID_STATUSES /\ m.shows \in {"same", "inactive", "active"}
  BY CallTyped DEF CallType
<1>2. ASSUME NEW t \in DeskPages
      PROVE  /\ desk'[t] \in DeskType \cup {Empty}
             /\ desk'[t] # Empty => rows[desk'[t].row] # NoRow
             /\ desk'[t].pc = "minting" => desk'[t].held = "APPROVED_FOR_MINT"
  <2>1. /\ desk[t] \in DeskType \cup {Empty} /\ (desk[t] # Empty => rows[desk[t].row] # NoRow)
        /\ desk[t].pc = "minting" => desk[t].held = "APPROVED_FOR_MINT"
    BY SameTyped
  <2>2. CASE desk'[t] = desk[t]
    BY <2>1, <2>2
  <2>3. CASE desk[t].pc # "empty" /\ desk'[t] # desk[t]
    <3>1. desk[t] \in DeskType /\ desk[t] # Empty
      BY <2>3, SameTyped, PagesTyped
    <3>2. PICK ident \in {"unknown", "absent", "inactive", "active"} :
            ident = IF m.shows = "same" THEN desk[t].ident ELSE m.shows
      BY <1>1, <3>1 DEF DeskType
    <3>3. PICK v \in DeskType : v = [desk[t] EXCEPT !.seen = m.next, !.ident = ident]
      BY <1>1, <3>1 DEF DeskType
    <3>4. v.row = desk[t].row /\ v.pc = desk[t].pc /\ v.held = desk[t].held
      BY <3>1, <3>3 DEF DeskType
    <3>5. desk'[t] = v
      BY <2>3, <3>1, <3>2, <3>3 DEF ShowOnDesk, DeskType
    <3> QED BY <2>1, <3>1, <3>4, <3>5
  <2>4. desk[t].pc # "empty" \/ desk'[t] = desk[t]
    BY DEF ShowOnDesk
  <2> QED BY <2>2, <2>3, <2>4
<1>3. DOMAIN desk' = DeskPages /\ desk' = [t \in DeskPages |-> desk'[t]]
  BY DEF ShowOnDesk
<1> QED BY <1>2, <1>3

LEMMA AnsweredStep ==
    ASSUME IInv, NEW m \in net, Answered(m)
    PROVE  IInv'
<1>1. /\ UNCHANGED <<form, resume, claim, signer, irs, mints, idx, faults>>
      /\ rows' = updateStatus(m) /\ ledger' = LedgerWith(m)
      /\ raced' = raced \cup Outdated(m)
      /\ net' = net \ {m} /\ desk' = ShowOnDesk(m) /\ rev' = CloseOnProvider(m)
  BY DEF Answered, onChain
<1>2. /\ m.row \in Ids /\ m.seen \in ACTIVE_STATUSES /\ rows[m.row] \in Row
      /\ m.next \in VALID_STATUSES
  BY CallTyped
<1>3. PICK q \in Row :
        /\ q.inv = rows[m.row].inv /\ q.amt = rows[m.row].amt /\ q.saw = rows[m.row].saw
        /\ rows' = [rows EXCEPT ![m.row] = q]
        /\ q.status = m.next
        /\ q.status = "MINTED" => IsMintOf(q.tx, m.row)
  BY <1>1, Patched
<1>4. /\ desk' \in [DeskPages -> DeskType \cup {Empty}]
      /\ \A t \in DeskPages : desk'[t] # Empty => rows[desk'[t].row] # NoRow
      /\ \A t \in DeskPages : desk'[t].pc = "minting" => desk'[t].held = "APPROVED_FOR_MINT"
  BY <1>1, Shown
<1>5. /\ rev' \in [ProviderPages -> RevType \cup {Empty}]
      /\ \A p \in ProviderPages : rev'[p] # Empty => rows[rev'[p].row] # NoRow
      /\ \A n \in net' : n.page \in ProviderPages => rev'[n.page].pc = "sent"
  BY <1>1, Reopened
<1>6. net' \subseteq net /\ (\A n \in net \ net' : n.row = m.row) /\ resume' \subseteq resume
  BY <1>1
<1>7. faults' \in 0..MaxFaults /\ ledger' \subseteq DOMAIN mints
  BY <1>1, SameTyped, Entered
<1>8. raced \subseteq raced' /\ raced' \subseteq Ids
  BY <1>1, <1>2, SameTyped DEF Outdated, Types
<1>9. m.row \notin raced' => rows[m.row].status \in ACTIVE_STATUSES /\ m.row \notin raced
  BY <1>1, <1>2 DEF Outdated
<1>10. m.row \notin raced' /\ MintsOf(m.row) # {} =>
         q.status \in {"MINTED", "DELETED"} \/ \E n \in net' : n.row = m.row /\ n.next = "MINTED"
  <2>1. rows[m.row].status \in ACTIVE_STATUSES => rows[m.row].status \notin {"MINTED", "DELETED"}
    BY DEF ACTIVE_STATUSES
  <2>2. m.row \notin raced' /\ MintsOf(m.row) # {} => \E n \in net : n.row = m.row /\ n.next = "MINTED"
    BY <1>2, <1>9, <2>1 DEF IInv, Once, Reporting
  <2> QED BY <1>1, <1>3, <2>2
<1>11. UNCHANGED <<form, claim, signer, irs, mints>>
  BY <1>1
<1>12. m.row \notin raced' /\ rows[m.row].status \notin ACTIVE_STATUSES =>
         q.status \notin ACTIVE_STATUSES
  BY <1>9
<1> QED BY <1>2, <1>3, <1>4, <1>5, <1>6, <1>7, <1>8, <1>10, <1>11, <1>12, RowStep

LEMMA NotFoundStep ==
    ASSUME IInv, NEW m \in net, NotFound(m)
    PROVE  IInv'
<1>1. /\ UNCHANGED <<rows, form, desk, resume, claim, signer, irs, mints, ledger, idx, faults, raced>>
      /\ net' = net \ {m} /\ rev' = ReopenOnProvider(m) /\ ~Exists(m.row)
  BY DEF NotFound, onChain
<1>2. m.row \in Ids /\ rows[m.row] \in Row
  BY CallTyped
<1>3. rows' = [rows EXCEPT ![m.row] = rows[m.row]]
  BY <1>1, <1>2, SameTyped DEF Types
<1>4. /\ desk' \in [DeskPages -> DeskType \cup {Empty}]
      /\ \A t \in DeskPages : desk'[t] # Empty => rows[desk'[t].row] # NoRow
      /\ \A t \in DeskPages : desk'[t].pc = "minting" => desk'[t].held = "APPROVED_FOR_MINT"
  BY <1>1, SameTyped
<1>5. /\ rev' \in [ProviderPages -> RevType \cup {Empty}]
      /\ \A p \in ProviderPages : rev'[p] # Empty => rows[rev'[p].row] # NoRow
      /\ \A n \in net' : n.page \in ProviderPages => rev'[n.page].pc = "sent"
  BY <1>1, Reopened
<1>6. net' \subseteq net /\ (\A n \in net \ net' : n.row = m.row) /\ resume' \subseteq resume
  BY <1>1
<1>7. /\ faults' \in 0..MaxFaults /\ ledger' \subseteq DOMAIN mints
      /\ raced \subseteq raced' /\ raced' \subseteq Ids
  BY <1>1, SameTyped DEF Types
<1>8. rows[m.row].status = "DELETED"
  BY <1>1, <1>2, RowsAreSomething DEF Exists
<1>9. rows[m.row].status = "MINTED" => IsMintOf(rows[m.row].tx, m.row)
  BY <1>8
<1>10. UNCHANGED <<form, claim, signer, irs, mints>>
  BY <1>1
<1>11. MintsOf(m.row) # {} => rows[m.row].status \in {"MINTED", "DELETED"}
  BY <1>8
<1> QED BY <1>2, <1>3, <1>4, <1>5, <1>6, <1>7, <1>9, <1>10, <1>11, RowStep

LEMMA FailedStep ==
    ASSUME IInv, NEW m \in net, Failed(m)
    PROVE  IInv'
<1>1. /\ UNCHANGED <<form, desk, resume, claim, signer, irs, mints, idx>>
      /\ raced' = raced \cup {m.row}
      /\ net' = net \ {m} /\ rev' = ReopenOnProvider(m) /\ Fault
      /\ \/ UNCHANGED <<rows, ledger>>
         \/ rows' = updateStatus(m) /\ ledger' \in {ledger, LedgerWith(m)}
  BY DEF Failed, onChain
<1>2. m.row \in Ids /\ rows[m.row] \in Row
  BY CallTyped
<1>3. PICK q \in Row :
        /\ q.inv = rows[m.row].inv /\ q.amt = rows[m.row].amt /\ q.saw = rows[m.row].saw
        /\ rows' = [rows EXCEPT ![m.row] = q]
        /\ q.status = "MINTED" => IsMintOf(q.tx, m.row)
  <2>1. CASE rows' = updateStatus(m)
    BY <2>1, Patched
  <2>2. CASE UNCHANGED <<rows, ledger>>
    <3>1. rows' = [rows EXCEPT ![m.row] = rows[m.row]]
      BY <1>2, <2>2, SameTyped DEF Types
    <3>2. rows[m.row].status = "MINTED" => IsMintOf(rows[m.row].tx, m.row)
      BY <1>2 DEF IInv, Settled
    <3> QED BY <1>2, <3>1, <3>2
  <2> QED BY <1>1, <2>1, <2>2
<1>4. /\ desk' \in [DeskPages -> DeskType \cup {Empty}]
      /\ \A t \in DeskPages : desk'[t] # Empty => rows[desk'[t].row] # NoRow
      /\ \A t \in DeskPages : desk'[t].pc = "minting" => desk'[t].held = "APPROVED_FOR_MINT"
  BY <1>1, SameTyped
<1>5. /\ rev' \in [ProviderPages -> RevType \cup {Empty}]
      /\ \A p \in ProviderPages : rev'[p] # Empty => rows[rev'[p].row] # NoRow
      /\ \A n \in net' : n.page \in ProviderPages => rev'[n.page].pc = "sent"
  BY <1>1, Reopened
<1>6. net' \subseteq net /\ (\A n \in net \ net' : n.row = m.row) /\ resume' \subseteq resume
  BY <1>1
<1>7. faults' \in 0..MaxFaults /\ ledger' \subseteq DOMAIN mints
  BY <1>1, SameTyped, FaultTyped, Entered
<1>8. raced \subseteq raced' /\ raced' \subseteq Ids /\ m.row \in raced'
  BY <1>1, <1>2, SameTyped DEF Types
<1>9. UNCHANGED <<form, claim, signer, irs, mints>>
  BY <1>1
<1> QED BY <1>2, <1>3, <1>4, <1>5, <1>6, <1>7, <1>8, <1>9, RowStep

-----------------------------------------------------------------------------
(* create() inserts a row. *)
LEMMA CreateInsertStep ==
    ASSUME IInv, NEW f \in Forms, CreateInsert(f)
    PROVE  IInv'
<1>1. /\ UNCHANGED <<rev, desk, net, resume, claim, signer, irs, mints, ledger, idx, faults, raced>>
      /\ form[f].pc = "checked" /\ form' = [form EXCEPT ![f] = Idle]
  BY DEF CreateInsert, onChain, Idle
<1>2. PICK r \in Ids :
        /\ rows[r] = NoRow
        /\ rows' = [rows EXCEPT ![r] =
                       [inv |-> form[f].inv, amt |-> form[f].amt, tx |-> 0,
                        status |-> getInitialStatus(TRUE), saw |-> form[f].saw]]
  BY DEF CreateInsert
<1>3. /\ form[f].inv \in Investors /\ form[f].amt \in Amounts /\ form[f].saw \in SUBSET Ids
      /\ SawClosed(form[f].saw, form[f].inv)
  BY <1>1, SameTyped, PagesTyped
<1>4. getInitialStatus(TRUE) \in ACTIVE_STATUSES
  BY StatusesValid DEF getInitialStatus
<1>5. PICK q \in Row : q = [inv |-> form[f].inv, amt |-> form[f].amt, tx |-> 0,
                            status |-> getInitialStatus(TRUE), saw |-> form[f].saw]
  <2>1. 0 \in 0..MaxMints
    BY PurchaseFlowAssumption
  <2> QED BY <1>3, <1>4, <2>1, StatusesValid DEF Row
<1>6. /\ q.inv = form[f].inv /\ q.saw = form[f].saw /\ q.status # "MINTED" /\ q # NoRow
  BY <1>4, <1>5, StatusesValid, RowsAreSomething
<1>7. Types /\ Refs /\ Calls /\ Sending /\ Settled /\ Once /\ Closed
  BY DEF IInv
<1>8. /\ rows' \in [Ids -> Row \cup {NoRow}] /\ rows'[r] = q
      /\ \A s \in Ids \ {r} : rows'[s] = rows[s]
  BY <1>2, <1>5, <1>7 DEF Types
<1>9. form' \in [Forms -> FormType \cup {Idle}] /\ \A g \in Forms : form'[g] \in {form[g], Idle}
  BY <1>1, <1>7 DEF Types
<1>10. Types'
  BY <1>1, <1>7, <1>8, <1>9 DEF Types
<1>11. \A s \in Ids : rows[s] # NoRow => s # r /\ rows'[s] = rows[s]
  BY <1>2, <1>8
<1>12. Refs'
  <2>1. \A p \in ProviderPages : rev[p] # Empty => rev[p].row \in Ids
    BY <1>7 DEF Types, RevType
  <2>2. \A t \in DeskPages : desk[t] # Empty => desk[t].row \in Ids
    BY <1>7 DEF Types, DeskType
  <2>3. \A m \in net : m.row \in Ids
    BY CallTyped
  <2>4. \A k \in DOMAIN mints : mints[k].row \in Ids
    BY <1>7, MintTyped
  <2>5. \A s \in resume : s \in Ids
    BY <1>7 DEF Types
  <2> QED BY <1>1, <1>7, <1>11, <2>1, <2>2, <2>3, <2>4, <2>5 DEF Refs
<1>13. \A k, s : IsMintOf(k, s)' <=> IsMintOf(k, s)
  BY <1>1 DEF IsMintOf
<1>14. Calls' /\ Sending'
  BY <1>1, <1>7, <1>13 DEF Calls, Sending
<1>15. Settled'
  BY <1>6, <1>7, <1>8, <1>13 DEF Settled
<1>16. \A s : MintsOf(s)' = MintsOf(s) /\ (Reporting(s)' <=> Reporting(s))
  BY <1>1 DEF MintsOf, Reporting
<1>17. MintsOf(r) = {}
  BY <1>2, <1>7 DEF MintsOf, Refs
<1>18. Once'
  BY <1>1, <1>7, <1>8, <1>16, <1>17 DEF Once
<1>19. Closed'
  <2>1. \A s \in Ids : rows[s] # NoRow => rows[s].saw \in SUBSET Ids
    BY <1>7, RowTyped DEF Row
  <2>2. \A s \in Ids : rows'[s] # NoRow =>
          \A u \in rows'[s].saw :
             /\ rows'[u] # NoRow
             /\ u \notin raced' /\ rows'[u].inv = rows'[s].inv => rows'[u].status \notin ACTIVE_STATUSES
    <3> SUFFICES ASSUME NEW s \in Ids, rows'[s] # NoRow, NEW u \in rows'[s].saw
                 PROVE  /\ rows'[u] # NoRow
                        /\ u \notin raced' /\ rows'[u].inv = rows'[s].inv =>
                             rows'[u].status \notin ACTIVE_STATUSES
      OBVIOUS
    <3>1. CASE s = r
      BY <1>1, <1>3, <1>6, <1>8, <1>11, <3>1 DEF SawClosed
    <3>2. CASE s # r
      BY <1>1, <1>7, <1>8, <1>11, <2>1, <3>2 DEF Closed, SawClosed
    <3> QED BY <3>1, <3>2
  <2>3. \A g \in Forms : form'[g].pc = "checked" =>
          \A u \in form'[g].saw :
             /\ rows'[u] # NoRow
             /\ u \notin raced' /\ rows'[u].inv = form'[g].inv => rows'[u].status \notin ACTIVE_STATUSES
    <3> SUFFICES ASSUME NEW g \in Forms, form'[g].pc = "checked", NEW u \in form'[g].saw
                 PROVE  /\ rows'[u] # NoRow
                        /\ u \notin raced' /\ rows'[u].inv = form'[g].inv =>
                             rows'[u].status \notin ACTIVE_STATUSES
      OBVIOUS
    <3>1. form'[g] = form[g]
      BY <1>9, RowsAreSomething
    <3>2. form[g].saw \in SUBSET Ids /\ SawClosed(form[g].saw, form[g].inv)
      BY <1>7, <3>1, PagesTyped DEF Closed
    <3> QED BY <1>1, <1>11, <3>1, <3>2 DEF SawClosed
  <2> QED BY <2>2, <2>3 DEF Closed, SawClosed
<1> QED BY <1>10, <1>12, <1>14, <1>15, <1>18, <1>19 DEF IInv

-----------------------------------------------------------------------------
(* The mint is sent. *)

LEMMA SendOver ==
    ASSUME IInv, NEW t \in DeskPages, DeskSend(t)
    PROVE  /\ desk' \in [DeskPages -> DeskType \cup {Empty}]
           /\ \A q \in DeskPages : desk'[q] # Empty => rows[desk'[q].row] # NoRow
           /\ \A q \in DeskPages : desk'[q].pc = "minting" => desk'[q].held = "APPROVED_FOR_MINT"
<1>1. /\ desk[t].pc = "minting"
      /\ desk' = [desk EXCEPT ![t].pc = "idle", ![t].balance = 0, ![t].held = "NONE"]
  BY DEF DeskSend
<1>2. desk[t] \in DeskType
  BY <1>1, SameTyped, PagesTyped
<1>3. PICK v \in DeskType : v = [desk[t] EXCEPT !.pc = "idle", !.balance = 0, !.held = "NONE"]
  <2>1. PICK b \in Int : b = 0
    OBVIOUS
  <2>2. PICK v \in DeskType : v = [desk[t] EXCEPT !.pc = "idle", !.balance = b, !.held = "NONE"]
    BY <1>2 DEF DeskType
  <2> QED BY <2>1, <2>2
<1>4. v.row = desk[t].row /\ v.pc = "idle"
  BY <1>2, <1>3 DEF DeskType
<1>5. desk' = [desk EXCEPT ![t] = v]
  BY <1>1, <1>2, <1>3, SameTyped
<1> QED BY <1>1, <1>4, <1>5, DeskSet

(* A mint for row r, reported by a call or lost.  A second mint of r finds r  *)
(* raced: Once says that a mint of an undisturbed row is on record or its     *)
(* MINTED call under way, and MintOutdated sees both.                         *)
LEMMA MintStep ==
    ASSUME IInv, NEW r \in Ids, rows[r] # NoRow, Len(mints) < MaxMints,
           mints' = Append(mints, [inv |-> rows[r].inv, amt |-> baseAmount(rows[r].amt), row |-> r]),
           UNCHANGED <<rows, form, rev, resume, claim, signer, irs, ledger>>,
           desk' \in [DeskPages -> DeskType \cup {Empty}],
           \A q \in DeskPages : desk'[q] # Empty => rows[desk'[q].row] # NoRow,
           \A q \in DeskPages : desk'[q].pc = "minting" => desk'[q].held = "APPROVED_FOR_MINT",
           net \subseteq net', net' \subseteq CallType,
           \A m \in net' \ net : /\ m.page \notin ProviderPages /\ m.row = r
                                 /\ m.next = "MINTED" /\ m.tx = Len(mints) + 1,
           faults' \in 0..MaxFaults,
           raced \subseteq raced', raced' \subseteq Ids,
           r \notin raced' => /\ rows[r].status = "APPROVED_FOR_MINT" /\ ~Reporting(r)
                              /\ net' # net
    PROVE  IInv'
<1>1. Types /\ Refs /\ Calls /\ Sending /\ Settled /\ Once /\ Closed
  BY DEF IInv
<1>2. rows[r].inv \in Investors /\ rows[r].amt \in Amounts
  BY <1>1, RowTyped DEF Row
<1>3. PICK k \in MintType : k = [inv |-> rows[r].inv, amt |-> baseAmount(rows[r].amt), row |-> r]
  BY <1>2, BaseAmountTyped DEF MintType
<1>4. k.inv = rows[r].inv /\ k.amt = baseAmount(rows[r].amt) /\ k.row = r
  BY <1>3
<1>5. mints' = Append(mints, k)
  BY <1>3
<1>6. PICK n \in Nat : n = Len(mints) + 1
  BY <1>1 DEF Types
<1>7. /\ DOMAIN mints' = DOMAIN mints \cup {n} /\ n \notin DOMAIN mints
      /\ mints'[n] = k /\ \A j \in DOMAIN mints : mints'[j] = mints[j]
      /\ mints' \in Seq(MintType) /\ Len(mints') <= MaxMints
      /\ n \in 1..MaxMints
  BY <1>1, <1>5, <1>6, PurchaseFlowAssumption DEF Types
<1>8. Types'
  BY <1>1, <1>7 DEF Types
<1>9. \A j, s : IsMintOf(j, s) => IsMintOf(j, s)'
  BY <1>7 DEF IsMintOf
<1>10. IsMintOf(n, r)'
  BY <1>4, <1>7 DEF IsMintOf
<1>11. \A m \in net' \ net : m.row = r /\ m.next = "MINTED" /\ m.tx = n
  BY <1>6
<1>12. Refs'
  <2>1. \A m \in net' : rows[m.row] # NoRow
    BY <1>1, <1>11 DEF Refs
  <2>2. \A j \in DOMAIN mints' : /\ rows[mints'[j].row] # NoRow
                                 /\ mints'[j].inv = rows[mints'[j].row].inv
                                 /\ mints'[j].amt = baseAmount(rows[mints'[j].row].amt)
    BY <1>1, <1>4, <1>7 DEF Refs
  <2> QED BY <1>1, <2>1, <2>2 DEF Refs
<1>13. Calls'
  BY <1>1, <1>9, <1>10, <1>11 DEF Calls
<1>14. Sending'
  BY <1>1 DEF Sending
<1>15. Settled'
  BY <1>1, <1>9 DEF Settled
<1>16. \A s : s # r => MintsOf(s)' = MintsOf(s)
  <2> SUFFICES ASSUME NEW s, s # r PROVE MintsOf(s)' = MintsOf(s)
    OBVIOUS
  <2>1. MintsOf(s)' = {j \in DOMAIN mints \cup {n} : mints'[j].row = s}
    BY <1>7 DEF MintsOf
  <2>2. \A j \in DOMAIN mints \cup {n} : mints'[j].row = s <=> j \in DOMAIN mints /\ mints[j].row = s
    BY <1>4, <1>7
  <2> QED BY <2>1, <2>2 DEF MintsOf
<1>17. \A j : j \in MintsOf(r)' <=> (j \in MintsOf(r) \/ j = n)
  BY <1>4, <1>7 DEF MintsOf
<1>18. \A s : Reporting(s) => Reporting(s)'
  BY DEF Reporting
<1>19. Once'
  <2>1. ASSUME NEW s \in Ids \ raced'
        PROVE  /\ \A i, j \in MintsOf(s)' : i = j
               /\ MintsOf(s)' # {} => rows'[s].status \in {"MINTED", "DELETED"} \/ Reporting(s)'
    <3>1. CASE s # r
      BY <1>1, <1>16, <1>18, <2>1, <3>1 DEF Once
    <3>2. CASE s = r
      <4>1. MintsOf(r) = {}
        BY <1>1, <2>1, <3>2 DEF Once
      <4>2. Reporting(r)'
        <5>1. PICK m \in net' \ net : TRUE
          BY <2>1, <3>2
        <5> QED BY <1>11, <5>1 DEF Reporting
      <4> QED BY <1>17, <3>2, <4>1, <4>2
    <3> QED BY <3>1, <3>2
  <2> QED BY <2>1 DEF Once
<1>20. \A saw, i : SawClosed(saw, i) => SawClosed(saw, i)'
  BY DEF SawClosed
<1>21. Closed'
  BY <1>1, <1>20 DEF Closed
<1> QED BY <1>8, <1>12, <1>13, <1>14, <1>15, <1>19, <1>21 DEF IInv

LEMMA DeskSendStep ==
    ASSUME IInv, NEW t \in DeskPages, DeskSend(t)
    PROVE  IInv'
<1> DEFINE r == desk[t].row
           n == Len(mints) + 1
<1>1. /\ UNCHANGED <<rows, form, rev, resume, claim, signer, irs, ledger, idx>>
      /\ desk[t].pc = "minting"
  BY DEF DeskSend
<1>2. /\ desk' \in [DeskPages -> DeskType \cup {Empty}]
      /\ \A q \in DeskPages : desk'[q] # Empty => rows[desk'[q].row] # NoRow
      /\ \A q \in DeskPages : desk'[q].pc = "minting" => desk'[q].held = "APPROVED_FOR_MINT"
  BY SendOver
<1>3. r \in Ids /\ rows[r] # NoRow /\ desk[t].held = "APPROVED_FOR_MINT"
  BY <1>1, SameTyped, PagesTyped
<1>4. CASE UNCHANGED <<mints, net, raced, faults>>
  BY <1>1, <1>2, <1>4, SameTyped, PageStep
<1>5. ASSUME Len(mints) < MaxMints,
             mints' = Append(mints, [inv |-> rows[r].inv, amt |-> baseAmount(rows[r].amt), row |-> r])
      PROVE  IInv'
  <2>1. CASE net' \in Sent(Reported(t, n)) /\ raced' = raced \cup MintOutdated(t) /\ UNCHANGED faults
    <3>1. Len(mints) \in Nat
      BY SameTyped DEF Types
    <3>2. n \in 0..MaxMints
      BY <1>5, <3>1, PurchaseFlowAssumption
    <3>3. Reported(t, n) = [page |-> t, row |-> r, seen |-> "APPROVED_FOR_MINT", next |-> "MINTED",
                            tx |-> n, shows |-> "same"]
      BY <1>3 DEF Reported, Call
    <3>4. "APPROVED_FOR_MINT" \in ACTIVE_STATUSES /\ "MINTED" \in VALID_STATUSES
      BY DEF ACTIVE_STATUSES, VALID_STATUSES, CLOSED_STATUSES
    <3>5. Reported(t, n) \in CallType
      BY <1>3, <3>2, <3>3, <3>4 DEF CallType
    <3>6. net' = net \cup {Reported(t, n)}
      BY <2>1 DEF Sent
    <3>7. /\ Reported(t, n).page = t /\ Reported(t, n).row = r
          /\ Reported(t, n).next = "MINTED" /\ Reported(t, n).tx = n
      BY <3>3
    <3>8. \A m \in net' \ net : /\ m.page \notin ProviderPages /\ m.row = r
                                /\ m.next = "MINTED" /\ m.tx = n
      BY <3>6, <3>7, PurchaseFlowAssumption
    <3>9. raced \subseteq raced' /\ raced' \subseteq Ids
      BY <1>3, <2>1, SameTyped DEF MintOutdated, Types
    <3>10. r \notin raced' => rows[r].status = "APPROVED_FOR_MINT" /\ ~Reporting(r)
      BY <1>3, <2>1 DEF MintOutdated, Reporting
    <3>11. r \notin raced' => net' # net
      BY <3>6, <3>7, <3>10 DEF Reporting
    <3>12. net \subseteq net' /\ net' \subseteq CallType /\ faults' \in 0..MaxFaults
      BY <2>1, <3>5, <3>6, SameTyped
    <3> QED BY <1>1, <1>2, <1>3, <1>5, <3>8, <3>9, <3>10, <3>11, <3>12, MintStep
  <2>2. CASE Fault /\ raced' = raced \cup {r} /\ UNCHANGED net
    <3>1. faults' \in 0..MaxFaults /\ raced \subseteq raced' /\ raced' \subseteq Ids /\ r \in raced'
      BY <1>3, <2>2, SameTyped, FaultTyped DEF Types
    <3>2. net \subseteq net' /\ net' \subseteq CallType /\ net' \ net = {}
      BY <2>2, SameTyped
    <3> QED BY <1>1, <1>2, <1>3, <1>5, <3>1, <3>2, MintStep
  <2>3. \/ net' \in Sent(Reported(t, n)) /\ raced' = raced \cup MintOutdated(t) /\ UNCHANGED faults
        \/ Fault /\ raced' = raced \cup {r} /\ UNCHANGED net
    <3>1. mints' # mints
      BY <1>5, SameTyped DEF Types
    <3> QED BY <3>1 DEF DeskSend
  <2> QED BY <2>1, <2>2, <2>3
<1> QED BY <1>4, <1>5 DEF DeskSend

-----------------------------------------------------------------------------
LEMMA InitInvariant ==
    ASSUME Init
    PROVE  IInv
<1>1. DOMAIN mints = {} /\ mints \in Seq(MintType) /\ Len(mints) = 0
  BY DEF Init
<1>2. Types
  BY <1>1, PurchaseFlowAssumption DEF Init, Types, Idle, Empty
<1>3. \A r \in Ids : rows[r] = NoRow
  BY DEF Init
<1>4. /\ \A f \in Forms : form[f] = Idle
      /\ \A p \in ProviderPages : rev[p] = Empty
      /\ \A t \in DeskPages : desk[t] = Empty
  BY DEF Init, Idle, Empty
<1>5. net = {} /\ resume = {}
  BY DEF Init
<1>6. Refs
  BY <1>1, <1>4, <1>5 DEF Refs
<1>7. Calls /\ Sending
  BY <1>4, <1>5, RowsAreSomething DEF Calls, Sending
<1>8. Settled
  BY <1>3, RowsAreSomething DEF Settled
<1>9. Once
  BY <1>1 DEF Once, MintsOf
<1>10. Closed
  BY <1>3, <1>4, RowsAreSomething DEF Closed
<1> QED BY <1>2, <1>6, <1>7, <1>8, <1>9, <1>10 DEF IInv

LEMMA NextInvariant ==
    ASSUME IInv, [Next]_vars
    PROVE  IInv'
<1>1. CASE UNCHANGED vars
  <2>1. UNCHANGED <<rows, form, rev, desk, net, resume, claim, signer, irs, mints, ledger,
                    faults, raced>>
    BY <1>1 DEF vars
  <2> QED BY <2>1, SameTyped, PageStep
<1>2. ASSUME NEW f \in Forms,
             \/ \E i \in Investors, amt \in Amounts : Submit(f, i, amt)
             \/ CreateCheck(f) \/ CreateInsert(f)
      PROVE  IInv'
  BY <1>2, CreateReadSteps, CreateInsertStep
<1>3. ASSUME NEW r \in Ids, Delete(r) \/ ResumeRead(r) \/ ResumeWrite(r)
      PROVE  IInv'
  BY <1>3, DeleteStep, ResumeReadStep, ResumeWriteStep
<1>4. ASSUME NEW m \in net, Answered(m) \/ NotFound(m) \/ Failed(m)
      PROVE  IInv'
  BY <1>4, AnsweredStep, NotFoundStep, FailedStep
<1>5. ASSUME NEW p \in ProviderPages,
             \/ \E r \in Ids : ProviderLoad(p, r)
             \/ ProviderApprove(p) \/ ProviderIssue(p) \/ ProviderReject(p)
      PROVE  IInv'
  BY <1>5, ProviderLoadStep, ProviderApproveStep, ProviderIssueStep, ProviderRejectStep
<1>6. ASSUME NEW t \in DeskPages,
             \/ \E r \in Ids : DeskLoad(t, r)
             \/ DeskIdentity(t) \/ DeskApprove(t) \/ DeskWhitelist(t) \/ DeskActivate(t)
             \/ DeskRemoveIdentity(t) \/ DeskMint(t) \/ DeskSend(t)
      PROVE  IInv'
  BY <1>6, DeskLoadStep, DeskIdentityStep, DeskApproveStep, DeskWhitelistStep, DeskActivateStep,
     DeskRemoveStep, DeskMintStep, DeskSendStep
<1>7. CASE RotateSigner \/ Sync
  BY <1>7, RotateStep, SyncStep
<1> QED BY <1>1, <1>2, <1>3, <1>4, <1>5, <1>6, <1>7 DEF Next

(* Every reachable state of the flow satisfies the inductive invariant.       *)
THEOREM PurchaseInvariant == Spec => []IInv
<1>1. Init => IInv
  BY InitInvariant
<1>2. IInv /\ [Next]_vars => IInv'
  BY NextInvariant
<1> QED BY <1>1, <1>2, PTL DEF Spec

(* Every variable has its type, and the ledger holds hashes of the chain.     *)
THEOREM TypeCorrect == Spec => []TypeOK
<1>1. IInv => TypeOK
  <2> SUFFICES ASSUME IInv PROVE TypeOK
    OBVIOUS
  <2>1. Types
    BY DEF IInv
  <2>2. \A f \in Forms : form[f].pc \in {"idle", "validated", "checked"}
    BY <2>1 DEF Types, FormType, Idle
  <2>3. \A p \in ProviderPages : rev[p].pc \in {"empty", "shown", "issue", "sent"}
    BY <2>1 DEF Types, RevType, Empty
  <2>4. \A t \in DeskPages : desk[t].pc \in {"empty", "idle", "minting"}
    BY <2>1 DEF Types, DeskType, Empty
  <2>5. \A m \in net : m.next \in VALID_STATUSES /\ m.tx \in 0..MaxMints
    BY CallTyped
  <2>6. \A k \in DOMAIN mints : mints[k] \in [inv : Investors, amt : Nat, row : Ids]
    BY <2>1, MintTyped DEF MintType
  <2>7. ledger \subseteq 1..MaxMints
    <3>1. DOMAIN mints = 1..Len(mints) /\ Len(mints) \in Nat
      BY <2>1 DEF Types
    <3> QED BY <2>1, <3>1, PurchaseFlowAssumption DEF Types
  <2> QED BY <2>1, <2>2, <2>3, <2>4, <2>5, <2>6, <2>7 DEF TypeOK, Types
<1> QED BY <1>1, PurchaseInvariant, PTL

(* A row that says MINTED names a confirmed mint of its own request, to its   *)
(* investor and of the base units handleMintPurchaseRequest makes of its      *)
(* amount, although updateStatus takes status and hash from whatever page     *)
(* calls it.                                                                  *)
THEOREM MintedRowsCorrect == Spec => []MintedRowsDelivered
<1>1. IInv => MintedRowsDelivered
  <2> SUFFICES ASSUME IInv, NEW r \in RowsWith({"MINTED"})
               PROVE  /\ rows[r].tx \in DOMAIN mints
                      /\ mints[rows[r].tx] = [inv |-> rows[r].inv, amt |-> baseAmount(rows[r].amt), row |-> r]
    BY DEF MintedRowsDelivered
  <2>1. rows[r].tx \in DOMAIN mints /\ mints[rows[r].tx].row = r
    BY DEF IInv, Settled, IsMintOf, RowsWith
  <2>2. PICK k \in MintType : k = mints[rows[r].tx]
    BY <2>1, SameTyped, MintTyped
  <2>3. k.inv = rows[r].inv /\ k.amt = baseAmount(rows[r].amt) /\ k.row = r
    BY <2>1, <2>2 DEF IInv, Refs
  <2>4. k = [inv |-> rows[r].inv, amt |-> baseAmount(rows[r].amt), row |-> r]
    BY <2>3 DEF MintType
  <2> QED BY <2>1, <2>2, <2>4
<1> QED BY <1>1, PurchaseInvariant, PTL

(* The mint of a MINTED row is of the amount the backend checked, provided    *)
(* the token has the six decimals handleMintPurchaseRequest assumes and no    *)
(* amount has more digits.                                                    *)
AmountDelivered ==
    \A r \in RowsWith({"MINTED"}) : mints[rows[r].tx].amt = decimalToBaseUnits(rows[r].amt)
THEOREM AmountDeliveredCorrect ==
    ASSUME TokenUnit = PageUnit,
           \A a \in Amounts : \E n \in Nat : a * TokenUnit = n * Grain
    PROVE  Spec => []AmountDelivered
<1>1. \A a \in Amounts : baseAmount(a) = decimalToBaseUnits(a)
  BY SixDecimals
<1>2. IInv => AmountDelivered
  <2> SUFFICES ASSUME IInv, NEW r \in RowsWith({"MINTED"})
               PROVE  mints[rows[r].tx].amt = decimalToBaseUnits(rows[r].amt)
    BY DEF AmountDelivered
  <2>1. rows[r].tx \in DOMAIN mints /\ mints[rows[r].tx].row = r
    BY DEF IInv, Settled, IsMintOf, RowsWith
  <2>2. rows[r] \in Row
    BY SameTyped, RowTyped DEF RowsWith, VALID_STATUSES, CLOSED_STATUSES
  <2> QED BY <1>1, <2>1, <2>2 DEF IInv, Refs, Row
<1> QED BY <1>2, PurchaseInvariant, PTL

(* A request that no outdated call and no lost answer touched is minted at    *)
(* most once, though the chain does not know requests.                        *)
THEOREM OneMintCorrect == Spec => []OneMintPerUndisturbedRow
<1>1. IInv => OneMintPerUndisturbedRow
  <2> SUFFICES ASSUME IInv, NEW r \in Ids \ raced
               PROVE  Cardinality(MintsOf(r)) <= 1
    BY DEF OneMintPerUndisturbedRow
  <2>1. \A j, k \in MintsOf(r) : j = k
    BY DEF IInv, Once
  <2>2. CASE MintsOf(r) = {}
    BY <2>2, FS_EmptySet
  <2>3. ASSUME NEW k \in MintsOf(r)
        PROVE  Cardinality(MintsOf(r)) <= 1
    <3>1. MintsOf(r) = {k}
      BY <2>1
    <3> QED BY <3>1, FS_Singleton
  <2> QED BY <2>2, <2>3
<1> QED BY <1>1, PurchaseInvariant, PTL

(* Two open requests of one investor were inserted by create() calls of which *)
(* neither saw the other's row, unless a call reopened one of them.           *)
THEOREM TwinsCorrect == Spec => []OpenTwinsOverlapped
<1>1. IInv => OpenTwinsOverlapped
  <2> SUFFICES ASSUME IInv, NEW r \in RowsWith(ACTIVE_STATUSES) \ raced,
                      NEW s \in RowsWith(ACTIVE_STATUSES) \ raced,
                      rows[r].inv = rows[s].inv
               PROVE  r \notin rows[s].saw
    BY DEF OpenTwinsOverlapped
  <2>1. s \in Ids /\ rows[s].status \in ACTIVE_STATUSES /\ rows[r].status \in ACTIVE_STATUSES
        /\ r \notin raced
    BY DEF RowsWith
  <2>2. rows[s] # NoRow
    BY <2>1, RowsAreSomething DEF ACTIVE_STATUSES
  <2>3. SawClosed(rows[s].saw, rows[s].inv)
    BY <2>1, <2>2 DEF IInv, Closed
  <2> QED BY <2>1, <2>3 DEF SawClosed
<1> QED BY <1>1, PurchaseInvariant, PTL

-----------------------------------------------------------------------------
LEMMA LogNext ==
    ASSUME IInv, [Next]_vars
    PROVE  [Log!Next]_<<DOMAIN mints, ledger>>
<1>1. Types
  BY DEF IInv
<1>2. CASE UNCHANGED <<mints, ledger>>
  BY <1>2
<1>3. ASSUME NEW t \in DeskPages, DeskSend(t), ~UNCHANGED <<mints, ledger>>
      PROVE  [Log!Next]_<<DOMAIN mints, ledger>>
  <2>1. PICK k : mints' = Append(mints, k) /\ Len(mints) < MaxMints /\ ledger' = ledger
    BY <1>3 DEF DeskSend
  <2>2. /\ DOMAIN mints' = DOMAIN mints \cup {Len(mints) + 1}
        /\ Len(mints) + 1 \in 1..MaxMints /\ Len(mints) + 1 \notin DOMAIN mints
    BY <1>1, <2>1, PurchaseFlowAssumption DEF Types
  <2>3. Log!Deliver(Len(mints) + 1)
    BY <2>1, <2>2 DEF Log!Deliver
  <2> QED BY <2>2, <2>3 DEF Log!Next
<1>4. ASSUME NEW m \in net, Answered(m) \/ Failed(m)
      PROVE  [Log!Next]_<<DOMAIN mints, ledger>>
  <2>1. mints' = mints /\ ledger' \in {ledger, LedgerWith(m)}
    BY <1>4 DEF Answered, Failed, onChain
  <2>2. CASE ledger' = ledger
    BY <2>1, <2>2
  <2>3. CASE ledger' = ledger \cup {m.tx} /\ m.tx # 0 /\ m.tx \notin ledger
    <3>1. m.next = "MINTED" /\ m.tx \in DOMAIN mints /\ m.tx \in 1..MaxMints
      BY <2>3, CallTyped, PurchaseFlowAssumption DEF IsMintOf
    <3>2. Log!Record(m.tx)
      BY <2>1, <2>3, <3>1 DEF Log!Record
    <3> QED BY <3>1, <3>2 DEF Log!Next
  <2> QED BY <2>1, <2>2, <2>3 DEF LedgerWith
<1>5. \/ UNCHANGED <<mints, ledger>>
      \/ \E t \in DeskPages : DeskSend(t)
      \/ \E m \in net : Answered(m) \/ Failed(m)
  BY DEF Next, vars, onChain, Submit, CreateCheck, CreateInsert, Delete, ResumeRead, ResumeWrite,
         NotFound, ProviderLoad, ProviderApprove, ProviderIssue, ProviderReject, RotateSigner,
         DeskLoad, DeskIdentity, DeskApprove, DeskWhitelist, DeskActivate, DeskRemoveIdentity,
         DeskMint, Sync
<1> QED BY <1>2, <1>3, <1>4, <1>5

(* PurchaseFlow implements DeliveryLog: TOKENS_MINTED entries name mints that *)
(* the chain has confirmed, and neither is taken back.                        *)
THEOREM PurchaseLogCorrect == Spec => LogSpec
<1>1. Init => Log!Init
  BY DEF Init, Log!Init
<1>2. IInv /\ [Next]_vars => [Log!Next]_<<DOMAIN mints, ledger>>
  BY LogNext
<1> QED BY <1>1, <1>2, PurchaseInvariant, PTL DEF Spec, LogSpec, Log!Spec

=============================================================================
