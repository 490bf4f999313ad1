---------------------------- MODULE DeliveryLog ----------------------------
(***************************************************************************)
(* What the platform's database promises about the chain: a delivery (a     *)
(* confirmed mint, token transfer or suite deployment) happens first, and   *)
(* is recorded under its transaction hash afterwards, or never.  Records do *)
(* not run ahead of the chain and are not taken back.  PurchaseFlow,        *)
(* Marketplace, DirectTransfer and Deployment are shown to implement it.    *)
(***************************************************************************)
CONSTANT Deliveries    \* identities of deliveries: transaction hashes

VARIABLES
    delivered,   \* deliveries the chain has confirmed
    recorded     \* deliveries the database has on record

Init == delivered = {} /\ recorded = {}

(* A transaction is confirmed; the database does not know yet. *)
Deliver(d) ==
    /\ d \notin delivered
    /\ delivered' = delivered \cup {d}
    /\ UNCHANGED recorded

(* The client reports a confirmed transaction. *)
Record(d) ==
    /\ d \in delivered \ recorded
    /\ recorded' = recorded \cup {d}
    /\ UNCHANGED delivered

Next == \E d \in Deliveries : Deliver(d) \/ Record(d)

Spec == Init /\ [][Next]_<<delivered, recorded>>
=============================================================================
