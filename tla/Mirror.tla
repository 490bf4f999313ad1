------------------------------- MODULE Mirror -------------------------------
(***************************************************************************)
(* What the indexed tables promise about the chain.  Each item's value on    *)
(* chain is numbered by how often it changed; the table holds a value the    *)
(* item has had (possibly an old one, possibly older than the last shown),   *)
(* and once the chain is quiet the tables catch up and stay so.              *)
(***************************************************************************)
EXTENDS Naturals

CONSTANT Items

VARIABLES
    source,   \* item -> number of the value on chain
    copy,     \* item -> number of the value in the tables
    excused   \* items that need not be caught up with

Init ==
    /\ source = [x \in Items |-> 0]
    /\ copy = [x \in Items |-> 0]

Change == \A x \in Items : source'[x] \in {source[x], source[x] + 1}

Copy ==
    /\ UNCHANGED source
    /\ \E x \in Items : \E v \in 0..source[x] : copy' = [copy EXCEPT ![x] = v]

Next == (Change /\ UNCHANGED copy) \/ Copy

Caught == \A x \in Items \ excused : copy[x] = source[x]

Safety == Init /\ [][Next]_<<source, copy>>

Spec == Safety /\ <>[]Caught
=============================================================================
