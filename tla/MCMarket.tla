------------------------------ MODULE MCMarket ------------------------------
(***************************************************************************)
(* One listing over a balance that covers it twice.  Two buyers that hold the *)
(* token already and are eligible; or, with one fault at most, a holder and   *)
(* one that is new to it.  The variable scenario never changes.               *)
(***************************************************************************)
EXTENDS Marketplace, TLC

CONSTANTS l1, b1, b2

VARIABLE scenario

IsHolder(b) == claims[b] = Topics /\ irs[b] = "active"
IsNew(b) == claims[b] = {} /\ irs[b] = "absent"

MCInit ==
    /\ Init
    /\ \/ scenario = "holders" /\ \A b \in Buyers : IsHolder(b)
       \/ /\ scenario = "newcomer"
          /\ \E n \in Buyers : IsNew(n) /\ \A b \in Buyers \ {n} : IsHolder(b)

MCNext ==
    /\ Next
    /\ scenario = "newcomer" => faults' <= 1
    /\ UNCHANGED scenario

MCSpec == MCInit /\ [][MCNext]_<<vars, scenario>>

Sym == Permutations(Buyers)
=============================================================================
