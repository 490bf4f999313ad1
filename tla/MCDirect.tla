------------------------------ MODULE MCDirect ------------------------------
(***************************************************************************)
(* One sender and one recipient.  Not all pages are in use at once: two      *)
(* transfer pages, whose onboardings may overlap, beside a provider; two     *)
(* pages of the sender beside a provider and an issuer; or one page of the   *)
(* sender beside two provider pages.                                         *)
(***************************************************************************)
EXTENDS DirectTransfer, TLC

CONSTANTS w1, f1, f2, f3, p1, p2, d1

VARIABLE used    \* the pages in use

MCInit ==
    /\ Init
    /\ used \in {{f1, f3, p1}, {f1, f2, p1, d1}, {f1, p1, p2}}
    /\ \A to \in Recipients : claims[to] \in {{}, Topics}

MCNext ==
    /\ Next
    /\ \A a \in Actors \ used : view'[a] = view[a] /\ call'[a] = call[a]
    /\ UNCHANGED used

MCSpec == MCInit /\ [][MCNext]_<<vars, used>>
=============================================================================
