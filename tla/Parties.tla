------------------------------- MODULE Parties -------------------------------
(***************************************************************************)
(* The constants the modules of the token suite share.                      *)
(***************************************************************************)
EXTENDS Integers, FiniteSets

CONSTANTS
    Wallets,    \* wallets of investors and voters; a wallet also stands for its FID
    Countries,  \* ISO-3166 country codes
    MaxU64      \* u64::MAX, small enough that overflow is reached

ASSUME PartiesAssumption ==
    /\ IsFiniteSet(Wallets) /\ IsFiniteSet(Countries)
    /\ "none" \notin Wallets
    /\ "none" \notin Countries
    /\ MaxU64 \in Nat
=============================================================================
