------------------------------ MODULE MCSession ------------------------------
(* Two accounts, a header that is always mounted and a page that comes and   *)
(* goes.                                                                     *)
EXTENDS WalletSession, TLC
=============================================================================
