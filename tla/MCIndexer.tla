----------------------------- MODULE MCIndexer -----------------------------
(***************************************************************************)
(* Two tokens, one of them configured, one wallet, two calls at a time.      *)
(***************************************************************************)
EXTENDS Indexer

CONSTANTS a, b, w, r1, r2
=============================================================================
