---------------------------- MODULE MCGovernance ----------------------------
(***************************************************************************)
(* One proposal, three wallets, two slots of voting.  7 * 10000 does not    *)
(* fit the bound taken for u64::MAX, so the overflow errors of bps_amount    *)
(* are reached; 5000 and 6667 basis points make rounding matter.            *)
(***************************************************************************)
EXTENDS Governance
=============================================================================
