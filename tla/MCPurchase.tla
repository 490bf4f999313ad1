----------------------------- MODULE MCPurchase -----------------------------
(***************************************************************************)
(* Two scenarios, told apart by a variable that never changes.  Review: one  *)
(* request that a provider page and two issuer pages act on; its constants    *)
(* are those of the configuration, and its second row is left unused.         *)
(* Admission: two forms that create requests of two investors of a token      *)
(* without required claims, under caps.  A request is for one and a quarter  *)
(* tokens; in the review the token has fewer decimals than the issuer page   *)
(* assumes, so that too much is minted, in the admission it has more.        *)
(***************************************************************************)
EXTENDS PurchaseFlow, TLC

CONSTANTS i1, i2, f1, f2, p1, t1, t2

VARIABLE scenario

MCCountry == i1 :> 1 @@ i2 :> 1
MCLegacy == {<<i1, 1>>}
Sym == Permutations(DeskPages)

Admission == INSTANCE PurchaseFlow WITH
    Investors <- {i1, i2}, MaxRows <- 2, Forms <- {f1, f2}, ProviderPages <- {},
    DeskPages <- {t1}, Topics <- {}, Providers <- {}, LegacyClaims <- {},
    TokenUnit <- 4, CountryCap <- 2, MaxMints <- 1, MaxCalls <- 1, MaxFaults <- 0

MCInit ==
    \/ scenario = "review" /\ Init
    \/ scenario = "admission" /\ Admission!Init

MCNext ==
    /\ \/ scenario = "review" /\ Next /\ rows'[2] = NoRow
       \/ scenario = "admission" /\ Admission!Next
    /\ UNCHANGED scenario

MCSpec == MCInit /\ [][MCNext]_<<vars, scenario>>

=============================================================================
