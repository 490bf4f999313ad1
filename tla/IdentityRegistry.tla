-------------------------- MODULE IdentityRegistry --------------------------
(***************************************************************************)
(* The identity registry as the token program sees it: the wallet           *)
(* identities of fracks-irs, and for which FIDs the claim check of the IRP   *)
(* succeeds.  A FID is a PDA of its wallet, so the wallet stands for it.     *)
(* claimed_fids is what fracks-fid, -tir and -ctr determine together (every  *)
(* required topic has a valid claim from an active trusted issuer); here it  *)
(* changes freely.  Every instruction is taken by a signer that              *)
(* authorize_identity_actor (or has_one = owner) accepts.                    *)
(***************************************************************************)
EXTENDS Parties

VARIABLES
    identity,          \* wallet -> WalletIdentity, or NoIdentity
    registered_count,  \* IdentityRegistryStorageState.registered_count
    claimed_fids       \* FIDs that satisfy every required claim topic

identityVars == <<identity, registered_count, claimed_fids>>

NoIdentity == [fid |-> "none", country |-> "none", is_active |-> FALSE]

Registered(wallet) == identity[wallet] # NoIdentity

IdentityInit ==
    /\ identity = [w \in Wallets |-> NoIdentity]
    /\ registered_count = 0
    /\ claimed_fids = {}

(* find_wallet_identity followed by the is_active check *)
HasActiveIdentity(wallet) == identity[wallet].is_active

(* verify_wallet_against_irp *)
Verified(wallet) ==
    /\ HasActiveIdentity(wallet)
    /\ identity[wallet].fid \in claimed_fids

(* The account is init_if_needed; the handler requires that it is still blank. *)
VacantUnchecked(wallet) == TRUE               \* mutant: no such check
Vacant(wallet) == ~Registered(wallet)

RegisterIdentity(wallet, country) ==
    /\ Vacant(wallet)
    /\ identity' = [identity EXCEPT ![wallet] =
                      [fid |-> wallet, country |-> country, is_active |-> FALSE]]
    /\ registered_count' = registered_count + 1
    /\ UNCHANGED claimed_fids

SetIdentityActivation(wallet, active) ==
    /\ Registered(wallet)
    /\ identity' = [identity EXCEPT ![wallet].is_active = active]
    /\ UNCHANGED <<registered_count, claimed_fids>>

UpdateIdentity(wallet, new_fid) ==
    /\ Registered(wallet)
    /\ identity' = [identity EXCEPT ![wallet].fid = new_fid]
    /\ UNCHANGED <<registered_count, claimed_fids>>

UpdateCountry(wallet, new_country) ==
    /\ Registered(wallet)
    /\ identity' = [identity EXCEPT ![wallet].country = new_country]
    /\ UNCHANGED <<registered_count, claimed_fids>>

(* remove_identity and remove_own_identity, which differ in the signer *)
RemoveIdentity(wallet) ==
    /\ Registered(wallet)
    /\ registered_count > 0
    /\ identity' = [identity EXCEPT ![wallet] = NoIdentity]
    /\ registered_count' = registered_count - 1
    /\ UNCHANGED claimed_fids

(* The three IRS calls of finalize_recovery, in one transaction: the new     *)
(* wallet takes over FID and country, the lost wallet is removed.            *)
MoveIdentity(lost, new) ==
    /\ Registered(lost)
    /\ Registered(new)
    /\ registered_count > 0
    /\ identity' = [identity EXCEPT ![new].fid = identity[lost].fid,
                                    ![new].country = identity[lost].country,
                                    ![lost] = NoIdentity]
    /\ registered_count' = registered_count - 1
    /\ UNCHANGED claimed_fids

(* A claim is added, revoked or expires, or the trusted issuers or required  *)
(* topics change: one FID gains or loses a valid set of claims.              *)
ChangeClaims(fid) ==
    /\ claimed_fids' = IF fid \in claimed_fids THEN claimed_fids \ {fid}
                                               ELSE claimed_fids \cup {fid}
    /\ UNCHANGED <<identity, registered_count>>

IdentityNext ==
    \/ \E w \in Wallets, c \in Countries : RegisterIdentity(w, c) \/ UpdateCountry(w, c)
    \/ \E w \in Wallets, b \in BOOLEAN : SetIdentityActivation(w, b)
    \/ \E w, f \in Wallets : UpdateIdentity(w, f)
    \/ \E w \in Wallets : RemoveIdentity(w)
    \/ \E f \in Wallets : ChangeClaims(f)

(* Wallet identities hold values of their types. *)
IdentityTypeOK ==
    /\ identity \in [Wallets -> {NoIdentity} \cup
                       [fid : Wallets, country : Countries, is_active : BOOLEAN]]
    /\ registered_count \in Nat
    /\ claimed_fids \subseteq Wallets
=============================================================================
