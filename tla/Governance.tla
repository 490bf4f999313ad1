----------------------------- MODULE Governance -----------------------------
(***************************************************************************)
(* fracks-governance: proposals, votes and their execution for one token   *)
(* mint.  Accounts are created by Anchor's `init`, so a proposal id and a   *)
(* (proposal, voter) vote record exist at most once.  Descriptions, types,  *)
(* hashes and timestamps carry no control and are left out.                 *)
(***************************************************************************)
EXTENDS Parties, Functions

CONSTANTS
    MaxProposals,  \* bound on proposal_count
    MaxSlot,       \* bound on the cluster clock
    Weights,       \* vote weights a voter may pass (an instruction argument)
    Totals,        \* total_snapshot_weight values an executor may pass
    Bps            \* basis points passed to create_proposal and initialize

ASSUME GovernanceAssumption ==
    /\ MaxProposals \in Nat
    /\ MaxSlot \in Nat
    /\ Weights \subseteq Nat
    /\ Totals \subseteq Nat
    /\ Bps \subseteq Nat

VARIABLES
    slot,       \* Clock::get().slot
    state,      \* GovernanceState, or NoState before initialize_governance
    proposals,  \* proposal id -> Proposal, or NoProposal
    votes       \* <<proposal id, voter>> -> VoteRecord, or NoVote

governanceVars == <<slot, state, proposals, votes>>

Ids == 1..MaxProposals
NoState == [owner |-> "none"]
NoProposal == [status |-> "none"]
NoVote == [choice |-> "none"]
VoteChoice == {"Yes", "No", "Abstain"}
MaxBps == 10000

(* validate_bps *)
ValidBps(value) == value <= MaxBps

(* bps_amount: rounds up; BpsFits is the two checked operations. *)
BpsFits(value, bps) == value * bps + (MaxBps - 1) <= MaxU64
BpsAmountRoundsDown(value, bps) == (value * bps) \div MaxBps  \* mutant
BpsAmount(value, bps) == (value * bps + (MaxBps - 1)) \div MaxBps

GovernanceInit ==
    /\ slot = 0
    /\ state = NoState
    /\ proposals = [i \in Ids |-> NoProposal]
    /\ votes = [iv \in Ids \X Wallets |-> NoVote]

InitializeGovernance(owner, quorum, threshold) ==
    /\ state = NoState
    /\ ValidBps(quorum)
    /\ ValidBps(threshold)
    /\ state' = [owner |-> owner, quorum_bps |-> quorum,
                 default_threshold_bps |-> threshold, proposal_count |-> 0]
    /\ UNCHANGED <<slot, proposals, votes>>

(* Option<u16> arguments: {} is None, {b} is Some(b). *)
UnwrapOr(opt, default) == IF opt = {} THEN default ELSE CHOOSE b \in opt : TRUE

CreateProposal(creator, threshold, quorum, end_slot) ==
    /\ state # NoState
    /\ end_slot > slot
    /\ \A b \in threshold \cup quorum : ValidBps(b)
    /\ state.proposal_count < MaxProposals
    /\ LET id == state.proposal_count + 1 IN
        /\ state' = [state EXCEPT !.proposal_count = id]
        /\ proposals' = [proposals EXCEPT ![id] =
              [status |-> "Active", creator |-> creator, end_slot |-> end_slot,
               threshold_bps |-> UnwrapOr(threshold, state.default_threshold_bps),
               quorum_bps |-> UnwrapOr(quorum, state.quorum_bps),
               yes_votes |-> 0, no_votes |-> 0, abstain_votes |-> 0]]
    /\ UNCHANGED <<slot, votes>>

(* The field of Proposal a choice is counted in. *)
Tally(choice) ==
    CASE choice = "Yes" -> "yes_votes"
      [] choice = "No" -> "no_votes"
      [] choice = "Abstain" -> "abstain_votes"

Active(id) == proposals[id].status = "Active"

VotingOpenIgnoresEnd(id) == TRUE              \* mutant: no window check
VotingOpen(id) == slot <= proposals[id].end_slot

(* `init` of the vote record fails when the account already exists. *)
NotVotedUnchecked(id, voter) == TRUE          \* mutant: init_if_needed
NotVoted(id, voter) == votes[<<id, voter>>] = NoVote

CastVote(voter, id, choice, weight) ==
    /\ weight > 0
    /\ Active(id)
    /\ VotingOpen(id)
    /\ NotVoted(id, voter)
    /\ proposals[id][Tally(choice)] + weight <= MaxU64
    /\ proposals' = [proposals EXCEPT ![id][Tally(choice)] = @ + weight]
    /\ votes' = [votes EXCEPT ![<<id, voter>>] = [choice |-> choice, weight |-> weight]]
    /\ UNCHANGED <<slot, state>>

Decisive(p) == p.yes_votes + p.no_votes
VotesCast(p) == Decisive(p) + p.abstain_votes

ExecuteProposal(id, total) ==
    /\ total > 0
    /\ Active(id)
    /\ ~VotingOpen(id)
    /\ LET p == proposals[id] IN
        /\ VotesCast(p) <= MaxU64
        /\ BpsFits(total, p.quorum_bps)
        /\ VotesCast(p) >= BpsAmount(total, p.quorum_bps)
        /\ Decisive(p) > 0
        /\ BpsFits(Decisive(p), p.threshold_bps)
        /\ p.yes_votes >= BpsAmount(Decisive(p), p.threshold_bps)
    /\ proposals' = [proposals EXCEPT ![id].status = "Executed"]
    /\ UNCHANGED <<slot, state, votes>>

CancelProposal(authority, id) ==
    /\ Active(id)
    /\ authority \in {proposals[id].creator, state.owner}
    /\ proposals' = [proposals EXCEPT ![id].status = "Cancelled"]
    /\ UNCHANGED <<slot, state, votes>>

(* The cluster's clock; external to the program. *)
AdvanceSlot ==
    /\ slot < MaxSlot
    /\ slot' = slot + 1
    /\ UNCHANGED <<state, proposals, votes>>

Options == {{}} \cup {{b} : b \in Bps}

GovernanceNext ==
    \/ \E w \in Wallets, q, t \in Bps : InitializeGovernance(w, q, t)
    \/ \E w \in Wallets, t, q \in Options, e \in 0..MaxSlot : CreateProposal(w, t, q, e)
    \/ \E w \in Wallets, i \in Ids, c \in VoteChoice, n \in Weights : CastVote(w, i, c, n)
    \/ \E i \in Ids, n \in Totals : ExecuteProposal(i, n)
    \/ \E w \in Wallets, i \in Ids : CancelProposal(w, i)
    \/ AdvanceSlot

GovernanceSpec == GovernanceInit /\ [][GovernanceNext]_governanceVars

-----------------------------------------------------------------------------
(* Every account holds a value of its declared type; the basis points in     *)
(* force are valid, whichever instruction they came through.                 *)
GovernanceTypeOK ==
    /\ slot \in 0..MaxSlot
    /\ state \in {NoState} \cup
         [owner : Wallets, quorum_bps : 0..MaxBps, default_threshold_bps : 0..MaxBps,
          proposal_count : 0..MaxProposals]
    /\ proposals \in [Ids -> {NoProposal} \cup
         [status : {"Active", "Executed", "Cancelled"}, creator : Wallets,
          end_slot : 0..MaxSlot, threshold_bps : 0..MaxBps, quorum_bps : 0..MaxBps,
          yes_votes : 0..MaxU64, no_votes : 0..MaxU64, abstain_votes : 0..MaxU64]]
    /\ votes \in [Ids \X Wallets -> {NoVote} \cup
         [choice : VoteChoice, weight : Weights]]

(* What the vote records of proposal id say about one choice. *)
VotersFor(id, choice) == {w \in Wallets : votes[<<id, w>>].choice = choice}
Recorded(id, choice) == SumFunction([w \in VotersFor(id, choice) |-> votes[<<id, w>>].weight])

(* cast_vote keeps two accounts in step: each tally of a proposal is the sum *)
(* of the weights of the vote records with that choice, so no vote is lost   *)
(* or counted twice whatever the interleaving of voters.                     *)
TalliesMatchRecords ==
    \A id \in Ids : proposals[id] # NoProposal =>
        \A c \in VoteChoice : proposals[id][Tally(c)] = Recorded(id, c)

(* execute_proposal: an executed proposal is past its end slot and its votes *)
(* as they stand in the records (not only as they stood when it was checked) *)
(* reach the threshold exactly, without rounding in the proposal's favour.   *)
ExecutedIsJustified ==
    \A id \in Ids : proposals[id].status = "Executed" =>
        /\ slot > proposals[id].end_slot
        /\ LET yes == Recorded(id, "Yes")  no == Recorded(id, "No") IN
            /\ yes + no > 0
            /\ MaxBps * yes >= proposals[id].threshold_bps * (yes + no)

(* Executed and Cancelled are final, and after end_slot nothing but the      *)
(* status of a proposal ever changes: who executes late sees the same votes. *)
ClosedProposalsAreFrozen ==
    [][\A id \in Ids : proposals[id] # NoProposal =>
         /\ proposals[id].status \in {"Executed", "Cancelled"} =>
              proposals'[id] = proposals[id]
         /\ slot > proposals[id].end_slot =>
              \A c \in VoteChoice : proposals'[id][Tally(c)] = proposals[id][Tally(c)]]_governanceVars
=============================================================================
