-------------------------- MODULE MembershipChange --------------------------
(***************************************************************************)
(* The memberships of a cluster one after the other, as an administrator   *)
(* changes them: any request of ChangeMembers, kept if Membership::change  *)
(* finds the result valid.                                                 *)
(***************************************************************************)
EXTENDS RaftMembership

CONSTANT Voters   \* the nodes that may become members

ASSUME VotersAssumption == IsFiniteSet(Voters)

VARIABLE conf

Uniform(voters, nodes) == [configs |-> <<voters>>, nodes |-> nodes]

ConfInit == \E voters \in SUBSET Voters \ {{}} : conf = Uniform(voters, Voters)

Change(c, retain) ==
  /\ ensure_valid(change(conf, c, retain))
  /\ conf' = change(conf, c, retain)

ConfNext ==
  \E op \in ChangeOps, who \in SUBSET Voters, retain \in BOOLEAN :
    Change([op |-> op, ids |-> who], retain)

ConfSpec == ConfInit /\ [][ConfNext]_conf

-----------------------------------------------------------------------------
\* Every quorum of the next membership meets every quorum of this one.
NextOverlaps ==
  \A q1, q2 \in SUBSET Voters : is_quorum(conf, q1) /\ is_quorum(conf', q2) => q1 \cap q2 # {}

\* Consecutive memberships are safe to hand over between: whatever is asked
\* for, every quorum of the new one meets every quorum of the old one
\* (Membership::change, find_coherent).
QuorumsOverlap == [][NextOverlaps]_conf

\* The two steps of ManagementApi::change_membership reach the voters asked
\* for, whatever the membership was: if the first one is joint, adding no
\* voter ends it at its target, and no voter is ever without a node.
TwoStepsReachTarget ==
  \A goal \in SUBSET conf.nodes \ {{}}, retain \in BOOLEAN :
    LET first == change(conf, [op |-> "ReplaceAllVoters", ids |-> goal], retain)
        final == change(first, [op |-> "AddVoterIds", ids |-> {}], retain)
    IN  /\ ensure_valid(first) /\ ensure_valid(final)
        /\ final.configs = <<goal>>
=============================================================================
