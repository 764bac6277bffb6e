--------------------------- MODULE RaftMembership ---------------------------
(***************************************************************************)
(* The membership configurations of openraft (vendored under               *)
(* octopii/openraft): joint majorities, the changes an administrator may   *)
(* ask for, and the two configurations every node keeps.                   *)
(*                                                                         *)
(* A membership is [configs, nodes]: a sequence of voter sets, each of     *)
(* which must grant for a quorum, and the set of all voters and learners.  *)
(* The address a node is registered with is left out.                      *)
(***************************************************************************)
EXTENDS Integers, FiniteSets, Sequences

\* Membership::default(): no configuration and no node.
NoMembership == [configs |-> <<>>, nodes |-> {}]

\* BTreeSet::is_quorum: a strict majority of one configuration.
IsMajority(config, ids) == 2 * Cardinality(config \cap ids) > Cardinality(config)

\* Joint::is_quorum.
is_quorum(m, ids) == \A i \in DOMAIN m.configs : IsMajority(m.configs[i], ids)

\* Joint::ids, Membership::voter_ids.
voter_ids(m) == UNION {m.configs[i] : i \in DOMAIN m.configs}

is_voter(m, id) == \E i \in DOMAIN m.configs : id \in m.configs[i]

learner_ids(m) == {id \in m.nodes : ~is_voter(m, id)}

\* Two joint configurations are coherent if they share one.
is_coherent_with(m1, m2) ==
  \E i \in DOMAIN m1.configs, j \in DOMAIN m2.configs :
    m1.configs[i] = m2.configs[j]

ensure_valid(m) ==
  /\ \A i \in DOMAIN m.configs : m.configs[i] # {}
  /\ voter_ids(m) \subseteq m.nodes

-----------------------------------------------------------------------------
\* Faulty: goes to the requested voters in one step.
BadFindCoherent(configs, goal) == <<goal>>

\* Joint::find_coherent: the requested voters alone if they are one of the
\* current configurations, otherwise joined with the last of these.
find_coherent(configs, goal) ==
  IF configs = <<>> \/ \E i \in DOMAIN configs : configs[i] = goal
  THEN <<goal>>
  ELSE <<configs[Len(configs)], goal>>

next_coherent(m, goal, retain) ==
  LET new     == find_coherent(m.configs, goal)
      removed == voter_ids(m) \ UNION {new[i] : i \in DOMAIN new}
  IN  [configs |-> new,
       nodes   |-> IF retain THEN m.nodes ELSE m.nodes \ removed]

\* One request of ChangeMembers: the voters it asks for, given the last
\* configuration, and the nodes.
TargetVoters(last, c) ==
  CASE c.op \in {"AddVoterIds", "AddVoters"} -> last \cup c.ids
    [] c.op = "RemoveVoters"                 -> last \ c.ids
    [] c.op = "ReplaceAllVoters"             -> c.ids
    [] OTHER                                 -> last

TargetNodes(nodes, c) ==
  CASE c.op \in {"AddVoters", "AddNodes", "SetNodes"} -> nodes \cup c.ids
    [] c.op = "RemoveNodes"                           -> nodes \ c.ids
    [] c.op = "ReplaceAllNodes"                       -> c.ids
    [] OTHER                                          -> nodes

ChangeOps == {"AddVoterIds", "AddVoters", "RemoveVoters", "ReplaceAllVoters",
              "AddNodes", "SetNodes", "RemoveNodes", "ReplaceAllNodes"}

LastConfig(m) == IF m.configs = <<>> THEN {} ELSE m.configs[Len(m.configs)]

\* Membership::change, before it is validated: the result may not be valid.
change(m, c, retain) ==
  next_coherent([m EXCEPT !.nodes = TargetNodes(@, c)],
                TargetVoters(LastConfig(m), c), retain)

-----------------------------------------------------------------------------
(* MembershipState: the last membership in the log is effective, the one   *)
(* before it is kept for the case that the log is cut back.  A stored      *)
(* membership is [index, lead, m]: the log id it has, and what it says.     *)
(* Indexes start at 1, 0 stands for None.                                  *)

\* EffectiveMembership::default().
NoStored == [index |-> 0, lead |-> <<0, 0>>, m |-> NoMembership]

NewMembershipState == [committed |-> NoStored, effective |-> NoStored]

\* MembershipState::append.
AppendMembership(ms, e) == [committed |-> ms.effective, effective |-> e]

\* MembershipState::truncate: back to the committed one if the effective one
\* is cut off.
TruncateMembership(ms, since) ==
  IF since <= ms.effective.index THEN [ms EXCEPT !.effective = ms.committed] ELSE ms

\* MembershipState::commit.  Log ids in one log are ordered by their index.
CommitMembership(ms, committed) ==
  IF committed >= ms.effective.index THEN [ms EXCEPT !.committed = ms.effective] ELSE ms

\* ChangeHandler::ensure_committed: one change at a time.
ensure_committed(ms) == ms.effective.index = ms.committed.index
=============================================================================
