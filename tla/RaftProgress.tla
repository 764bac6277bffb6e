---------------------------- MODULE RaftProgress ----------------------------
(***************************************************************************)
(* VecProgress (openraft progress/vec_progress.rs): a leader's table of    *)
(* how far every node's log matches its own, and the greatest value that a *)
(* quorum has reached, which decides what is committed.  The table is a    *)
(* vector, voters first, kept in order only as far as the quorum value     *)
(* needs it.  A progress value is a number, the log ids of one log being   *)
(* ordered by their index.                                                 *)
(***************************************************************************)
EXTENDS RaftMembership, SequencesExt, FiniteSetsExt

CONSTANTS Ids,      \* node ids, which are numbers
          MaxValue  \* bound on progress values

ASSUME ProgressAssumption == Ids \subseteq Nat /\ IsFiniteSet(Ids) /\ MaxValue \in Nat

VARIABLES prog,   \* the VecProgress of the leader
          member, \* the membership its quorum set is from
          leader  \* the node that keeps it

progressVars == <<prog, member, leader>>

Ascending(S) == SetToSortSeq(S, LAMBDA a, b : a < b)

\* VecProgress::new: voters by id, then learners by id, all at the default.
NewProgress(m) ==
  [quorum_accepted |-> 0,
   voter_count     |-> Cardinality(voter_ids(m)),
   entries         |-> [i \in 1..(Cardinality(voter_ids(m) \cup learner_ids(m))) |->
                          [id  |-> (Ascending(voter_ids(m)) \o Ascending(learner_ids(m)))[i],
                           val |-> 0]]]

\* VecProgress::index, 0 if the id has no entry.
EntryOf(p, id) ==
  LET found == {i \in DOMAIN p.entries : p.entries[i].id = id}
  IN  IF found = {} THEN 0 ELSE Min(found)

\* VecProgress::move_up: an entry goes up past every smaller one before it.
move_up(entries, index) ==
  LET stop == {i \in 1..(index - 1) : entries[i].val >= entries[index].val}
      to   == IF stop = {} THEN 1 ELSE Max(stop) + 1
  IN  [entries |-> [i \in DOMAIN entries |->
                      IF i = to THEN entries[index]
                      ELSE IF i > to /\ i <= index THEN entries[i - 1]
                      ELSE entries[i]],
       index   |-> to]

\* Faulty: recalculates only when the entry was below the quorum value.
BadRecalculate(p, prev, new) == prev < p.quorum_accepted /\ new > p.quorum_accepted

\* Whether an update may change the quorum value.
Recalculate(p, prev, new) == prev <= p.quorum_accepted /\ new > p.quorum_accepted

\* The entries up to one, which all have at least its value, are a quorum.
Granted(m, p, i) == is_quorum(m, {p.entries[j].id : j \in 1..i})

\* From high to low, the first value above the quorum value that a quorum has.
Accept(m, p, from) ==
  LET above == {i \in from..p.voter_count : \A j \in from..i :
                  p.entries[j].val > p.quorum_accepted}
      found == {i \in above : Granted(m, p, i)}
  IN  IF found = {} THEN p
      ELSE [p EXCEPT !.quorum_accepted = p.entries[Min(found)].val]

\* VecProgress::update.
update(m, p, id, new) ==
  LET index == EntryOf(p, id)
      prev  == p.entries[index].val
      set   == [p EXCEPT !.entries[index].val = new]
      moved == move_up(set.entries, index)
  IN  IF index = 0 THEN p
      ELSE IF prev = new \/ index > p.voter_count THEN set
      ELSE IF Recalculate(p, prev, new)
           THEN Accept(m, [set EXCEPT !.entries = moved.entries], moved.index)
           ELSE set

\* VecProgress::upgrade_quorum_set: a new table, filled from the old one.
upgrade_quorum_set(m, p) ==
  LET step(acc, item) == update(m, acc, item.id, item.val)
  IN  FoldLeft(step, NewProgress(m), p.entries)

-----------------------------------------------------------------------------
\* The type of the state.  The voters come first, and every member is there.
ProgressTypeOK ==
  /\ prog.entries \in Seq([id : Ids, val : 0..MaxValue])
  /\ prog.quorum_accepted \in 0..MaxValue
  /\ prog.voter_count \in 0..Len(prog.entries)
  /\ {prog.entries[i].id : i \in 1..prog.voter_count} = voter_ids(member)
  /\ {prog.entries[i].id : i \in DOMAIN prog.entries} = member.nodes
  /\ ensure_valid(member)
  /\ leader \in Ids

ValueOf(p, id) ==
  IF EntryOf(p, id) = 0 THEN 0 ELSE p.entries[EntryOf(p, id)].val

\* A new leader of a membership with one configuration.
ProgressInit(m, l) ==
  /\ member = m /\ leader = l /\ prog = NewProgress(m)

\* A node acknowledges more of the log.  The leader counts its own copy first:
\* the store reports an append as flushed before the entries are sent.
Acknowledge(id, val) ==
  /\ EntryOf(prog, id) # 0 /\ val > ValueOf(prog, id)
  /\ id # leader => val <= ValueOf(prog, leader)
  /\ prog' = update(member, prog, id, val)
  /\ UNCHANGED <<member, leader>>

\* The leader appends a membership and rebuilds its table: a node is added as
\* a learner (add_learner) or becomes a voter (promote_learner).
ChangeMembership(c) ==
  LET new == change(member, c, TRUE) IN
  /\ ensure_valid(new)
  /\ member' = new
  /\ prog' = upgrade_quorum_set(new, prog)
  /\ UNCHANGED leader

ProgressNext ==
  \/ \E id \in Ids, val \in 1..MaxValue : Acknowledge(id, val)
  \/ \E op \in {"AddNodes", "AddVoterIds"}, who \in SUBSET Ids :
       ChangeMembership([op |-> op, ids |-> who])

-----------------------------------------------------------------------------
\* The value update keeps is the greatest one that a quorum of the current
\* membership has reached, although it is recalculated only for some updates
\* and from a vector that is only partly in order, and although a membership
\* change rebuilds the vector.
QuorumAcceptedIsGreatest ==
  prog.quorum_accepted =
    Max({0} \cup {v \in 1..MaxValue : is_quorum(member, {id \in Ids : ValueOf(prog, id) >= v})})

\* A membership change loses no node's progress, in particular not that of a
\* learner that becomes a voter (upgrade_quorum_set): a node that stays keeps
\* the value it had.
ProgressKept ==
  [][\A id \in member.nodes \cap member'.nodes : ValueOf(prog', id) >= ValueOf(prog, id)]_progressVars

=============================================================================
