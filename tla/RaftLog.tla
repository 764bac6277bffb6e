------------------------------ MODULE RaftLog -------------------------------
(***************************************************************************)
(* What the Raft layer promises to the state machines on top of it, and    *)
(* what the model of the metadata replicas takes for granted: one sequence *)
(* of entries is chosen, it only grows, and every node applies it from the *)
(* start, in order and without going back.                                 *)
(***************************************************************************)
EXTENDS SequencesExt

CONSTANT Replicas

VARIABLES chosen,   \* the entries chosen so far
          applied   \* the entries each replica has applied

Init ==
  /\ chosen = <<>>
  /\ applied = [r \in Replicas |-> <<>>]

\* A replica applies more of what is chosen, or of what is chosen now.
Advance(r) ==
  /\ IsPrefix(chosen, chosen')
  /\ IsPrefix(applied[r], applied'[r])
  /\ IsPrefix(applied'[r], chosen')
  /\ \A q \in Replicas \ {r} : applied'[q] = applied[q]

Spec == Init /\ [][\E r \in Replicas : Advance(r)]_<<chosen, applied>>
=============================================================================
