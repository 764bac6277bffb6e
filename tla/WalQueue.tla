------------------------------ MODULE WalQueue ------------------------------
(***************************************************************************)
(* What a topic of the Walrus engine promises a caller that makes one call *)
(* at a time: a durable queue with one consuming reader.  A read with      *)
(* checkpoint = true takes the next entry; a restart may put the reader    *)
(* back, so that entries are delivered again, but never ahead.             *)
(***************************************************************************)
EXTENDS Integers, Sequences

VARIABLES queue,  \* the entries appended, in order
          taken   \* how many of them the reader is past

queueVars == <<queue, taken>>

QueueInit == queue = <<>> /\ taken = 0

\* One entry, or a batch of them at once.
Extended == Len(queue') > Len(queue) /\ SubSeq(queue', 1, Len(queue)) = queue

Put == Extended /\ UNCHANGED taken

Take ==
  /\ taken < Len(queue)
  /\ taken' = taken + 1
  /\ UNCHANGED queue

\* A restart; of a batch that was being written, some entries may survive.
PutBack ==
  /\ taken' \in 0..taken
  /\ Extended \/ UNCHANGED queue

QueueNext == Put \/ Take \/ PutBack

QueueSpec == QueueInit /\ [][QueueNext]_queueVars
=============================================================================
