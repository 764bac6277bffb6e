----------------------------- MODULE TopicClean -----------------------------
(***************************************************************************)
(* The clean marker of a topic in the log library                          *)
(* (src/wal/runtime/topic_clean.rs, walrus.rs, walrus_write.rs): threads   *)
(* update two atomics without a lock, and a background thread writes the   *)
(* record to a file.  An append marks its topic dirty before it writes; a  *)
(* housekeeping thread marks it clean.                                     *)
(***************************************************************************)
EXTENDS Integers

CONSTANTS Markers,     \* threads that mark the topic
          MaxMarks,    \* bound on marks
          MaxMarkFaults  \* bound on failed writes of the file and restarts

ASSUME MarkAssumption == MaxMarks \in Nat /\ MaxMarkFaults \in Nat

VARIABLES clean,    \* TopicCleanState: generation and is_clean
          marker,   \* update in progress, per thread
          asks,     \* messages in the persister's channel
          saver,    \* the persister thread: what it has loaded of the record
          kept,     \* CleanMarkerStore.store
          file,     \* the file topic_clean
          marks, markFaults

markVars == <<clean, marker, asks, saver, kept, file, marks, markFaults>>

\* TopicCleanState::update: nothing to do if the flag is as desired.
MarkTopic(t, desired) ==
  /\ marker[t].at = "idle" /\ marks < MaxMarks
  /\ marks' = marks + 1
  /\ marker' = IF clean.flag = desired THEN marker
               ELSE [marker EXCEPT ![t] = [at |-> "count", desired |-> desired]]
  /\ UNCHANGED <<clean, asks, saver, kept, file, markFaults>>

\* generation.fetch_add.
CountMark(t) ==
  /\ marker[t].at = "count"
  /\ clean' = [clean EXCEPT !.generation = @ + 1]
  /\ marker' = [marker EXCEPT ![t].at = "store"]
  /\ UNCHANGED <<asks, saver, kept, file, marks, markFaults>>

\* is_clean.store.
StoreMark(t) ==
  /\ marker[t].at = "store"
  /\ clean' = [clean EXCEPT !.flag = marker[t].desired]
  /\ marker' = [marker EXCEPT ![t].at = "send"]
  /\ UNCHANGED <<asks, saver, kept, file, marks, markFaults>>

\* update_state asks the persister to save the topic.
AskToSave(t) ==
  /\ marker[t].at = "send"
  /\ asks' = asks + 1
  /\ marker' = [marker EXCEPT ![t].at = "idle"]
  /\ UNCHANGED <<clean, saver, kept, file, marks, markFaults>>

\* Faulty: keeps the flag that was loaded for an earlier record.
BadLoadFlag ==
  /\ saver.at = "flag"
  /\ saver' = [at |-> "save", record |-> [saver.record EXCEPT !.flag = kept.flag]]
  /\ UNCHANGED <<clean, marker, asks, kept, file, marks, markFaults>>

\* The persister takes what is in the channel, and loads the generation of
\* the topic's record (TopicCleanState::snapshot) ...
Collect ==
  /\ saver.at = "idle" /\ asks > 0
  /\ asks' = 0
  /\ saver' = [at |-> "flag", record |-> [saver.record EXCEPT !.generation = clean.generation]]
  /\ UNCHANGED <<clean, marker, kept, file, marks, markFaults>>

\* ... and then its flag.
LoadFlag ==
  /\ saver.at = "flag"
  /\ saver' = [at |-> "save", record |-> [saver.record EXCEPT !.flag = clean.flag]]
  /\ UNCHANGED <<clean, marker, asks, kept, file, marks, markFaults>>

\* persist_updates and persist_map: the map first, then a temporary file that
\* is renamed.  The pending set is cleared also if that fails.
Persist ==
  /\ saver.at = "save"
  /\ kept' = saver.record
  /\ \/ file' = saver.record /\ UNCHANGED markFaults
     \/ markFaults < MaxMarkFaults /\ markFaults' = markFaults + 1 /\ UNCHANGED file
  /\ saver' = [saver EXCEPT !.at = "idle"]
  /\ UNCHANGED <<clean, marker, asks, marks>>

NewMarker == [at |-> "idle", desired |-> TRUE]
NewRecord == [generation |-> 0, flag |-> TRUE]

\* CleanMarkerStore::new_in and hydrate.
Hydrated == file

MarkRestart ==
  /\ markFaults < MaxMarkFaults /\ markFaults' = markFaults + 1
  /\ clean' = Hydrated /\ kept' = file
  /\ marker' = [t \in Markers |-> NewMarker] /\ asks' = 0
  /\ saver' = [at |-> "idle", record |-> NewRecord]
  /\ UNCHANGED <<file, marks>>

MarkInit ==
  /\ clean = NewRecord /\ kept = NewRecord /\ file = NewRecord
  /\ marker = [t \in Markers |-> NewMarker] /\ asks = 0
  /\ saver = [at |-> "idle", record |-> NewRecord]
  /\ marks = 0 /\ markFaults = 0

MarkNext ==
  \/ \E t \in Markers :
       (\E d \in BOOLEAN : MarkTopic(t, d)) \/ CountMark(t) \/ StoreMark(t) \/ AskToSave(t)
  \/ Collect \/ LoadFlag \/ Persist \/ MarkRestart

MarkSpec == MarkInit /\ [][MarkNext]_markVars

-----------------------------------------------------------------------------
\* When no thread is marking and the persister has nothing to do, the file
\* holds the marker as it is in memory, unless a write of the file failed:
\* no order of marks and of the two loads loses the last one.
QuietIsSaved ==
  (\A t \in Markers : marker[t].at = "idle") /\ asks = 0 /\ saver.at = "idle" /\ markFaults = 0
    => file = clean

\* The generation in the file never goes back, also over restarts: a reader of
\* the file can tell the newer of two records.
GenerationsGrow == [][file'.generation >= file.generation]_markVars

=============================================================================
