----------------------------- MODULE MCDataPlane -----------------------------
(***************************************************************************)
(* The data plane on small instances.  The runs start from a cluster that  *)
(* has formed: every node is on record and one topic has been created,     *)
(* which every replica has applied.  DataInit reaches this state by        *)
(* committing and applying the commands of BootLog.  A run covers several  *)
(* scenarios, so that each of them stays small.                            *)
(***************************************************************************)
EXTENDS DataPlane, SequencesExt

VARIABLE scenario   \* which tasks run; chosen at the start

mcVars == <<dataVars, scenario>>

BootLog(leader) ==
  LET Upsert(n) == [op |-> "UpsertNode", node_id |-> n]
      Create(t) == [op |-> "CreateTopic", name |-> t, initial_leader |-> leader]
  IN  SetToSeq({Upsert(n) : n \in Node}) \o SetToSeq({Create(t) : t \in Topic})

StateAfter(cmds) == FoldLeft(Apply, EmptyCluster, cmds)

\* The replicas after everything in BootLog was committed and applied.
BootInit ==
  LET boot == BootLog(AnyNode)
  IN  /\ log = boot
      /\ history = [i \in 1..(Len(boot) + 1) |-> StateAfter(SubSeq(boot, 1, i - 1))]
      /\ applied = [n \in Node |-> Len(boot)]
      /\ meta = [n \in Node |-> StateAfter(boot)]
      /\ halted = {}
      /\ inflight = [i \in Slot |-> NoCmd]
      /\ restarts = 0
      /\ DataIdle

Restarts == \E n \in Node : NodeRestart(n)

\* Room for both creations of a topic and a node, or a creation and a rollover.
FormingLog == 3

\* One PUT, and one proposal at a time.
Alone ==
  /\ \A r \in Req \ {CHOOSE r \in Req : TRUE} : put'[r] = put[r]
  /\ \A i \in Slot \ {CHOOSE i \in Slot : TRUE} : inflight'[i] = inflight[i]

\* Overlapping appends; an append against the lease loop and restarts;
\* an append while the cluster forms.
WriteSpec ==
  /\ \/ scenario \in {"appends", "loops"} /\ BootInit
     \/ scenario = "forming" /\ DataInit
  /\ [][/\ UNCHANGED scenario
        /\ \/ scenario = "appends" /\ (MetadataStep \/ PutNext)
           \/ /\ scenario = "loops"
              /\ MetadataStep \/ PutNext \/ LeaseNext \/ Restarts
              /\ Alone
           \/ /\ scenario = "forming"
              /\ MetadataStep \/ SetupNext \/ PutNext
              /\ Alone /\ Len(log') <= FormingLog]_mcVars

Reads    == scenario = "reads"
Monitors == scenario = "monitor"

\* Fairness, with the states written out in which an action can be taken.
\* A GET that a node is serving goes on: the task is scheduled, and a remote
\* read that is never answered runs into its timeout.
GetFairness ==
  \A n \in Node :
    []<>(get[n].pc = Idle) \/ []<><<HandleGet(n) \/ GetFails(n)>>_dataVars

Proposable ==
  /\ \E i \in Slot : inflight[i] = NoCmd
  /\ \E n \in Node \ halted : \E k \in monitor[n] : offsets[n][k] >= MaxSegmentEntries

Commitable == Len(log) < MaxLog /\ \E i \in Slot : inflight[i] # NoCmd

\* A PUT handler and the tasks of a node are scheduled, the monitor ticks every
\* check_interval, a committed command reaches every node, and a Raft group with
\* a majority accepts and commits a proposal that is made again and again.
MonitorFairness ==
  /\ \A r \in Req :
       []<>(~Monitors \/ put[r].pc \in {Idle, "done"}) \/ []<><<HandlePut(r)>>_dataVars
  /\ \A n \in Node :
       []<>(~Monitors \/ n \in halted \/ applied[n] = Len(log))
         \/ []<><<ApplyNext(n)>>_dataVars
  /\ \A n \in Node :
       []<>(~Monitors \/ monitor[n] \cup owned_topics(meta[n], n) = {})
         \/ []<><<\/ MonitorTick(n)
                  \/ \E k \in monitor[n] : MonitorCheck(n, k)>>_dataVars
  /\ <>[](~Monitors \/ ~Proposable) \/ []<><<\E n \in Node : MonitorProposes(n)>>_dataVars
  /\ <>[](~Monitors \/ ~Commitable) \/ []<><<\E i \in Slot : Commit(i)>>_dataVars

\* Appends, reads and restarts; appends and the monitor, which proposes again
\* until a rollover commits.
ReadSpec ==
  /\ scenario \in {"reads", "monitor"} /\ BootInit
  /\ [][/\ UNCHANGED scenario
        /\ \/ MetadataStep \/ PutNext
           \/ Reads /\ (GetNext \/ Restarts)
           \/ Monitors /\ MonitorNext]_mcVars
  /\ GetFairness /\ MonitorFairness

\* Where the monitor runs, a segment that is full is rolled over
\* (RolloverProgress of module DataPlane).
MonitorRollsOver == Monitors => RolloverProgress
=============================================================================
