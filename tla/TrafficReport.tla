---------------------------- MODULE TrafficReport ----------------------------
(***************************************************************************)
(* How the traffic of a node is accounted.                                  *)
(*                                                                          *)
(* Xray counts bytes; the counter starts again at zero when Xray restarts.  *)
(* The agent turns the counter into batches, one at a time: a batch is the  *)
(* growth since the last committed counter, it is written to the agent's    *)
(* disk before it is sent with a heartbeat, it is sent again until the      *)
(* panel has answered, and then its counter is committed.  The panel        *)
(* records a batch in one transaction and remembers, in memory and for six  *)
(* hours, which batches it has recorded and which it is recording.          *)
(*                                                                          *)
(* One node and one counter: the panel's keys contain the node's id, and a  *)
(* batch carries the growth of all counters of the node together.  Requests *)
(* and answers may be lost or late, and both sides may restart anywhere.    *)
(***************************************************************************)
EXTENDS Integers, FiniteSets, FiniteSetsExt

CONSTANTS
    Requests,         \* heartbeat requests on their way or in Heartbeat at a time
    TrafficLimit,     \* nodes.traffic_limit; 0 is none
    MaxTraffic,       \* bound on the bytes Xray counts
    MaxRecorded,      \* bound on the bytes the panel accounts, doubles included
    MaxSlips          \* bound on the kinds of slip in one behaviour

ASSUME TrafficAssumption ==
    /\ TrafficLimit \in Nat /\ MaxTraffic \in Nat /\ MaxRecorded \in Nat /\ MaxSlips \in Nat
    /\ "none" \notin Requests

VARIABLES
    counter,      \* Xray's counter
    committed,    \* trafficReporter.lastCommitted
    pending,      \* Agent.pendingTraffic
    disk,         \* traffic-state.json: a committed counter and a pending batch
    registered,   \* Agent.registered
    beat,         \* where sendHeartbeat is
    handlers,     \* per request, where Heartbeat is
    inflight,     \* trafficBatchDeduper.inflight
    processed,    \* trafficBatchDeduper.processed
    total,        \* nodes.traffic_total
    recorded,     \* history: sum of the node_traffic rows
    dropped,      \* history: bytes dropped because the node is over its limit
    produced,     \* history: bytes counted by Xray
    times,        \* history: how often a batch was recorded or dropped
    vouched,      \* history: batches a request was told of as recorded while another
                  \* was still recording them, and that were not recorded since
    slips         \* history: whether Xray restarted, the panel forgot batches it had
                  \* recorded, and a write of the agent's state failed

agentVars == <<committed, pending, disk, registered, beat>>
panelVars == <<handlers, inflight, processed, total, recorded, dropped, times, vouched>>
vars == <<agentVars, panelVars, counter, produced, slips>>

(***************************************************************************)
(* A batch: the bytes it reports and the counter it was computed from.  Its *)
(* id is a digest of the two (buildTrafficBatchID), so that batches of      *)
(* equal content have equal ids.  NoBatch stands for no records.            *)
(***************************************************************************)
Batch == [bytes: 0..MaxTraffic, counter: 0..MaxTraffic]
NoBatch == [bytes |-> 0, counter |-> 0]

Beat == [step: {"idle", "persist", "send", "wait", "save"}, batch: Batch,
         counter: 0..MaxTraffic, request: Requests \cup {"none"}]
BeatAt(step, b, c) == [step |-> step, batch |-> b, counter |-> c, request |-> "none"]
NoBeat == BeatAt("idle", NoBatch, 0)

\* A request; owner says whether the deduper let it record its batch
Handler == [step: {"idle", "begin", "check", "record", "answer", "done"}, batch: Batch,
            owner: BOOLEAN, success: BOOLEAN]
NoHandler == [step |-> "idle", batch |-> NoBatch, owner |-> FALSE, success |-> FALSE]

TypeOK ==
    /\ counter \in 0..MaxTraffic /\ produced \in 0..MaxTraffic
    /\ committed \in 0..MaxTraffic
    /\ pending \in Batch
    /\ disk \in [committed: 0..MaxTraffic, pending: Batch]
    /\ registered \in BOOLEAN
    /\ beat \in Beat
    /\ handlers \in [Requests -> Handler]
    /\ inflight \subseteq Batch /\ processed \subseteq Batch
    /\ total \in Nat /\ recorded \in Nat /\ dropped \in Nat
    /\ times \in [Batch -> Nat]
    /\ vouched \subseteq Batch /\ slips \subseteq {"xray", "panel", "disk"}

Init ==
    /\ counter = 0 /\ produced = 0
    /\ committed = 0 /\ pending = NoBatch
    /\ disk = [committed |-> 0, pending |-> NoBatch]
    /\ registered = FALSE
    /\ beat = NoBeat
    /\ handlers = [r \in Requests |-> NoHandler]
    /\ inflight = {} /\ processed = {}
    /\ total = 0 /\ recorded = 0 /\ dropped = 0
    /\ times = [b \in Batch |-> 0]
    /\ vouched = {} /\ slips = {}

-----------------------------------------------------------------------------
\* Something goes wrong that a property depends on
Slip(kind) == slips' = slips \cup {kind} /\ Cardinality(slips') <= MaxSlips

\* Users move bytes through Xray (external)
Traffic ==
    /\ produced < MaxTraffic
    /\ counter' = counter + 1
    /\ produced' = produced + 1
    /\ UNCHANGED <<agentVars, panelVars, slips>>

XrayRestart ==
    /\ counter > 0
    /\ counter' = 0
    /\ Slip("xray")
    /\ UNCHANGED <<agentVars, panelVars, produced>>

\* A mutated form of Delta: the restart of the counter is not noticed
DeltaWithoutReset(current, previous) == current - previous
\* A mutated form of Delta: the whole counter is reported each time
DeltaOfWholeCounter(current, previous) == current

\* A counter below the committed one has started again since
Delta(current, previous) == IF current < previous THEN current ELSE current - previous

(***************************************************************************)
(* sendHeartbeat without a registration registers and waits for the next    *)
(* tick; the attempt may fail.                                              *)
(***************************************************************************)
Register ==
    /\ beat.step = "idle" /\ ~registered
    /\ registered' = TRUE
    /\ UNCHANGED <<committed, pending, disk, beat, panelVars, counter, produced, slips>>

(***************************************************************************)
(* prepareHeartbeatTraffic: an unanswered batch is sent again as it is;     *)
(* otherwise the growth since the committed counter becomes a batch, which  *)
(* is persisted before it is sent, and a heartbeat without growth carries   *)
(* none.                                                                    *)
(***************************************************************************)
PrepareHeartbeat ==
    /\ beat.step = "idle" /\ registered
    /\ \/ /\ pending # NoBatch
          /\ beat' = BeatAt("send", pending, pending.counter)
          /\ UNCHANGED pending
       \/ /\ pending = NoBatch /\ Delta(counter, committed) # 0
          /\ pending' = [bytes |-> Delta(counter, committed), counter |-> counter]
          /\ beat' = BeatAt("persist", pending', counter)
       \/ /\ pending = NoBatch /\ Delta(counter, committed) = 0
          /\ beat' = BeatAt("send", NoBatch, counter)
          /\ UNCHANGED pending
    /\ UNCHANGED <<committed, disk, registered, panelVars, counter, produced, slips>>

\* persistTrafficState: written aside and renamed; an error is logged and ignored
PersistTrafficState ==
    /\ beat.step \in {"persist", "save"}
    /\ \/ disk' = [committed |-> committed, pending |-> pending] /\ UNCHANGED slips
       \/ Slip("disk") /\ UNCHANGED disk
    /\ beat' = IF beat.step = "persist" THEN [beat EXCEPT !.step = "send"] ELSE NoBeat
    /\ UNCHANGED <<committed, pending, registered, panelVars, counter, produced>>

\* The request is on its way, where it may be overtaken
SendHeartbeat(r) ==
    /\ beat.step = "send" /\ handlers[r].step = "idle"
    /\ beat' = [beat EXCEPT !.step = "wait", !.request = r]
    /\ handlers' = [handlers EXCEPT ![r] = [NoHandler EXCEPT !.step = "begin", !.batch = beat.batch]]
    /\ UNCHANGED <<committed, pending, disk, registered, inflight, processed, total, recorded,
                   dropped, times, vouched, counter, produced, slips>>

\* No connection, a timeout or an error status: the batch stays, the agent registers again
HeartbeatFails ==
    /\ beat.step \in {"send", "wait"}
    /\ beat' = NoBeat
    /\ registered' = FALSE
    /\ UNCHANGED <<committed, pending, disk, panelVars, counter, produced, slips>>

\* The agent stops and starts again, with what restoreTrafficState finds on its disk
AgentRestart ==
    /\ committed' = disk.committed
    /\ pending' = disk.pending
    /\ registered' = FALSE
    /\ beat' = NoBeat
    /\ UNCHANGED <<disk, panelVars, counter, produced, slips>>

-----------------------------------------------------------------------------
\* A mutated form of Refused: batches that are being recorded are let through
RefusedIfProcessed(b) == b \in processed

\* trafficBatchDeduper.begin refuses a batch it has recorded or is recording
Refused(b) == b \in processed \cup inflight

\* A request that has not recorded the batch, or not yet, still holds it
Recording(b) ==
    \E q \in Requests : handlers[q].owner /\ handlers[q].batch = b /\ ~handlers[q].success

BeginTrafficBatch(r) ==
    LET b == handlers[r].batch IN
    /\ handlers[r].step = "begin"
    /\ \/ /\ b = NoBatch \/ Refused(b)
          /\ handlers' = [handlers EXCEPT ![r] = [@ EXCEPT !.step = "answer", !.success = TRUE]]
          /\ vouched' = IF Recording(b) THEN vouched \cup {b} ELSE vouched
          /\ UNCHANGED inflight
       \/ /\ b # NoBatch /\ ~Refused(b)
          /\ handlers' = [handlers EXCEPT ![r] = [@ EXCEPT !.step = "check", !.owner = TRUE]]
          /\ inflight' = inflight \cup {b}
          /\ UNCHANGED vouched
    /\ UNCHANGED <<agentVars, processed, total, recorded, dropped, times, counter, produced, slips>>

(***************************************************************************)
(* RecordTrafficBatch looks at the limit of the node first.  The records of *)
(* a node beyond it are dropped, and the heartbeat is answered as if they   *)
(* were recorded; within it, or when the node's row cannot be read, they    *)
(* are recorded, whatever becomes of the total in between.                  *)
(***************************************************************************)
CheckTrafficLimit(r) ==
    LET b == handlers[r].batch IN
    /\ handlers[r].step = "check"
    /\ \/ /\ TrafficLimit > 0 /\ total >= TrafficLimit
          /\ recorded + dropped + b.bytes <= MaxRecorded
          /\ dropped' = dropped + b.bytes
          /\ times' = [times EXCEPT ![b] = @ + 1]
          /\ vouched' = vouched \ {b}
          /\ handlers' = [handlers EXCEPT ![r] = [@ EXCEPT !.step = "answer", !.success = TRUE]]
       \/ /\ handlers' = [handlers EXCEPT ![r].step = "record"]
          /\ UNCHANGED <<dropped, times, vouched>>
    /\ UNCHANGED <<agentVars, inflight, processed, total, recorded, counter, produced, slips>>

\* The transaction of RecordTrafficBatch
RecordTrafficBatch(r) ==
    LET b == handlers[r].batch IN
    /\ handlers[r].step = "record"
    /\ recorded + dropped + b.bytes <= MaxRecorded
    /\ total' = total + b.bytes
    /\ recorded' = recorded + b.bytes
    /\ times' = [times EXCEPT ![b] = @ + 1]
    /\ vouched' = vouched \ {b}
    /\ handlers' = [handlers EXCEPT ![r] = [@ EXCEPT !.step = "answer", !.success = TRUE]]
    /\ UNCHANGED <<agentVars, inflight, processed, dropped, counter, produced, slips>>

\* The transaction fails, or is cancelled with a request whose agent is gone
RecordTrafficFails(r) ==
    /\ handlers[r].step = "record"
    /\ handlers' = [handlers EXCEPT ![r].step = "answer"]
    /\ UNCHANGED <<agentVars, inflight, processed, total, recorded, dropped, times, vouched, counter,
                   produced, slips>>

\* A mutated form of ForgetBatch: the batch stays pending
KeepBatch(b) == pending

\* The acknowledged batch is no longer pending
ForgetBatch(b) == IF pending = b THEN NoBatch ELSE pending

(***************************************************************************)
(* The answer, which the agent takes if it still waits for it:              *)
(* acknowledgeHeartbeatTraffic commits the batch's counter and forgets the  *)
(* batch, and persists the state unless there was no batch.  A failure is   *)
(* HeartbeatFails.                                                          *)
(***************************************************************************)
Answer(r) ==
    /\ handlers[r].step = "answer"
    /\ handlers' = [handlers EXCEPT ![r].step = "done"]
    /\ \/ /\ beat.step = "wait" /\ beat.request = r /\ handlers[r].success
          /\ committed' = beat.counter
          /\ pending' = ForgetBatch(beat.batch)
          /\ beat' = IF beat.batch = NoBatch THEN NoBeat ELSE [beat EXCEPT !.step = "save"]
          /\ UNCHANGED registered
       \/ /\ beat.step = "wait" /\ beat.request = r /\ ~handlers[r].success
          /\ beat' = NoBeat
          /\ registered' = FALSE
          /\ UNCHANGED <<committed, pending>>
       \/ /\ ~(beat.step = "wait" /\ beat.request = r)
          /\ UNCHANGED <<committed, pending, beat, registered>>
    /\ UNCHANGED <<disk, inflight, processed, total, recorded, dropped, times, vouched, counter,
                   produced, slips>>

\* A mutated form of DoneTrafficBatch: a failed batch is remembered, too
DoneEvenIfFailed(r) ==
    /\ handlers[r].step = "done"
    /\ handlers' = [handlers EXCEPT ![r] = NoHandler]
    /\ inflight' = IF handlers[r].owner THEN inflight \ {handlers[r].batch} ELSE inflight
    /\ processed' = IF handlers[r].owner THEN processed \cup {handlers[r].batch} ELSE processed
    /\ UNCHANGED <<agentVars, total, recorded, dropped, times, vouched, counter, produced, slips>>

(***************************************************************************)
(* The deferred end of Heartbeat, after its answer: the batch is no longer  *)
(* being recorded, and is remembered if it was.                             *)
(***************************************************************************)
DoneTrafficBatch(r) ==
    /\ handlers[r].step = "done"
    /\ handlers' = [handlers EXCEPT ![r] = NoHandler]
    /\ inflight' = IF handlers[r].owner THEN inflight \ {handlers[r].batch} ELSE inflight
    /\ processed' = IF handlers[r].owner /\ handlers[r].success
                    THEN processed \cup {handlers[r].batch} ELSE processed
    /\ UNCHANGED <<agentVars, total, recorded, dropped, times, vouched, counter, produced, slips>>

\* The six hours are over
ExpireBatch(b) ==
    /\ processed' = processed \ {b}
    /\ Slip("panel")
    /\ UNCHANGED <<agentVars, handlers, inflight, total, recorded, dropped, times, vouched, counter,
                   produced>>

\* The panel stops and starts again: requests are cut off, the deduper is empty
PanelRestart ==
    /\ handlers' = [r \in Requests |-> NoHandler]
    /\ inflight' = {} /\ processed' = {}
    /\ beat' = IF beat.step = "wait" THEN NoBeat ELSE beat
    /\ registered' = IF beat.step = "wait" THEN FALSE ELSE registered
    /\ Slip("panel")
    /\ UNCHANGED <<committed, pending, disk, total, recorded, dropped, times, vouched, counter, produced>>

\* resetNodeTrafficAt, by the administrator or once a month
ResetNodeTraffic ==
    /\ TrafficLimit > 0 /\ total > 0
    /\ total' = 0
    /\ UNCHANGED <<agentVars, handlers, inflight, processed, recorded, dropped, times, vouched, counter,
                   produced, slips>>

-----------------------------------------------------------------------------
Agent ==
    \/ Register \/ PrepareHeartbeat \/ PersistTrafficState
    \/ \E r \in Requests : SendHeartbeat(r)

Panel(r) ==
    \/ BeginTrafficBatch(r) \/ CheckTrafficLimit(r) \/ RecordTrafficBatch(r) \/ Answer(r) \/ DoneTrafficBatch(r)

Next ==
    \/ Traffic \/ XrayRestart
    \/ Agent \/ HeartbeatFails \/ AgentRestart
    \/ \E r \in Requests : Panel(r) \/ RecordTrafficFails(r)
    \/ \E b \in processed : ExpireBatch(b)
    \/ PanelRestart
    \/ ResetNodeTraffic

Spec == Init /\ [][Next]_vars

\* The agent still waits for the answer to r
Awaited(r) == beat.step = "wait" /\ beat.request = r

\* The write of the agent's state did not fail
StateWritten == disk' = [committed |-> committed, pending |-> pending]

(***************************************************************************)
(* Fairness: the heartbeat loop ticks for ever and the panel ends every     *)
(* request.  Of infinitely many attempts to register, to write the state    *)
(* and to send some succeed, and of infinitely many requests some are       *)
(* handled, recorded and answered while the agent waits, whatever restarts  *)
(* between.                                                                 *)
(***************************************************************************)
Fairness ==
    /\ SF_vars(Register) /\ SF_vars(PrepareHeartbeat) /\ SF_vars(PersistTrafficState /\ StateWritten)
    /\ SF_vars(\E r \in Requests : SendHeartbeat(r))
    /\ SF_vars(\E r \in Requests : Awaited(r) /\ BeginTrafficBatch(r))
    /\ SF_vars(\E r \in Requests : Awaited(r) /\ CheckTrafficLimit(r))
    /\ SF_vars(\E r \in Requests : Awaited(r) /\ RecordTrafficBatch(r))
    /\ SF_vars(\E r \in Requests : Awaited(r) /\ Answer(r))
    /\ \A r \in Requests : WF_vars(Panel(r) \/ RecordTrafficFails(r))

FairSpec == Spec /\ Fairness

-----------------------------------------------------------------------------
\* What the agent has yet to report: its pending batch and the growth since
Unreported ==
    pending.bytes + Delta(counter, IF pending = NoBatch THEN committed ELSE pending.counter)

(***************************************************************************)
(* While the panel keeps its memory, no batch is recorded twice, although   *)
(* answers are lost, requests overtake each other, disks fail and the agent *)
(* restarts.                                                                *)
(***************************************************************************)
RecordedOnce == "panel" \notin slips => \A b \in Batch : times[b] <= 1

(***************************************************************************)
(* While the panel keeps its memory and the agent's writes succeed, users   *)
(* are never charged for bytes they did not move, Xray restarts included.   *)
(***************************************************************************)
NeverOvercounted == slips \cap {"panel", "disk"} = {} => recorded + dropped <= produced

\* The bytes of the batches that were answered for and not recorded
Bytes == [b \in Batch |-> b.bytes]
Vouched == SumFunctionOnSet(Bytes, vouched)

(***************************************************************************)
(* A counter is committed only behind its batch: as long as Xray does not   *)
(* restart, and whenever the panel is handling no request, every byte is    *)
(* accounted by the panel or still to be reported, through lost answers,    *)
(* overtaking requests, failing transactions and disks, and restarts of the *)
(* agent and of the panel.  The one way to lose a batch is a retry that arrives while *)
(* an earlier request still records it: begin refuses it, Heartbeat answers *)
(* it with success, and the earlier request may yet fail or be cut off.  At *)
(* most the bytes of the batches that were answered so are missing.         *)
(***************************************************************************)
NothingLost ==
    "xray" \notin slips /\ (\A r \in Requests : handlers[r].step = "idle") =>
        produced <= recorded + dropped + Unreported + Vouched

\* The bound on what the panel accounts leaves no room for what is to come
AtBound == recorded + dropped + MaxTraffic > MaxRecorded

(***************************************************************************)
(* Every byte that was counted is reported and committed in the end, if     *)
(* Xray does not restart: restarts of the agent and of the panel, batches   *)
(* the panel forgot, failing disks and lost answers only delay it.          *)
(***************************************************************************)
EventuallyReported ==
    \A n \in 1..MaxTraffic : produced >= n ~> (committed >= n \/ "xray" \in slips \/ AtBound)
=============================================================================
