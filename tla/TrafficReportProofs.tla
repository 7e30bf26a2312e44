------------------------- MODULE TrafficReportProofs -------------------------
(***************************************************************************)
(* Proofs about TrafficReport, for any number of overlapping requests, any  *)
(* amount of traffic and any limit.                                         *)
(***************************************************************************)
EXTENDS TrafficReport, SumLemmas, TLAPS

\* Xray's counter never runs ahead of the bytes that went through it
CounterBound == counter <= produced

\* What becomes of the record of a request that is answered with success, admitted by
\* the deduper, or moved on to another step
LEMMA RequestAnswered ==
    ASSUME TypeOK, NEW r \in Requests,
           handlers' = [handlers EXCEPT ![r] = [@ EXCEPT !.step = "answer", !.success = TRUE]]
    PROVE  /\ handlers' \in [Requests -> Handler]
           /\ handlers'[r].step = "answer" /\ handlers'[r].success = TRUE
           /\ handlers'[r].batch = handlers[r].batch /\ handlers'[r].owner = handlers[r].owner
           /\ \A q \in Requests : q # r => handlers'[q] = handlers[q]
<1>1. handlers \in [Requests -> Handler] /\ handlers[r] \in Handler
  BY DEF TypeOK
<1>2. [handlers[r] EXCEPT !.step = "answer", !.success = TRUE] \in Handler
  BY <1>1 DEF Handler
<1>3. handlers'[r] = [handlers[r] EXCEPT !.step = "answer", !.success = TRUE]
  BY <1>1
<1>4. handlers' \in [Requests -> Handler] /\ \A q \in Requests : q # r => handlers'[q] = handlers[q]
  BY <1>1, <1>2
<1> QED
  BY <1>1, <1>3, <1>4 DEF Handler

LEMMA RequestAdmitted ==
    ASSUME TypeOK, NEW r \in Requests,
           handlers' = [handlers EXCEPT ![r] = [@ EXCEPT !.step = "check", !.owner = TRUE]]
    PROVE  /\ handlers' \in [Requests -> Handler]
           /\ handlers'[r].step = "check" /\ handlers'[r].owner = TRUE
           /\ handlers'[r].batch = handlers[r].batch /\ handlers'[r].success = handlers[r].success
           /\ \A q \in Requests : q # r => handlers'[q] = handlers[q]
<1>1. handlers \in [Requests -> Handler] /\ handlers[r] \in Handler
  BY DEF TypeOK
<1>2. [handlers[r] EXCEPT !.step = "check", !.owner = TRUE] \in Handler
  BY <1>1 DEF Handler
<1>3. handlers'[r] = [handlers[r] EXCEPT !.step = "check", !.owner = TRUE]
  BY <1>1
<1>4. handlers' \in [Requests -> Handler] /\ \A q \in Requests : q # r => handlers'[q] = handlers[q]
  BY <1>1, <1>2
<1> QED
  BY <1>1, <1>3, <1>4 DEF Handler

LEMMA RequestMoved ==
    ASSUME TypeOK, NEW r \in Requests, NEW step \in {"record", "answer"},
           handlers' = [handlers EXCEPT ![r].step = step]
    PROVE  /\ handlers' \in [Requests -> Handler]
           /\ handlers'[r].step = step /\ handlers'[r].success = handlers[r].success
           /\ handlers'[r].batch = handlers[r].batch /\ handlers'[r].owner = handlers[r].owner
           /\ \A q \in Requests : q # r => handlers'[q] = handlers[q]
<1>1. handlers \in [Requests -> Handler] /\ handlers[r] \in Handler
  BY DEF TypeOK
<1>2. [handlers[r] EXCEPT !.step = step] \in Handler
  BY <1>1 DEF Handler
<1>3. handlers'[r] = [handlers[r] EXCEPT !.step = step]
  BY <1>1
<1>4. handlers' \in [Requests -> Handler] /\ \A q \in Requests : q # r => handlers'[q] = handlers[q]
  BY <1>1, <1>2
<1> QED
  BY <1>1, <1>3, <1>4 DEF Handler

\* The growth of a counter is a number of bytes, the counter having restarted or not
LEMMA DeltaType ==
    ASSUME NEW c \in 0..MaxTraffic, NEW p \in 0..MaxTraffic
    PROVE  Delta(c, p) \in 0..MaxTraffic
  BY TrafficAssumption DEF Delta

\* The zero values are well typed
LEMMA NoBatchType == NoBatch \in Batch
  BY TrafficAssumption DEF NoBatch, Batch

\* No heartbeat is well typed
LEMMA NoBeatType == NoBeat \in Beat
  BY TrafficAssumption, NoBatchType DEF NoBeat, BeatAt, Beat

\* No request is well typed
LEMMA NoHandlerType == NoHandler \in Handler
  BY NoBatchType DEF NoHandler, Handler

\* The initial states are well typed
LEMMA TypeInit == Init => TypeOK /\ CounterBound
<1> SUFFICES ASSUME Init PROVE TypeOK /\ CounterBound
  OBVIOUS
<1>1. 0 \in 0..MaxTraffic
  BY TrafficAssumption
<1>2. handlers \in [Requests -> Handler] /\ beat \in Beat /\ pending \in Batch
  BY NoBatchType, NoBeatType, NoHandlerType DEF Init
<1>3. disk \in [committed: 0..MaxTraffic, pending: Batch]
  BY <1>1, NoBatchType DEF Init
<1>4. CounterBound
  BY DEF Init, CounterBound
<1> QED
  BY <1>1, <1>2, <1>3, <1>4 DEF Init, TypeOK

\* Every step keeps the types: one case per action
LEMMA TypeStep == TypeOK /\ CounterBound /\ [Next]_vars => TypeOK' /\ CounterBound'
<1> SUFFICES ASSUME TypeOK, CounterBound, [Next]_vars PROVE TypeOK' /\ CounterBound'
  OBVIOUS
<1> USE TrafficAssumption DEF TypeOK, CounterBound
<1>1. CASE Traffic
  BY <1>1 DEF Traffic, agentVars, panelVars
<1>2. CASE XrayRestart
  BY <1>2 DEF XrayRestart, agentVars, panelVars, Slip
<1>3. CASE Register
  BY <1>3 DEF Register, panelVars
<1>4. CASE PrepareHeartbeat
  <2>1. pending' \in Batch
    BY <1>4, DeltaType DEF PrepareHeartbeat, Batch
  <2>2. beat' \in Beat
    BY <1>4, <2>1, NoBatchType DEF PrepareHeartbeat, NoBeat, BeatAt, Beat, Batch
  <2> QED
    BY <1>4, <2>1, <2>2 DEF PrepareHeartbeat, panelVars
<1>5. CASE PersistTrafficState
  <2>1. beat' \in Beat
    BY <1>5, NoBeatType DEF PersistTrafficState, Beat
  <2>2. disk' \in [committed: 0..MaxTraffic, pending: Batch]
    BY <1>5 DEF PersistTrafficState
  <2> QED
    BY <1>5, <2>1, <2>2 DEF PersistTrafficState, panelVars, Slip
<1>6. ASSUME NEW r \in Requests, SendHeartbeat(r) PROVE TypeOK' /\ CounterBound'
  <2>1. beat' \in Beat
    BY <1>6 DEF SendHeartbeat, Beat
  <2>2. handlers' \in [Requests -> Handler]
    BY <1>6 DEF SendHeartbeat, NoHandler, Handler, Beat
  <2> QED
    BY <1>6, <2>1, <2>2 DEF SendHeartbeat
<1>7. CASE HeartbeatFails
  BY <1>7, NoBeatType DEF HeartbeatFails, panelVars
<1>8. CASE AgentRestart
  BY <1>8, NoBeatType DEF AgentRestart, panelVars
<1>9. ASSUME NEW r \in Requests, BeginTrafficBatch(r) PROVE TypeOK' /\ CounterBound'
  <2>1. handlers' \in [Requests -> Handler]
    BY <1>9, RequestAnswered, RequestAdmitted DEF BeginTrafficBatch
  <2>2. inflight' \subseteq Batch /\ vouched' \subseteq Batch
    BY <1>9 DEF BeginTrafficBatch, Handler
  <2> QED
    BY <1>9, <2>1, <2>2 DEF BeginTrafficBatch, agentVars
<1>10. ASSUME NEW r \in Requests, CheckTrafficLimit(r) PROVE TypeOK' /\ CounterBound'
  <2>1. handlers[r].batch \in Batch /\ handlers[r].batch.bytes \in Nat
    BY DEF Handler, Batch
  <2>2. handlers' \in [Requests -> Handler]
    BY <1>10, RequestAnswered, RequestMoved DEF CheckTrafficLimit
  <2>3. dropped' \in Nat /\ times' \in [Batch -> Nat]
    BY <1>10, <2>1 DEF CheckTrafficLimit
  <2> QED
    BY <1>10, <2>2, <2>3 DEF CheckTrafficLimit, agentVars
<1>11. ASSUME NEW r \in Requests, RecordTrafficBatch(r) PROVE TypeOK' /\ CounterBound'
  <2>1. handlers[r].batch \in Batch /\ handlers[r].batch.bytes \in Nat
    BY DEF Handler, Batch
  <2>2. handlers' \in [Requests -> Handler]
    BY <1>11, RequestAnswered DEF RecordTrafficBatch
  <2>3. total' \in Nat /\ recorded' \in Nat /\ dropped' \in Nat /\ times' \in [Batch -> Nat]
    BY <1>11, <2>1 DEF RecordTrafficBatch
  <2> QED
    BY <1>11, <2>2, <2>3 DEF RecordTrafficBatch, agentVars
<1>12. ASSUME NEW r \in Requests, RecordTrafficFails(r) PROVE TypeOK' /\ CounterBound'
  BY <1>12 DEF RecordTrafficFails, Handler, agentVars
<1>13. ASSUME NEW r \in Requests, Answer(r) PROVE TypeOK' /\ CounterBound'
  <2>1. handlers' \in [Requests -> Handler]
    BY <1>13 DEF Answer, Handler
  <2>2. beat' \in Beat
    BY <1>13, NoBeatType DEF Answer, Beat
  <2>3. committed' \in 0..MaxTraffic /\ pending' \in Batch /\ registered' \in BOOLEAN
    BY <1>13, NoBatchType DEF Answer, Beat, ForgetBatch
  <2> QED
    BY <1>13, <2>1, <2>2, <2>3 DEF Answer
<1>14. ASSUME NEW r \in Requests, DoneTrafficBatch(r) PROVE TypeOK' /\ CounterBound'
  <2>1. handlers' \in [Requests -> Handler]
    BY <1>14, NoHandlerType DEF DoneTrafficBatch
  <2>2. inflight' \subseteq Batch /\ processed' \subseteq Batch
    BY <1>14 DEF DoneTrafficBatch, Handler
  <2> QED
    BY <1>14, <2>1, <2>2 DEF DoneTrafficBatch, agentVars
<1>15. CASE \E b \in processed : ExpireBatch(b)
  BY <1>15 DEF ExpireBatch, agentVars, Slip
<1>16. CASE PanelRestart
  BY <1>16, NoBeatType, NoHandlerType DEF PanelRestart, Slip
<1>17. CASE ResetNodeTraffic
  BY <1>17 DEF ResetNodeTraffic, agentVars
<1>18. CASE UNCHANGED vars
  BY <1>18 DEF vars, agentVars, panelVars
<1> QED
  <2> HIDE DEF TypeOK, CounterBound
  <2> QED
    BY <1>1, <1>2, <1>3, <1>4, <1>5, <1>6, <1>7, <1>8, <1>9, <1>11, <1>12, <1>13, <1>14, <1>15,
       <1>16, <1>17, <1>18, <1>10 DEF Next, Agent, Panel

(***************************************************************************)
(* Every reachable state is well typed: in particular no batch is negative  *)
(* or larger than what went through Xray, however its counter restarts.     *)
(***************************************************************************)
THEOREM TypeCorrect == Spec => []TypeOK
<1>1. Spec => [](TypeOK /\ CounterBound)
  BY TypeInit, TypeStep, PTL DEF Spec
<1> QED
  BY <1>1, PTL

\* What went wrong once is not forgotten
LEMMA SlipsStay == [Next]_vars => slips \subseteq slips'
  BY DEF Next, vars, Traffic, XrayRestart, Agent, Register, PrepareHeartbeat, PersistTrafficState,
         SendHeartbeat, HeartbeatFails, AgentRestart, Panel, BeginTrafficBatch, CheckTrafficLimit,
         RecordTrafficBatch, RecordTrafficFails, Answer, DoneTrafficBatch, ExpireBatch, PanelRestart,
         ResetNodeTraffic, Slip

-----------------------------------------------------------------------------
(***************************************************************************)
(* The deduper.  Owner(r): the request holds the right to record its batch. *)
(* No two requests hold it for one batch, nobody holds it for a batch that  *)
(* is remembered as recorded, and a batch was recorded at most once, being  *)
(* remembered or held by the request that recorded it ever since.           *)
(***************************************************************************)
Owner(r) == handlers[r].owner

Dedup ==
    /\ \A r \in Requests : handlers[r].step \in {"begin", "check", "record"} => ~handlers[r].success
    /\ \A r \in Requests : handlers[r].step \in {"check", "record"} => Owner(r)
    /\ \A r \in Requests : Owner(r) => /\ handlers[r].step \in {"check", "record", "answer", "done"}
                                       /\ handlers[r].batch \in inflight
                                       /\ handlers[r].batch \notin processed
    /\ \A r, q \in Requests : Owner(r) /\ Owner(q) /\ handlers[r].batch = handlers[q].batch => r = q
    /\ \A b \in Batch : times[b] <= 1
    /\ \A b \in Batch : times[b] # 0 =>
          b \in processed \/ \E r \in Requests : Owner(r) /\ handlers[r].success /\ handlers[r].batch = b

\* At first nothing is being recorded and nothing is remembered
LEMMA DedupInit == Init => Dedup
  BY DEF Init, Dedup, Owner, NoHandler

\* Every step keeps the deduper right, if it forgets nothing
LEMMA DedupStep ==
    ASSUME "panel" \notin slips', TypeOK, Dedup, [Next]_vars
    PROVE  Dedup'
<1> USE DEF TypeOK, Dedup, Owner, Handler
<1>1. ASSUME NEW r \in Requests, SendHeartbeat(r) PROVE Dedup'
  BY <1>1 DEF SendHeartbeat, NoHandler
<1>2. ASSUME NEW r \in Requests, BeginTrafficBatch(r) PROVE Dedup'
  <2> DEFINE b == handlers[r].batch
  <2>1. CASE b = NoBatch \/ Refused(b)
    <3>1. /\ handlers[r].step = "begin" /\ UNCHANGED <<inflight, processed, times>>
          /\ handlers' = [handlers EXCEPT ![r] = [@ EXCEPT !.step = "answer", !.success = TRUE]]
      BY <1>2, <2>1 DEF BeginTrafficBatch
    <3>2. /\ handlers'[r].step = "answer" /\ handlers'[r].batch = b
          /\ handlers'[r].owner = handlers[r].owner /\ ~handlers[r].owner
          /\ \A q \in Requests : q # r => handlers'[q] = handlers[q]
      BY <3>1, RequestAnswered
    <3> QED
      BY <3>1, <3>2
  <2>2. CASE b # NoBatch /\ ~Refused(b)
    <3>1. /\ handlers[r].step = "begin" /\ b \notin inflight /\ b \notin processed
          /\ inflight' = inflight \cup {b} /\ processed' = processed /\ times' = times
          /\ handlers' = [handlers EXCEPT ![r] = [@ EXCEPT !.step = "check", !.owner = TRUE]]
      BY <1>2, <2>2 DEF BeginTrafficBatch, Refused
    <3>2. /\ handlers'[r].step = "check" /\ handlers'[r].owner = TRUE /\ handlers'[r].batch = b
          /\ handlers'[r].success = handlers[r].success
          /\ \A q \in Requests : q # r => handlers'[q] = handlers[q]
      BY <3>1, RequestAdmitted
    <3>3. ~Owner(r) /\ ~handlers'[r].success
      BY <3>1, <3>2
    <3> QED
      BY <3>1, <3>2, <3>3
  <2> QED
    BY <2>1, <2>2
<1>3. ASSUME NEW r \in Requests, CheckTrafficLimit(r) PROVE Dedup'
  <2>1. CASE handlers' = [handlers EXCEPT ![r].step = "record"] /\ UNCHANGED times
    BY <1>3, <2>1 DEF CheckTrafficLimit
  <2>2. CASE /\ handlers' = [handlers EXCEPT ![r] = [@ EXCEPT !.step = "answer", !.success = TRUE]]
             /\ times' = [times EXCEPT ![handlers[r].batch] = @ + 1]
    BY <1>3, <2>2 DEF CheckTrafficLimit
  <2> QED
    BY <1>3, <2>1, <2>2 DEF CheckTrafficLimit
<1>4. ASSUME NEW r \in Requests, RecordTrafficBatch(r) PROVE Dedup'
  BY <1>4 DEF RecordTrafficBatch
<1>5. ASSUME NEW r \in Requests, RecordTrafficFails(r) PROVE Dedup'
  BY <1>5 DEF RecordTrafficFails
<1>6. ASSUME NEW r \in Requests, Answer(r) PROVE Dedup'
  BY <1>6 DEF Answer
<1>7. ASSUME NEW r \in Requests, DoneTrafficBatch(r) PROVE Dedup'
  BY <1>7 DEF DoneTrafficBatch, NoHandler
<1>8. CASE UNCHANGED <<handlers, inflight, processed, times>>
  BY <1>8
<1> QED
  <2> HIDE DEF TypeOK, Dedup, Owner, Handler
  <2>1. ~(\E b \in processed : ExpireBatch(b)) /\ ~PanelRestart
    BY DEF ExpireBatch, PanelRestart, Slip
  <2>2. CASE Traffic \/ XrayRestart \/ HeartbeatFails \/ AgentRestart \/ ResetNodeTraffic
    BY <2>2, <1>8 DEF Traffic, XrayRestart, HeartbeatFails, AgentRestart, ResetNodeTraffic, panelVars
  <2>3. CASE Agent
    BY <2>3, <1>1, <1>8 DEF Agent, Register, PrepareHeartbeat, PersistTrafficState, panelVars
  <2>4. CASE UNCHANGED vars
    BY <2>4, <1>8 DEF vars, panelVars
  <2> QED
    BY <2>1, <2>2, <2>3, <2>4, <1>2, <1>4, <1>5, <1>6, <1>7, <1>3 DEF Next, Panel

(***************************************************************************)
(* While the panel keeps its memory, a batch is recorded at most once, with *)
(* any number of requests that carry it under way at a time.                *)
(***************************************************************************)
THEOREM BatchRecordedOnce == Spec => []RecordedOnce
<1> DEFINE Inv == TypeOK /\ CounterBound /\ ("panel" \notin slips => Dedup)
<1>1. Init => Inv
  BY TypeInit, DedupInit
<1>2. Inv /\ [Next]_vars => Inv'
  BY TypeStep, DedupStep, SlipsStay
<1>3. Inv => RecordedOnce
  BY DEF Dedup, RecordedOnce
<1> QED
  BY <1>1, <1>2, <1>3, PTL DEF Spec

-----------------------------------------------------------------------------
\* The bytes of a set of batches, of which there are finitely many
Reported(S) == SumFunctionOnSet(Bytes, S)

LEMMA BatchFinite == IsFiniteSet(Batch)
<1>1. IsFiniteSet(0..MaxTraffic)
  BY FS_Interval, TrafficAssumption
<1>2. IsFiniteSet((0..MaxTraffic) \X (0..MaxTraffic))
  BY <1>1, FS_Product
<1> DEFINE f == [x \in (0..MaxTraffic) \X (0..MaxTraffic) |-> [bytes |-> x[1], counter |-> x[2]]]
<1>3. IsFiniteSet({f[x] : x \in (0..MaxTraffic) \X (0..MaxTraffic)})
  <2>1. f \in [(0..MaxTraffic) \X (0..MaxTraffic) -> {f[x] : x \in (0..MaxTraffic) \X (0..MaxTraffic)}]
    OBVIOUS
  <2>2. f \in Surjection((0..MaxTraffic) \X (0..MaxTraffic), {f[x] : x \in (0..MaxTraffic) \X (0..MaxTraffic)})
    BY <2>1 DEF Surjection
  <2> HIDE DEF f
  <2> QED
    BY <1>2, <2>2, FS_Surjection
<1>4. Batch \subseteq {f[x] : x \in (0..MaxTraffic) \X (0..MaxTraffic)}
  <2> SUFFICES ASSUME NEW b \in Batch
               PROVE  \E x \in (0..MaxTraffic) \X (0..MaxTraffic) : b = f[x]
    OBVIOUS
  <2>1. <<b.bytes, b.counter>> \in (0..MaxTraffic) \X (0..MaxTraffic)
    BY DEF Batch
  <2>2. f[<<b.bytes, b.counter>>] = [bytes |-> b.bytes, counter |-> b.counter]
    BY <2>1
  <2>3. b = [bytes |-> b.bytes, counter |-> b.counter]
    BY DEF Batch
  <2> QED
    BY <2>1, <2>2, <2>3
<1> QED
  BY <1>3, <1>4, FS_Subset

\* Sums of batches are numbers, grow with the set, and by a new batch's bytes
LEMMA ReportedType ==
    ASSUME NEW S \in SUBSET Batch
    PROVE  IsFiniteSet(S) /\ Reported(S) \in Nat
<1>1. IsFiniteSet(S)
  BY BatchFinite, FS_Subset
<1>2. \A b \in S : Bytes[b] \in Nat
  BY DEF Bytes, Batch
<1> QED
  BY <1>1, <1>2, SumNat DEF Reported

LEMMA ReportedPart ==
    ASSUME NEW S \in SUBSET Batch, NEW T \in SUBSET S
    PROVE  Reported(T) <= Reported(S)
<1>1. IsFiniteSet(S)
  BY BatchFinite, FS_Subset
<1>2. \A b \in S : Bytes[b] \in Nat
  BY DEF Bytes, Batch
<1> QED
  BY <1>1, <1>2, SumPart DEF Reported

LEMMA ReportedInsert ==
    ASSUME NEW S \in SUBSET Batch, NEW b \in Batch
    PROVE  /\ b \notin S => Reported(S \cup {b}) = Reported(S) + b.bytes
           /\ Reported(S \cup {b}) <= Reported(S) + b.bytes
<1>1. Reported(S) \in Nat /\ IsFiniteSet(S) /\ b.bytes \in Nat /\ Bytes[b] = b.bytes
  BY ReportedType DEF Batch, Bytes
<1>2. ASSUME b \notin S PROVE Reported(S \cup {b}) = Reported(S) + b.bytes
  <2>1. \A y \in S \cup {b} : Bytes[y] \in Int
    BY DEF Bytes, Batch
  <2>2. Reported(S \cup {b}) = Bytes[b] + Reported(S)
    BY <1>1, <1>2, <2>1, SumInsert DEF Reported
  <2> QED
    BY <1>1, <2>2
<1>3. CASE b \in S
  <2>1. S \cup {b} = S
    BY <1>3
  <2>2. Reported(S \cup {b}) = Reported(S)
    BY <2>1
  <2> QED
    BY <1>1, <1>3, <2>2
<1> QED
  BY <1>1, <1>2, <1>3

-----------------------------------------------------------------------------
(***************************************************************************)
(* No loss.  A batch that was answered for counts as accounted until it is  *)
(* recorded.  Covered(b): what lies below the batch is accounted already.   *)
(* Acked(b): the batch itself is, too.  Every batch anywhere is covered,    *)
(* every batch that is answered with success, remembered or answered for is *)
(* accounted, and so is every committed counter, in memory and on disk.     *)
(***************************************************************************)
Accounted == recorded + dropped + Reported(vouched)
Covered(b) == b.counter <= counter /\ b.counter - b.bytes <= Accounted
Acked(b) == b.counter <= Accounted

AgentSafe ==
    /\ counter = produced
    /\ committed <= counter /\ committed <= Accounted
    /\ disk.committed <= counter /\ disk.committed <= Accounted
    /\ Covered(pending) /\ Covered(disk.pending) /\ Covered(beat.batch)
    /\ beat.counter <= counter
    /\ beat.batch # NoBatch => beat.counter = beat.batch.counter
    /\ beat.batch = NoBatch => beat.counter <= Accounted
    /\ beat.step = "wait" => /\ beat.request \in Requests
                             /\ handlers[beat.request].batch = beat.batch
                             /\ handlers[beat.request].step \in {"begin", "check", "record", "answer"}

PanelSafe ==
    /\ \A r \in Requests : Covered(handlers[r].batch)
    /\ \A r \in Requests : handlers[r].success => Acked(handlers[r].batch)
    /\ \A r \in Requests : handlers[r].owner => handlers[r].step \in {"check", "record", "answer", "done"}
    /\ \A b \in processed \cup vouched : Acked(b)
    /\ \A b \in inflight : \E r \in Requests : handlers[r].owner /\ handlers[r].batch = b

LEMMA ReportedRemove ==
    ASSUME NEW S \in SUBSET Batch, NEW b \in Batch
    PROVE  /\ b \in S => Reported(S) = Reported(S \ {b}) + b.bytes
           /\ b \notin S => Reported(S \ {b}) = Reported(S)
<1>1. CASE b \in S
  <2>1. S \ {b} \in SUBSET Batch /\ b \notin S \ {b} /\ (S \ {b}) \cup {b} = S
    BY <1>1
  <2> QED
    BY <1>1, <2>1, ReportedInsert
<1>2. CASE b \notin S
  <2>1. S \ {b} = S
    BY <1>2
  <2> QED
    BY <1>2, <2>1
<1> QED
  BY <1>1, <1>2

\* To record a batch, or to answer for it, accounts for it and takes nothing back
LEMMA AccountedGrows ==
    ASSUME TypeOK, TypeOK', PanelSafe, NEW b \in Batch, Covered(b),
           \/ vouched' = vouched \ {b} /\ recorded' + dropped' = recorded + dropped + b.bytes
           \/ vouched' = vouched \cup {b} /\ recorded' + dropped' = recorded + dropped
    PROVE  Accounted \in Nat /\ Accounted' \in Nat /\ Accounted' >= Accounted /\ b.counter <= Accounted'
<1>1. /\ vouched \in SUBSET Batch /\ vouched' \in SUBSET Batch
      /\ recorded \in Nat /\ dropped \in Nat /\ recorded' \in Nat /\ dropped' \in Nat
      /\ b.bytes \in Nat /\ b.counter \in Nat
  BY DEF TypeOK, Batch
<1>2. Reported(vouched) \in Nat /\ Reported(vouched') \in Nat
  BY <1>1, ReportedType
<1>3. b.counter - b.bytes <= recorded + dropped + Reported(vouched)
  BY DEF Covered, Accounted
<1>4. b \in vouched => b.counter <= recorded + dropped + Reported(vouched)
  BY DEF PanelSafe, Acked, Accounted
<1>5. CASE vouched' = vouched \ {b} /\ recorded' + dropped' = recorded + dropped + b.bytes
  <2>1. /\ b \in vouched => Reported(vouched) = Reported(vouched') + b.bytes
        /\ b \notin vouched => Reported(vouched') = Reported(vouched)
    BY <1>1, <1>5, ReportedRemove
  <2> QED
    BY <1>1, <1>2, <1>3, <1>4, <1>5, <2>1 DEF Accounted
<1>6. CASE vouched' = vouched \cup {b} /\ recorded' + dropped' = recorded + dropped
  <2>1. /\ b \notin vouched => Reported(vouched') = Reported(vouched) + b.bytes
        /\ b \in vouched => Reported(vouched') = Reported(vouched)
    <3>1. b \in vouched => vouched' = vouched
      BY <1>6
    <3> QED
      BY <1>1, <1>6, <3>1, ReportedInsert
  <2>2. Accounted = recorded + dropped + Reported(vouched) /\ Accounted' = recorded + dropped + Reported(vouched')
    BY <1>6 DEF Accounted
  <2> QED
    BY <1>1, <1>2, <1>3, <1>4, <2>1, <2>2
<1> QED
  BY <1>5, <1>6

\* At first there is nothing to lose
LEMMA SafeInit == Init => AgentSafe /\ PanelSafe
<1>1. Reported({}) = 0
  BY SumEmpty DEF Reported
<1> QED
  BY <1>1 DEF Init, AgentSafe, PanelSafe, Covered, Acked, Accounted, NoBatch, NoBeat, BeatAt, NoHandler

\* Every step keeps every batch covered, if Xray keeps its counter
LEMMA SafeStep ==
    ASSUME "xray" \notin slips', TypeOK, TypeOK', AgentSafe, PanelSafe, [Next]_vars
    PROVE  AgentSafe' /\ PanelSafe'
<1>0. Reported(vouched) \in Nat
  BY ReportedType DEF TypeOK
<1> USE <1>0
<1> USE TrafficAssumption DEF TypeOK, AgentSafe, PanelSafe, Covered, Acked, Accounted, Batch
<1>1. CASE Traffic
  BY <1>1 DEF Traffic, agentVars, panelVars, Handler, Beat
<1>2. CASE Register
  BY <1>2 DEF Register, panelVars
<1>3. CASE PrepareHeartbeat
  <2>1. PanelSafe'
    BY <1>3 DEF PrepareHeartbeat, panelVars
  <2>2. CASE pending # NoBatch
    <3>1. /\ beat'.step = "send" /\ beat'.batch = pending /\ beat'.counter = pending.counter
          /\ pending' = pending
      BY <1>3, <2>2 DEF PrepareHeartbeat, BeatAt
    <3> QED
      BY <1>3, <2>1, <2>2, <3>1 DEF PrepareHeartbeat, panelVars
  <2>3. CASE pending = NoBatch /\ Delta(counter, committed) # 0
    <3>1. Delta(counter, committed) = counter - committed
      BY DEF Delta
    <3>2. /\ pending' = [bytes |-> counter - committed, counter |-> counter]
          /\ beat'.step = "persist" /\ beat'.batch = pending' /\ beat'.counter = counter
      BY <1>3, <2>3, <3>1 DEF PrepareHeartbeat, BeatAt
    <3>3. pending' # NoBatch
      BY <2>3, <3>1, <3>2 DEF NoBatch
    <3> QED
      BY <1>3, <2>1, <3>2, <3>3 DEF PrepareHeartbeat, panelVars
  <2>4. CASE pending = NoBatch /\ Delta(counter, committed) = 0
    <3>1. counter = committed
      BY <2>4 DEF Delta
    <3>2. beat'.step = "send" /\ beat'.batch = NoBatch /\ beat'.counter = counter /\ pending' = pending
      BY <1>3, <2>4 DEF PrepareHeartbeat, BeatAt
    <3> QED
      BY <1>3, <2>1, <2>4, <3>1, <3>2 DEF PrepareHeartbeat, panelVars
  <2> QED
    BY <2>2, <2>3, <2>4
<1>4. CASE PersistTrafficState
  BY <1>4 DEF PersistTrafficState, panelVars, NoBeat, BeatAt, NoBatch, Beat
<1>5. ASSUME NEW r \in Requests, SendHeartbeat(r) PROVE AgentSafe' /\ PanelSafe'
  BY <1>5 DEF SendHeartbeat, NoHandler, Beat, Handler
<1>6. CASE HeartbeatFails
  BY <1>6 DEF HeartbeatFails, panelVars, NoBeat, BeatAt, NoBatch
<1>7. CASE AgentRestart
  BY <1>7 DEF AgentRestart, panelVars, NoBeat, BeatAt, NoBatch
<1>8. ASSUME NEW r \in Requests, BeginTrafficBatch(r) PROVE AgentSafe' /\ PanelSafe'
  <2> DEFINE b == handlers[r].batch
  <2>1. b \in Batch /\ b.counter \in Nat /\ Covered(b)
    BY DEF Handler
  <2>2. CASE b = NoBatch \/ Refused(b)
    <3>1. /\ UNCHANGED <<counter, produced, committed, disk, pending, beat, processed, inflight, recorded, dropped>>
          /\ handlers' = [handlers EXCEPT ![r] = [@ EXCEPT !.step = "answer", !.success = TRUE]]
          /\ vouched' = IF Recording(b) THEN vouched \cup {b} ELSE vouched
      BY <1>8, <2>2 DEF BeginTrafficBatch, agentVars, Refused
    <3>2. /\ handlers'[r].step = "answer" /\ handlers'[r].batch = b /\ handlers'[r].owner = handlers[r].owner
          /\ \A q \in Requests : q # r => handlers'[q] = handlers[q]
      <4> HIDE DEF TypeOK, AgentSafe, PanelSafe
      <4> QED
        BY <3>1, RequestAnswered
    <3>3. Accounted' >= Accounted /\ b.counter <= Accounted' /\ Accounted \in Nat /\ Accounted' \in Nat
      <4>1. CASE Recording(b)
        BY <2>1, <3>1, <4>1, AccountedGrows
      <4>2. CASE ~Recording(b)
        <5>1. Acked(b)
          BY <2>2, <4>2 DEF Refused, NoBatch, Recording
        <5> QED
          BY <3>1, <4>2, <5>1
      <4> QED
        BY <4>1, <4>2
    <3>4. \A c \in Batch : (Covered(c) => Covered(c)') /\ (Acked(c) => Acked(c)')
      <4> HIDE DEF Accounted
      <4> QED
        BY <3>1, <3>3
    <3>5. vouched' \subseteq vouched \cup {b}
      BY <3>1
    <3>6. AgentSafe'
      <4> HIDE DEF Accounted, Covered
      <4> QED
        BY <3>1, <3>2, <3>3, <3>4, <1>8 DEF Beat, BeginTrafficBatch, Handler
    <3>7. PanelSafe'
      <4> HIDE DEF Accounted, Covered
      <4>1. Acked(b)'
        BY <3>2, <3>3
      <4>2. \A c \in processed \cup vouched : c \in Batch /\ Acked(c)
        OBVIOUS
      <4>3. \A c \in (processed \cup vouched)' : Acked(c)'
        BY <3>1, <3>4, <3>5, <4>1, <4>2
      <4>4. \A q \in Requests : handlers'[q].batch = handlers[q].batch /\ handlers[q].batch \in Batch
        BY <3>2 DEF Handler
      <4>5. \A q \in Requests : handlers'[q].success => Acked(handlers[q].batch)'
        BY <3>2, <3>4, <4>1, <4>4
      <4> HIDE DEF Acked
      <4> QED
        BY <3>1, <3>2, <3>4, <4>3, <4>4, <4>5
    <3> QED
      BY <3>6, <3>7
  <2>3. CASE b # NoBatch /\ ~Refused(b)
    <3>1. /\ UNCHANGED <<counter, produced, committed, disk, pending, beat, processed, recorded, dropped, vouched>>
          /\ inflight' = inflight \cup {b}
          /\ handlers' = [handlers EXCEPT ![r] = [@ EXCEPT !.step = "check", !.owner = TRUE]]
          /\ handlers[r].step = "begin"
      BY <1>8, <2>3 DEF BeginTrafficBatch, agentVars
    <3>2. /\ handlers'[r].step = "check" /\ handlers'[r].owner = TRUE /\ handlers'[r].batch = b
          /\ handlers'[r].success = handlers[r].success
          /\ \A q \in Requests : q # r => handlers'[q] = handlers[q]
      BY <3>1, RequestAdmitted
    <3> QED
      BY <3>1, <3>2
  <2> QED
    BY <2>2, <2>3
<1>9. ASSUME NEW r \in Requests, CheckTrafficLimit(r) PROVE AgentSafe' /\ PanelSafe'
  <2> DEFINE b == handlers[r].batch
  <2>1. b \in Batch /\ b.bytes \in Nat /\ b.counter \in Nat /\ b.counter - b.bytes <= Accounted
    BY DEF Handler
  <2>2. UNCHANGED <<counter, produced, committed, disk, pending, beat, processed, inflight>>
    BY <1>9 DEF CheckTrafficLimit, agentVars
  <2>3. CASE /\ handlers' = [handlers EXCEPT ![r].step = "record"]
             /\ UNCHANGED <<recorded, dropped, vouched>>
    BY <2>2, <2>3 DEF Handler
  <2>4. CASE /\ handlers' = [handlers EXCEPT ![r] = [@ EXCEPT !.step = "answer", !.success = TRUE]]
             /\ UNCHANGED recorded /\ dropped' = dropped + b.bytes /\ vouched' = vouched \ {b}
    <3>1. Accounted' >= Accounted /\ b.counter <= Accounted' /\ Accounted \in Nat /\ Accounted' \in Nat
      <4>1. recorded' + dropped' = recorded + dropped + b.bytes /\ Covered(b)
        BY <2>1, <2>4
      <4> QED
        BY <2>1, <2>4, <4>1, AccountedGrows
    <3>2. /\ \A q \in Requests : handlers'[q].batch = handlers[q].batch /\ handlers'[q].owner = handlers[q].owner
          /\ \A q \in Requests : q # r => handlers'[q] = handlers[q]
          /\ handlers'[r].step = "answer"
      BY <2>4 DEF Handler
    <3>4. \A c \in Batch : (Covered(c) => Covered(c)') /\ (Acked(c) => Acked(c)')
      <4> HIDE DEF Accounted
      <4> QED
        BY <2>1, <2>2, <3>1
    <3>5. AgentSafe'
      <4> HIDE DEF Accounted, Covered
      <4> QED
        BY <2>1, <2>2, <3>1, <3>2, <3>4 DEF Beat
    <3>6. PanelSafe'
      <4> HIDE DEF Accounted, Covered
      <4> QED
        BY <2>1, <2>2, <2>4, <3>1, <3>2, <3>4 DEF Handler
    <3> QED
      BY <3>5, <3>6
  <2> QED
    BY <1>9, <2>3, <2>4 DEF CheckTrafficLimit
<1>10. ASSUME NEW r \in Requests, RecordTrafficBatch(r) PROVE AgentSafe' /\ PanelSafe'
  <2> DEFINE b == handlers[r].batch
  <2>1. b \in Batch /\ b.bytes \in Nat /\ b.counter \in Nat
    BY DEF Handler
  <2>2. Accounted' >= Accounted /\ b.counter <= Accounted' /\ Accounted \in Nat /\ Accounted' \in Nat
    <3>1. recorded' + dropped' = recorded + dropped + b.bytes /\ vouched' = vouched \ {b} /\ Covered(b)
      BY <1>10, <2>1 DEF RecordTrafficBatch
    <3> QED
      BY <2>1, <3>1, AccountedGrows
  <2>3. /\ \A q \in Requests : handlers'[q].batch = handlers[q].batch /\ handlers'[q].owner = handlers[q].owner
        /\ \A q \in Requests : q # r => handlers'[q] = handlers[q]
        /\ handlers'[r].step = "answer"
    BY <1>10 DEF RecordTrafficBatch, Handler
  <2>4. UNCHANGED <<counter, produced, committed, disk, pending, beat, processed, inflight>>
        /\ vouched' = vouched \ {b}
    BY <1>10 DEF RecordTrafficBatch, agentVars
  <2> HIDE DEF Accounted
  <2>5. \A c \in Batch : (Covered(c) => Covered(c)') /\ (Acked(c) => Acked(c)')
    BY <2>1, <2>2, <2>4
  <2> HIDE DEF Covered
  <2>6. AgentSafe'
    BY <2>1, <2>2, <2>3, <2>4, <2>5 DEF Beat
  <2>7. PanelSafe'
    <3>1. \A q \in Requests : handlers'[q].success => Acked(handlers[q].batch)'
      BY <2>1, <2>2, <2>3, <2>4, <2>5 DEF Handler
    <3>2. \A c \in (processed \cup vouched)' : Acked(c)'
      BY <2>4, <2>5
    <3>3. \A q \in Requests : handlers[q].batch \in Batch
      BY DEF Handler
    <3> HIDE DEF Acked
    <3> QED
      BY <2>3, <2>4, <2>5, <3>1, <3>2, <3>3
  <2> QED
    BY <2>6, <2>7
<1>11. ASSUME NEW r \in Requests, RecordTrafficFails(r) PROVE AgentSafe' /\ PanelSafe'
  BY <1>11 DEF RecordTrafficFails, agentVars, Handler
<1>12. ASSUME NEW r \in Requests, Answer(r) PROVE AgentSafe' /\ PanelSafe'
  <2>1. PanelSafe'
    BY <1>12 DEF Answer, Handler
  <2>2. handlers'[r].batch = handlers[r].batch /\ beat.request \in Requests => handlers'[beat.request].batch = handlers[beat.request].batch
    BY <1>12 DEF Answer, Handler
  <2>3. CASE beat.step = "wait" /\ beat.request = r /\ handlers[r].success
    <3>1. beat.counter <= Accounted /\ beat.counter <= counter
      BY <2>3 DEF Handler
    <3>2. committed' = beat.counter /\ pending' \in {pending, NoBatch}
          /\ (beat' = NoBeat \/ beat' = [beat EXCEPT !.step = "save"])
      BY <1>12, <2>3 DEF Answer, ForgetBatch
    <3> QED
      BY <1>12, <2>1, <3>1, <3>2 DEF Answer, NoBatch, NoBeat, BeatAt, Beat
  <2>4. CASE beat.step = "wait" /\ beat.request = r /\ ~handlers[r].success
    BY <1>12, <2>1, <2>4 DEF Answer, NoBeat, BeatAt, NoBatch
  <2>5. CASE ~(beat.step = "wait" /\ beat.request = r)
    BY <1>12, <2>1, <2>2, <2>5 DEF Answer
  <2> QED
    BY <2>3, <2>4, <2>5
<1>13. ASSUME NEW r \in Requests, DoneTrafficBatch(r) PROVE AgentSafe' /\ PanelSafe'
  <2> DEFINE b == handlers[r].batch
  <2>1. /\ UNCHANGED <<counter, produced, recorded, dropped, vouched, committed, disk, pending, beat>>
        /\ handlers[r].step = "done"
        /\ handlers' = [handlers EXCEPT ![r] = NoHandler]
    BY <1>13 DEF DoneTrafficBatch, agentVars
  <2>2. /\ handlers'[r] = NoHandler
        /\ \A q \in Requests : q # r => handlers'[q] = handlers[q]
    BY <2>1
  <2>3. AgentSafe'
    BY <2>1, <2>2
  <2>4. \A c \in processed' \cup vouched' : Acked(c)
    BY <1>13 DEF DoneTrafficBatch
  <2>5. \A c \in inflight' : \E q \in Requests : q # r /\ handlers[q].owner /\ handlers[q].batch = c
    BY <1>13 DEF DoneTrafficBatch
  <2>6. Covered(NoBatch)
    BY DEF NoBatch
  <2>7. PanelSafe'
    BY <2>1, <2>2, <2>4, <2>5, <2>6 DEF NoHandler
  <2> QED
    BY <2>3, <2>7
<1>14. CASE \E b \in processed : ExpireBatch(b)
  BY <1>14 DEF ExpireBatch, agentVars
<1>15. CASE PanelRestart
  BY <1>15 DEF PanelRestart, NoHandler, NoBeat, BeatAt, NoBatch
<1>16. CASE ResetNodeTraffic
  BY <1>16 DEF ResetNodeTraffic, agentVars
<1>17. CASE UNCHANGED vars
  BY <1>17 DEF vars, agentVars, panelVars
<1> QED
  <2> HIDE DEF TypeOK, AgentSafe, PanelSafe
  <2>1. ~XrayRestart
    BY DEF XrayRestart, Slip
  <2> QED
    BY <2>1, <1>1, <1>2, <1>3, <1>4, <1>5, <1>6, <1>7, <1>8, <1>10, <1>11, <1>12, <1>13, <1>14,
       <1>15, <1>16, <1>17, <1>9 DEF Next, Agent, Panel

(***************************************************************************)
(* As long as Xray does not restart no byte is lost, with any number of     *)
(* overlapping requests: whatever answers are lost, transactions fail,      *)
(* disks fail and sides restart, the panel has accounted what the agent no  *)
(* longer reports, but for the batches it answered for while another        *)
(* request was still recording them and that nobody recorded since.         *)
(***************************************************************************)
THEOREM NothingIsLost == Spec => []NothingLost
<1> DEFINE Inv == TypeOK /\ CounterBound /\ ("xray" \notin slips => AgentSafe /\ PanelSafe)
<1>1. Init => Inv
  BY TypeInit, SafeInit
<1>2. Inv /\ [Next]_vars => Inv'
  BY TypeStep, SafeStep, SlipsStay
<1>3. Inv => NothingLost
  <2> SUFFICES ASSUME TypeOK, AgentSafe PROVE produced <= recorded + dropped + Unreported + Vouched
    BY DEF NothingLost
  <2>0. Reported(vouched) \in Nat /\ Vouched = Reported(vouched)
    BY ReportedType DEF TypeOK, Vouched, Reported
  <2>1. CASE pending = NoBatch
    BY <2>0, <2>1, TrafficAssumption
    DEF TypeOK, AgentSafe, Covered, Accounted, Unreported, Delta, NoBatch, Batch
  <2>2. CASE pending # NoBatch
    BY <2>0, <2>2, TrafficAssumption
    DEF TypeOK, AgentSafe, Covered, Accounted, Unreported, Delta, Batch
  <2> QED
    BY <2>1, <2>2
<1> QED
  BY <1>1, <1>2, <1>3, PTL DEF Spec

-----------------------------------------------------------------------------
(***************************************************************************)
(* No double charge.  A batch counts once its handler has recorded or       *)
(* dropped it; it is known when it has left the agent's memory: on the      *)
(* agent's disk, in a request or counted.  Batches of equal content are     *)
(* one, as for the deduper.                                                 *)
(***************************************************************************)
Counted == {b \in Batch : times[b] # 0}
Known == Counted \cup {handlers[r].batch : r \in Requests} \cup {disk.pending}

\* The counter the next batch will be measured from, and whether the batches of
\* S and that next batch stay within the n bytes counted, the counter being c
Base(last, batch) == IF batch = NoBatch THEN last ELSE batch.counter
Room(S, base, c, n) == Reported(S) + Delta(c, base) <= n

\* The agent may go on from its memory, from its disk after a restart, or from a
\* heartbeat without a batch; from none of them does it report a byte again
Ledger ==
    /\ recorded + dropped = Reported(Counted)
    /\ Room(Known \cup {pending}, Base(committed, pending), counter, produced)
    /\ Room(Known, Base(disk.committed, disk.pending), counter, produced)
    /\ beat.batch = NoBatch /\ beat.step \in {"send", "wait"} =>
          Room(Known, beat.counter, counter, produced)

\* A batch is sent only when it is on the disk
Stored ==
    /\ beat.step # "persist" => pending \in {NoBatch, disk.pending}
    /\ beat.step \in {"persist", "send", "wait"} => pending = beat.batch
    /\ beat.step = "persist" => beat.batch # NoBatch
    /\ beat.step = "save" => pending = NoBatch
    /\ beat.batch # NoBatch => beat.counter = beat.batch.counter

\* Fewer batches, or an empty one, leave the room there was
LEMMA RoomKept ==
    ASSUME NEW S \in SUBSET Batch, NEW T \in SUBSET (S \cup {NoBatch}),
           NEW p \in 0..MaxTraffic, NEW c \in 0..MaxTraffic, NEW n \in 0..MaxTraffic, Room(S, p, c, n)
    PROVE  Room(T, p, c, n)
<1>1. NoBatch \in Batch /\ NoBatch.bytes = 0
  BY NoBatchType DEF NoBatch
<1>2. Reported(S \cup {NoBatch}) <= Reported(S) + 0
  BY <1>1, ReportedInsert
<1>3. S \cup {NoBatch} \in SUBSET Batch /\ T \in SUBSET Batch
  BY <1>1
<1>4. Reported(T) <= Reported(S \cup {NoBatch})
  BY <1>3, ReportedPart
<1>5. Reported(T) \in Nat /\ Reported(S) \in Nat /\ Reported(S \cup {NoBatch}) \in Nat
  BY <1>3, ReportedType
<1>6. Delta(c, p) \in Nat
  BY DeltaType
<1> QED
  BY <1>2, <1>4, <1>5, <1>6 DEF Room

\* A byte counted, or a counter that starts again, leaves the room there was
LEMMA RoomCounts ==
    ASSUME NEW S \in SUBSET Batch, NEW p \in 0..MaxTraffic, NEW c \in 0..MaxTraffic,
           NEW n \in 0..MaxTraffic, Room(S, p, c, n)
    PROVE  Room(S, p, c + 1, n + 1) /\ Room(S, p, 0, n)
<1>1. Reported(S) \in Nat
  BY ReportedType
<1>2. Delta(c + 1, p) <= Delta(c, p) + 1 /\ Delta(0, p) = 0
  BY TrafficAssumption DEF Delta
<1>3. Delta(c, p) \in Nat /\ Delta(c + 1, p) \in Nat
  BY TrafficAssumption DEF Delta
<1> QED
  BY <1>1, <1>2, <1>3 DEF Room

\* The growth since p, taken as a batch, fills the room
LEMMA RoomFilled ==
    ASSUME NEW S \in SUBSET Batch, NEW p \in 0..MaxTraffic, NEW c \in 0..MaxTraffic,
           NEW n \in 0..MaxTraffic, Room(S, p, c, n),
           NEW b \in Batch, b.bytes = Delta(c, p)
    PROVE  Room(S \cup {b}, c, c, n)
<1>1. Reported(S) \in Nat /\ Reported(S \cup {b}) \in Nat
  BY ReportedType
<1>2. Reported(S \cup {b}) <= Reported(S) + Delta(c, p)
  BY ReportedInsert
<1>3. Delta(c, c) = 0 /\ Delta(c, p) \in Nat
  BY DeltaType DEF Delta
<1> QED
  BY <1>1, <1>2, <1>3 DEF Room

\* What is known are batches
LEMMA KnownType ==
    ASSUME TypeOK
    PROVE  /\ Counted \in SUBSET Batch /\ Known \in SUBSET Batch /\ Known \cup {pending} \in SUBSET Batch
           /\ Base(committed, pending) \in 0..MaxTraffic
           /\ Base(disk.committed, disk.pending) \in 0..MaxTraffic
           /\ beat.counter \in 0..MaxTraffic
<1>1. /\ pending \in Batch /\ disk.pending \in Batch
      /\ \A r \in Requests : handlers[r].batch \in Batch
  BY DEF TypeOK, Handler
<1>2. Base(committed, pending) \in 0..MaxTraffic /\ Base(disk.committed, disk.pending) \in 0..MaxTraffic
  BY <1>1 DEF TypeOK, Base, Batch
<1>3. beat.counter \in 0..MaxTraffic
  BY DEF TypeOK, Beat
<1> QED
  BY <1>1, <1>2, <1>3 DEF Counted, Known

\* At first nothing is known and nothing is to be reported
LEMMA LedgerInit == Init => Ledger /\ Stored
<1> SUFFICES ASSUME Init PROVE Ledger /\ Stored
  OBVIOUS
<1>1. Counted = {} /\ Known \in SUBSET {NoBatch}
  BY DEF Init, Counted, Known, NoHandler
<1>2. Reported({}) = 0
  BY SumEmpty DEF Reported
<1>3. Room({}, 0, 0, 0)
  BY <1>2 DEF Room, Delta
<1>4. 0 \in 0..MaxTraffic
  BY TrafficAssumption
<1>5. Room(Known, 0, 0, 0) /\ Room(Known \cup {NoBatch}, 0, 0, 0)
  BY <1>1, <1>3, <1>4, RoomKept
<1> QED
  BY <1>1, <1>2, <1>5 DEF Init, Ledger, Stored, Base, NoBeat, BeatAt

\* Where the agent, the counters and the accounts stand still, and no batch that
\* was not known appears in a request, the ledger stays
LEMMA LedgerUntouched ==
    ASSUME TypeOK, TypeOK', Ledger, Stored, UNCHANGED <<counter, produced, recorded, dropped, times>>,
           UNCHANGED <<committed, pending, disk>>, beat' \in {beat, NoBeat}, beat.step # "persist" \/ beat' = beat,
           Known' \in SUBSET (Known \cup {NoBatch})
    PROVE  Ledger' /\ Stored'
<1>1. Known' \cup {pending} \in SUBSET ((Known \cup {pending}) \cup {NoBatch})
  OBVIOUS
<1>2. Counted' = Counted
  BY DEF Counted
<1>3. counter \in 0..MaxTraffic /\ produced \in 0..MaxTraffic
  BY DEF TypeOK
<1>4. Room(Known' \cup {pending}, Base(committed, pending), counter, produced)
  BY <1>1, <1>3, KnownType, RoomKept DEF Ledger
<1>5. Room(Known', Base(disk.committed, disk.pending), counter, produced)
  BY <1>3, KnownType, RoomKept DEF Ledger
<1>6. beat'.batch = NoBatch /\ beat'.step \in {"send", "wait"} => Room(Known', beat'.counter, counter, produced)
  <2>1. CASE beat' = beat
    BY <1>3, <2>1, KnownType, RoomKept DEF Ledger
  <2>2. CASE beat' = NoBeat
    BY <2>2 DEF NoBeat, BeatAt
  <2> QED
    BY <2>1, <2>2
<1>7. Ledger'
  BY <1>2, <1>4, <1>5, <1>6 DEF Ledger
<1>8. Stored'
  BY DEF Stored, NoBeat, BeatAt
<1> QED
  BY <1>7, <1>8

\* A batch that is accounted was not accounted before
LEMMA CountedNext ==
    ASSUME TypeOK, Dedup, Ledger, NEW r \in Requests, handlers[r].step \in {"check", "record"},
           times' = [times EXCEPT ![handlers[r].batch] = @ + 1],
           recorded' + dropped' = recorded + dropped + handlers[r].batch.bytes
    PROVE  /\ Counted' = Counted \cup {handlers[r].batch}
           /\ recorded' + dropped' = Reported(Counted')
<1> DEFINE b == handlers[r].batch
<1>1. b \in Batch /\ b.bytes \in Nat
  BY DEF TypeOK, Handler, Batch
<1>2. times[b] = 0
  BY <1>1 DEF Dedup, Owner
<1>3. \A c \in Batch : times'[c] # 0 <=> times[c] # 0 \/ c = b
  BY <1>1, <1>2 DEF TypeOK
<1>4. Counted' = Counted \cup {b} /\ b \notin Counted /\ Counted \in SUBSET Batch
  BY <1>1, <1>2, <1>3 DEF Counted
<1>5. Reported(Counted \cup {b}) = Reported(Counted) + b.bytes
  BY <1>1, <1>4, ReportedInsert
<1> QED
  BY <1>4, <1>5 DEF Ledger

\* Every step keeps the ledger, if the deduper forgets nothing and the agent's disk works
LEMMA LedgerStep ==
    ASSUME slips' \cap {"panel", "disk"} = {},
           TypeOK, TypeOK', Dedup, Ledger, Stored, [Next]_vars
    PROVE  Ledger' /\ Stored'
<1>0. /\ counter \in 0..MaxTraffic /\ produced \in 0..MaxTraffic /\ NoBatch \in Batch
      /\ pending \in Batch /\ disk.pending \in Batch
  BY NoBatchType DEF TypeOK
<1>00. /\ Room(Known \cup {pending}, Base(committed, pending), counter, produced)
       /\ Room(Known, Base(disk.committed, disk.pending), counter, produced)
       /\ beat.batch = NoBatch /\ beat.step \in {"send", "wait"} =>
            Room(Known, beat.counter, counter, produced)
  BY DEF Ledger
<1>1. CASE Traffic
  <2>1. /\ UNCHANGED <<committed, pending, disk, beat, handlers, times, recorded, dropped>>
        /\ counter' = counter + 1 /\ produced' = produced + 1
    BY <1>1 DEF Traffic, agentVars, panelVars
  <2>2. Known' = Known /\ Counted' = Counted
    BY <2>1 DEF Known, Counted
  <2>3. /\ Room(Known \cup {pending}, Base(committed, pending), counter', produced')
        /\ Room(Known, Base(disk.committed, disk.pending), counter', produced')
        /\ beat.batch = NoBatch /\ beat.step \in {"send", "wait"} =>
             Room(Known, beat.counter, counter', produced')
    BY <1>0, <1>00, <2>1, KnownType, RoomCounts
  <2> QED
    BY <2>1, <2>2, <2>3 DEF Ledger, Stored
<1>2. CASE XrayRestart
  <2>1. /\ UNCHANGED <<committed, pending, disk, beat, handlers, times, recorded, dropped, produced>>
        /\ counter' = 0
    BY <1>2 DEF XrayRestart, agentVars, panelVars
  <2>2. Known' = Known /\ Counted' = Counted
    BY <2>1 DEF Known, Counted
  <2>3. /\ Room(Known \cup {pending}, Base(committed, pending), counter', produced')
        /\ Room(Known, Base(disk.committed, disk.pending), counter', produced')
        /\ beat.batch = NoBatch /\ beat.step \in {"send", "wait"} =>
             Room(Known, beat.counter, counter', produced')
    BY <1>0, <1>00, <2>1, KnownType, RoomCounts
  <2> QED
    BY <2>1, <2>2, <2>3 DEF Ledger, Stored
<1>3. CASE PrepareHeartbeat
  <2>1. /\ UNCHANGED <<committed, disk, handlers, times, recorded, dropped, counter, produced>>
        /\ beat.step = "idle"
    BY <1>3 DEF PrepareHeartbeat, panelVars
  <2>2. Known' = Known /\ Counted' = Counted
    BY <2>1 DEF Known, Counted
  <2>3. CASE pending # NoBatch
    <3>1. beat' = BeatAt("send", pending, pending.counter) /\ pending' = pending
      BY <1>3, <2>3 DEF PrepareHeartbeat
    <3> QED
      BY <2>1, <2>2, <2>3, <3>1 DEF Ledger, Stored, BeatAt
  <2>4. CASE pending = NoBatch /\ Delta(counter, committed) # 0
    <3>1. /\ pending' = [bytes |-> Delta(counter, committed), counter |-> counter]
          /\ beat' = BeatAt("persist", pending', counter)
      BY <1>3, <2>4 DEF PrepareHeartbeat
    <3>2. /\ pending' \in Batch /\ pending'.bytes = Delta(counter, committed)
          /\ pending' # NoBatch /\ pending'.counter = counter
      BY <2>4, <3>1 DEF TypeOK, NoBatch
    <3>3. Room(Known, committed, counter, produced) /\ committed \in 0..MaxTraffic
      <4>1. Room(Known \cup {pending}, committed, counter, produced) /\ committed \in 0..MaxTraffic
        BY <1>00, <2>4 DEF Base, TypeOK
      <4> QED
        BY <1>0, <4>1, KnownType, RoomKept
    <3>4. Room(Known \cup {pending'}, counter, counter, produced)
      BY <1>0, <3>2, <3>3, KnownType, RoomFilled
    <3>5. Ledger'
      BY <2>1, <2>2, <3>1, <3>2, <3>4 DEF Ledger, Base, BeatAt
    <3>6. Stored'
      BY <2>1, <3>1, <3>2 DEF Stored, BeatAt
    <3> QED
      BY <3>5, <3>6
  <2>5. CASE pending = NoBatch /\ Delta(counter, committed) = 0
    <3>1. beat' = BeatAt("send", NoBatch, counter) /\ pending' = pending
      BY <1>3, <2>5 DEF PrepareHeartbeat
    <3>2. Room(Known \cup {NoBatch}, committed, counter, produced) /\ committed \in 0..MaxTraffic
      BY <1>00, <2>5 DEF Base, TypeOK
    <3>3. Room(Known, committed, counter, produced)
      BY <1>0, <3>2, KnownType, RoomKept
    <3>4. Delta(counter, counter) = 0
      BY <1>0 DEF Delta
    <3>5. Room(Known, counter, counter, produced)
      BY <2>5, <3>3, <3>4 DEF Room
    <3>6. Ledger'
      BY <2>1, <2>2, <3>1, <3>5 DEF Ledger, BeatAt
    <3>7. Stored'
      BY <2>1, <2>5, <3>1 DEF Stored, BeatAt
    <3> QED
      BY <3>6, <3>7
  <2> QED
    BY <2>3, <2>4, <2>5
<1>4. CASE PersistTrafficState
  <2>1. /\ UNCHANGED <<committed, pending, handlers, times, recorded, dropped, counter, produced>>
        /\ disk' = [committed |-> committed, pending |-> pending]
        /\ beat.step \in {"persist", "save"}
        /\ beat' = IF beat.step = "persist" THEN [beat EXCEPT !.step = "send"] ELSE NoBeat
    BY <1>4 DEF PersistTrafficState, panelVars, Slip
  <2>2. Known' \in SUBSET (Known \cup {pending}) /\ Known' \cup {pending} \in SUBSET (Known \cup {pending})
        /\ Counted' = Counted
    BY <2>1 DEF Known, Counted
  <2>3. /\ Room(Known', Base(committed, pending), counter, produced)
        /\ Room(Known' \cup {pending}, Base(committed, pending), counter, produced)
    <3>1. /\ Known' \in SUBSET ((Known \cup {pending}) \cup {NoBatch})
          /\ Known' \cup {pending} \in SUBSET ((Known \cup {pending}) \cup {NoBatch})
      BY <2>2
    <3> QED
      BY <1>0, <1>00, <3>1, KnownType, RoomKept
  <2>4. Stored' /\ (beat'.batch = NoBatch => beat'.step = "idle")
    BY <2>1 DEF Stored, NoBeat, BeatAt, TypeOK, Beat
  <2>5. Ledger'
    BY <2>1, <2>2, <2>3, <2>4 DEF Ledger
  <2> QED
    BY <2>4, <2>5
<1>5. ASSUME NEW r \in Requests, SendHeartbeat(r) PROVE Ledger' /\ Stored'
  <2>1. /\ UNCHANGED <<committed, pending, disk, times, recorded, dropped, counter, produced>>
        /\ beat.step = "send" /\ beat' = [beat EXCEPT !.step = "wait", !.request = r]
        /\ handlers' = [handlers EXCEPT ![r] = [NoHandler EXCEPT !.step = "begin", !.batch = beat.batch]]
    BY <1>5 DEF SendHeartbeat
  <2>2. beat'.step = "wait" /\ beat'.batch = beat.batch /\ beat'.counter = beat.counter
    BY <2>1 DEF TypeOK, Beat
  <2>3. \A q \in Requests : handlers'[q].batch = IF q = r THEN beat.batch ELSE handlers[q].batch
    BY <2>1 DEF TypeOK, NoHandler
  <2>4. beat.batch \in {NoBatch, disk.pending}
    BY <2>1 DEF Stored
  <2>5. Known' \in SUBSET (Known \cup {NoBatch}) /\ Counted' = Counted
        /\ Known' \cup {pending} \in SUBSET ((Known \cup {pending}) \cup {NoBatch})
    BY <2>1, <2>3, <2>4 DEF Known, Counted
  <2>6. /\ Room(Known' \cup {pending}, Base(committed, pending), counter, produced)
        /\ Room(Known', Base(disk.committed, disk.pending), counter, produced)
        /\ beat.batch = NoBatch => Room(Known', beat.counter, counter, produced)
    BY <1>0, <1>00, <2>1, <2>5, KnownType, RoomKept
  <2>7. Ledger'
    BY <2>1, <2>2, <2>5, <2>6 DEF Ledger
  <2>8. Stored'
    BY <2>1, <2>2 DEF Stored
  <2> QED
    BY <2>7, <2>8
<1>6. CASE AgentRestart
  <2>1. /\ committed' = disk.committed /\ pending' = disk.pending /\ beat' = NoBeat
        /\ UNCHANGED <<disk, handlers, times, recorded, dropped, counter, produced>>
    BY <1>6 DEF AgentRestart, panelVars
  <2>2. Known' = Known /\ Counted' = Counted /\ Known \cup {disk.pending} = Known
    BY <2>1 DEF Known, Counted
  <2>3. Ledger'
    BY <1>00, <2>1, <2>2 DEF Ledger, NoBeat, BeatAt
  <2>4. Stored'
    BY <2>1 DEF Stored, NoBeat, BeatAt
  <2> QED
    BY <2>3, <2>4
<1>7. ASSUME NEW r \in Requests, CheckTrafficLimit(r) \/ RecordTrafficBatch(r),
             times' = [times EXCEPT ![handlers[r].batch] = @ + 1],
             recorded' + dropped' = recorded + dropped + handlers[r].batch.bytes
      PROVE  Ledger' /\ Stored'
  <2>1. /\ UNCHANGED <<committed, pending, disk, beat, counter, produced>>
        /\ handlers[r].step \in {"check", "record"}
    BY <1>7 DEF CheckTrafficLimit, RecordTrafficBatch, agentVars
  <2>2. \A q \in Requests : handlers'[q].batch = handlers[q].batch
    BY <1>7, RequestAnswered, RequestMoved DEF CheckTrafficLimit, RecordTrafficBatch
  <2>3. /\ Counted' = Counted \cup {handlers[r].batch}
        /\ recorded' + dropped' = Reported(Counted')
    BY <1>7, <2>1, CountedNext
  <2>4. Known' = Known
    BY <2>1, <2>2, <2>3 DEF Known
  <2> QED
    BY <2>1, <2>3, <2>4 DEF Ledger, Stored
<1>8. ASSUME NEW r \in Requests, Answer(r) PROVE Ledger' /\ Stored'
  <2>1. /\ UNCHANGED <<disk, times, recorded, dropped, counter, produced>>
        /\ \A q \in Requests : handlers'[q].batch = handlers[q].batch
    BY <1>8 DEF Answer, TypeOK, Handler
  <2>2. Known' = Known /\ Counted' = Counted
    BY <2>1 DEF Known, Counted
  <2>3. CASE beat.step = "wait" /\ beat.request = r /\ handlers[r].success
    <3>1. /\ committed' = beat.counter /\ pending' = ForgetBatch(beat.batch)
          /\ beat' = IF beat.batch = NoBatch THEN NoBeat ELSE [beat EXCEPT !.step = "save"]
      BY <1>8, <2>3 DEF Answer
    <3>2. pending = beat.batch /\ pending' = NoBatch
      BY <2>3, <3>1 DEF Stored, ForgetBatch
    <3>3. Room(Known \cup {pending}, beat.counter, counter, produced)
      <4>1. CASE beat.batch = NoBatch
        <5>1. Known \cup {pending} \in SUBSET (Known \cup {NoBatch})
          BY <3>2, <4>1
        <5> QED
          BY <1>0, <1>00, <2>3, <4>1, <5>1, KnownType, RoomKept
      <4>2. CASE beat.batch # NoBatch
        BY <1>00, <3>2, <4>2 DEF Base, Stored
      <4> QED
        BY <4>1, <4>2
    <3>4. Room(Known \cup {NoBatch}, beat.counter, counter, produced)
      <4>1. Known \cup {NoBatch} \in SUBSET ((Known \cup {pending}) \cup {NoBatch})
        OBVIOUS
      <4> QED
        BY <1>0, <3>3, <4>1, KnownType, RoomKept
    <3>5. Stored' /\ beat'.step \in {"idle", "save"}
      BY <2>1, <2>3, <3>1, <3>2 DEF Stored, NoBeat, BeatAt, TypeOK, Beat
    <3>6. Ledger'
      BY <2>1, <2>2, <3>1, <3>2, <3>4, <3>5 DEF Ledger, Base
    <3> QED
      BY <3>5, <3>6
  <2>4. CASE ~(beat.step = "wait" /\ beat.request = r /\ handlers[r].success)
    <3>1. UNCHANGED <<committed, pending>> /\ beat' \in {beat, NoBeat} /\ (beat' = beat \/ beat.step = "wait")
      BY <1>8, <2>4 DEF Answer
    <3> QED
      BY <2>1, <2>2, <3>1, LedgerUntouched
  <2> QED
    BY <2>3, <2>4
<1>9. ASSUME UNCHANGED <<committed, pending, disk, counter, produced, recorded, dropped, times>>,
             beat' \in {beat, NoBeat}, beat' = beat \/ beat.step # "persist",
             \A r \in Requests : handlers'[r].batch \in {NoBatch, handlers[r].batch}
      PROVE  Ledger' /\ Stored'
  <2>1. Known' \in SUBSET (Known \cup {NoBatch})
    BY <1>9 DEF Known, Counted
  <2> QED
    BY <1>9, <2>1, LedgerUntouched
<1>10. ASSUME NEW r \in Requests, BeginTrafficBatch(r) \/ RecordTrafficFails(r) \/ DoneTrafficBatch(r)
       PROVE  Ledger' /\ Stored'
  <2>1. \A q \in Requests : handlers'[q].batch \in {NoBatch, handlers[q].batch}
    <3>1. CASE BeginTrafficBatch(r)
      BY <3>1, RequestAnswered, RequestAdmitted DEF BeginTrafficBatch
    <3>2. CASE RecordTrafficFails(r)
      BY <3>2, RequestMoved DEF RecordTrafficFails
    <3>3. CASE DoneTrafficBatch(r)
      BY <3>3 DEF DoneTrafficBatch, TypeOK, NoHandler
    <3> QED
      BY <1>10, <3>1, <3>2, <3>3
  <2> QED
    BY <1>10, <2>1, <1>9 DEF BeginTrafficBatch, RecordTrafficFails, DoneTrafficBatch, agentVars
<1>11. ASSUME NEW r \in Requests, CheckTrafficLimit(r) PROVE Ledger' /\ Stored'
  <2>1. CASE UNCHANGED <<dropped, times>>
    <3>1. \A q \in Requests : handlers'[q].batch \in {NoBatch, handlers[q].batch}
      BY <1>11, RequestAnswered, RequestMoved DEF CheckTrafficLimit
    <3> QED
      BY <1>11, <2>1, <3>1, <1>9 DEF CheckTrafficLimit, agentVars
  <2>2. CASE dropped' = dropped + handlers[r].batch.bytes /\ times' = [times EXCEPT ![handlers[r].batch] = @ + 1]
    <3>1. handlers[r].batch.bytes \in Nat /\ recorded' = recorded
      BY <1>11 DEF CheckTrafficLimit, TypeOK, Handler, Batch
    <3>2. recorded' + dropped' = recorded + dropped + handlers[r].batch.bytes
      BY <2>2, <3>1 DEF TypeOK
    <3> QED
      BY <1>7, <1>11, <2>2, <3>2
  <2> QED
    BY <1>11, <2>1, <2>2 DEF CheckTrafficLimit
<1>12. ASSUME NEW r \in Requests, RecordTrafficBatch(r) PROVE Ledger' /\ Stored'
  <2>1. /\ handlers[r].batch.bytes \in Nat /\ dropped' = dropped
        /\ recorded' = recorded + handlers[r].batch.bytes
        /\ times' = [times EXCEPT ![handlers[r].batch] = @ + 1]
    BY <1>12 DEF RecordTrafficBatch, TypeOK, Handler, Batch
  <2>2. recorded' + dropped' = recorded + dropped + handlers[r].batch.bytes
    BY <2>1 DEF TypeOK
  <2> QED
    BY <1>7, <1>12, <2>1, <2>2
<1>13. CASE Register \/ HeartbeatFails \/ ResetNodeTraffic \/ UNCHANGED vars
  BY <1>13, <1>9 DEF Register, HeartbeatFails, ResetNodeTraffic, vars, agentVars, panelVars
<1> QED
  <2>1. ~(\E b \in processed : ExpireBatch(b)) /\ ~PanelRestart
    BY DEF ExpireBatch, PanelRestart, Slip
  <2> QED
    BY <2>1, <1>1, <1>2, <1>3, <1>4, <1>5, <1>6, <1>8, <1>10, <1>11, <1>12, <1>13 DEF Next, Agent, Panel

(***************************************************************************)
(* While the panel keeps its memory and the agent's disk works, users are   *)
(* never charged for bytes they did not move: what RecordTrafficBatch has   *)
(* recorded or dropped stays within what Xray has counted, although Xray    *)
(* and the agent restart anywhere, answers are lost and requests overtake   *)
(* each other.                                                              *)
(***************************************************************************)
THEOREM BytesChargedOnce == Spec => []NeverOvercounted
<1> DEFINE Books == Dedup /\ Ledger /\ Stored
           Inv == TypeOK /\ CounterBound /\ (slips \cap {"panel", "disk"} = {} => Books)
<1>1. Init => Inv
  BY TypeInit, DedupInit, LedgerInit
<1>2. Inv /\ [Next]_vars => Inv'
  <2> SUFFICES ASSUME Inv, [Next]_vars PROVE Inv'
    OBVIOUS
  <2>1. TypeOK' /\ CounterBound'
    BY TypeStep
  <2>2. ASSUME slips' \cap {"panel", "disk"} = {} PROVE Books'
    <3>1. Books /\ "panel" \notin slips'
      BY <2>2, SlipsStay
    <3> QED
      BY <2>1, <2>2, <3>1, DedupStep, LedgerStep
  <2> QED
    BY <2>1, <2>2
<1>3. Inv => NeverOvercounted
  <2> SUFFICES ASSUME TypeOK, Books PROVE recorded + dropped <= produced
    BY DEF NeverOvercounted
  <2>1. Counted \in SUBSET (Known \cup {pending}) /\ Known \cup {pending} \in SUBSET Batch
    BY KnownType DEF Known
  <2>2. Reported(Counted) <= Reported(Known \cup {pending})
    BY <2>1, ReportedPart
  <2>3. Reported(Counted) \in Nat /\ Reported(Known \cup {pending}) \in Nat
    BY <2>1, ReportedType
  <2>4. Delta(counter, Base(committed, pending)) \in Nat /\ produced \in Nat
    <3>1. counter \in 0..MaxTraffic /\ Base(committed, pending) \in 0..MaxTraffic /\ produced \in 0..MaxTraffic
      BY KnownType DEF TypeOK
    <3>2. Delta(counter, Base(committed, pending)) \in 0..MaxTraffic
      BY <3>1, DeltaType
    <3> QED
      BY <3>1, <3>2
  <2>5. Reported(Known \cup {pending}) + Delta(counter, Base(committed, pending)) <= produced
    BY DEF Ledger, Room
  <2>6. recorded + dropped = Reported(Counted)
    BY DEF Ledger
  <2> QED
    BY <2>2, <2>3, <2>4, <2>5, <2>6
<1> QED
  BY <1>1, <1>2, <1>3, PTL DEF Spec
=============================================================================
