------------------------------ MODULE NodeSync ------------------------------
(***************************************************************************)
(* How a change of a node's configuration reaches the Xray process of the   *)
(* node.  The panel marks the node's row sync_status = pending and puts      *)
(* commands into an in-memory tracker; the agent fetches the commands with   *)
(* its heartbeat, executes them in that goroutine, one after the other, and  *)
(* reports each result; a reported config_sync settles sync_status.  The     *)
(* configuration is generated when the agent asks for it, so a version       *)
(* stands for everything the generator reads.                                *)
(*                                                                          *)
(* Durations (the 20 s cooldown of a command type, the life time of a        *)
(* command) end at any moment, by actions of their own.  Every fault - a     *)
(* lost request or answer, a failing step, a process that dies - is an       *)
(* action that may happen MaxFaults times in all.  A heartbeat that does not   *)
(* get through, and the registration that follows it, only take time.        *)
(***************************************************************************)
EXTENDS Naturals, Sequences, FiniteSets, FiniteSetsExt, SequencesExt

CONSTANTS
    MaxEvents,   \* maxNodeRecoveryEvents
    MaxIds,      \* bound: commands known to panel or agent at once
    MaxChanges,  \* bound: changes of the configuration
    MaxFaults    \* bound: faults

ASSUME NodeSyncAssumption ==
    /\ {MaxEvents, MaxIds} \subseteq Nat \ {0}
    /\ {MaxChanges, MaxFaults} \subseteq Nat

VARIABLES
    desired,  \* the version GenerateForNode would return now
    sync,     \* nodes.sync_status
    change,   \* where the request that changes the configuration stands
    tracker,  \* NodeRecoveryTracker of this node
    beat,     \* the panel's handling of the agent's heartbeat
    agent,    \* the agent: commands in hand, progress of the first
    result,   \* the result the agent reports, and its handling
    disk,     \* the version in the node's config file
    xray,     \* the Xray process: running, the version it has loaded, and whether
              \* it is a systemd service outside the agent (shouldUseSystemdXray)
    faults,   \* faults so far
    owed,     \* history: the newest version that was marked pending
    overtaken, \* history: it was marked between a fetch and the result of that fetch
    early     \* history: an Xray outside the agent was started after the last fetch,
              \* before its file was written

historyVars == <<owed, overtaken, early>>
nodeSyncVars ==
    <<desired, sync, change, tracker, beat, agent, result, disk, xray, faults, historyVars>>

Types == {"config_sync", "xray_restart", "xray_start"}
Ids == 1..MaxIds
\* A command; its id matters only as far as two commands differ
Command == [id : Ids, type : Types]

\* Versions are numbered in the order of the changes
Version == 0..MaxChanges

-----------------------------------------------------------------------------
(* The tracker.  pending is sent with the next heartbeat answer, inflight   *)
(* was sent and waits for its result; cooling are the types queued less     *)
(* than 20 s ago; events are the latest queue entries, 0 for those whose    *)
(* command is settled; old are commands past their time to live.            *)

Tracker == [pending : Seq(Command), inflight : SUBSET Command,
            cooling : SUBSET Types, events : Seq(0..MaxIds), old : SUBSET Ids]

NewTracker == [pending |-> <<>>, inflight |-> {}, cooling |-> {}, events |-> <<>>, old |-> {}]

PendingTypes(t) == {c.type : c \in Range(t.pending)}
InflightTypes(t) == {c.type : c \in t.inflight}
KnownIds(t) == {c.id : c \in Range(t.pending) \cup t.inflight}

\* updateEventStatusLocked with a final status, for the commands ids
CloseEvents(t, ids) ==
    [t EXCEPT !.events = [i \in DOMAIN t.events |->
                             IF t.events[i] \in ids THEN 0 ELSE t.events[i]],
              !.old = @ \ ids]

\* commandEventOlderThanLocked: only a command whose event is still listed ages
Expired(t) == t.old \cap Range(t.events)

\* The commands of a list that ids does not name, in their order (as SelectSeq
\* returns them, of which the provers know nothing)
Others(cmds, ids) ==
    LET upTo[i \in 0..Len(cmds)] ==
          IF i = 0 THEN <<>>
          ELSE IF cmds[i].id \in ids THEN upTo[i - 1] ELSE Append(upTo[i - 1], cmds[i])
    IN upTo[Len(cmds)]

\* Drops ids from both lists
Without(t, ids) ==
    [t EXCEPT !.pending = Others(@, ids),
              !.inflight = {c \in @ : c.id \notin ids}]

Prune(t) == CloseEvents(Without(t, Expired(t)), Expired(t))

\* A command of that type is neither queued twice nor sent while one is out,
\* except that a configuration may change again while it is being fetched
Refused(t, type) ==
    \/ type \in PendingTypes(t)
    \/ (type \in InflightTypes(t) /\ type # "config_sync")
    \/ (type \in t.cooling /\ type \notin InflightTypes(t))

\* The ids a new command may have: no one remembers a command of that id
FreeIds(t) == Ids \ (KnownIds(t) \cup {c.id : c \in Range(agent.cmds)} \cup {result.id})

\* A mutated form of AppendCommand: the list of events is not cut
AppendCommandUntrimmed(t, c) ==
    [t EXCEPT !.pending = Append(@, c),
              !.cooling = @ \cup {c.type},
              !.events = <<c.id>> \o @,
              !.old = @ \ {c.id}]

\* The command is pending, its type cools down, its event is the newest of MaxEvents
AppendCommand(t, c) ==
    [t EXCEPT !.pending = Append(@, c),
              !.cooling = @ \cup {c.type},
              !.events = SubSeq(<<c.id>> \o @, 1, Min({MaxEvents, Len(@) + 1})),
              !.old = @ \ {c.id}]

\* queueCommand on a pruned tracker
Queue(t, type) ==
    IF Refused(t, type) THEN t ELSE AppendCommand(t, [id |-> Min(FreeIds(t)), type |-> type])

\* A configuration is synced and loaded by a restart
SyncAndRestart(t) == Queue(Queue(t, "config_sync"), "xray_restart")

\* GetPendingCommands on a pruned tracker: everything pending is sent
TakePending(t) == [t EXCEPT !.pending = <<>>, !.inflight = @ \cup Range(t.pending)]

\* CompleteInflightCommand, and the type it returns; "" for a command it no longer knows
Complete(t, id) ==
    CloseEvents([t EXCEPT !.inflight = {c \in @ : c.id # id}],
                IF id \in {c.id : c \in t.inflight} THEN {id} ELSE {})
CompletedType(t, id) ==
    IF \E c \in t.inflight : c.id = id THEN (CHOOSE c \in t.inflight : c.id = id).type ELSE ""

MarkCommandRecovered(t, type) ==
    LET ids == {c.id : c \in {d \in Range(t.pending) \cup t.inflight : d.type = type}} IN
    CloseEvents(Without(t, ids), ids)

-----------------------------------------------------------------------------

NodeSyncTypeOK ==
    /\ {desired, disk, owed} \subseteq Version
    /\ overtaken \in BOOLEAN /\ early \in BOOLEAN
    /\ sync \in {"pending", "synced", "failed"}
    /\ change \in {"idle", "saved", "marked"}
    /\ tracker.pending \in Seq(Command) /\ tracker.inflight \subseteq Command
    /\ tracker.cooling \subseteq Types
    /\ tracker.events \in Seq(0..MaxIds) /\ Len(tracker.events) <= MaxEvents
    /\ tracker.old \subseteq Ids
    /\ beat \in [at : {"idle", "read"}, sync : {"pending", "synced", "failed"}, client : BOOLEAN]
    /\ agent.cmds \in Seq(Command)
    /\ [agent EXCEPT !.cmds = <<>>] \in
          [cmds : {<<>>}, step : {"idle", "fetched", "written"},
           got : Version, wasRunning : BOOLEAN]
    /\ result \in [at : {"idle", "sent", "completed"}, id : 0..MaxIds,
                   type : Types \cup {""}, ok : BOOLEAN]
    /\ xray \in [running : BOOLEAN, loaded : Version, systemd : BOOLEAN]
    /\ faults \in 0..MaxFaults
    /\ FreeIds(tracker) # {}  \* MaxIds is large enough

IdleAgent == [cmds |-> <<>>, step |-> "idle", got |-> 0, wasRunning |-> FALSE]
NoBeat == [at |-> "idle", sync |-> "synced", client |-> FALSE]
NoResult == [at |-> "idle", id |-> 0, type |-> "", ok |-> FALSE]

NodeSyncInit ==
    /\ desired = 0 /\ disk = 0 /\ faults = 0
    /\ owed = 0 /\ overtaken = FALSE /\ early = FALSE
    /\ sync = "synced" /\ change = "idle"
    /\ tracker = NewTracker
    /\ beat = NoBeat
    /\ agent = IdleAgent
    /\ result = NoResult
    /\ xray \in [running : {TRUE}, loaded : {0}, systemd : BOOLEAN]

-----------------------------------------------------------------------------
(* The panel: changes *)

\* The agent has fetched a configuration and its result is not settled yet
Syncing ==
    \/ agent.step # "idle"
    \/ (result.at = "sent" /\ Head(agent.cmds).type = "config_sync")
    \/ (result.at = "completed" /\ result.type = "config_sync")

\* A proxy, a certificate, an entitlement is saved
SaveChange ==
    /\ change = "idle" /\ desired < MaxChanges
    /\ desired' = desired + 1
    /\ change' = "saved"
    /\ UNCHANGED <<sync, tracker, beat, agent, result, disk, xray, faults, historyVars>>

MarkSyncPending ==
    /\ change = "saved"
    /\ sync' = "pending"
    /\ owed' = desired
    /\ overtaken' = Syncing
    /\ change' = "marked"
    /\ UNCHANGED <<desired, tracker, beat, agent, result, disk, xray, faults, early>>

QueueNodeConfigSync ==
    /\ change = "marked"
    /\ \E t \in {Prune(tracker)} : tracker' = SyncAndRestart(t)
    /\ change' = "idle"
    /\ UNCHANGED <<desired, sync, beat, agent, result, disk, xray, faults, historyVars>>

\* Traffic took a user or the node over its limit: nothing is marked, only queued
RevokeAccess ==
    /\ desired < MaxChanges /\ change = "idle"
    /\ desired' = desired + 1
    /\ \E t \in {Prune(tracker)} : tracker' = SyncAndRestart(t)
    /\ UNCHANGED <<sync, change, beat, agent, result, disk, xray, faults, historyVars>>

CooldownOver(type) ==
    /\ type \in tracker.cooling
    /\ tracker' = [tracker EXCEPT !.cooling = @ \ {type}]
    /\ UNCHANGED <<desired, sync, change, beat, agent, result, disk, xray, faults, historyVars>>

\* A command was sent 10 minutes ago, more than the agent takes to execute it and
\* than the cooldown it began; only a config_sync may have been queued again since
InflightAges(id) ==
    /\ id \notin tracker.old
    /\ \E c \in tracker.inflight \ Range(agent.cmds) :
          c.id = id /\ c.type \notin tracker.cooling \ {"config_sync"}
    /\ tracker' = [tracker EXCEPT !.old = @ \cup {id}]
    /\ UNCHANGED <<desired, sync, change, beat, agent, result, disk, xray, faults, historyVars>>

-----------------------------------------------------------------------------
(* The agent's heartbeat *)

Fault == faults < MaxFaults /\ faults' = faults + 1

\* No heartbeat took the pending commands for 2 minutes, longer than their cooldown
PendingAge ==
    /\ tracker.pending # <<>> /\ PendingTypes(tracker) \cap tracker.cooling = {} /\ Fault
    /\ tracker' = [tracker EXCEPT !.old = @ \cup {c.id : c \in Range(tracker.pending)}]
    /\ UNCHANGED <<desired, sync, change, beat, agent, result, disk, xray, historyVars>>

\* The health checker saw the node come back after it had failed
NodeRecovered ==
    /\ Fault
    /\ \E t \in {Prune(tracker)} : tracker' = Queue(t, "config_sync")
    /\ UNCHANGED <<desired, sync, change, beat, agent, result, disk, xray, historyVars>>

AgentFree == agent.cmds = <<>> /\ result.at = "idle" /\ ~beat.client

\* sendHeartbeat, and the panel's handler up to the traffic it records
Heartbeat ==
    /\ AgentFree /\ beat.at = "idle"
    /\ beat' = [at |-> "read", sync |-> sync, client |-> TRUE]
    /\ IF xray.running
       THEN tracker' = MarkCommandRecovered(tracker, "xray_start")
       ELSE \E t \in {Prune(tracker)} : tracker' = Queue(t, "xray_start")
    /\ UNCHANGED <<desired, sync, change, agent, result, disk, xray, faults, historyVars>>

\* A mutated form of PendingSync: a failed sync is not tried again
PendingSyncOnce(t) == IF beat.sync = "pending" THEN SyncAndRestart(t) ELSE t

\* queuePendingSyncCommands, by the status read when the heartbeat came in
PendingSync(t) ==
    IF beat.sync \in {"pending", "failed"} THEN SyncAndRestart(t) ELSE t

\* The handler answers with every pending command
AnswerHeartbeat ==
    /\ beat.at = "read" /\ beat.client
    /\ \E p \in {Prune(tracker)} : \E t \in {PendingSync(p)} :
          /\ tracker' = TakePending(t)
          /\ agent' = [agent EXCEPT !.cmds = t.pending]
    /\ beat' = NoBeat
    /\ UNCHANGED <<desired, sync, change, result, disk, xray, faults, historyVars>>

\* The agent gives up waiting; the handler goes on
HeartbeatTimesOut ==
    /\ beat.client /\ Fault
    /\ beat' = [beat EXCEPT !.client = FALSE]
    /\ UNCHANGED <<desired, sync, change, tracker, agent, result, disk, xray, historyVars>>

AnswerNobody ==
    /\ beat.at = "read" /\ ~beat.client
    /\ \E p \in {Prune(tracker)} : \E t \in {PendingSync(p)} : tracker' = TakePending(t)
    /\ beat' = NoBeat
    /\ UNCHANGED <<desired, sync, change, agent, result, disk, xray, faults, historyVars>>

-----------------------------------------------------------------------------
(* The agent executes the first of its commands *)

Executing(type) == agent.cmds # <<>> /\ Head(agent.cmds).type = type /\ result.at = "idle"

Reported(ok) == [at |-> "sent", id |-> Head(agent.cmds).id, type |-> "", ok |-> ok]

Started == [xray EXCEPT !.running = TRUE, !.loaded = disk]

\* executeConfigSync asks the panel for the configuration and looks at the process
FetchConfig ==
    /\ Executing("config_sync") /\ agent.step = "idle"
    /\ agent' = [agent EXCEPT !.step = "fetched", !.got = desired, !.wasRunning = xray.running]
    /\ early' = FALSE
    /\ UNCHANGED <<desired, sync, change, tracker, beat, result, disk, xray, faults, owed, overtaken>>

\* A mutated form of UpdateConfig: the running process keeps what it loaded
UpdateConfigFileOnly ==
    /\ agent.step = "fetched"
    /\ disk' = agent.got
    /\ agent' = [agent EXCEPT !.step = "written"]
    /\ UNCHANGED <<desired, sync, change, tracker, beat, result, xray, faults, historyVars>>

\* UpdateConfig writes the file and restarts a process of the agent's own
UpdateConfig ==
    /\ agent.step = "fetched"
    /\ disk' = agent.got
    /\ xray' = IF xray.running /\ ~xray.systemd THEN [xray EXCEPT !.loaded = agent.got] ELSE xray
    /\ agent' = [agent EXCEPT !.step = "written"]
    /\ UNCHANGED <<desired, sync, change, tracker, beat, result, faults, historyVars>>

\* Restart a process that was running outside the agent; start one that is down
RestartOrEnsure ==
    /\ agent.step = "written"
    /\ xray' = IF (xray.systemd /\ agent.wasRunning) \/ ~xray.running THEN Started ELSE xray
    /\ agent' = [agent EXCEPT !.step = "idle", !.wasRunning = FALSE]
    /\ result' = Reported(TRUE)
    /\ UNCHANGED <<desired, sync, change, tracker, beat, disk, faults, historyVars>>

\* A step of config_sync fails: nothing fetched, the new file refused before it
\* is written, or the process down after it
ConfigSyncFails ==
    /\ Executing("config_sync") /\ Fault
    /\ agent' = [agent EXCEPT !.step = "idle", !.wasRunning = FALSE]
    /\ result' = Reported(FALSE)
    /\ xray' = IF agent.step = "written" THEN [xray EXCEPT !.running = FALSE] ELSE xray
    /\ UNCHANGED <<desired, sync, change, tracker, beat, disk, historyVars>>

ExecuteXrayRestart ==
    /\ Executing("xray_restart")
    /\ xray' = Started
    /\ result' = Reported(TRUE)
    /\ UNCHANGED <<desired, sync, change, tracker, beat, agent, disk, faults, historyVars>>

ExecuteXrayStart ==
    /\ Executing("xray_start")
    /\ xray' = IF xray.running THEN xray ELSE Started
    /\ result' = Reported(TRUE)
    /\ UNCHANGED <<desired, sync, change, tracker, beat, agent, disk, faults, historyVars>>

\* xray_restart or xray_start leaves the process down
ExecuteXrayFails ==
    /\ Executing("xray_restart") \/ (Executing("xray_start") /\ ~xray.running)
    /\ Fault
    /\ xray' = [xray EXCEPT !.running = FALSE]
    /\ result' = Reported(FALSE)
    /\ UNCHANGED <<desired, sync, change, tracker, beat, agent, disk, historyVars>>

\* Whatever becomes of the report, the agent goes on with its next command
NextCommand ==
    IF agent.cmds = <<>> THEN agent ELSE [IdleAgent EXCEPT !.cmds = Tail(agent.cmds)]

ReportLost ==
    /\ result.at = "sent" /\ Fault
    /\ result' = NoResult
    /\ agent' = NextCommand
    /\ UNCHANGED <<desired, sync, change, tracker, beat, disk, xray, historyVars>>

\* The panel's handler of the result, first the tracker ...
CompleteInflightCommand ==
    /\ result.at = "sent"
    /\ tracker' = Complete(tracker, result.id)
    /\ result' = [result EXCEPT !.at = "completed", !.type = CompletedType(tracker, result.id)]
    /\ UNCHANGED <<desired, sync, change, beat, agent, disk, xray, faults, historyVars>>

\* A mutated form of SyncStatusFromResult: any result settles the node
SyncStatusIgnoringSuccess == IF result.type = "config_sync" THEN "synced" ELSE sync

\* updateNodeSyncStatusFromCommandResult
SyncStatusFromResult ==
    CASE result.type # "config_sync" -> sync
      [] result.type = "config_sync" /\ result.ok -> "synced"
      [] OTHER -> "failed"

\* ... then the node's row
UpdateSyncStatus ==
    /\ result.at = "completed"
    /\ sync' = SyncStatusFromResult
    /\ result' = NoResult
    /\ agent' = NextCommand
    /\ UNCHANGED <<desired, change, tracker, beat, disk, xray, faults, historyVars>>

-----------------------------------------------------------------------------
(* Processes that die, and the watchdog *)

XrayDies ==
    /\ xray.running /\ Fault
    /\ xray' = [xray EXCEPT !.running = FALSE]
    /\ UNCHANGED <<desired, sync, change, tracker, beat, agent, result, disk, historyVars>>

\* triggerXraySelfHeal, in a goroutine of its own: ensureXrayRunning
SelfHeal ==
    /\ ~xray.running
    /\ xray' = Started
    /\ early' = (early \/ (xray.systemd /\ agent.step = "fetched" /\ ~agent.wasRunning))
    /\ UNCHANGED <<desired, sync, change, tracker, beat, agent, result, disk, faults, owed, overtaken>>

\* The agent restarts; an Xray of its own dies with it.  A result the panel is
\* handling is settled all the same.
AgentRestarts ==
    /\ Fault
    /\ agent' = IdleAgent
    /\ beat' = [beat EXCEPT !.client = FALSE]
    /\ result' = IF result.at = "completed" THEN result ELSE NoResult
    /\ xray' = IF xray.systemd THEN xray ELSE [xray EXCEPT !.running = FALSE]
    /\ UNCHANGED <<desired, sync, change, tracker, disk, historyVars>>

\* The panel restarts: commands, cooldowns and events are gone, requests end
PanelRestarts ==
    /\ Fault
    /\ tracker' = NewTracker
    /\ change' = "idle"
    /\ beat' = NoBeat
    /\ agent' = IF result.at # "idle" THEN NextCommand ELSE agent
    /\ result' = NoResult
    /\ UNCHANGED <<desired, sync, disk, xray, historyVars>>

-----------------------------------------------------------------------------

PanelStep ==
    \/ SaveChange \/ MarkSyncPending \/ QueueNodeConfigSync \/ RevokeAccess
    \/ \E type \in Types : CooldownOver(type)
    \/ \E id \in Ids : InflightAges(id)
    \/ AnswerHeartbeat \/ AnswerNobody
    \/ CompleteInflightCommand \/ UpdateSyncStatus

\* The agent's loop: heartbeats, and the commands they bring
AgentLoop ==
    \/ Heartbeat \/ FetchConfig \/ UpdateConfig \/ RestartOrEnsure
    \/ ExecuteXrayRestart \/ ExecuteXrayStart

AgentStep == AgentLoop \/ SelfHeal

FaultStep ==
    \/ HeartbeatTimesOut \/ ConfigSyncFails \/ ExecuteXrayFails
    \/ NodeRecovered \/ PendingAge \/ ReportLost \/ XrayDies \/ AgentRestarts \/ PanelRestarts

NodeSyncNext == PanelStep \/ AgentStep \/ FaultStep

NodeSyncSpec == NodeSyncInit /\ [][NodeSyncNext]_nodeSyncVars

\* The request that changes the configuration, the panel's two handlers, the
\* agent's loop and its watchdog go on, and the cooldown of a config_sync ends;
\* nobody has to change anything and nothing has to fail
FairNodeSyncSpec ==
    /\ NodeSyncSpec
    /\ WF_nodeSyncVars(MarkSyncPending \/ QueueNodeConfigSync)
    /\ WF_nodeSyncVars(CooldownOver("config_sync"))
    /\ WF_nodeSyncVars(AnswerHeartbeat \/ AnswerNobody)
    /\ WF_nodeSyncVars(CompleteInflightCommand \/ UpdateSyncStatus)
    /\ WF_nodeSyncVars(AgentLoop)
    /\ WF_nodeSyncVars(SelfHeal)

-----------------------------------------------------------------------------
(* Properties *)

(***************************************************************************)
(* A config_sync that reports success has put what it fetched into the      *)
(* running process, whatever the watchdog and other commands did in between *)
(* (executeConfigSync, UpdateConfig, triggerXraySelfHeal).  One case is     *)
(* excepted: Xray is a systemd service, which UpdateConfig does not restart *)
(* (agent.go:1142), it was down when the configuration was fetched, and the *)
(* watchdog started it before the file was written.                         *)
(***************************************************************************)
SuccessMeansLoaded ==
    result.at = "sent" /\ result.ok /\ Head(agent.cmds).type = "config_sync" /\ xray.running
        => xray.loaded >= agent.got \/ early

(***************************************************************************)
(* A node the panel shows as synced has every change that was marked        *)
(* pending in its config file: no lost, doubled or late result settles a    *)
(* newer change (MarkSyncPending, ReportCommandResult), except one that was *)
(* marked after the agent had fetched and before its result was written     *)
(* (node_agent.go:760).                                                     *)
(***************************************************************************)
SyncedMeansWritten == sync = "synced" => owed <= disk \/ overtaken

(***************************************************************************)
(* The node never stays behind what was marked pending: again and again it  *)
(* runs the newest such change, although commands, answers, results and     *)
(* processes are lost on the way (queuePendingSyncCommands, queueCommand),  *)
(* unless that change was settled by the result of an earlier fetch or came *)
(* too late for an Xray outside the agent, as above.                        *)
(***************************************************************************)
NodeCatchesUp == []<>(xray.running /\ (xray.loaded >= owed \/ overtaken \/ early))
=============================================================================
