----------------------------- MODULE NodeHealth -----------------------------
(***************************************************************************)
(* The status of one node.  The column nodes.status is written by the        *)
(* agent's registration and heartbeats, by the health checker, by the token  *)
(* operations, by the traffic limit and by an administrator, none of whom    *)
(* looks at what the others wrote since it read the row.  The checker probes the agent, Xray and a rotating sample   *)
(* of the node's proxies every 30 s, and counts consecutive results; its     *)
(* counters, cursor and failures live in memory.                             *)
(*                                                                          *)
(* What the probes would find (world) changes, the panel restarts, a query   *)
(* for the proxies fails and an administrator writes MaxWorlds times in all. *)
(* The counters saturate at their thresholds, beyond which they are not told *)
(* apart.                                                                    *)
(***************************************************************************)
EXTENDS Naturals, FiniteSets

CONSTANTS
    NumProxies,          \* proxies with a port, numbered in the order of their ids
    SampleSize,          \* targets probed in one check
    UnhealthyThreshold,  \* HealthCheckConfig
    HealthyThreshold,    \* HealthCheckConfig
    Worlds,              \* what probes can find
    MaxWorlds            \* bound: changes of what probes find, restarts, failing
                         \* queries and statuses set by hand

Proxies == 0..(NumProxies - 1)

\* agentUp: port and /health answer; dead: proxies that cannot be reached, tls
\* when by a TLS failure; blocked: over its traffic limit or certificate expired
World == [agentUp : BOOLEAN, xrayUp : BOOLEAN, dead : SUBSET Proxies,
          tls : BOOLEAN, blocked : BOOLEAN]
Fine == [agentUp |-> TRUE, xrayUp |-> TRUE, dead |-> {}, tls |-> FALSE, blocked |-> FALSE]

ASSUME NodeHealthAssumption ==
    /\ NumProxies \in Nat \ {0} /\ SampleSize \in Nat \ {0}
    /\ UnhealthyThreshold \in Nat \ {0} /\ HealthyThreshold \in Nat \ {0}
    /\ Worlds \subseteq World /\ MaxWorlds \in Nat

VARIABLES
    row,      \* nodes: status, whether the token is revoked, sync_status is pending,
              \* and a recent heartbeat saw Xray running (last_seen_at, xray_running)
    world,    \* what probes find now
    worlds,   \* how often one of these has happened
    hc,       \* the checker's memory
    check,    \* the periodic check under way
    agent,    \* the agent: whether it holds the node's present token, and its state
    unread,   \* history: the agent was stopped by a failed lookup of a token that was good
    beat,     \* the heartbeat the panel is handling: the status it will write
    tokenOp   \* a token operation between its two writes

nodeHealthVars == <<row, world, worlds, hc, check, agent, unread, beat, tokenOp>>

Statuses == {"online", "offline", "unhealthy"}

\* grace: pendingSince is not set, set less than 2 minutes ago, or longer ago
Memory == [fails : 0..UnhealthyThreshold, succs : 0..HealthyThreshold,
           failed : SUBSET Proxies, cursor : Proxies, grace : {"none", "running", "over"}]
NewMemory == [fails |-> 0, succs |-> 0, failed |-> {}, cursor |-> 0, grace |-> "none"]

\* The status, sync_status and heartbeat the list query returned, and the verdict
Check == [at : {"idle", "listed", "probed"}, row : [status : Statuses, pending : BOOLEAN,
          beating : BOOLEAN], ok : BOOLEAN]
NoCheck == [at |-> "idle", row |-> [status |-> "offline", pending |-> FALSE, beating |-> FALSE],
            ok |-> FALSE]

NodeHealthTypeOK ==
    /\ row \in [status : Statuses, revoked : BOOLEAN, pending : BOOLEAN,
                beating : BOOLEAN]
    /\ world \in Worlds /\ worlds \in 0..MaxWorlds
    /\ hc \in Memory /\ check \in Check
    /\ agent \in [current : BOOLEAN, state : {"unregistered", "registered", "stopped"}]
    /\ unread \in BOOLEAN
    /\ beat \in {"online", "unhealthy", "none"}
    /\ tokenOp \in {"idle", "written"}

NodeHealthInit ==
    /\ row = [status |-> "offline", revoked |-> FALSE, pending |-> FALSE,
              beating |-> FALSE]
    /\ world \in Worlds /\ worlds = 0
    /\ hc = NewMemory /\ check = NoCheck
    /\ agent = [current |-> TRUE, state |-> "unregistered"] /\ unread = FALSE
    /\ beat = "none" /\ tokenOp = "idle"

-----------------------------------------------------------------------------
(* The agent and the panel's handlers for it *)

\* ValidateToken: a lookup that fails is answered like an unknown token
Valid(found) == found /\ agent.current

\* A 401 stops the agent for good
Stopped == [agent EXCEPT !.state = "stopped"]
Stop(found) == agent' = Stopped /\ unread' = (agent.current /\ ~found)

\* last_seen_at is new; xray_running is what an earlier heartbeat wrote
Register ==
    /\ agent.state = "unregistered" /\ world.agentUp
    /\ \E found \in BOOLEAN, running \in BOOLEAN :
          IF Valid(found)
          THEN /\ row' = [row EXCEPT !.status = "online", !.beating = @ \/ running]
               /\ agent' = [agent EXCEPT !.state = "registered"]
               /\ unread' = unread
          ELSE row' = row /\ Stop(found)
    /\ UNCHANGED <<world, worlds, hc, check, beat, tokenOp>>

\* shouldPromoteNodeOnlineFromHeartbeat
Promoted(status) == IF status = "unhealthy" THEN status ELSE "online"

\* The heartbeat comes in and its token is looked up
Heartbeat ==
    /\ agent.state = "registered" /\ beat = "none" /\ world.agentUp
    /\ \E found \in BOOLEAN :
          IF Valid(found)
          THEN beat' = Promoted(row.status) /\ agent' = agent /\ unread' = unread
          ELSE beat' = "none" /\ Stop(found)
    /\ UNCHANGED <<row, world, worlds, hc, check, tokenOp>>

\* A mutated form of HeartbeatError: every error of a heartbeat is taken for a refusal
HeartbeatErrorStops ==
    /\ agent.state = "registered"
    /\ agent' = Stopped
    /\ UNCHANGED <<row, world, worlds, hc, check, unread, beat, tokenOp>>

\* Any other error of a heartbeat makes the agent register anew
HeartbeatError ==
    /\ agent.state = "registered"
    /\ agent' = [agent EXCEPT !.state = "unregistered"]
    /\ UNCHANGED <<row, world, worlds, hc, check, unread, beat, tokenOp>>

UpdateHeartbeatBatch ==
    /\ beat # "none"
    /\ row' = [row EXCEPT !.status = beat, !.beating = world.xrayUp]
    /\ beat' = "none"
    /\ UNCHANGED <<world, worlds, hc, check, agent, unread, tokenOp>>

\* shouldTrustRecentHeartbeat: two check intervals went by without a heartbeat
LastSeenAges ==
    /\ row.beating
    /\ row' = [row EXCEPT !.beating = FALSE]
    /\ UNCHANGED <<world, worlds, hc, check, agent, unread, beat, tokenOp>>

-----------------------------------------------------------------------------
(* Tokens *)

\* No token is generated twice: the agent's is now another one.  GenerateNodeToken
\* leaves the status alone, RotateToken and RevokeToken write it next.
NewToken(revoked) ==
    /\ row' = [row EXCEPT !.revoked = revoked]
    /\ agent' = [agent EXCEPT !.current = FALSE]

GenerateNodeToken ==
    /\ tokenOp = "idle" /\ NewToken(FALSE)
    /\ UNCHANGED <<world, worlds, hc, check, unread, beat, tokenOp>>

RotateToken ==
    /\ tokenOp = "idle" /\ NewToken(FALSE) /\ tokenOp' = "written"
    /\ UNCHANGED <<world, worlds, hc, check, unread, beat>>

RevokeToken ==
    /\ tokenOp = "idle" /\ NewToken(TRUE) /\ tokenOp' = "written"
    /\ UNCHANGED <<world, worlds, hc, check, unread, beat>>

SetOffline ==
    /\ tokenOp = "written"
    /\ row' = [row EXCEPT !.status = "offline"]
    /\ tokenOp' = "idle"
    /\ UNCHANGED <<world, worlds, hc, check, agent, unread, beat>>

\* handleExceededNodeTrafficLimits: recorded traffic took the node over its limit
MarkOverLimit ==
    /\ world.blocked /\ row.status # "unhealthy"
    /\ row' = [row EXCEPT !.status = "unhealthy"]
    /\ UNCHANGED <<world, worlds, hc, check, agent, unread, beat, tokenOp>>

\* An administrator sets the status
UpdateStatus ==
    /\ worlds < MaxWorlds /\ worlds' = worlds + 1
    /\ \E status \in Statuses : row' = [row EXCEPT !.status = status]
    /\ UNCHANGED <<world, hc, check, agent, unread, beat, tokenOp>>

\* The operator installs the agent again with the node's present token
RedeployAgent ==
    /\ ~row.revoked
    /\ agent' = [current |-> TRUE, state |-> "unregistered"] /\ unread' = FALSE
    /\ UNCHANGED <<row, world, worlds, hc, check, beat, tokenOp>>

-----------------------------------------------------------------------------
(* The health checker *)

\* A mutated form of After: the cursor runs off the end of the list
AfterUnwrapped(cursor, k) == cursor + k

\* The k-th proxy after the cursor, in a circle
After(cursor, k) == (cursor + k) % NumProxies

\* Failed proxies first, by id, as many as fit
FailedFirst(m) ==
    {p \in m.failed : Cardinality({q \in m.failed : q < p}) < SampleSize}

\* How far the cursor moves: until the sample is full or has gone round
Visited(m) ==
    CHOOSE n \in 0..NumProxies :
        LET taken(k) == {After(m.cursor, i) : i \in 0..(k - 1)} \cup FailedFirst(m) IN
        /\ \A k \in 0..(n - 1) : Cardinality(taken(k)) < SampleSize
        /\ n = NumProxies \/ Cardinality(taken(n)) >= SampleSize

\* A mutated form of Sample: failures do not stay in the sample
SampleRotating(m) ==
    [proxies |-> {After(m.cursor, i) : i \in 0..(Visited([m EXCEPT !.failed = {}]) - 1)},
     cursor |-> After(m.cursor, Visited([m EXCEPT !.failed = {}]))]

\* selectProxySample
Sample(m) ==
    [proxies |-> FailedFirst(m) \cup {After(m.cursor, i) : i \in 0..(Visited(m) - 1)},
     cursor |-> After(m.cursor, Visited(m))]

\* pendingSyncWithinGrace: the grace starts with the first check that sees pending
Grace(m, pending) ==
    IF ~pending THEN "none" ELSE IF m.grace = "none" THEN "running" ELSE m.grace

\* checkReachableProxyEndpoint and pendingSyncWithinGrace, as they leave the memory
Probed(m, pending) ==
    LET s == Sample(m).proxies IN
    [m EXCEPT !.cursor = Sample(m).cursor,
              !.failed = (@ \ s) \cup (s \cap world.dead),
              !.grace = Grace(m, pending)]

\* The proxies could not be listed: none is probed, cursor and failures stay
Unlisted(m, pending) == [m EXCEPT !.grace = Grace(m, pending)]

\* performCheck's verdict on the sample s, by the order of its branches
Verdict(s, m, pending, beating) ==
    LET bad == s \cap world.dead
        primary == world.agentUp /\ world.xrayUp
        deferred == /\ Grace(m, pending) = "running" /\ pending
                    /\ bad = s /\ ~world.tls
    IN
    /\ ~world.blocked
    /\ ~(bad # {} /\ world.tls)
    /\ \/ primary /\ (deferred \/ bad = {})
       \/ ~primary /\ beating /\ bad = {}

\* checkAllNodes lists the rows, then probes, then handles the result
ListNode ==
    /\ check.at = "idle"
    /\ check' = [at |-> "listed", ok |-> FALSE, row |->
                    [status |-> row.status, pending |-> row.pending, beating |-> row.beating]]
    /\ UNCHANGED <<row, world, worlds, hc, agent, unread, beat, tokenOp>>

\* The check after its probes; of the row only the status is read again
CheckResult(s) ==
    [at |-> "probed", ok |-> Verdict(s, hc, check.row.pending, check.row.beating),
     row |-> [status |-> check.row.status, pending |-> FALSE, beating |-> FALSE]]

PerformCheck ==
    /\ check.at = "listed"
    /\ hc' = Probed(hc, check.row.pending)
    /\ check' = CheckResult(Sample(hc).proxies)
    /\ UNCHANGED <<row, world, worlds, agent, unread, beat, tokenOp>>

\* The query for the proxies fails; the check counts as if the node had none
PerformCheckUnlisted ==
    /\ check.at = "listed"
    /\ worlds < MaxWorlds /\ worlds' = worlds + 1
    /\ hc' = Unlisted(hc, check.row.pending)
    /\ check' = CheckResult({})
    /\ UNCHANGED <<row, world, agent, unread, beat, tokenOp>>

\* CheckNode and CheckAll, on request: the result is shown and not counted
ManualCheck ==
    /\ hc' \in {Probed(hc, row.pending), Unlisted(hc, row.pending)}
    /\ UNCHANGED <<row, world, worlds, check, agent, unread, beat, tokenOp>>

\* The counters after a result
Counted(m, ok) ==
    IF ok
    THEN [m EXCEPT !.fails = 0, !.succs = IF @ < HealthyThreshold THEN @ + 1 ELSE @]
    ELSE [m EXCEPT !.succs = 0, !.fails = IF @ < UnhealthyThreshold THEN @ + 1 ELSE @]

\* A mutated form of Transition: a node that is offline or unhealthy is not taken back
TransitionDown(m, ok, status) ==
    IF ~ok /\ status = "online" /\ m.fails >= UnhealthyThreshold THEN "unhealthy" ELSE "none"

\* The status handleCheckResult writes, by the status that was listed; "none" for no write
Transition(m, ok, status) ==
    CASE ok /\ status = "unhealthy" /\ m.succs >= HealthyThreshold -> "online"
      [] ok /\ status = "offline" -> "online"
      [] ~ok /\ status = "online" /\ m.fails >= UnhealthyThreshold -> "unhealthy"
      [] OTHER -> "none"

HandleCheckResult ==
    /\ check.at = "probed"
    /\ hc' = Counted(hc, check.ok)
    /\ LET status == Transition(Counted(hc, check.ok), check.ok, check.row.status) IN
       row' = IF status = "none" THEN row ELSE [row EXCEPT !.status = status]
    /\ check' = NoCheck
    /\ UNCHANGED <<world, worlds, agent, unread, beat, tokenOp>>

\* A sync has been pending for 2 minutes
GraceOver ==
    /\ hc.grace = "running"
    /\ hc' = [hc EXCEPT !.grace = "over"]
    /\ UNCHANGED <<row, world, worlds, check, agent, unread, beat, tokenOp>>

\* The panel restarts: the checker forgets, a heartbeat or token operation ends half way
PanelRestarts ==
    /\ worlds < MaxWorlds /\ worlds' = worlds + 1
    /\ hc' = NewMemory /\ check' = NoCheck
    /\ beat' = "none" /\ tokenOp' = "idle"
    /\ UNCHANGED <<row, world, agent, unread>>

\* The node, its network or its configuration changes
WorldChanges ==
    /\ worlds < MaxWorlds /\ worlds' = worlds + 1
    /\ \E w \in Worlds, pending \in BOOLEAN :
          world' = w /\ row' = [row EXCEPT !.pending = pending]
    /\ UNCHANGED <<hc, check, agent, unread, beat, tokenOp>>

-----------------------------------------------------------------------------

NodeHealthNext ==
    \/ Register \/ Heartbeat \/ HeartbeatError \/ UpdateHeartbeatBatch \/ LastSeenAges
    \/ GenerateNodeToken \/ RotateToken \/ RevokeToken \/ SetOffline
    \/ MarkOverLimit \/ UpdateStatus \/ RedeployAgent
    \/ ListNode \/ PerformCheck \/ PerformCheckUnlisted \/ ManualCheck \/ HandleCheckResult
    \/ GraceOver \/ PanelRestarts \/ WorldChanges

NodeHealthSpec == NodeHealthInit /\ [][NodeHealthNext]_nodeHealthVars

\* The checker's ticker goes on and time passes; agent and operator need not act
FairNodeHealthSpec ==
    /\ NodeHealthSpec
    /\ WF_nodeHealthVars(ListNode \/ PerformCheck \/ HandleCheckResult)
    /\ WF_nodeHealthVars(GraceOver)

-----------------------------------------------------------------------------
(* Properties *)

\* The agent gives up for good only when the token it holds is no longer the
\* node's or when the panel failed to look that token up, which it answers in the
\* same way; no other error stops it (markPermanentAuthFailure, ValidateToken).
StoppedOnlyWithoutToken == agent.state = "stopped" => ~agent.current \/ unread

\* A node with a proxy that stays unreachable does not stay online: rotating the
\* sample, manual checks, heartbeats, a pending sync and writes of the status by
\* others cannot keep resetting the count of failures, once the query for the
\* proxies fails no more (selectProxySample, handleCheckResult, pendingSyncWithinGrace).
DeadProxyNoticed == <>[](world.dead # {}) => []<>(row.status # "online")

\* A node on which everything answers comes online again, whatever status a late
\* heartbeat, a token operation or another writer left behind (transitionToHealthy, transitionToOnline).
RecoveredNodeReturns == <>[](world = Fine) => []<>(row.status = "online")
=============================================================================
