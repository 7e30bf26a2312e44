--------------------------- MODULE NodeSyncProofs ---------------------------
(***************************************************************************)
(* What is proved of NodeSync, for any number of changes, faults, events    *)
(* and commands: its types, that a successful config_sync has loaded what   *)
(* it fetched, and that a node shown as synced has every marked change in   *)
(* its file.  MaxIds, the bound on the ids in use, is large enough as long  *)
(* as a new command finds a free id; the theorems assume that it does.      *)
(***************************************************************************)
EXTENDS NodeSync, SumLemmas, TLAPS

\* A list that is filled up to its i-th command, and the equation of the table
OthersStep(f, cmds, ids, i) ==
    IF i = 0 THEN <<>>
    ELSE IF cmds[i].id \in ids THEN f[i - 1] ELSE Append(f[i - 1], cmds[i])
OthersTable(f, cmds, ids, n) == f = [i \in 0..n |-> OthersStep(f, cmds, ids, i)]

\* Every list has its table
LEMMA OthersExists ==
    ASSUME NEW cmds, NEW ids, NEW n \in Nat
    PROVE  \E f : OthersTable(f, cmds, ids, n)
<1> DEFINE Bad == {m \in Nat : ~\E f : OthersTable(f, cmds, ids, m)}
<1> SUFFICES ASSUME Bad # {} PROVE FALSE
  OBVIOUS
<1>1. PICK m \in Bad : \A k \in Bad : m <= k
  BY LeastNumber
<1>2. CASE m = 0
  <2> DEFINE g == [i \in 0..0 |-> <<>>]
  <2>1. OthersTable(g, cmds, ids, 0)
    BY DEF OthersTable, OthersStep
  <2> QED
    BY <1>1, <1>2, <2>1
<1>3. CASE m # 0
  <2>1. m - 1 \in Nat /\ ~(m <= m - 1)
    BY <1>1, <1>3
  <2>2. PICK f : OthersTable(f, cmds, ids, m - 1)
    BY <1>1, <2>1
  <2> DEFINE g == [i \in 0..m |-> IF i = m THEN OthersStep(f, cmds, ids, m) ELSE f[i]]
  <2>3. \A i \in 0..(m - 1) : g[i] = f[i] /\ f[i] = OthersStep(f, cmds, ids, i)
    <3> SUFFICES ASSUME NEW i \in 0..(m - 1) PROVE g[i] = f[i] /\ f[i] = OthersStep(f, cmds, ids, i)
      OBVIOUS
    <3>1. i \in 0..m /\ i # m
      BY <1>1, <2>1
    <3>2. f[i] = OthersStep(f, cmds, ids, i)
      BY <2>2 DEF OthersTable
    <3> QED
      BY <3>1, <3>2
  <2>4. ASSUME NEW i \in 0..m PROVE g[i] = OthersStep(g, cmds, ids, i)
    <3>1. CASE i = 0
      <4>1. 0 \in 0..(m - 1)
        BY <1>1, <2>1
      <4>2. g[0] = OthersStep(f, cmds, ids, 0)
        BY <2>3, <4>1
      <4> HIDE DEF g
      <4> QED
        BY <3>1, <4>2 DEF OthersStep
    <3>2. CASE i # 0
      <4>1. i - 1 \in 0..(m - 1) /\ g[i - 1] = f[i - 1]
        BY <1>1, <2>3, <3>2
      <4>2. g[i] = OthersStep(f, cmds, ids, i)
        <5>1. CASE i = m
          BY <5>1
        <5>2. CASE i # m
          <6>1. i \in 0..(m - 1)
            BY <1>1, <5>2
          <6> QED
            BY <2>3, <6>1
        <5> QED
          BY <5>1, <5>2
      <4> HIDE DEF g
      <4> QED
        BY <3>2, <4>1, <4>2 DEF OthersStep
    <3> QED
      BY <3>1, <3>2
  <2>5. OthersTable(g, cmds, ids, m)
    <3>1. DOMAIN g = 0..m /\ g = [i \in 0..m |-> g[i]]
      OBVIOUS
    <3> HIDE DEF g
    <3> QED
      BY <2>4, <3>1 DEF OthersTable
  <2> QED
    BY <1>1, <2>5
<1> QED
  BY <1>2, <1>3

\* The commands that are left are commands of the list, and none of ids
LEMMA OthersType ==
    ASSUME NEW S, NEW cmds \in Seq(S), NEW ids
    PROVE  /\ Others(cmds, ids) \in Seq(S)
           /\ Range(Others(cmds, ids)) \subseteq Range(cmds)
<1> DEFINE n == Len(cmds)
           f == CHOOSE g : OthersTable(g, cmds, ids, n)
<1>1. n \in Nat /\ DOMAIN cmds = 1..n
  OBVIOUS
<1>2. OthersTable(f, cmds, ids, n)
  BY <1>1, OthersExists
<1>3. Others(cmds, ids) = f[n]
  BY DEF Others, OthersTable, OthersStep
<1> HIDE DEF f
<1>4. \A i \in 0..n : f[i] = OthersStep(f, cmds, ids, i)
  BY <1>2 DEF OthersTable
<1> DEFINE Good(i) == f[i] \in Seq(S) /\ \A k \in DOMAIN f[i] : f[i][k] \in Range(cmds)
           Bad == {i \in 0..n : ~Good(i)}
<1>5. Bad = {}
  <2> SUFFICES ASSUME Bad # {} PROVE FALSE
    OBVIOUS
  <2>1. PICK m \in Bad : \A k \in Bad : m <= k
    <3>1. Bad \in SUBSET Nat
      BY <1>1
    <3> HIDE DEF Bad
    <3> QED
      BY <3>1, LeastNumber
  <2>2. CASE m = 0
    <3>1. f[0] = <<>>
      BY <1>1, <1>4 DEF OthersStep
    <3>2. Good(0)
      BY <3>1
    <3> QED
      BY <2>1, <2>2, <3>2
  <2>3. CASE m # 0
    <3>1. m \in 1..n /\ m - 1 \in 0..n /\ ~(m <= m - 1)
      BY <1>1, <2>1, <2>3
    <3>2. Good(m - 1)
      BY <2>1, <3>1
    <3>3. cmds[m] \in S /\ cmds[m] \in Range(cmds)
      BY <1>1, <3>1 DEF Range
    <3>4. f[m] = f[m - 1] \/ f[m] = Append(f[m - 1], cmds[m])
      BY <1>4, <2>1, <2>3 DEF OthersStep
    <3>5. Good(m)
      <4>1. CASE f[m] = f[m - 1]
        BY <3>2, <4>1
      <4>2. CASE f[m] = Append(f[m - 1], cmds[m])
        BY <3>2, <3>3, <4>2
      <4> QED
        BY <3>4, <4>1, <4>2
    <3> QED
      BY <2>1, <3>5
  <2> QED
    BY <2>2, <2>3
<1>6. Good(n)
  BY <1>1, <1>5
<1> QED
  BY <1>3, <1>6 DEF Range

-----------------------------------------------------------------------------
(***************************************************************************)
(* The operations of the tracker                                            *)
(***************************************************************************)

\* The commands the tracker knows
Commands(t) == Range(t.pending) \cup t.inflight

\* A tracker whose list of events is not longer than it may be
Fits(t) == t \in Tracker /\ Len(t.events) <= MaxEvents

\* Commands of the same id are the same command
Distinct(C) == \A c, d \in C : c.id = d.id => c = d

LEMMA KnownIdsOfCommands == ASSUME NEW t PROVE KnownIds(t) = {c.id : c \in Commands(t)}
  BY DEF KnownIds, Commands

LEMMA CommandsType == ASSUME NEW t \in Tracker PROVE Commands(t) \subseteq Command
  BY DEF Tracker, Commands, Range

\* The beginning of a list, and a list of the same length
LEMMA SubSeqType ==
    ASSUME NEW S, NEW s \in Seq(S), NEW n \in 1..Len(s)
    PROVE  SubSeq(s, 1, n) \in Seq(S) /\ Len(SubSeq(s, 1, n)) = n
  OBVIOUS

LEMMA MapSeqType ==
    ASSUME NEW S, NEW s \in Seq(S), NEW z \in S, NEW ids, NEW e,
           e = [i \in DOMAIN s |-> IF s[i] \in ids THEN z ELSE s[i]]
    PROVE  e \in Seq(S) /\ Len(e) = Len(s)
  OBVIOUS

LEMMA CloseEventsType ==
    ASSUME NEW t, Fits(t), NEW ids
    PROVE  Fits(CloseEvents(t, ids)) /\ Commands(CloseEvents(t, ids)) = Commands(t)
           /\ CloseEvents(t, ids).pending = t.pending
<1> DEFINE e == [i \in DOMAIN t.events |-> IF t.events[i] \in ids THEN 0 ELSE t.events[i]]
           u == CloseEvents(t, ids)
<1>1. t \in Tracker /\ t.events \in Seq(0..MaxIds) /\ t.old \subseteq Ids
  BY DEF Fits, Tracker
<1>2. e \in Seq(0..MaxIds) /\ Len(e) = Len(t.events)
  <2> DEFINE S == 0..MaxIds
             s == t.events
  <2>1. 0 \in S /\ s \in Seq(S)
    BY <1>1, NodeSyncAssumption
  <2>2. e = [i \in DOMAIN s |-> IF s[i] \in ids THEN 0 ELSE s[i]]
    OBVIOUS
  <2>3. e \in Seq(S) /\ Len(e) = Len(s)
    <3> HIDE DEF e, S, s
    <3> QED
      BY <2>1, <2>2, MapSeqType
  <2> QED
    BY <2>3
<1>3. u = [t EXCEPT !.events = e, !.old = t.old \ ids]
  BY DEF CloseEvents
<1> HIDE DEF e, u
<1>4. u \in Tracker /\ u.events = e /\ u.pending = t.pending /\ u.inflight = t.inflight
  <2> DEFINE o == t.old \ ids
  <2>1. o \subseteq Ids
    BY <1>1
  <2> HIDE DEF o
  <2>2. u = [t EXCEPT !.events = e, !.old = o]
    BY <1>3 DEF o
  <2>3. u = [pending |-> t.pending, inflight |-> t.inflight, cooling |-> t.cooling,
             events |-> e, old |-> o]
    BY <1>1, <2>2 DEF Tracker
  <2>4. /\ t.pending \in Seq(Command)
        /\ t.inflight \in SUBSET Command
        /\ t.cooling \in SUBSET Types
    BY <1>1 DEF Tracker
  <2> QED
    BY <1>2, <2>1, <2>3, <2>4 DEF Tracker
<1>5. Fits(u)
  BY <1>1, <1>2, <1>4 DEF Fits
<1>6. Commands(u) = Commands(t)
  BY <1>4 DEF Commands
<1> QED
  BY <1>4, <1>5, <1>6 DEF u

LEMMA WithoutType ==
    ASSUME NEW t, Fits(t), NEW ids
    PROVE  Fits(Without(t, ids)) /\ Commands(Without(t, ids)) \subseteq Commands(t)
<1> DEFINE u == Without(t, ids)
           p == Others(t.pending, ids)
           f == {c \in t.inflight : c.id \notin ids}
<1>1. t \in Tracker /\ t.pending \in Seq(Command) /\ t.inflight \subseteq Command
  BY DEF Fits, Tracker
<1>2. p \in Seq(Command) /\ Range(p) \subseteq Range(t.pending)
  BY <1>1, OthersType
<1>3. u = [t EXCEPT !.pending = p, !.inflight = f]
  BY DEF Without
<1>4. f \subseteq t.inflight
  OBVIOUS
<1> HIDE DEF u, p, f
<1>5. u \in Tracker /\ u.pending = p /\ u.inflight = f /\ u.events = t.events
  BY <1>1, <1>2, <1>3, <1>4 DEF Tracker
<1>6. Fits(u)
  BY <1>5 DEF Fits
<1>7. Commands(u) \subseteq Commands(t)
  BY <1>2, <1>4, <1>5 DEF Commands
<1> QED
  BY <1>6, <1>7 DEF u

LEMMA PruneType ==
    ASSUME NEW t, Fits(t)
    PROVE  Fits(Prune(t)) /\ Commands(Prune(t)) \subseteq Commands(t)
<1>1. Fits(Without(t, Expired(t))) /\ Commands(Without(t, Expired(t))) \subseteq Commands(t)
  BY WithoutType
<1> QED
  BY <1>1, CloseEventsType DEF Prune

LEMMA RecoveredType ==
    ASSUME NEW t, Fits(t), NEW type
    PROVE  /\ Fits(MarkCommandRecovered(t, type))
           /\ Commands(MarkCommandRecovered(t, type)) \subseteq Commands(t)
<1> DEFINE ids == {c.id : c \in {d \in Range(t.pending) \cup t.inflight : d.type = type}}
<1>1. MarkCommandRecovered(t, type) = CloseEvents(Without(t, ids), ids)
  BY DEF MarkCommandRecovered
<1>2. Fits(Without(t, ids)) /\ Commands(Without(t, ids)) \subseteq Commands(t)
  BY WithoutType
<1> HIDE DEF ids
<1> QED
  BY <1>1, <1>2, CloseEventsType

LEMMA AppendCommandType ==
    ASSUME NEW t, Fits(t), NEW c \in Command
    PROVE  Fits(AppendCommand(t, c)) /\ Commands(AppendCommand(t, c)) = Commands(t) \cup {c}
<1> DEFINE p == Append(t.pending, c)
           l == <<c.id>> \o t.events
           m == Min({MaxEvents, Len(t.events) + 1})
           e == SubSeq(l, 1, m)
           u == AppendCommand(t, c)
<1>1. /\ t \in Tracker /\ t.pending \in Seq(Command) /\ t.events \in Seq(0..MaxIds)
      /\ t.cooling \subseteq Types /\ t.old \subseteq Ids /\ c.id \in Ids /\ c.type \in Types
      /\ MaxEvents \in Nat \ {0} /\ MaxIds \in Nat
  BY NodeSyncAssumption DEF Fits, Tracker, Command
<1>2. p \in Seq(Command) /\ Range(p) = Range(t.pending) \cup {c}
  <2>1. Len(p) = Len(t.pending) + 1 /\ DOMAIN p = 1..(Len(t.pending) + 1) /\ DOMAIN t.pending = 1..Len(t.pending)
    BY <1>1
  <2>2. p[Len(t.pending) + 1] = c /\ \A i \in DOMAIN t.pending : p[i] = t.pending[i]
    BY <1>1
  <2>3. p \in Seq(Command) /\ Len(t.pending) \in Nat
    BY <1>1
  <2> HIDE DEF p
  <2> QED
    BY <2>1, <2>2, <2>3 DEF Range
<1>3. l \in Seq(0..MaxIds) /\ Len(l) = Len(t.events) + 1
  <2>1. c.id \in 0..MaxIds
    BY <1>1 DEF Ids
  <2> QED
    BY <1>1, <2>1
<1>4. m \in 1..Len(l) /\ m <= MaxEvents
  <2> DEFINE T == {MaxEvents, Len(t.events) + 1}
  <2>1. T \in SUBSET Nat /\ T # {}
    BY <1>1
  <2>2. \E n \in T : \A k \in T : n <= k
    <3> HIDE DEF T
    <3> QED
      BY <2>1, LeastNumber
  <2>3. m \in T /\ \A k \in T : m <= k
    <3> HIDE DEF T
    <3> QED
      BY <2>2 DEF Min, T
  <2>4. m <= MaxEvents /\ m <= Len(t.events) + 1 /\ m \in Nat \ {0}
    <3> HIDE DEF m
    <3> QED
      BY <1>1, <2>3
  <2> HIDE DEF m, l
  <2> QED
    BY <1>1, <1>3, <2>4
<1>5. e \in Seq(0..MaxIds) /\ Len(e) = m
  <2> HIDE DEF l, m
  <2> QED
    BY <1>3, <1>4, SubSeqType
<1>6. u = [t EXCEPT !.pending = p, !.cooling = t.cooling \cup {c.type}, !.events = e, !.old = t.old \ {c.id}]
  BY DEF AppendCommand
<1> HIDE DEF p, l, m, e, u
<1>7. u \in Tracker /\ u.pending = p /\ u.inflight = t.inflight /\ u.events = e
  BY <1>1, <1>2, <1>5, <1>6 DEF Tracker
<1>8. Fits(u)
  BY <1>1, <1>4, <1>5, <1>7 DEF Fits
<1>9. Commands(u) = Commands(t) \cup {c}
  BY <1>2, <1>7 DEF Commands
<1> QED
  BY <1>8, <1>9 DEF u

\* A tracker that fits and whose commands, with those of the agent, are distinct
Sound(t) == Fits(t) /\ Distinct(Commands(t) \cup Range(agent.cmds))

\* Fewer commands are as sound, and leave as many ids
LEMMA SoundLess ==
    ASSUME NEW t, Sound(t), NEW u, Fits(u), Commands(u) \subseteq Commands(t)
    PROVE  Sound(u) /\ FreeIds(t) \subseteq FreeIds(u)
<1>1. Sound(u)
  BY DEF Sound, Distinct
<1>2. KnownIds(u) \subseteq KnownIds(t)
  BY KnownIdsOfCommands
<1> QED
  BY <1>1, <1>2 DEF FreeIds

LEMMA SoundPrune ==
    ASSUME NEW t, Sound(t)
    PROVE  Sound(Prune(t)) /\ FreeIds(t) \subseteq FreeIds(Prune(t))
<1>1. Fits(Prune(t)) /\ Commands(Prune(t)) \subseteq Commands(t)
  BY PruneType DEF Sound
<1> QED
  BY <1>1, SoundLess

\* The least free id is one
LEMMA FreeId ==
    ASSUME NEW t, FreeIds(t) # {}
    PROVE  Min(FreeIds(t)) \in FreeIds(t) /\ Min(FreeIds(t)) \in Ids
<1>1. FreeIds(t) \in SUBSET Nat /\ FreeIds(t) \subseteq Ids
  BY NodeSyncAssumption DEF FreeIds, Ids
<1> DEFINE F == FreeIds(t)
<1>2. \E n \in F : \A m \in F : n <= m
  <2>1. F \in SUBSET Nat /\ F # {}
    BY <1>1
  <2> HIDE DEF F
  <2> QED
    BY <2>1, LeastNumber
<1>3. Min(F) \in F
  <2> HIDE DEF F
  <2> QED
    BY <1>2 DEF Min
<1> QED
  BY <1>1, <1>3

\* Queueing keeps a tracker sound while an id is free
LEMMA SoundQueue ==
    ASSUME NEW t, Sound(t), FreeIds(t) # {}, NEW type \in Types
    PROVE  Sound(Queue(t, type)) /\ FreeIds(Queue(t, type)) \subseteq FreeIds(t)
<1>1. CASE Refused(t, type)
  BY <1>1 DEF Queue
<1>2. CASE ~Refused(t, type)
  <2> DEFINE c == [id |-> Min(FreeIds(t)), type |-> type]
             u == AppendCommand(t, c)
  <2>1. c \in Command /\ c.id \in FreeIds(t)
    BY FreeId DEF Command
  <2>2. Queue(t, type) = u
    BY <1>2 DEF Queue
  <2> HIDE DEF c
  <2>3. Fits(u) /\ Commands(u) = Commands(t) \cup {c}
    BY <2>1, AppendCommandType DEF Sound
  <2> HIDE DEF u
  <2>4. \A d \in Commands(t) \cup Range(agent.cmds) : d.id # c.id
    BY <2>1, KnownIdsOfCommands DEF FreeIds
  <2>5. Sound(u)
    BY <2>3, <2>4 DEF Sound, Distinct
  <2>6. FreeIds(u) \subseteq FreeIds(t)
    <3>1. KnownIds(t) \subseteq KnownIds(u)
      BY <2>3, KnownIdsOfCommands
    <3> QED
      BY <3>1 DEF FreeIds
  <2> QED
    BY <2>2, <2>5, <2>6
<1> QED
  BY <1>1, <1>2

\* A sync and a restart are queued, and an id is left
LEMMA SoundSyncAndRestart ==
    ASSUME NEW t, Sound(t), FreeIds(t) # {}
    PROVE  Sound(SyncAndRestart(t)) \/ FreeIds(SyncAndRestart(t)) = {}
<1> DEFINE u == Queue(t, "config_sync")
<1>1. Sound(u) /\ "config_sync" \in Types /\ "xray_restart" \in Types
  BY SoundQueue DEF Types
<1>2. SyncAndRestart(t) = Queue(u, "xray_restart")
  BY DEF SyncAndRestart
<1> HIDE DEF u
<1>3. CASE FreeIds(u) # {}
  BY <1>1, <1>2, <1>3, SoundQueue
<1>4. CASE FreeIds(u) = {}
  <2>1. FreeIds(SyncAndRestart(t)) = {}
    <3>1. CASE Refused(u, "xray_restart")
      BY <1>2, <1>4, <3>1 DEF Queue
    <3>2. CASE ~Refused(u, "xray_restart")
      <4> DEFINE c == [id |-> Min(FreeIds(u)), type |-> "xray_restart"]
      <4>1. Queue(u, "xray_restart") = AppendCommand(u, c)
        BY <3>2 DEF Queue
      <4> HIDE DEF c
      <4>2. KnownIds(u) \subseteq KnownIds(AppendCommand(u, c))
        <5>1. u \in Tracker /\ u.pending \in Seq(Command)
          BY <1>1 DEF Sound, Fits, Tracker
        <5>2. AppendCommand(u, c).pending = Append(u.pending, c) /\ AppendCommand(u, c).inflight = u.inflight
          BY <5>1 DEF AppendCommand, Tracker
        <5>3. Range(u.pending) \subseteq Range(Append(u.pending, c))
          <6>1. \A i \in DOMAIN u.pending : /\ i \in DOMAIN Append(u.pending, c)
                                            /\ Append(u.pending, c)[i] = u.pending[i]
            BY <5>1
          <6> QED
            BY <6>1 DEF Range
        <5> QED
          BY <5>2, <5>3 DEF KnownIds
      <4> QED
        BY <1>2, <1>4, <4>1, <4>2 DEF FreeIds
    <3> QED
      BY <3>1, <3>2
  <2> QED
    BY <2>1
<1> QED
  BY <1>3, <1>4

LEMMA SoundPendingSync ==
    ASSUME NEW t, Sound(t), FreeIds(t) # {}
    PROVE  Sound(PendingSync(t)) \/ FreeIds(PendingSync(t)) = {}
  BY SoundSyncAndRestart DEF PendingSync

\* What is sent is what was pending
LEMMA TakePendingType ==
    ASSUME NEW t, Fits(t)
    PROVE  Fits(TakePending(t)) /\ Commands(TakePending(t)) = Commands(t) /\ t.pending \in Seq(Command)
<1> DEFINE u == TakePending(t)
<1>1. /\ t \in Tracker /\ t.pending \in Seq(Command) /\ Range(t.pending) \subseteq Command
      /\ t.inflight \subseteq Command
  BY CommandsType DEF Fits, Tracker, Commands
<1>2. u = [t EXCEPT !.pending = <<>>, !.inflight = t.inflight \cup Range(t.pending)]
  BY DEF TakePending
<1> HIDE DEF u
<1>3. /\ u \in Tracker /\ u.pending = <<>> /\ u.inflight = t.inflight \cup Range(t.pending)
      /\ u.events = t.events
  <2> DEFINE f == t.inflight \cup Range(t.pending)
             e == <<>>
  <2>1. f \in SUBSET Command /\ e \in Seq(Command)
    BY <1>1
  <2>2. u = [t EXCEPT !.pending = e, !.inflight = f]
    BY <1>2
  <2>3. u \in Tracker /\ u.pending = e /\ u.inflight = f /\ u.events = t.events
    <3> HIDE DEF e, f
    <3> QED
      BY <1>1, <2>1, <2>2 DEF Tracker
  <2> QED
    BY <2>3
<1>4. Range(u.pending) = {}
  BY <1>3 DEF Range
<1>5. Fits(u)
  BY <1>3 DEF Fits
<1>6. Commands(u) = Commands(t)
  BY <1>3, <1>4 DEF Commands
<1> QED
  BY <1>1, <1>5, <1>6 DEF u

LEMMA CompleteType ==
    ASSUME NEW t, Fits(t), NEW id
    PROVE  Fits(Complete(t, id)) /\ Commands(Complete(t, id)) \subseteq Commands(t)
<1> DEFINE u == [t EXCEPT !.inflight = {c \in t.inflight : c.id # id}]
           ids == IF id \in {c.id : c \in t.inflight} THEN {id} ELSE {}
<1>1. t \in Tracker /\ t.inflight \subseteq Command
  BY DEF Fits, Tracker
<1>2. /\ u \in Tracker /\ u.inflight = {c \in t.inflight : c.id # id} /\ u.pending = t.pending
      /\ u.events = t.events
  BY <1>1 DEF Tracker
<1>3. Complete(t, id) = CloseEvents(u, ids)
  BY DEF Complete
<1> HIDE DEF u, ids
<1>4. Fits(u) /\ Commands(u) \subseteq Commands(t)
  BY <1>2 DEF Fits, Commands
<1> QED
  BY <1>3, <1>4, CloseEventsType

-----------------------------------------------------------------------------
(***************************************************************************)
(* Types, and who may have what under way                                   *)
(***************************************************************************)

SyncStatuses == {"pending", "synced", "failed"}
Agent == [cmds : Seq(Command), step : {"idle", "fetched", "written"},
          got : Version, wasRunning : BOOLEAN]
Beat == [at : {"idle", "read"}, sync : SyncStatuses, client : BOOLEAN]
Result == [at : {"idle", "sent", "completed"}, id : 0..MaxIds, type : Types \cup {""}, ok : BOOLEAN]
Process == [running : BOOLEAN, loaded : Version, systemd : BOOLEAN]

Typed ==
    /\ desired \in Version /\ owed \in Version /\ disk \in Version
    /\ sync \in SyncStatuses /\ change \in {"idle", "saved", "marked"}
    /\ beat \in Beat /\ agent \in Agent /\ result \in Result
    /\ xray \in Process /\ faults \in 0..MaxFaults

\* The first command in hand is a config_sync
HeadSync == agent.cmds # <<>> /\ Head(agent.cmds).type = "config_sync"

\* While a config_sync is executed no result is out, while a heartbeat is awaited
\* nothing is in hand, and a result that was sent is that of the first command
Phase ==
    /\ agent.step # "idle" => result.at = "idle" /\ HeadSync
    /\ beat.client => agent.cmds = <<>> /\ result.at = "idle"
    /\ result.at = "sent" => agent.cmds # <<>> /\ result.id = Head(agent.cmds).id

\* The histories that are flags
Flags == overtaken \in BOOLEAN /\ early \in BOOLEAN

SyncInv == Typed /\ Sound(tracker) /\ Phase /\ Flags

\* A new command finds an id
IdLeft == FreeIds(tracker) # {}

LEMMA Records ==
    /\ NoBeat \in Beat /\ NoResult \in Result /\ IdleAgent \in Agent
    /\ NoBeat.client = FALSE /\ NoResult.at = "idle" /\ IdleAgent.cmds = <<>> /\ IdleAgent.step = "idle"
<1>1. NoBeat \in Beat /\ NoBeat.client = FALSE
  BY DEF NoBeat, Beat, SyncStatuses
<1>2. NoResult \in Result /\ NoResult.at = "idle"
  BY NodeSyncAssumption DEF NoResult, Result
<1>3. IdleAgent \in Agent /\ IdleAgent.cmds = <<>> /\ IdleAgent.step = "idle"
  <2>1. 0 \in Version
    BY NodeSyncAssumption DEF Version
  <2>2. <<>> \in Seq(Command)
    OBVIOUS
  <2> QED
    BY <2>1, <2>2 DEF IdleAgent, Agent
<1> QED
  BY <1>1, <1>2, <1>3

LEMMA SyncInit == NodeSyncInit => SyncInv
<1> SUFFICES ASSUME NodeSyncInit PROVE SyncInv
  OBVIOUS
<1>1. agent = IdleAgent /\ beat = NoBeat /\ result = NoResult /\ tracker = NewTracker
  BY DEF NodeSyncInit
<1>2. Typed
  <2>1. 0 \in Version /\ 0 \in 0..MaxFaults
    BY NodeSyncAssumption DEF Version
  <2>2. xray \in Process
    BY <2>1 DEF NodeSyncInit, Process
  <2> QED
    BY <1>1, <2>1, <2>2, Records DEF NodeSyncInit, Typed, SyncStatuses
<1>3. Sound(tracker)
  <2>1. <<>> \in Seq(Command) /\ <<>> \in Seq(0..MaxIds) /\ Len(<<>>) = 0
    OBVIOUS
  <2>2. tracker \in Tracker /\ tracker.pending = <<>> /\ tracker.inflight = {} /\ tracker.events = <<>>
    BY <1>1, <2>1 DEF NewTracker, Tracker
  <2>3. Fits(tracker)
    BY <2>1, <2>2, NodeSyncAssumption DEF Fits
  <2>4. Commands(tracker) \cup Range(agent.cmds) = {}
    BY <1>1, <2>2, Records DEF Commands, Range
  <2> QED
    BY <2>3, <2>4 DEF Sound, Distinct
<1>4. Phase
  BY <1>1, Records DEF Phase
<1>5. Flags
  BY DEF NodeSyncInit, Flags
<1> QED
  BY <1>2, <1>3, <1>4, <1>5 DEF SyncInv

\* The agent's next command
LEMMA NextCommandType ==
    ASSUME agent \in Agent
    PROVE  /\ NextCommand \in Agent /\ Range(NextCommand.cmds) \subseteq Range(agent.cmds)
           /\ NextCommand.step = "idle" \/ (agent.cmds = <<>> /\ NextCommand = agent)
<1>1. CASE agent.cmds = <<>>
  BY <1>1 DEF NextCommand
<1>2. CASE agent.cmds # <<>>
  <2>1. agent.cmds \in Seq(Command)
    BY DEF Agent
  <2> DEFINE s == Tail(agent.cmds)
  <2>2. s \in Seq(Command) /\ \A i \in DOMAIN s : i + 1 \in DOMAIN agent.cmds /\ s[i] = agent.cmds[i + 1]
    BY <1>2, <2>1
  <2>3. NextCommand = [IdleAgent EXCEPT !.cmds = s]
    BY <1>2 DEF NextCommand
  <2> HIDE DEF s
  <2>4. NextCommand \in Agent /\ NextCommand.cmds = s /\ NextCommand.step = "idle"
    BY <2>2, <2>3, Records DEF Agent
  <2> QED
    BY <2>2, <2>4 DEF Range
<1> QED
  BY <1>1, <1>2

\* The first command has an id
LEMMA HeadType ==
    ASSUME agent \in Agent, agent.cmds # <<>>
    PROVE  /\ Head(agent.cmds) \in Command /\ Head(agent.cmds) \in Range(agent.cmds)
           /\ Head(agent.cmds).id \in 0..MaxIds
<1>1. agent.cmds \in Seq(Command)
  BY DEF Agent
<1>2. 1 \in DOMAIN agent.cmds /\ Head(agent.cmds) = agent.cmds[1] /\ Head(agent.cmds) \in Command
  BY <1>1
<1> QED
  BY <1>2, NodeSyncAssumption DEF Range, Command, Ids

LEMMA ReportedType ==
    ASSUME agent \in Agent, agent.cmds # <<>>, NEW ok \in BOOLEAN
    PROVE  /\ Reported(ok) \in Result /\ Reported(ok).at = "sent" /\ Reported(ok).ok = ok
           /\ Reported(ok).id = Head(agent.cmds).id
  BY HeadType DEF Reported, Result

LEMMA CompletedTypeType ==
    ASSUME NEW t, Fits(t), NEW id
    PROVE  /\ CompletedType(t, id) \in Types \cup {""}
           /\ CompletedType(t, id) # "" => \E c \in t.inflight : c.id = id /\ c.type = CompletedType(t, id)
<1>1. t.inflight \subseteq Command
  BY DEF Fits, Tracker
<1>2. CASE \E c \in t.inflight : c.id = id
  <2> DEFINE d == CHOOSE c \in t.inflight : c.id = id
  <2>1. d \in t.inflight /\ d.id = id
    BY <1>2
  <2>2. CompletedType(t, id) = d.type
    BY <1>2 DEF CompletedType
  <2> HIDE DEF d
  <2>3. d.type \in Types
    BY <1>1, <2>1 DEF Command
  <2> QED
    BY <2>1, <2>2, <2>3
<1>3. CASE ~\E c \in t.inflight : c.id = id
  BY <1>3 DEF CompletedType
<1> QED
  BY <1>2, <1>3

\* A step that leaves the tracker alone and adds no command
LEMMA SoundStays ==
    ASSUME Sound(tracker), tracker' = tracker, Range(agent'.cmds) \subseteq Range(agent.cmds)
    PROVE  Sound(tracker)'
  BY DEF Sound, Distinct

\* A step of the tracker alone
LEMMA SoundBecomes ==
    ASSUME NEW t, Sound(t), tracker' = t, agent' = agent
    PROVE  Sound(tracker)'
  BY DEF Sound

\* The ids that are left, when the tracker alone has changed
LEMMA IdsStay ==
    ASSUME NEW t, tracker' = t, agent' = agent, result' = result, IdLeft'
    PROVE  FreeIds(t) # {}
  BY DEF IdLeft, FreeIds

\* The commands that the answer takes to the agent
LEMMA HeartbeatAnswered ==
    ASSUME SyncInv, IdLeft, IdLeft', AnswerHeartbeat
    PROVE  agent' \in Agent /\ agent'.step = agent.step /\ Sound(tracker)'
<1>1. Sound(tracker) /\ agent \in Agent /\ agent.cmds = <<>>
  BY DEF SyncInv, Typed, Phase, AnswerHeartbeat
<1> DEFINE p == Prune(tracker)
           t == PendingSync(p)
<1>2. /\ tracker' = TakePending(t) /\ agent' = [agent EXCEPT !.cmds = t.pending]
      /\ result' = result
  BY DEF AnswerHeartbeat
<1>3. Sound(p) /\ FreeIds(p) # {}
  BY <1>1, SoundPrune DEF IdLeft
<1>4. Sound(t) \/ FreeIds(t) = {}
  <2> HIDE DEF p
  <2> QED
    BY <1>3, SoundPendingSync
<1> HIDE DEF p, t
<1>5. Range(agent.cmds) = {}
  BY <1>1 DEF Range
<1>6. agent'.cmds = t.pending
  BY <1>1, <1>2 DEF Agent
<1>7. KnownIds(t) \subseteq KnownIds(tracker')
  BY <1>2 DEF KnownIds, TakePending, Range
<1>8. FreeIds(t) # {}
  BY <1>2, <1>5, <1>7 DEF IdLeft, FreeIds
<1>9. Sound(t)
  BY <1>4, <1>8
<1>10. Fits(tracker') /\ Commands(tracker') = Commands(t) /\ t.pending \in Seq(Command)
  BY <1>2, <1>9, TakePendingType DEF Sound
<1>11. agent' \in Agent /\ agent'.step = agent.step
  BY <1>1, <1>2, <1>10 DEF Agent
<1>12. Sound(tracker)'
  <2>1. Range(agent'.cmds) \subseteq Commands(t)
    BY <1>6 DEF Commands
  <2> QED
    BY <1>9, <1>10, <2>1 DEF Sound, Distinct
<1> QED
  BY <1>11, <1>12

LEMMA TypedStep ==
    ASSUME SyncInv, IdLeft, IdLeft', [NodeSyncNext]_nodeSyncVars
    PROVE  Typed'
<1>0. /\ Typed /\ Phase /\ Fits(tracker) /\ agent \in Agent /\ result \in Result /\ beat \in Beat
      /\ xray \in Process /\ disk \in Version /\ desired \in Version
  BY DEF SyncInv, Sound, Typed, historyVars
<1>1. Started \in Process
  BY <1>0 DEF Started, Process
<1>2. Fault => faults' \in 0..MaxFaults
  BY <1>0, NodeSyncAssumption DEF Fault, Typed, historyVars
<1>3. desired < MaxChanges /\ desired' = desired + 1 => desired' \in Version
  BY <1>0, NodeSyncAssumption DEF Version
<1>4. CASE SaveChange
  BY <1>0, <1>3, <1>4 DEF SaveChange, Typed, historyVars
<1>5. CASE MarkSyncPending
  BY <1>0, <1>5 DEF MarkSyncPending, Typed, SyncStatuses, historyVars
<1>6. CASE QueueNodeConfigSync
  BY <1>0, <1>6 DEF QueueNodeConfigSync, Typed, historyVars
<1>7. CASE RevokeAccess
  BY <1>0, <1>3, <1>7 DEF RevokeAccess, Typed, historyVars
<1>8. CASE \/ \E type \in Types : CooldownOver(type)
           \/ \E id \in Ids : InflightAges(id)
  BY <1>0, <1>8 DEF CooldownOver, InflightAges, Typed, historyVars
<1>9. CASE PendingAge \/ NodeRecovered
  BY <1>0, <1>2, <1>9 DEF PendingAge, NodeRecovered, Typed, historyVars
<1>10. CASE Heartbeat
  <2>1. beat' \in Beat
    BY <1>0, <1>10 DEF Heartbeat, Beat, Typed, historyVars
  <2> QED
    BY <1>0, <1>10, <2>1 DEF Heartbeat, Typed, historyVars
<1>11. CASE HeartbeatTimesOut
  <2>1. beat' \in Beat
    BY <1>0, <1>11 DEF HeartbeatTimesOut, Beat
  <2> QED
    BY <1>0, <1>2, <1>11, <2>1 DEF HeartbeatTimesOut, Typed, historyVars
<1>12. CASE AnswerNobody
  BY <1>0, <1>12, Records DEF AnswerNobody, Typed, historyVars
<1>13. CASE FetchConfig
  <2>1. agent' \in Agent
    BY <1>0, <1>13 DEF FetchConfig, Agent, Process
  <2> QED
    BY <1>0, <1>13, <2>1 DEF FetchConfig, Typed, historyVars
<1>14. CASE UpdateConfig
  <2>1. agent' \in Agent /\ disk' \in Version /\ xray' \in Process
    BY <1>0, <1>14 DEF UpdateConfig, Agent, Process
  <2> QED
    BY <1>0, <1>14, <2>1 DEF UpdateConfig, Typed, historyVars
<1>15. CASE RestartOrEnsure
  <2>1. agent' \in Agent /\ xray' \in Process
    BY <1>0, <1>1, <1>15 DEF RestartOrEnsure, Agent
  <2>2. result' \in Result
    BY <1>0, <1>15, ReportedType DEF RestartOrEnsure, Phase, HeadSync
  <2> QED
    BY <1>0, <1>15, <2>1, <2>2 DEF RestartOrEnsure, Typed, historyVars
<1>16. CASE ConfigSyncFails
  <2>1. agent' \in Agent /\ xray' \in Process
    BY <1>0, <1>16 DEF ConfigSyncFails, Agent, Process
  <2>2. result' \in Result
    BY <1>0, <1>16, ReportedType DEF ConfigSyncFails, Executing
  <2> QED
    BY <1>0, <1>2, <1>16, <2>1, <2>2 DEF ConfigSyncFails, Typed, historyVars
<1>17. CASE ExecuteXrayRestart \/ ExecuteXrayStart
  <2>1. result' \in Result
    BY <1>0, <1>17, ReportedType DEF ExecuteXrayRestart, ExecuteXrayStart, Executing
  <2>2. xray' \in Process
    BY <1>0, <1>1, <1>17 DEF ExecuteXrayRestart, ExecuteXrayStart
  <2> QED
    BY <1>0, <1>17, <2>1, <2>2 DEF ExecuteXrayRestart, ExecuteXrayStart, Typed, historyVars
<1>18. CASE ExecuteXrayFails
  <2>1. result' \in Result
    BY <1>0, <1>18, ReportedType DEF ExecuteXrayFails, Executing
  <2>2. xray' \in Process
    BY <1>0, <1>18 DEF ExecuteXrayFails, Process
  <2> QED
    BY <1>0, <1>2, <1>18, <2>1, <2>2 DEF ExecuteXrayFails, Typed, historyVars
<1>19. CASE ReportLost
  BY <1>0, <1>2, <1>19, Records, NextCommandType DEF ReportLost, Typed, historyVars
<1>20. CASE CompleteInflightCommand
  <2>1. result' \in Result
    <3>1. CompletedType(tracker, result.id) \in Types \cup {""}
      BY <1>0, CompletedTypeType
    <3> QED
      BY <1>0, <1>20, <3>1 DEF CompleteInflightCommand, Result
  <2> QED
    BY <1>0, <1>20, <2>1 DEF CompleteInflightCommand, Typed, historyVars
<1>21. CASE UpdateSyncStatus
  <2>1. sync' \in SyncStatuses
    BY <1>0, <1>21 DEF UpdateSyncStatus, SyncStatusFromResult, Typed, SyncStatuses, historyVars
  <2> QED
    BY <1>0, <1>21, <2>1, Records, NextCommandType DEF UpdateSyncStatus, Typed, historyVars
<1>22. CASE XrayDies \/ SelfHeal
  <2>1. xray' \in Process
    BY <1>0, <1>1, <1>22 DEF XrayDies, SelfHeal, Process
  <2> QED
    BY <1>0, <1>2, <1>22, <2>1 DEF XrayDies, SelfHeal, Typed, historyVars
<1>23. CASE AgentRestarts
  <2>1. beat' \in Beat /\ xray' \in Process
    BY <1>0, <1>23 DEF AgentRestarts, Beat, Process
  <2>2. result' \in Result /\ agent' \in Agent
    BY <1>0, <1>23, Records DEF AgentRestarts
  <2> QED
    BY <1>0, <1>2, <1>23, <2>1, <2>2 DEF AgentRestarts, Typed, historyVars
<1>24. CASE PanelRestarts
  <2>1. agent' \in Agent
    BY <1>0, <1>24, NextCommandType DEF PanelRestarts
  <2> QED
    BY <1>0, <1>2, <1>24, <2>1, Records DEF PanelRestarts, Typed, historyVars
<1>25. CASE UNCHANGED nodeSyncVars
  BY <1>0, <1>25 DEF nodeSyncVars, Typed, historyVars
<1>26. CASE AnswerHeartbeat
  BY <1>0, <1>26, HeartbeatAnswered, Records DEF AnswerHeartbeat, Typed, historyVars
<1> QED
  BY <1>4, <1>5, <1>6, <1>7, <1>8, <1>9, <1>10, <1>11, <1>12, <1>13, <1>14, <1>15, <1>16, <1>17, <1>18,
     <1>19, <1>20, <1>21, <1>22, <1>23, <1>24, <1>25, <1>26 DEF NodeSyncNext, PanelStep, AgentStep, AgentLoop, FaultStep

\* A step that changes fields of the tracker other than its commands and events
LEMMA SoundAged ==
    ASSUME Sound(tracker), agent' = agent, NEW k \in SUBSET Types, NEW o \in SUBSET Ids,
           tracker' = [tracker EXCEPT !.cooling = k] \/ tracker' = [tracker EXCEPT !.old = o]
    PROVE  Sound(tracker)'
<1>1. tracker \in Tracker
  BY DEF Sound, Fits
<1>2. /\ tracker' \in Tracker /\ tracker'.pending = tracker.pending
      /\ tracker'.inflight = tracker.inflight /\ tracker'.events = tracker.events
  BY <1>1 DEF Tracker
<1>3. Fits(tracker') /\ Commands(tracker') = Commands(tracker)
  BY <1>2 DEF Sound, Fits, Commands
<1> QED
  BY <1>3 DEF Sound

LEMMA SoundStep ==
    ASSUME SyncInv, IdLeft, IdLeft', [NodeSyncNext]_nodeSyncVars
    PROVE  Sound(tracker)'
<1>0. /\ Sound(tracker) /\ tracker \in Tracker /\ agent \in Agent /\ Fits(tracker)
      /\ tracker.cooling \subseteq Types /\ tracker.old \subseteq Ids
  BY DEF SyncInv, Sound, Fits, Typed, Tracker
<1>1. Sound(Prune(tracker)) /\ FreeIds(Prune(tracker)) # {}
  BY <1>0, SoundPrune DEF IdLeft
<1>2. CASE QueueNodeConfigSync \/ RevokeAccess
  <2>1. tracker' = SyncAndRestart(Prune(tracker)) /\ agent' = agent /\ result' = result
    BY <1>2 DEF QueueNodeConfigSync, RevokeAccess
  <2>2. FreeIds(SyncAndRestart(Prune(tracker))) # {}
    BY <2>1, IdsStay
  <2>3. Sound(SyncAndRestart(Prune(tracker)))
    BY <1>1, <2>2, SoundSyncAndRestart
  <2> QED
    BY <2>1, <2>3, SoundBecomes
<1>3. CASE \E type \in Types : CooldownOver(type)
  <2>1. PICK type \in Types : /\ tracker' = [tracker EXCEPT !.cooling = tracker.cooling \ {type}]
                              /\ agent' = agent
    BY <1>3 DEF CooldownOver
  <2>2. tracker.cooling \ {type} \in SUBSET Types
    BY <1>0
  <2> QED
    BY <1>0, <2>1, <2>2, SoundAged
<1>4. CASE \E id \in Ids : InflightAges(id)
  <2>1. PICK id \in Ids : /\ tracker' = [tracker EXCEPT !.old = tracker.old \cup {id}]
                          /\ agent' = agent
    BY <1>4 DEF InflightAges
  <2>2. tracker.old \cup {id} \in SUBSET Ids
    BY <1>0
  <2> QED
    BY <1>0, <2>1, <2>2, SoundAged
<1>5. CASE PendingAge
  <2> DEFINE o == tracker.old \cup {c.id : c \in Range(tracker.pending)}
  <2>1. tracker' = [tracker EXCEPT !.old = o] /\ agent' = agent
    BY <1>5 DEF PendingAge
  <2>2. o \in SUBSET Ids
    <3>1. Range(tracker.pending) \subseteq Command
      BY <1>0, CommandsType DEF Commands
    <3> QED
      BY <1>0, <3>1 DEF Command
  <2> HIDE DEF o
  <2> QED
    BY <1>0, <2>1, <2>2, SoundAged
<1>6. CASE NodeRecovered
  <2>1. tracker' = Queue(Prune(tracker), "config_sync") /\ agent' = agent
    BY <1>6 DEF NodeRecovered
  <2> QED
    BY <1>1, <2>1, SoundQueue, SoundBecomes DEF Types
<1>7. CASE Heartbeat
  <2>1. CASE xray.running
    <3>1. tracker' = MarkCommandRecovered(tracker, "xray_start") /\ agent' = agent
      BY <1>7, <2>1 DEF Heartbeat
    <3>2. Sound(MarkCommandRecovered(tracker, "xray_start"))
      BY <1>0, RecoveredType, SoundLess
    <3> QED
      BY <3>1, <3>2, SoundBecomes
  <2>2. CASE ~xray.running
    <3>1. tracker' = Queue(Prune(tracker), "xray_start") /\ agent' = agent
      BY <1>7, <2>2 DEF Heartbeat
    <3> QED
      BY <1>1, <3>1, SoundQueue, SoundBecomes DEF Types
  <2> QED
    BY <2>1, <2>2
<1>8. CASE AnswerNobody
  <2> DEFINE t == PendingSync(Prune(tracker))
  <2>1. tracker' = TakePending(t) /\ agent' = agent /\ result' = result
    BY <1>8 DEF AnswerNobody
  <2>2. Sound(t) \/ FreeIds(t) = {}
    BY <1>1, SoundPendingSync
  <2> HIDE DEF t
  <2>3. KnownIds(t) \subseteq KnownIds(tracker')
    BY <2>1 DEF KnownIds, TakePending, Range
  <2>4. FreeIds(t) # {}
    BY <2>1, <2>3 DEF IdLeft, FreeIds
  <2>5. Sound(t) /\ Fits(TakePending(t)) /\ Commands(TakePending(t)) = Commands(t)
    BY <2>2, <2>4, TakePendingType DEF Sound
  <2> QED
    BY <2>1, <2>5 DEF Sound
<1>9. CASE CompleteInflightCommand
  <2>1. tracker' = Complete(tracker, result.id) /\ agent' = agent
    BY <1>9 DEF CompleteInflightCommand
  <2>2. Sound(Complete(tracker, result.id))
    BY <1>0, CompleteType, SoundLess
  <2> QED
    BY <2>1, <2>2, SoundBecomes
<1>10. CASE PanelRestarts
  <2>1. tracker' = NewTracker /\ Range(agent'.cmds) \subseteq Range(agent.cmds)
    BY <1>0, <1>10, NextCommandType DEF PanelRestarts
  <2>2. <<>> \in Seq(Command) /\ <<>> \in Seq(0..MaxIds) /\ Len(<<>>) = 0
    OBVIOUS
  <2>3. tracker' \in Tracker /\ tracker'.pending = <<>> /\ tracker'.inflight = {} /\ tracker'.events = <<>>
    BY <2>1, <2>2 DEF NewTracker, Tracker
  <2>4. Fits(tracker')
    BY <2>2, <2>3, NodeSyncAssumption DEF Fits
  <2>5. Commands(tracker') = {}
    BY <2>3 DEF Commands, Range
  <2> QED
    BY <1>0, <2>1, <2>4, <2>5 DEF Sound, Distinct
<1>11. CASE ReportLost \/ UpdateSyncStatus
  BY <1>0, <1>11, NextCommandType, SoundStays DEF ReportLost, UpdateSyncStatus
<1>12. CASE AgentRestarts
  <2>1. Range(agent'.cmds) = {} /\ tracker' = tracker
    BY <1>12, Records DEF AgentRestarts, Range
  <2> QED
    BY <1>0, <2>1, SoundStays
<1>13. CASE FetchConfig \/ UpdateConfig \/ RestartOrEnsure \/ ConfigSyncFails
  <2>1. agent'.cmds = agent.cmds /\ tracker' = tracker
    BY <1>0, <1>13 DEF FetchConfig, UpdateConfig, RestartOrEnsure, ConfigSyncFails, Agent
  <2> QED
    BY <1>0, <2>1, SoundStays
<1>14. CASE \/ SaveChange \/ MarkSyncPending \/ HeartbeatTimesOut \/ ExecuteXrayRestart
            \/ ExecuteXrayStart \/ ExecuteXrayFails \/ XrayDies \/ SelfHeal \/ UNCHANGED nodeSyncVars
  <2>1. agent' = agent /\ tracker' = tracker
    BY <1>14 DEF SaveChange, MarkSyncPending, HeartbeatTimesOut, ExecuteXrayRestart, ExecuteXrayStart,
                 ExecuteXrayFails, XrayDies, SelfHeal, nodeSyncVars
  <2> QED
    BY <1>0, <2>1, SoundStays
<1>15. CASE AnswerHeartbeat
  BY <1>15, HeartbeatAnswered
<1> QED
  BY <1>2, <1>3, <1>4, <1>5, <1>6, <1>7, <1>8, <1>9, <1>10, <1>11, <1>12, <1>13, <1>14, <1>15
     DEF NodeSyncNext, PanelStep, AgentStep, AgentLoop, FaultStep

LEMMA PhaseStep ==
    ASSUME SyncInv, IdLeft, IdLeft', [NodeSyncNext]_nodeSyncVars
    PROVE  Phase'
<1>0. Phase /\ agent \in Agent /\ result \in Result /\ beat \in Beat
  BY DEF SyncInv, Typed
<1>1. CASE \/ SaveChange \/ MarkSyncPending \/ QueueNodeConfigSync \/ RevokeAccess \/ PendingAge \/ NodeRecovered
           \/ \E type \in Types : CooldownOver(type)
           \/ \E id \in Ids : InflightAges(id)
           \/ XrayDies \/ SelfHeal \/ UNCHANGED nodeSyncVars
  <2>1. UNCHANGED <<agent, result, beat>>
    BY <1>1 DEF SaveChange, MarkSyncPending, QueueNodeConfigSync, RevokeAccess, PendingAge, NodeRecovered,
                CooldownOver, InflightAges, XrayDies, SelfHeal, nodeSyncVars
  <2> QED
    BY <1>0, <2>1 DEF Phase, HeadSync
<1>2. CASE Heartbeat
  BY <1>0, <1>2 DEF Heartbeat, AgentFree, Phase, HeadSync
<1>3. CASE HeartbeatTimesOut \/ AnswerNobody
  <2>1. beat'.client = FALSE /\ UNCHANGED <<agent, result>>
    BY <1>0, <1>3, Records DEF HeartbeatTimesOut, AnswerNobody, Beat
  <2> QED
    BY <1>0, <2>1 DEF Phase, HeadSync
<1>4. CASE AnswerHeartbeat
  <2>1. beat'.client = FALSE /\ result' = result /\ agent'.step = agent.step
    BY <1>4, Records, HeartbeatAnswered DEF AnswerHeartbeat
  <2>2. agent.step = "idle" /\ result.at = "idle"
    BY <1>0, <1>4 DEF AnswerHeartbeat, Phase, HeadSync, Agent
  <2> QED
    BY <2>1, <2>2 DEF Phase
<1>5. CASE FetchConfig \/ UpdateConfig
  <2>1. agent'.cmds = agent.cmds /\ result' = result /\ beat' = beat
    BY <1>0, <1>5 DEF FetchConfig, UpdateConfig, Agent
  <2>2. HeadSync /\ result.at = "idle"
    BY <1>0, <1>5 DEF FetchConfig, UpdateConfig, Executing, Phase, HeadSync
  <2> QED
    BY <1>0, <2>1, <2>2 DEF Phase, HeadSync
<1>6. CASE \/ RestartOrEnsure \/ ConfigSyncFails \/ ExecuteXrayRestart \/ ExecuteXrayStart
           \/ ExecuteXrayFails
  <2>1. agent.cmds # <<>> /\ beat' = beat /\ agent'.cmds = agent.cmds
    BY <1>0, <1>6 DEF RestartOrEnsure, ConfigSyncFails, ExecuteXrayRestart, ExecuteXrayStart,
                      ExecuteXrayFails, Executing, Phase, HeadSync, Agent
  <2>2. agent'.step = "idle"
    <3>1. CASE RestartOrEnsure \/ ConfigSyncFails
      BY <1>0, <3>1 DEF RestartOrEnsure, ConfigSyncFails, Agent
    <3>2. CASE ExecuteXrayRestart \/ ExecuteXrayStart \/ ExecuteXrayFails
      <4>1. agent' = agent /\ ~HeadSync
        BY <3>2 DEF ExecuteXrayRestart, ExecuteXrayStart, ExecuteXrayFails, Executing, HeadSync
      <4> QED
        BY <1>0, <4>1 DEF Phase
    <3> QED
      BY <1>6, <3>1, <3>2
  <2>3. PICK ok \in BOOLEAN : result' = Reported(ok)
    BY <1>6 DEF RestartOrEnsure, ConfigSyncFails, ExecuteXrayRestart, ExecuteXrayStart, ExecuteXrayFails
  <2>4. result'.at = "sent" /\ result'.id = Head(agent.cmds).id
    BY <1>0, <2>1, <2>3, ReportedType
  <2>5. ~beat.client
    BY <1>0, <2>1 DEF Phase
  <2> QED
    BY <2>1, <2>2, <2>4, <2>5 DEF Phase
<1>7. CASE ReportLost \/ UpdateSyncStatus
  <2>1. result'.at = "idle" /\ agent' = NextCommand /\ beat' = beat /\ result.at # "idle"
    BY <1>7, Records DEF ReportLost, UpdateSyncStatus
  <2>2. agent.step = "idle" /\ ~beat.client
    BY <1>0, <2>1 DEF Phase
  <2>3. agent'.step = "idle"
    BY <1>0, <2>1, <2>2, NextCommandType
  <2> QED
    BY <2>1, <2>2, <2>3 DEF Phase
<1>8. CASE CompleteInflightCommand
  <2>1. result'.at = "completed" /\ agent' = agent /\ beat' = beat
    BY <1>0, <1>8 DEF CompleteInflightCommand, Result
  <2>2. agent.step = "idle" /\ ~beat.client
    BY <1>0, <1>8 DEF CompleteInflightCommand, Phase
  <2> QED
    BY <2>1, <2>2 DEF Phase
<1>9. CASE AgentRestarts
  <2>1. agent'.step = "idle" /\ beat'.client = FALSE /\ result'.at # "sent"
    BY <1>0, <1>9, Records DEF AgentRestarts, Beat, Result
  <2> QED
    BY <2>1 DEF Phase
<1>10. CASE PanelRestarts
  <2>1. beat'.client = FALSE /\ result'.at = "idle"
    BY <1>10, Records DEF PanelRestarts
  <2>2. CASE result.at = "idle"
    BY <1>0, <1>10, <2>1, <2>2 DEF PanelRestarts, Phase, HeadSync
  <2>3. CASE result.at # "idle"
    <3>1. agent' = NextCommand /\ agent.step = "idle"
      BY <1>0, <1>10, <2>3 DEF PanelRestarts, Phase
    <3>2. agent'.step = "idle"
      BY <1>0, <3>1, NextCommandType
    <3> QED
      BY <2>1, <3>2 DEF Phase
  <2> QED
    BY <2>2, <2>3
<1> QED
  BY <1>1, <1>2, <1>3, <1>4, <1>5, <1>6, <1>7, <1>8, <1>9, <1>10 DEF NodeSyncNext, PanelStep, AgentStep, AgentLoop, FaultStep

LEMMA FlagsStep ==
    ASSUME Flags, [NodeSyncNext]_nodeSyncVars
    PROVE  Flags'
<1>1. CASE MarkSyncPending
  <2>1. overtaken' = Syncing /\ early' = early
    BY <1>1 DEF MarkSyncPending
  <2>2. Syncing \in BOOLEAN
    BY DEF Syncing
  <2> QED
    BY <2>1, <2>2 DEF Flags
<1>2. CASE FetchConfig
  <2>1. early' = FALSE /\ overtaken' = overtaken
    BY <1>2 DEF FetchConfig
  <2> QED
    BY <2>1 DEF Flags
<1>3. CASE SelfHeal
  <2>1. early' \in BOOLEAN /\ overtaken' = overtaken
    BY <1>3 DEF SelfHeal
  <2> QED
    BY <2>1 DEF Flags
<1>4. CASE \/ SaveChange \/ QueueNodeConfigSync \/ RevokeAccess \/ PendingAge \/ NodeRecovered
           \/ \E type \in Types : CooldownOver(type)
           \/ \E id \in Ids : InflightAges(id)
           \/ Heartbeat \/ AnswerHeartbeat \/ HeartbeatTimesOut \/ AnswerNobody
           \/ UpdateConfig \/ RestartOrEnsure \/ ConfigSyncFails
           \/ ExecuteXrayRestart \/ ExecuteXrayStart \/ ExecuteXrayFails
           \/ ReportLost \/ CompleteInflightCommand \/ UpdateSyncStatus
           \/ XrayDies \/ AgentRestarts \/ PanelRestarts \/ UNCHANGED nodeSyncVars
  <2>1. overtaken' = overtaken /\ early' = early
    BY <1>4 DEF SaveChange, QueueNodeConfigSync, RevokeAccess, PendingAge, NodeRecovered,
                CooldownOver, InflightAges, Heartbeat, AnswerHeartbeat, HeartbeatTimesOut, AnswerNobody,
                UpdateConfig, RestartOrEnsure, ConfigSyncFails, ExecuteXrayRestart, ExecuteXrayStart,
                ExecuteXrayFails, ReportLost, CompleteInflightCommand, UpdateSyncStatus, XrayDies,
                AgentRestarts, PanelRestarts, nodeSyncVars, historyVars
  <2> QED
    BY <2>1 DEF Flags
<1> QED
  BY <1>1, <1>2, <1>3, <1>4 DEF NodeSyncNext, PanelStep, AgentStep, AgentLoop, FaultStep

LEMMA SyncStep == SyncInv /\ IdLeft /\ IdLeft' /\ [NodeSyncNext]_nodeSyncVars => SyncInv'
  BY TypedStep, SoundStep, PhaseStep, FlagsStep DEF SyncInv

(***************************************************************************)
(* As long as a new command finds an id, the tracker never holds more       *)
(* events than it may, two commands never share an id, and everything the   *)
(* handlers and the agent read is well typed (queueCommand, pruneLocked,    *)
(* CompleteInflightCommand).                                                *)
(***************************************************************************)
THEOREM NodeSyncTypeCorrect == NodeSyncSpec /\ []IdLeft => []NodeSyncTypeOK
<1>1. SyncInv /\ IdLeft => NodeSyncTypeOK
  <2> SUFFICES ASSUME SyncInv, IdLeft PROVE NodeSyncTypeOK
    OBVIOUS
  <2>1. Typed /\ tracker \in Tracker /\ Len(tracker.events) <= MaxEvents /\ agent \in Agent
    BY DEF SyncInv, Sound, Fits, Typed
  <2>2. /\ tracker.pending \in Seq(Command) /\ tracker.inflight \subseteq Command
        /\ tracker.cooling \subseteq Types /\ tracker.events \in Seq(0..MaxIds) /\ tracker.old \subseteq Ids
    BY <2>1 DEF Tracker
  <2>3. /\ agent.cmds \in Seq(Command)
        /\ [agent EXCEPT !.cmds = <<>>] \in
              [cmds : {<<>>}, step : {"idle", "fetched", "written"}, got : Version, wasRunning : BOOLEAN]
    BY <2>1 DEF Agent
  <2> QED
    BY <2>1, <2>2, <2>3 DEF NodeSyncTypeOK, SyncInv, Flags, Typed, Beat, Result, Process, SyncStatuses, IdLeft
<1> QED
  BY <1>1, SyncInit, SyncStep, PTL DEF NodeSyncSpec

-----------------------------------------------------------------------------
(***************************************************************************)
(* What a successful config_sync means                                      *)
(***************************************************************************)

\* From the moment the file is written until the success is reported, the file has
\* what was fetched, and a process that runs has loaded the file, is about to be
\* restarted, or was started too early; the last is known before the file is written
Loads ==
    /\ agent.step = "fetched" /\ xray.systemd /\ xray.running /\ ~agent.wasRunning => early
    /\ agent.step = "written" =>
          /\ disk = agent.got
          /\ xray.running => xray.loaded = disk \/ (xray.systemd /\ agent.wasRunning) \/ early
    /\ result.at = "sent" /\ result.ok /\ HeadSync =>
          disk = agent.got /\ (xray.running => xray.loaded = disk \/ early)

LEMMA LoadsStep == SyncInv /\ Loads /\ [NodeSyncNext]_nodeSyncVars => Loads'
<1> SUFFICES ASSUME SyncInv, Loads, [NodeSyncNext]_nodeSyncVars PROVE Loads'
  OBVIOUS
<1>0. Phase /\ agent \in Agent /\ result \in Result /\ xray \in Process /\ disk \in Version
  BY DEF SyncInv, Typed
<1>1. Started.running = TRUE /\ Started.loaded = disk /\ Started.systemd = xray.systemd
  BY <1>0 DEF Started, Process
<1>2. CASE \/ SaveChange \/ MarkSyncPending \/ QueueNodeConfigSync \/ RevokeAccess \/ PendingAge \/ NodeRecovered
           \/ \E type \in Types : CooldownOver(type)
           \/ \E id \in Ids : InflightAges(id)
           \/ Heartbeat \/ HeartbeatTimesOut \/ AnswerNobody \/ UNCHANGED nodeSyncVars
  <2>1. UNCHANGED <<agent, result, disk, xray>> /\ early' = early
    BY <1>2 DEF SaveChange, MarkSyncPending, QueueNodeConfigSync, RevokeAccess, PendingAge, NodeRecovered,
                CooldownOver, InflightAges, Heartbeat, HeartbeatTimesOut, AnswerNobody, nodeSyncVars, historyVars
  <2> QED
    BY <2>1 DEF Loads, HeadSync
<1>3. CASE XrayDies
  <2>1. UNCHANGED <<agent, result, disk>> /\ xray'.running = FALSE
    BY <1>0, <1>3 DEF XrayDies, Process
  <2> QED
    BY <2>1 DEF Loads, HeadSync
<1>13. CASE SelfHeal
  <2>1. /\ UNCHANGED <<agent, result, disk>> /\ xray'.loaded = disk /\ xray'.systemd = xray.systemd
        /\ agent.step = "fetched" /\ xray.systemd /\ ~agent.wasRunning => early'
    BY <1>0, <1>1, <1>13 DEF SelfHeal
  <2> QED
    BY <2>1 DEF Loads, HeadSync
<1>4. CASE AnswerHeartbeat
  <2>1. agent'.step = agent.step /\ result' = result
    BY <1>0, <1>4 DEF AnswerHeartbeat, Agent
  <2>2. agent.step = "idle" /\ result.at = "idle"
    BY <1>0, <1>4 DEF AnswerHeartbeat, Phase, HeadSync, Agent
  <2> QED
    BY <2>1, <2>2 DEF Loads
<1>5. CASE FetchConfig
  <2>1. agent'.step = "fetched" /\ result'.at = "idle" /\ xray' = xray /\ agent'.wasRunning = xray.running
    BY <1>0, <1>5 DEF FetchConfig, Executing, Agent
  <2> QED
    BY <2>1 DEF Loads
<1>6. CASE UpdateConfig
  <2>1. /\ agent'.got = agent.got /\ disk' = agent.got /\ agent'.step = "written"
        /\ agent'.wasRunning = agent.wasRunning /\ result' = result /\ result.at = "idle"
    BY <1>0, <1>6 DEF UpdateConfig, Agent, Phase
  <2>2. xray'.running => \/ xray'.loaded = agent.got
                         \/ xray.systemd /\ xray.running /\ xray' = xray
    BY <1>0, <1>6 DEF UpdateConfig, Process
  <2>3. early' = early /\ agent.step = "fetched"
    BY <1>6 DEF UpdateConfig, historyVars
  <2> QED
    BY <2>1, <2>2, <2>3 DEF Loads
<1>7. CASE RestartOrEnsure
  <2>1. agent'.got = agent.got /\ disk' = disk /\ disk = agent.got /\ agent'.step = "idle"
    BY <1>0, <1>7 DEF RestartOrEnsure, Agent, Loads
  <2>2. xray'.loaded = disk \/ early
    BY <1>0, <1>1, <1>7 DEF RestartOrEnsure, Loads
  <2>3. early' = early
    BY <1>7 DEF RestartOrEnsure, historyVars
  <2> QED
    BY <2>1, <2>2, <2>3 DEF Loads
<1>8. CASE ConfigSyncFails
  <2>1. agent.cmds # <<>> /\ agent'.step = "idle" /\ result' = Reported(FALSE)
    BY <1>0, <1>8 DEF ConfigSyncFails, Executing, Agent
  <2>2. result'.ok = FALSE
    BY <1>0, <2>1, ReportedType
  <2> QED
    BY <2>1, <2>2 DEF Loads
<1>9. CASE ExecuteXrayRestart \/ ExecuteXrayStart \/ ExecuteXrayFails
  <2>1. agent' = agent /\ ~HeadSync
    BY <1>9 DEF ExecuteXrayRestart, ExecuteXrayStart, ExecuteXrayFails, Executing, HeadSync
  <2>2. ~HeadSync' /\ agent'.step = "idle"
    BY <1>0, <2>1 DEF Phase, HeadSync
  <2> QED
    BY <2>2 DEF Loads
<1>10. CASE ReportLost \/ UpdateSyncStatus \/ CompleteInflightCommand
  <2>1. result'.at # "sent" /\ (agent' = NextCommand \/ agent' = agent) /\ result.at # "idle"
    BY <1>0, <1>10, Records DEF ReportLost, UpdateSyncStatus, CompleteInflightCommand, Result
  <2>2. agent'.step = "idle"
    BY <1>0, <2>1, NextCommandType DEF Phase
  <2> QED
    BY <2>1, <2>2 DEF Loads
<1>11. CASE AgentRestarts
  <2>1. agent'.step = "idle" /\ result'.at # "sent"
    BY <1>0, <1>11, Records DEF AgentRestarts, Result
  <2> QED
    BY <2>1 DEF Loads
<1>12. CASE PanelRestarts
  <2>1. result'.at = "idle" /\ UNCHANGED <<disk, xray>> /\ early' = early
    BY <1>12, Records DEF PanelRestarts, historyVars
  <2>2. CASE result.at = "idle"
    BY <1>12, <2>1, <2>2 DEF PanelRestarts, Loads
  <2>3. CASE result.at # "idle"
    <3>1. agent'.step = "idle"
      BY <1>0, <1>12, <2>3, NextCommandType DEF PanelRestarts, Phase
    <3> QED
      BY <2>1, <3>1 DEF Loads
  <2> QED
    BY <2>2, <2>3
<1> QED
  BY <1>2, <1>3, <1>4, <1>5, <1>6, <1>7, <1>8, <1>9, <1>10, <1>11, <1>12, <1>13
     DEF NodeSyncNext, PanelStep, AgentStep, AgentLoop, FaultStep

(***************************************************************************)
(* A config_sync that reports success has put what it fetched into the      *)
(* running process, whatever crashes of the process, self-heals and other   *)
(* commands came in between, and whether Xray is the agent's child or a     *)
(* systemd service, which must not have been started between the fetch and  *)
(* the write (executeConfigSync, UpdateConfig, triggerXraySelfHeal).        *)
(***************************************************************************)
THEOREM SuccessLoadsConfig == NodeSyncSpec /\ []IdLeft => []SuccessMeansLoaded
<1>1. NodeSyncInit => SyncInv /\ Loads
  BY SyncInit, Records DEF NodeSyncInit, Loads
<1>2. SyncInv /\ Loads /\ IdLeft /\ IdLeft' /\ [NodeSyncNext]_nodeSyncVars => SyncInv' /\ Loads'
  BY SyncStep, LoadsStep
<1>3. SyncInv /\ Loads => SuccessMeansLoaded
  <2> SUFFICES ASSUME SyncInv, Loads, result.at = "sent", result.ok, xray.running,
                      Head(agent.cmds).type = "config_sync"
               PROVE  xray.loaded >= agent.got \/ early
    BY DEF SuccessMeansLoaded
  <2>1. HeadSync /\ disk \in Version
    BY DEF SyncInv, Phase, HeadSync, Typed
  <2>2. (xray.loaded = agent.got \/ early) /\ disk = agent.got /\ agent.got \in Nat
    BY <2>1 DEF Loads, Version
  <2> QED
    BY <2>2
<1> QED
  BY <1>1, <1>2, <1>3, PTL DEF NodeSyncSpec

-----------------------------------------------------------------------------
(***************************************************************************)
(* What a synced node has                                                   *)
(***************************************************************************)

\* The file has what was marked, unless that was marked between fetch and result
Written == owed <= disk \/ overtaken

\* What was fetched, and the file that a success stands for until the row is
\* settled, have the newest change that was marked before the fetch
Settles ==
    /\ owed <= desired
    /\ agent.step # "idle" => owed <= agent.got \/ overtaken
    /\ agent.step = "written" => Written
    /\ result.at = "sent" /\ result.ok /\ HeadSync => Written
    /\ result.at = "completed" /\ result.ok /\ result.type = "config_sync" => Written
    /\ sync = "synced" => Written

\* A result settles the command it was reported for
LEMMA CompletedIsHead ==
    ASSUME SyncInv, result.at = "sent", CompletedType(tracker, result.id) = "config_sync"
    PROVE  HeadSync
<1>1. Sound(tracker) /\ Fits(tracker) /\ agent \in Agent
      /\ agent.cmds # <<>> /\ result.id = Head(agent.cmds).id
  BY DEF SyncInv, Sound, Typed, Phase
<1>2. PICK c \in tracker.inflight : c.id = result.id /\ c.type = "config_sync"
  <2> DEFINE type == CompletedType(tracker, result.id)
  <2>1. type = "config_sync" /\ type # ""
    OBVIOUS
  <2> HIDE DEF type
  <2>2. \E c \in tracker.inflight : c.id = result.id /\ c.type = type
    BY <1>1, <2>1, CompletedTypeType DEF type
  <2> QED
    BY <2>1, <2>2
<1>3. Head(agent.cmds) \in Range(agent.cmds)
  BY <1>1, HeadType
<1>4. c = Head(agent.cmds)
  BY <1>1, <1>2, <1>3 DEF Sound, Distinct, Commands
<1> QED
  BY <1>1, <1>2, <1>4 DEF HeadSync

LEMMA SettlesStep == SyncInv /\ Settles /\ [NodeSyncNext]_nodeSyncVars => Settles'
<1> SUFFICES ASSUME SyncInv, Settles, [NodeSyncNext]_nodeSyncVars PROVE Settles'
  OBVIOUS
<1>0. /\ Phase /\ agent \in Agent /\ result \in Result
      /\ disk \in Nat /\ desired \in Nat /\ owed \in Nat
  BY NodeSyncAssumption DEF SyncInv, Typed, Version
<1>1. CASE SaveChange \/ RevokeAccess
  <2>1. /\ desired' = desired + 1 /\ UNCHANGED <<agent, result, disk, sync, owed>>
        /\ overtaken' = overtaken
    BY <1>1 DEF SaveChange, RevokeAccess, historyVars
  <2> QED
    BY <1>0, <2>1 DEF Settles, HeadSync, Written
<1>2. CASE MarkSyncPending
  <2>1. sync' = "pending" /\ owed' = desired /\ UNCHANGED <<agent, result, disk, desired>>
    BY <1>2 DEF MarkSyncPending
  <2>2. overtaken' = Syncing
    BY <1>2 DEF MarkSyncPending
  <2>3. Syncing => Written'
    BY <2>2 DEF Written
  <2>4. /\ agent.step # "idle" => Syncing /\ overtaken'
        /\ result.at = "sent" /\ HeadSync => Syncing
        /\ result.at = "completed" /\ result.type = "config_sync" => Syncing
    BY <2>2 DEF Syncing, HeadSync
  <2> QED
    BY <1>0, <2>1, <2>3, <2>4 DEF Settles, HeadSync
<1>3. CASE \/ QueueNodeConfigSync \/ PendingAge \/ NodeRecovered
           \/ \E type \in Types : CooldownOver(type)
           \/ \E id \in Ids : InflightAges(id)
           \/ Heartbeat \/ HeartbeatTimesOut \/ AnswerNobody \/ XrayDies \/ SelfHeal
           \/ UNCHANGED nodeSyncVars
  <2>1. UNCHANGED <<agent, result, disk, desired, owed, sync>> /\ overtaken' = overtaken
    BY <1>3 DEF QueueNodeConfigSync, PendingAge, NodeRecovered, CooldownOver, InflightAges, Heartbeat,
                HeartbeatTimesOut, AnswerNobody, XrayDies, SelfHeal, nodeSyncVars, historyVars
  <2> QED
    BY <2>1 DEF Settles, HeadSync, Written
<1>4. CASE AnswerHeartbeat
  <2>1. agent'.step = "idle" /\ result'.at = "idle" /\ UNCHANGED <<disk, desired, owed, sync>> /\ overtaken' = overtaken
    BY <1>0, <1>4 DEF AnswerHeartbeat, Phase, HeadSync, Agent, historyVars
  <2> QED
    BY <2>1 DEF Settles, Written
<1>5. CASE FetchConfig
  <2>1. /\ agent'.step = "fetched" /\ agent'.got = desired /\ result'.at = "idle"
        /\ UNCHANGED <<disk, desired, owed, sync>> /\ overtaken' = overtaken
    BY <1>0, <1>5 DEF FetchConfig, Executing, Agent, historyVars
  <2> QED
    BY <2>1 DEF Settles, Written
<1>6. CASE UpdateConfig
  <2>1. /\ disk' = agent.got /\ agent'.got = agent.got /\ agent.step = "fetched" /\ result'.at = "idle"
        /\ UNCHANGED <<desired, owed, sync>> /\ overtaken' = overtaken
    BY <1>0, <1>6 DEF UpdateConfig, Agent, Settles, Phase, historyVars
  <2> QED
    BY <2>1 DEF Settles, Written
<1>7. CASE RestartOrEnsure
  <2>1. /\ agent'.step = "idle" /\ Written /\ HeadSync /\ result' = Reported(TRUE)
        /\ UNCHANGED <<disk, desired, owed, sync>> /\ overtaken' = overtaken
    BY <1>0, <1>7 DEF RestartOrEnsure, Agent, Settles, Phase, historyVars
  <2>2. result'.at = "sent"
    BY <1>0, <2>1, ReportedType DEF HeadSync
  <2> QED
    BY <2>1, <2>2 DEF Settles, Written
<1>8. CASE ConfigSyncFails
  <2>1. /\ agent.cmds # <<>> /\ agent'.step = "idle" /\ result' = Reported(FALSE)
        /\ UNCHANGED <<disk, desired, owed, sync>> /\ overtaken' = overtaken
    BY <1>0, <1>8 DEF ConfigSyncFails, Executing, Agent, historyVars
  <2>2. result'.ok = FALSE
    BY <1>0, <2>1, ReportedType
  <2> QED
    BY <2>1, <2>2 DEF Settles, Written
<1>9. CASE ExecuteXrayRestart \/ ExecuteXrayStart \/ ExecuteXrayFails
  <2>1. agent' = agent /\ agent.cmds # <<>> /\ ~HeadSync /\ UNCHANGED <<disk, desired, owed, sync>> /\ overtaken' = overtaken
    BY <1>9 DEF ExecuteXrayRestart, ExecuteXrayStart, ExecuteXrayFails, Executing, HeadSync, historyVars
  <2>2. ~HeadSync' /\ agent'.step = "idle"
    BY <1>0, <2>1 DEF Phase, HeadSync
  <2>3. PICK ok \in BOOLEAN : result' = Reported(ok)
    BY <1>9 DEF ExecuteXrayRestart, ExecuteXrayStart, ExecuteXrayFails
  <2>4. result'.at = "sent"
    BY <1>0, <2>1, <2>3, ReportedType
  <2> QED
    BY <2>1, <2>2, <2>4 DEF Settles, Written
<1>10. CASE ReportLost
  <2>1. result'.at = "idle" /\ agent' = NextCommand /\ UNCHANGED <<disk, desired, owed, sync>> /\ overtaken' = overtaken
    BY <1>10, Records DEF ReportLost, historyVars
  <2>2. agent'.step = "idle"
    BY <1>0, <1>10, <2>1, NextCommandType DEF ReportLost, Phase
  <2> QED
    BY <2>1, <2>2 DEF Settles, Written
<1>11. CASE CompleteInflightCommand
  <2>1. /\ result'.at = "completed" /\ result'.type = CompletedType(tracker, result.id)
        /\ result'.ok = result.ok /\ result.at = "sent"
        /\ UNCHANGED <<agent, disk, desired, owed, sync>> /\ overtaken' = overtaken
    BY <1>0, <1>11 DEF CompleteInflightCommand, Result, historyVars
  <2>2. result'.type = "config_sync" => HeadSync
    BY <2>1, CompletedIsHead
  <2> QED
    BY <2>1, <2>2 DEF Settles, Written
<1>12. CASE UpdateSyncStatus
  <2>1. /\ result.at = "completed" /\ result'.at = "idle" /\ agent' = NextCommand
        /\ sync' = SyncStatusFromResult /\ UNCHANGED <<disk, desired, owed>> /\ overtaken' = overtaken
    BY <1>12, Records DEF UpdateSyncStatus, historyVars
  <2>2. agent'.step = "idle"
    BY <1>0, <2>1, NextCommandType DEF Phase
  <2>3. sync' = "synced" => Written
    <3>1. CASE result.type # "config_sync"
      BY <2>1, <3>1 DEF SyncStatusFromResult, Settles
    <3>2. CASE result.type = "config_sync" /\ result.ok
      BY <2>1, <3>2 DEF Settles, Written
    <3>3. CASE result.type = "config_sync" /\ ~result.ok
      BY <2>1, <3>3 DEF SyncStatusFromResult
    <3> QED
      BY <3>1, <3>2, <3>3
  <2> QED
    BY <2>1, <2>2, <2>3 DEF Settles, Written
<1>13. CASE AgentRestarts
  <2>1. agent'.step = "idle" /\ UNCHANGED <<disk, desired, owed, sync>> /\ overtaken' = overtaken
    BY <1>13, Records DEF AgentRestarts, historyVars
  <2>2. result'.at = "idle" \/ (result' = result /\ result.at = "completed")
    BY <1>13, Records DEF AgentRestarts
  <2> QED
    BY <2>1, <2>2 DEF Settles, Written
<1>14. CASE PanelRestarts
  <2>1. result'.at = "idle" /\ UNCHANGED <<disk, desired, owed, sync>> /\ overtaken' = overtaken
    BY <1>14, Records DEF PanelRestarts, historyVars
  <2>2. CASE result.at = "idle"
    BY <1>14, <2>1, <2>2 DEF PanelRestarts, Settles, Written
  <2>3. CASE result.at # "idle"
    <3>1. agent'.step = "idle"
      BY <1>0, <1>14, <2>3, NextCommandType DEF PanelRestarts, Phase
    <3> QED
      BY <2>1, <3>1 DEF Settles, Written
  <2> QED
    BY <2>2, <2>3
<1> QED
  BY <1>1, <1>2, <1>3, <1>4, <1>5, <1>6, <1>7, <1>8, <1>9, <1>10, <1>11, <1>12, <1>13, <1>14
     DEF NodeSyncNext, PanelStep, AgentStep, AgentLoop, FaultStep

(***************************************************************************)
(* A node the panel shows as synced has every marked change in its config   *)
(* file: no lost, late or repeated result and no restart of agent or panel  *)
(* settles a change the file does not have, unless it was marked between    *)
(* the fetch of a configuration and the handling of that fetch's result     *)
(* (MarkSyncPending, ReportCommandResult, CompleteInflightCommand).         *)
(***************************************************************************)
THEOREM SyncedNodeHasChanges == NodeSyncSpec /\ []IdLeft => []SyncedMeansWritten
<1>1. NodeSyncInit => SyncInv /\ Settles
  BY SyncInit, Records DEF NodeSyncInit, Settles, Written
<1>2. SyncInv /\ Settles /\ IdLeft /\ IdLeft' /\ [NodeSyncNext]_nodeSyncVars => SyncInv' /\ Settles'
  BY SyncStep, SettlesStep
<1>3. Settles => SyncedMeansWritten
  BY DEF Settles, Written, SyncedMeansWritten
<1> QED
  BY <1>1, <1>2, <1>3, PTL DEF NodeSyncSpec
=============================================================================
