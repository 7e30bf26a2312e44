-------------------------- MODULE CertificatesProofs --------------------------
(***************************************************************************)
(* What is proved of Certificates, for any number of nodes, any life time   *)
(* of a certificate and any number of requests, restarts and failures: its  *)
(* types, and that a node whose deployment is shown as successful serves    *)
(* the stored certificate.                                                  *)
(***************************************************************************)
EXTENDS Certificates, FiniteSetTheorems, TLAPS

Renewal == [at : {"idle", "acme", "save"}, by : Callers, cert : Rows]
Application == [at : {"idle", "check", "issue", "save", "assign"}, cert : Rows,
                was : {"none", "active", "failed", "expired"}, nodes : SUBSET Nodes]
Handwork == [at : {"idle", "save", "assign"}, cert : Rows, new : BOOLEAN, nodes : SUBSET Nodes]
Deployment == [at : {"idle", "create", "mark", "ssh"}, latest : BOOLEAN]
Check == [at : {"idle", "dial", "confirm"}, leaf : Pair, latest : BOOLEAN,
          status : {"none", "pending", "failed"}]
Status == {"none", "pending", "failed", "success"}
SyncState == [status : {"pending", "failed", "synced"}, recent : BOOLEAN]
Config == [busy : BOOLEAN, pair : Pair]

StoreTyped ==
    /\ row \in Rows /\ file \in Pair /\ issued \in BOOLEAN /\ edit \in Rows
    /\ ren \in Renewal /\ app \in Application /\ man \in Handwork

DeployTyped ==
    /\ todo \subseteq Callers
    /\ task \in [Callers -> [Nodes -> Deployment]]
    /\ rec \in [Nodes -> Check]
    /\ uses \subseteq Nodes
    /\ dep \in [Nodes -> Status]

NodeTyped ==
    /\ sync \in [Nodes -> SyncState]
    /\ got \in [Nodes -> Config] /\ served \in [Nodes -> Pair]
    /\ retried \subseteq Nodes /\ missed \subseteq Nodes /\ events \in 0..MaxEvents

\* Whoever works on the certificate has a row in hand; one that is or will be active
\* has a pair in the directory; a node uses the certificate only when it has a row
Known ==
    /\ ren.at # "idle" => ren.cert \in Row
    /\ app.at # "idle" => app.cert \in Row
    /\ man.at # "idle" => man.cert \in Row
    /\ "active" \in {row.status, ren.cert.status, app.cert.status, app.was, man.cert.status, edit.status}
          => file.id # 0
    /\ ren.at = "save" \/ app.at = "save" => file.id # 0
    /\ row = NoRow => uses = {} /\ app.at \in {"idle", "check"} /\ man.at # "assign"

\* A node that works on a configuration has not reported
Unreported == \A n \in Nodes : got[n].busy => sync[n].status # "synced"

TypeInv == StoreTyped /\ DeployTyped /\ NodeTyped /\ Known /\ Unreported

-----------------------------------------------------------------------------
(***************************************************************************)
(* Constants and helpers                                                    *)
(***************************************************************************)

LEMMA Constants ==
    /\ Life \in Nat /\ Life > 0 /\ IsFiniteSet(Nodes) /\ Cardinality(Nodes) \in Nat /\ MaxEvents \in Nat
    /\ 0 \in 0..Life /\ Life \in 0..Life
<1>1. IsFiniteSet(Nodes) /\ Window \in Nat \ {0} /\ Life \in Nat /\ Window <= Life /\ MaxEvents \in Nat
  BY CertificatesAssumption
<1>2. Cardinality(Nodes) \in Nat
  BY <1>1, FS_CardinalityType
<1> QED
  BY <1>1, <1>2

LEMMA Nothing ==
    /\ NoPair \in Pair /\ NoPair.id = 0
    /\ NoRow \in Rows /\ NoRow \notin Row /\ NoRow.status = "none"
    /\ NoRenewal \in Renewal /\ NoRenewal.at = "idle" /\ NoRenewal.cert = NoRow
    /\ NoApplication \in Application /\ NoApplication.at = "idle" /\ NoApplication.cert = NoRow
    /\ NoApplication.was = "none" /\ NoApplication.nodes = {}
    /\ NoUpload \in Handwork /\ NoUpload.at = "idle" /\ NoUpload.cert = NoRow /\ NoUpload.nodes = {}
    /\ NoTask \in Deployment /\ NoTask.at = "idle" /\ NoTask.latest = FALSE
    /\ NoConfig \in Config /\ NoConfig.busy = FALSE
    /\ NoCheck \in Check /\ NoCheck.at = "idle"
<1>1. NoPair \in Pair /\ NoPair.id = 0
  BY Constants DEF NoPair, Pair
<1>2. NoRow \in Rows /\ NoRow \notin Row /\ NoRow.status = "none"
  BY DEF NoRow, Rows, Row
<1>3. NoRenewal \in Renewal /\ NoRenewal.at = "idle" /\ NoRenewal.cert = NoRow
  BY <1>2 DEF NoRenewal, Renewal, Callers
<1>4. /\ NoApplication \in Application /\ NoApplication.at = "idle" /\ NoApplication.cert = NoRow
      /\ NoApplication.was = "none" /\ NoApplication.nodes = {}
  BY <1>2 DEF NoApplication, Application
<1>5. NoUpload \in Handwork /\ NoUpload.at = "idle" /\ NoUpload.cert = NoRow /\ NoUpload.nodes = {}
  BY <1>2 DEF NoUpload, Handwork
<1>6. NoTask \in Deployment /\ NoTask.at = "idle" /\ NoTask.latest = FALSE
  BY DEF NoTask, Deployment
<1>7. NoConfig \in Config /\ NoConfig.busy = FALSE
  BY <1>1 DEF NoConfig, Config
<1>8. NoCheck \in Check /\ NoCheck.at = "idle"
  BY <1>1 DEF NoCheck, Check
<1> QED
  BY <1>1, <1>2, <1>3, <1>4, <1>5, <1>6, <1>7, <1>8

\* One value for each node: no more values than nodes
LEMMA OneEach ==
    ASSUME NEW f, NEW V, f \in [Nodes -> V]
    PROVE  LET T == {f[n] : n \in Nodes} IN IsFiniteSet(T) /\ Cardinality(T) <= Cardinality(Nodes)
<1> DEFINE T == {f[n] : n \in Nodes}
<1>1. f \in Surjection(Nodes, T)
  BY DEF Surjection
<1> QED
  BY <1>1, Constants, FS_Surjection

LEMMA UnionBound ==
    ASSUME NEW S, NEW T, IsFiniteSet(S), IsFiniteSet(T), NEW a \in Nat, NEW b \in Nat,
           Cardinality(S) <= a, Cardinality(T) <= b
    PROVE  IsFiniteSet(S \cup T) /\ Cardinality(S \cup T) <= a + b
<1>1. IsFiniteSet(S \cup T) /\ Cardinality(S \cup T) = Cardinality(S) + Cardinality(T) - Cardinality(S \cap T)
  BY FS_Union
<1>2. IsFiniteSet(S \cap T)
  BY FS_Intersection
<1>3. Cardinality(S) \in Nat /\ Cardinality(T) \in Nat /\ Cardinality(S \cap T) \in Nat
  BY <1>2, FS_CardinalityType
<1> QED
  BY <1>1, <1>3

\* There is always an id that nobody uses: as many pairs as three for each node are
\* known to nodes and checks
LEMMA NewPairType ==
    ASSUME DeployTyped, NodeTyped, NEW left \in 0..Life
    PROVE  /\ NewPair(left) \in Pair /\ NewPair(left).id # 0 /\ NewPair(left).left = left
           /\ NewPair(left).id \notin InUse
<1> DEFINE c == Cardinality(Nodes)
           f == [n \in Nodes |-> served[n].id]
           g == [n \in Nodes |-> got[n].pair.id]
           h == [n \in Nodes |-> rec[n].leaf.id]
           F == {f[n] : n \in Nodes}
           G == {g[n] : n \in Nodes}
           H == {h[n] : n \in Nodes}
           V == Ids \cup {0}
<1>1. f \in [Nodes -> V] /\ g \in [Nodes -> V] /\ h \in [Nodes -> V]
  BY DEF DeployTyped, NodeTyped, Check, Config, Pair
<1>2. InUse = (F \cup G) \cup H
  BY DEF InUse
<1>3. c \in Nat
  BY Constants
<1> HIDE DEF f, g, h, V, c
<1>4. IsFiniteSet(F) /\ Cardinality(F) <= c
  BY <1>1, OneEach DEF c
<1>5. IsFiniteSet(G) /\ Cardinality(G) <= c
  BY <1>1, OneEach DEF c
<1>6. IsFiniteSet(H) /\ Cardinality(H) <= c
  BY <1>1, OneEach DEF c
<1> HIDE DEF F, G, H
<1>7. IsFiniteSet(F \cup G) /\ Cardinality(F \cup G) <= c + c
  BY <1>3, <1>4, <1>5, UnionBound
<1>8. IsFiniteSet(InUse) /\ Cardinality(InUse) <= c + c + c
  <2>1. c + c \in Nat
    BY <1>3
  <2> QED
    BY <1>2, <1>3, <1>6, <1>7, <2>1, UnionBound
<1>9. IsFiniteSet(Ids) /\ Cardinality(Ids) = 3 * c + 1
  <2>1. Ids = 1..(3 * c + 1) /\ 1 \in Int /\ 3 * c + 1 \in Int /\ ~(1 > 3 * c + 1)
    BY <1>3 DEF Ids, c
  <2>2. Cardinality(1..(3 * c + 1)) = (3 * c + 1) - 1 + 1 /\ IsFiniteSet(1..(3 * c + 1))
    BY <2>1, FS_Interval
  <2> QED
    BY <1>3, <2>1, <2>2
<1>10. \E i \in Ids : i \notin InUse
  <2> SUFFICES ASSUME Ids \subseteq InUse PROVE FALSE
    OBVIOUS
  <2>1. Cardinality(Ids) <= Cardinality(InUse)
    BY <1>8, FS_Subset
  <2>2. Cardinality(InUse) \in Nat
    BY <1>8, FS_CardinalityType
  <2> QED
    BY <1>3, <1>8, <1>9, <2>1, <2>2
<1> DEFINE i == CHOOSE i \in Ids : i \notin InUse
<1>11. i \in Ids /\ i \notin InUse
  BY <1>10
<1>12. NewPair(left) = [id |-> i, left |-> left]
  BY DEF NewPair
<1> HIDE DEF i
<1>13. i # 0
  BY <1>3, <1>11 DEF Ids
<1> QED
  BY <1>11, <1>12, <1>13 DEF Pair

LEMMA ActiveType ==
    ASSUME NEW cert \in Row
    PROVE  Active(cert, Life) \in Row /\ Active(cert, Life).status = "active"
  BY Constants DEF Active, Row

LEMMA WithStatus ==
    ASSUME NEW cert \in Row, NEW s \in {"pending", "active", "failed", "expired"}
    PROVE  [cert EXCEPT !.status = s] \in Row /\ [cert EXCEPT !.status = s].status = s
  BY DEF Row

LEMMA SaveRowType ==
    ASSUME TypeInv, NEW cert \in Row, SaveRow(cert)
    PROVE  row' \in Rows /\ row' # NoRow /\ row'.status = cert.status /\ missed' \subseteq Nodes
  BY Nothing DEF SaveRow, TypeInv, DeployTyped, NodeTyped, Rows

\* A step that saves a row, or the row there is
LEMMA SaveOrKeepType ==
    ASSUME TypeInv, row \in Row, NEW new \in Row, NEW cert \in {new, row}, SaveRow(cert)
    PROVE  /\ row' \in Rows /\ row' # NoRow /\ missed' \subseteq Nodes
           /\ row'.status \in {new.status, row.status}
<1>1. cert \in Row
  OBVIOUS
<1> QED
  BY <1>1, SaveRowType

LEMMA EventType == ASSUME TypeInv, Event PROVE events' \in 0..MaxEvents
  BY Constants DEF Event, TypeInv, NodeTyped

\* A step that stores a pair or saves the row leaves deployments and nodes alone
LEMMA RestTyped ==
    ASSUME TypeInv, todo' \subseteq Callers, uses' \subseteq Nodes, missed' \subseteq Nodes,
           events' \in 0..MaxEvents, UNCHANGED <<task, rec, dep, nodeVars, retried>>
    PROVE  DeployTyped' /\ NodeTyped' /\ Unreported'
  BY DEF TypeInv, DeployTyped, NodeTyped, Unreported, nodeVars

LEMMA RestKept ==
    ASSUME TypeInv, missed' \subseteq Nodes, events' \in 0..MaxEvents, UNCHANGED <<deployVars, nodeVars, retried>>
    PROVE  DeployTyped' /\ NodeTyped' /\ Unreported'
<1>1. todo' \subseteq Callers /\ uses' \subseteq Nodes /\ UNCHANGED <<task, rec, dep>>
  BY DEF TypeInv, DeployTyped, deployVars
<1> QED
  BY <1>1, RestTyped

LEMMA BoundsTyped == ASSUME TypeInv PROVE missed \subseteq Nodes /\ uses \subseteq Nodes /\ events \in 0..MaxEvents
  BY DEF TypeInv, DeployTyped, NodeTyped

-----------------------------------------------------------------------------
(***************************************************************************)
(* Types: the steps that store a pair or save the row                       *)
(***************************************************************************)

LEMMA RenewStartTyped ==
    ASSUME TypeInv, NEW by \in Callers, RenewStart(by)
    PROVE  TypeInv'
<1>1. row # NoRow /\ row \in Row
  BY DEF RenewStart, TypeInv, StoreTyped, Rows
<1>2. ren' \in Renewal /\ ren'.cert = row /\ ren'.at = "acme"
  BY <1>1 DEF RenewStart, Renewal, Rows
<1>3. events' \in 0..MaxEvents
  BY EventType, BoundsTyped DEF RenewStart
<1>4. UNCHANGED <<row, file, issued, app, man, edit, deployVars, nodeVars, retried, missed>>
  BY DEF RenewStart
<1>5. DeployTyped' /\ NodeTyped' /\ Unreported'
  BY <1>3, <1>4, RestKept, BoundsTyped
<1>6. StoreTyped'
  BY <1>2, <1>4 DEF TypeInv, StoreTyped
<1>7. Known'
  BY <1>1, <1>2, <1>4 DEF TypeInv, Known, deployVars
<1> QED
  BY <1>5, <1>6, <1>7 DEF TypeInv

LEMMA RenewIssuedTyped == ASSUME TypeInv, RenewIssued PROVE TypeInv'
<1>1. ren.at = "acme" /\ ren.cert \in Row /\ ren \in Renewal
  BY DEF RenewIssued, TypeInv, Known, StoreTyped
<1>2. ren' \in Renewal /\ ren'.cert = ren.cert
  BY <1>1 DEF RenewIssued, Renewal
<1>3. file' \in Pair /\ file'.id # 0
  BY Constants, NewPairType DEF RenewIssued, TypeInv
<1>4. UNCHANGED <<row, issued, app, man, edit, deployVars, nodeVars, boundVars>>
  BY DEF RenewIssued
<1>5. DeployTyped' /\ NodeTyped' /\ Unreported'
  BY <1>4, RestKept, BoundsTyped DEF boundVars
<1>6. StoreTyped'
  BY <1>2, <1>3, <1>4 DEF TypeInv, StoreTyped
<1>7. Known'
  BY <1>1, <1>2, <1>3, <1>4 DEF TypeInv, Known, deployVars
<1> QED
  BY <1>5, <1>6, <1>7 DEF TypeInv

\* The row that is saved when a renewal fails
LEMMA NotRenewedType ==
    ASSUME TypeInv, ren.at # "idle"
    PROVE  NotRenewed \in Row /\ (NotRenewed.status = "active" => ren.cert.status = "active")
<1>1. ren.cert \in Row
  BY DEF TypeInv, Known
<1> QED
  BY <1>1, WithStatus DEF NotRenewed

LEMMA RenewFailedTyped == ASSUME TypeInv, RenewFailed PROVE TypeInv'
<1>1. ren.at = "acme" /\ NotRenewed \in Row /\ (NotRenewed.status = "active" => ren.cert.status = "active")
  BY NotRenewedType DEF RenewFailed
<1>2. PICK cert \in {NotRenewed, row} : SaveRow(cert)
  BY DEF RenewFailed
<1>3. ren' = NoRenewal /\ UNCHANGED <<file, issued, app, man, edit, deployVars, nodeVars, retried, events>>
  BY DEF RenewFailed
<1>4. /\ row' \in Rows /\ missed' \subseteq Nodes /\ row'.status \in {NotRenewed.status, row.status}
      /\ row' = NoRow => row = NoRow
  <2>1. CASE row \in Row
    BY <1>1, <1>2, <2>1, SaveOrKeepType
  <2>2. CASE row = NoRow
    BY <1>1, <1>2, <2>2 DEF SaveRow, TypeInv, DeployTyped, NodeTyped, Rows
  <2> QED
    BY <2>1, <2>2 DEF TypeInv, StoreTyped, Rows
<1>5. DeployTyped' /\ NodeTyped' /\ Unreported'
  BY <1>3, <1>4, RestKept, BoundsTyped
<1>6. StoreTyped'
  BY <1>3, <1>4, Nothing DEF TypeInv, StoreTyped
<1>7. Known'
  BY <1>1, <1>3, <1>4, Nothing DEF TypeInv, Known, deployVars
<1> QED
  BY <1>5, <1>6, <1>7 DEF TypeInv

LEMMA RenewSaveTyped == ASSUME TypeInv, RenewSave PROVE TypeInv'
<1>1. ren.at = "save" /\ ren.cert \in Row /\ ren \in Renewal
  BY DEF RenewSave, TypeInv, Known, StoreTyped
<1>2. /\ row' = Active(ren.cert, Life) /\ ren' = NoRenewal /\ todo' = todo \cup {ren.by}
      /\ UNCHANGED <<file, issued, app, man, edit, task, rec, uses, dep, nodeVars, boundVars>>
  BY DEF RenewSave
<1>3. row' \in Rows /\ row' # NoRow
  BY <1>1, <1>2, ActiveType, Nothing DEF Rows
<1>4. todo' \subseteq Callers /\ uses' \subseteq Nodes /\ missed' \subseteq Nodes /\ events' \in 0..MaxEvents
  BY <1>1, <1>2, BoundsTyped DEF Renewal, TypeInv, DeployTyped, boundVars
<1>5. DeployTyped' /\ NodeTyped' /\ Unreported'
  BY <1>2, <1>4, RestTyped DEF boundVars
<1>6. StoreTyped'
  BY <1>2, <1>3, Nothing DEF TypeInv, StoreTyped
<1>7. Known'
  BY <1>1, <1>2, <1>3, Nothing DEF TypeInv, Known
<1> QED
  BY <1>5, <1>6, <1>7 DEF TypeInv

LEMMA RenewAbortsTyped == ASSUME TypeInv, RenewAborts PROVE TypeInv'
<1>1. /\ ren.at = "save" /\ ren.cert \in Row
      /\ NotRenewed \in Row /\ (NotRenewed.status = "active" => ren.cert.status = "active")
  BY NotRenewedType DEF RenewAborts, TypeInv, Known
<1>2. /\ row' \in {row, NotRenewed, Active(ren.cert, Life)} /\ ren' = NoRenewal /\ missed' = missed \cup uses
      /\ Event /\ UNCHANGED <<file, issued, app, man, edit, deployVars, nodeVars, retried>>
  BY DEF RenewAborts
<1>3. row' \in Rows /\ (row' = NoRow => row = NoRow)
  BY <1>1, <1>2, ActiveType, Nothing DEF TypeInv, StoreTyped, Rows
<1>4. missed' \subseteq Nodes /\ events' \in 0..MaxEvents
  BY <1>2, BoundsTyped, EventType
<1>5. DeployTyped' /\ NodeTyped' /\ Unreported'
  BY <1>2, <1>4, RestKept
<1>6. StoreTyped'
  BY <1>2, <1>3, Nothing DEF TypeInv, StoreTyped
<1>7. Known'
  BY <1>1, <1>2, <1>3, Nothing DEF TypeInv, Known, deployVars
<1> QED
  BY <1>5, <1>6, <1>7 DEF TypeInv

LEMMA ApplyTyped ==
    ASSUME TypeInv, NEW auto \in BOOLEAN, NEW nodes \in SUBSET Nodes, Apply(auto, nodes)
    PROVE  TypeInv'
<1> DEFINE cert == [provider |-> "acme", auto |-> auto \/ row = NoRow, left |-> Life,
                    status |-> IF row.status = "active" THEN "active" ELSE "pending"]
<1>1. /\ app' = [at |-> "check", was |-> row.status, nodes |-> nodes, cert |-> cert]
      /\ row.status # "pending" /\ Event
      /\ UNCHANGED <<row, file, issued, ren, man, edit, deployVars, nodeVars, retried, missed>>
  BY DEF Apply
<1>2. cert \in Row /\ (cert.status = "active" => row.status = "active")
  BY Constants DEF Row
<1> HIDE DEF cert
<1>3. row.status \in {"none", "active", "failed", "expired"}
  BY <1>1, Nothing DEF TypeInv, StoreTyped, Rows, Row
<1>4. app' \in Application /\ app'.cert = cert /\ app'.was = row.status /\ app'.at = "check"
  BY <1>1, <1>2, <1>3 DEF Application, Rows
<1>5. DeployTyped' /\ NodeTyped' /\ Unreported'
  BY <1>1, EventType, BoundsTyped, RestKept
<1>6. StoreTyped'
  BY <1>1, <1>4 DEF TypeInv, StoreTyped
<1>7. Known'
  BY <1>1, <1>2, <1>4 DEF TypeInv, Known, deployVars
<1> QED
  BY <1>5, <1>6, <1>7 DEF TypeInv

LEMMA ApplyRowTyped == ASSUME TypeInv, ApplyRow PROVE TypeInv'
<1>1. /\ app.at = "check" /\ app.cert \in Row /\ app \in Application
      /\ UNCHANGED <<file, issued, ren, man, edit, deployVars, nodeVars, retried, events>>
  BY DEF ApplyRow, TypeInv, Known, StoreTyped
<1>2. CASE UNCHANGED <<row, missed>> /\ app' = NoApplication
  <2>1. DeployTyped' /\ NodeTyped' /\ Unreported'
    BY <1>1, <1>2, BoundsTyped, RestKept
  <2>2. StoreTyped' /\ Known'
    BY <1>1, <1>2, Nothing DEF TypeInv, StoreTyped, Known, deployVars
  <2> QED
    BY <2>1, <2>2 DEF TypeInv
<1>3. CASE SaveRow(app.cert) /\ app' = [app EXCEPT !.at = "issue"]
  <2>1. row' \in Rows /\ row' # NoRow /\ row'.status = app.cert.status /\ missed' \subseteq Nodes
    BY <1>1, <1>3, SaveRowType
  <2>2. app' \in Application /\ app'.at = "issue" /\ app'.cert = app.cert /\ app'.was = app.was
    BY <1>1, <1>3 DEF Application
  <2>3. DeployTyped' /\ NodeTyped' /\ Unreported'
    BY <1>1, <2>1, BoundsTyped, RestKept
  <2>4. StoreTyped' /\ Known'
    BY <1>1, <2>1, <2>2 DEF TypeInv, StoreTyped, Known, deployVars
  <2> QED
    BY <2>3, <2>4 DEF TypeInv
<1> QED
  BY <1>2, <1>3 DEF ApplyRow

LEMMA ApplyIssuedTyped == ASSUME TypeInv, ApplyIssued PROVE TypeInv'
<1>1. app.at = "issue" /\ app.cert \in Row /\ app \in Application
  BY DEF ApplyIssued, TypeInv, Known, StoreTyped
<1>2. app' \in Application /\ app'.cert = app.cert /\ app'.was = app.was /\ app'.at = "save"
  BY <1>1 DEF ApplyIssued, Application
<1>3. file' \in Pair /\ file'.id # 0 /\ issued' \in BOOLEAN
  BY Constants, NewPairType DEF ApplyIssued, TypeInv
<1>4. UNCHANGED <<row, ren, man, edit, deployVars, nodeVars, boundVars>>
  BY DEF ApplyIssued
<1>5. DeployTyped' /\ NodeTyped' /\ Unreported'
  BY <1>4, RestKept, BoundsTyped DEF boundVars
<1>6. StoreTyped'
  BY <1>2, <1>3, <1>4 DEF TypeInv, StoreTyped
<1>7. Known'
  BY <1>1, <1>2, <1>3, <1>4 DEF TypeInv, Known, deployVars
<1> QED
  BY <1>5, <1>6, <1>7 DEF TypeInv

\* The row that is saved when an application fails
LEMMA NotIssuedType ==
    ASSUME TypeInv, app.at # "idle"
    PROVE  NotIssued \in Row /\ (NotIssued.status = "active" => app.was = "active")
<1>1. app.cert \in Row
  BY DEF TypeInv, Known
<1> QED
  BY <1>1, WithStatus DEF NotIssued

LEMMA ApplyFailedTyped == ASSUME TypeInv, ApplyFailed PROVE TypeInv'
<1>1. app.at = "issue" /\ NotIssued \in Row /\ (NotIssued.status = "active" => app.was = "active")
  BY NotIssuedType DEF ApplyFailed
<1>2. PICK cert \in {NotIssued, row} : SaveRow(cert)
  BY DEF ApplyFailed
<1>3. /\ app' = NoApplication /\ issued' \in {issued, TRUE}
      /\ UNCHANGED <<file, ren, man, edit, deployVars, nodeVars, retried, events>>
  BY DEF ApplyFailed
<1>4. row \in Row
  BY <1>1 DEF TypeInv, StoreTyped, Known, Rows
<1>5. row' \in Rows /\ row' # NoRow /\ missed' \subseteq Nodes /\ row'.status \in {NotIssued.status, row.status}
  BY <1>1, <1>2, <1>4, SaveOrKeepType
<1>6. DeployTyped' /\ NodeTyped' /\ Unreported'
  BY <1>3, <1>5, RestKept, BoundsTyped
<1>7. issued' \in BOOLEAN
  BY <1>3 DEF TypeInv, StoreTyped
<1>8. StoreTyped'
  BY <1>3, <1>5, <1>7, Nothing DEF TypeInv, StoreTyped
<1>9. Known'
  BY <1>1, <1>3, <1>5, Nothing DEF TypeInv, Known, deployVars
<1> QED
  BY <1>6, <1>8, <1>9 DEF TypeInv

LEMMA ApplySaveTyped == ASSUME TypeInv, ApplySave PROVE TypeInv'
<1>1. app.at = "save" /\ app.cert \in Row /\ app \in Application /\ row' = Active(app.cert, Life)
  BY DEF ApplySave, TypeInv, Known, StoreTyped
<1>2. /\ app' \in Application
      /\ app'.at # "idle" => app'.cert \in Row
      /\ app'.cert.status = "active" => app.cert.status = "active"
      /\ app'.was = "active" => app.was = "active"
  BY <1>1, Nothing DEF ApplySave, Application
<1>3. missed' \subseteq Nodes
  BY BoundsTyped DEF ApplySave
<1>4. UNCHANGED <<file, issued, ren, man, edit, deployVars, nodeVars, retried, events>>
  BY DEF ApplySave
<1>5. row' \in Rows /\ row' # NoRow
  BY <1>1, ActiveType, Nothing DEF Rows
<1>6. DeployTyped' /\ NodeTyped' /\ Unreported'
  BY <1>3, <1>4, RestKept, BoundsTyped
<1>7. StoreTyped'
  BY <1>2, <1>4, <1>5 DEF TypeInv, StoreTyped
<1>8. Known'
  BY <1>1, <1>2, <1>4, <1>5, Nothing DEF TypeInv, Known, deployVars
<1> QED
  BY <1>6, <1>7, <1>8 DEF TypeInv

LEMMA ApplyAbortsTyped == ASSUME TypeInv, ApplyAborts PROVE TypeInv'
<1>1. app.at = "save" /\ NotIssued \in Row /\ (NotIssued.status = "active" => app.was = "active")
  BY NotIssuedType DEF ApplyAborts
<1>2. /\ row' \in {row, NotIssued} /\ app' = NoApplication /\ missed' = missed \cup uses /\ Event
      /\ UNCHANGED <<file, issued, ren, man, edit, deployVars, nodeVars, retried>>
  BY DEF ApplyAborts
<1>3. row' \in Rows /\ row' # NoRow
  BY <1>1, <1>2, Nothing DEF TypeInv, StoreTyped, Known, Rows
<1>4. missed' \subseteq Nodes /\ events' \in 0..MaxEvents
  BY <1>2, BoundsTyped, EventType
<1>5. DeployTyped' /\ NodeTyped' /\ Unreported'
  BY <1>2, <1>4, RestKept
<1>6. StoreTyped'
  BY <1>2, <1>3, Nothing DEF TypeInv, StoreTyped
<1>7. Known'
  BY <1>1, <1>2, <1>3, Nothing DEF TypeInv, Known, deployVars
<1> QED
  BY <1>5, <1>6, <1>7 DEF TypeInv

LEMMA ApplyAssignTyped == ASSUME TypeInv, ApplyAssign \/ ApplyAssignFails PROVE TypeInv'
<1>1. /\ app.at = "assign" /\ app \in Application /\ app' = NoApplication /\ uses' \subseteq uses \cup app.nodes
      /\ UNCHANGED <<row, file, issued, ren, man, edit, task, rec, dep, nodeVars, retried>>
  BY DEF ApplyAssign, ApplyAssignFails, TypeInv, StoreTyped, boundVars
<1>2. uses' \subseteq Nodes
  BY <1>1, BoundsTyped DEF Application
<1>3. todo' \subseteq Callers /\ missed' \subseteq Nodes /\ events' \in 0..MaxEvents
  <2>1. CASE ApplyAssign
    BY <2>1, BoundsTyped DEF ApplyAssign, TypeInv, DeployTyped, Callers, boundVars
  <2>2. CASE ApplyAssignFails
    BY <1>2, <2>2, BoundsTyped, EventType DEF ApplyAssignFails, TypeInv, DeployTyped
  <2> QED
    BY <2>1, <2>2
<1>4. DeployTyped' /\ NodeTyped' /\ Unreported'
  BY <1>1, <1>2, <1>3, RestTyped
<1>5. StoreTyped'
  BY <1>1, Nothing DEF TypeInv, StoreTyped
<1>6. Known'
  BY <1>1, Nothing DEF TypeInv, Known
<1> QED
  BY <1>4, <1>5, <1>6 DEF TypeInv

LEMMA StoreByHandTyped ==
    ASSUME TypeInv, NEW nodes \in SUBSET Nodes, StoreByHand(Life, nodes)
    PROVE  TypeInv'
<1> DEFINE cert == [provider |-> "manual", auto |-> row = NoRow, status |-> "active", left |-> Life]
<1>1. /\ Event /\ file' = NewPair(Life)
      /\ man' = [at |-> "save", new |-> row = NoRow, nodes |-> nodes, cert |-> cert]
      /\ UNCHANGED <<row, issued, ren, app, edit, deployVars, nodeVars, retried, missed>>
  BY DEF StoreByHand
<1>2. cert \in Row
  BY Constants DEF Row
<1> HIDE DEF cert
<1>3. man' \in Handwork /\ man'.cert = cert /\ man'.at = "save"
  BY <1>1, <1>2 DEF Handwork, Rows
<1>4. file' \in Pair /\ file'.id # 0
  BY <1>1, Constants, NewPairType DEF TypeInv
<1>5. DeployTyped' /\ NodeTyped' /\ Unreported'
  BY <1>1, EventType, BoundsTyped, RestKept
<1>6. StoreTyped'
  BY <1>1, <1>3, <1>4 DEF TypeInv, StoreTyped
<1>7. Known'
  BY <1>1, <1>2, <1>3, <1>4 DEF TypeInv, Known, deployVars
<1> QED
  BY <1>5, <1>6, <1>7 DEF TypeInv

LEMMA ManualSaveTyped == ASSUME TypeInv, ManualSave PROVE TypeInv'
<1>1. /\ man.at = "save" /\ man.cert \in Row /\ man \in Handwork
      /\ UNCHANGED <<file, issued, ren, app, edit, deployVars, nodeVars, retried, events>>
  BY DEF ManualSave, TypeInv, Known, StoreTyped
<1>2. missed' \subseteq Nodes
  BY BoundsTyped DEF ManualSave
<1>3. DeployTyped' /\ NodeTyped' /\ Unreported'
  BY <1>1, <1>2, BoundsTyped, RestKept
<1>4. CASE man.new /\ row # NoRow
  <2>1. man' = NoUpload /\ row' = row
    BY <1>4 DEF ManualSave
  <2>2. StoreTyped' /\ Known'
    BY <1>1, <1>4, <2>1, Nothing DEF TypeInv, StoreTyped, Known, deployVars
  <2> QED
    BY <1>3, <2>2 DEF TypeInv
<1>5. CASE ~(man.new /\ row # NoRow)
  <2>1. man' = [man EXCEPT !.at = "assign"] /\ row' = man.cert
    BY <1>5 DEF ManualSave
  <2>2. man' \in Handwork /\ man'.cert = man.cert /\ row' \in Rows /\ row' # NoRow
    BY <1>1, <2>1, Nothing DEF Handwork, Rows
  <2>3. StoreTyped' /\ Known'
    BY <1>1, <2>1, <2>2 DEF TypeInv, StoreTyped, Known, deployVars
  <2> QED
    BY <1>3, <2>3 DEF TypeInv
<1> QED
  BY <1>4, <1>5

LEMMA WithAuto ==
    ASSUME NEW cert \in Row, NEW auto \in BOOLEAN
    PROVE  [cert EXCEPT !.auto = auto] \in Row /\ [cert EXCEPT !.auto = auto].status = cert.status
  BY DEF Row

LEMMA ManualAssignTyped == ASSUME TypeInv, ManualAssign PROVE TypeInv'
<1>1. /\ man.at = "assign" /\ man \in Handwork /\ man.cert \in Row /\ man' = NoUpload
      /\ uses' \subseteq uses \cup man.nodes /\ todo' \subseteq todo \cup {"panel"}
      /\ UNCHANGED <<file, issued, ren, app, edit, task, rec, dep, nodeVars, boundVars>>
  BY DEF ManualAssign, TypeInv, StoreTyped, Known
<1>2. row \in Row
  BY <1>1 DEF TypeInv, StoreTyped, Known, Rows
<1>3. row' \in Rows /\ row' # NoRow /\ row'.status \in {row.status, man.cert.status}
  <2>1. PICK auto \in BOOLEAN : row' = IF man.new THEN row ELSE [man.cert EXCEPT !.auto = auto]
    BY DEF ManualAssign
  <2>2. row' \in Row /\ row'.status \in {row.status, man.cert.status}
    BY <1>1, <1>2, <2>1, WithAuto
  <2> QED
    BY <2>2, Nothing DEF Rows
<1>4. todo' \subseteq Callers /\ uses' \subseteq Nodes /\ missed' \subseteq Nodes /\ events' \in 0..MaxEvents
  BY <1>1, BoundsTyped DEF Handwork, TypeInv, DeployTyped, Callers, boundVars
<1>5. DeployTyped' /\ NodeTyped' /\ Unreported'
  BY <1>1, <1>4, RestTyped DEF boundVars
<1>6. StoreTyped'
  BY <1>1, <1>3, Nothing DEF TypeInv, StoreTyped
<1>7. Known'
  BY <1>1, <1>3, Nothing DEF TypeInv, Known
<1> QED
  BY <1>5, <1>6, <1>7 DEF TypeInv

LEMMA ManualAbortsTyped == ASSUME TypeInv, ManualAborts PROVE TypeInv'
<1>1. /\ man' = NoUpload /\ missed' = missed \cup uses /\ Event
      /\ UNCHANGED <<row, file, issued, ren, app, edit, deployVars, nodeVars, retried>>
  BY DEF ManualAborts
<1>2. DeployTyped' /\ NodeTyped' /\ Unreported'
  BY <1>1, EventType, BoundsTyped, RestKept
<1>3. StoreTyped' /\ Known'
  BY <1>1, Nothing DEF TypeInv, StoreTyped, Known, deployVars
<1> QED
  BY <1>2, <1>3 DEF TypeInv

LEMMA ReadToEditTyped == ASSUME TypeInv, ReadToEdit PROVE TypeInv'
<1>1. /\ edit' = row /\ Event
      /\ UNCHANGED <<row, file, issued, ren, app, man, deployVars, nodeVars, retried, missed>>
  BY DEF ReadToEdit
<1>2. DeployTyped' /\ NodeTyped' /\ Unreported'
  BY <1>1, EventType, BoundsTyped, RestKept
<1>3. StoreTyped' /\ Known'
  BY <1>1 DEF TypeInv, StoreTyped, Known, deployVars
<1> QED
  BY <1>2, <1>3 DEF TypeInv

LEMMA SetAutoRenewTyped ==
    ASSUME TypeInv, NEW auto \in BOOLEAN, SetAutoRenew(auto)
    PROVE  TypeInv'
<1> DEFINE cert == [edit EXCEPT !.auto = auto]
<1>1. /\ edit \in Row /\ SaveRow(cert) /\ edit' = NoRow
      /\ UNCHANGED <<file, issued, ren, app, man, deployVars, nodeVars, retried, events>>
  BY DEF SetAutoRenew, TypeInv, StoreTyped, Rows
<1>2. cert \in Row /\ cert.status = edit.status
  BY <1>1, WithAuto
<1> HIDE DEF cert
<1>3. row' \in Rows /\ row' # NoRow /\ row'.status = edit.status /\ missed' \subseteq Nodes
  BY <1>1, <1>2, SaveRowType
<1>4. DeployTyped' /\ NodeTyped' /\ Unreported'
  BY <1>1, <1>3, BoundsTyped, RestKept
<1>5. StoreTyped' /\ Known'
  BY <1>1, <1>3, Nothing DEF TypeInv, StoreTyped, Known, deployVars
<1> QED
  BY <1>4, <1>5 DEF TypeInv

\* A node is assigned or unassigned by itself
LEMMA AssignedTyped ==
    ASSUME TypeInv, \/ \E nodes \in SUBSET Nodes, deploys \in BOOLEAN : AssignToNodes(nodes, deploys)
                    \/ \E n \in Nodes : UnassignFromNode(n)
    PROVE  TypeInv'
<1>1. /\ UNCHANGED <<storeVars, task, rec, dep, nodeVars, retried>> /\ Event
      /\ row = NoRow => uses' = {}
  BY DEF AssignToNodes, UnassignFromNode, TypeInv, Known
<1>2. todo' \subseteq Callers /\ uses' \subseteq Nodes /\ missed' \subseteq Nodes
  <2>1. CASE \E nodes \in SUBSET Nodes, deploys \in BOOLEAN : AssignToNodes(nodes, deploys)
    BY <2>1, BoundsTyped DEF AssignToNodes, TypeInv, DeployTyped, Callers
  <2>2. CASE \E n \in Nodes : UnassignFromNode(n)
    BY <2>2, BoundsTyped DEF UnassignFromNode, TypeInv, DeployTyped
  <2> QED
    BY <2>1, <2>2
<1>3. DeployTyped' /\ NodeTyped' /\ Unreported'
  BY <1>1, <1>2, EventType, RestTyped
<1>4. StoreTyped' /\ Known'
  BY <1>1 DEF TypeInv, StoreTyped, Known, storeVars, taskVars
<1> QED
  BY <1>3, <1>4 DEF TypeInv

-----------------------------------------------------------------------------
(***************************************************************************)
(* Types: deployments, checks, nodes and time                               *)
(***************************************************************************)

\* A step that stores nothing and saves no row keeps what is known of them
LEMMA KnownKept ==
    ASSUME TypeInv, UNCHANGED <<storeVars, uses>>
    PROVE  StoreTyped' /\ Known'
  BY DEF TypeInv, StoreTyped, Known, storeVars, taskVars

\* One deployment moves on
LEMMA TaskType ==
    ASSUME DeployTyped, NEW c \in Callers, NEW n \in Nodes, NEW x \in Deployment,
           task' = [task EXCEPT ![c][n] = x]
    PROVE  /\ task' \in [Callers -> [Nodes -> Deployment]] /\ task'[c][n] = x
           /\ \A d \in Callers, m \in Nodes : <<d, m>> # <<c, n>> => task'[d][m] = task[d][m]
  BY DEF DeployTyped

\* One check begins or ends
LEMMA CheckType ==
    ASSUME DeployTyped, NEW n \in Nodes, NEW x \in Check, rec' = [rec EXCEPT ![n] = x]
    PROVE  /\ rec' \in [Nodes -> Check] /\ rec'[n] = x
           /\ \A m \in Nodes : m # n => rec'[m] = rec[m]
  BY DEF DeployTyped

\* The status of one deployment is written
LEMMA StatusType ==
    ASSUME DeployTyped, NEW n \in Nodes, NEW s \in Status,
           dep' = [dep EXCEPT ![n] = s] \/ dep' = dep
    PROVE  /\ dep' \in [Nodes -> Status] /\ dep'[n] \in {s, dep[n]}
           /\ \A m \in Nodes : m # n => dep'[m] = dep[m]
  BY DEF DeployTyped

Fresh == [NoTask EXCEPT !.at = "create"]

LEMMA FreshType == Fresh \in Deployment /\ Fresh.at = "create"
  BY Nothing DEF Fresh, Deployment

\* The nodes that use the certificate are listed
LEMMA ListedTyped ==
    ASSUME TypeInv, NEW c \in Callers, DeployToAssignedNodes(c)
    PROVE  /\ TypeInv'
           /\ \A n \in uses : task'[c][n].at = "create"
           /\ \A n \in Nodes, d \in Callers : d # c => task'[d][n] = task[d][n]
<1> DEFINE new == [n \in Nodes |-> IF n \in uses THEN Fresh ELSE task[c][n]]
<1>1. /\ todo' = todo \ {c} /\ task' = [task EXCEPT ![c] = new]
      /\ UNCHANGED <<storeVars, rec, uses, dep, nodeVars, boundVars>>
  BY DEF DeployToAssignedNodes, Fresh
<1>2. /\ DeployTyped /\ uses \subseteq Nodes /\ task \in [Callers -> [Nodes -> Deployment]]
  BY DEF TypeInv, DeployTyped
<1>3. new \in [Nodes -> Deployment] /\ \A n \in uses : new[n].at = "create"
  BY <1>2, FreshType
<1> HIDE DEF new
<1>4. task' \in [Callers -> [Nodes -> Deployment]] /\ task'[c] = new /\ \A d \in Callers : d # c => task'[d] = task[d]
  BY <1>1, <1>2, <1>3
<1>5. StoreTyped' /\ Known'
  BY <1>1, KnownKept
<1>6. DeployTyped' /\ NodeTyped' /\ Unreported'
  BY <1>1, <1>4 DEF TypeInv, DeployTyped, NodeTyped, Unreported, nodeVars, boundVars
<1> QED
  BY <1>3, <1>4, <1>5, <1>6 DEF TypeInv

LEMMA ListFailsTyped == ASSUME TypeInv, NEW c \in Callers, ListFails(c) PROVE TypeInv'
<1>1. /\ todo' = todo \ {c} /\ missed' = missed \cup uses /\ Event
      /\ UNCHANGED <<storeVars, task, rec, uses, dep, nodeVars, retried>>
  BY DEF ListFails
<1>2. StoreTyped' /\ Known'
  BY <1>1, KnownKept
<1>3. todo' \subseteq Callers
  BY <1>1 DEF TypeInv, DeployTyped
<1>4. DeployTyped' /\ NodeTyped' /\ Unreported'
  BY <1>1, <1>3, BoundsTyped, EventType, RestTyped
<1> QED
  BY <1>2, <1>4 DEF TypeInv

\* The row of n is not created: only what is about n has changed
LEMMA CreateFailsTyped ==
    ASSUME TypeInv, NEW c \in Callers, NEW n \in Nodes, CreateFails(c, n)
    PROVE  /\ TypeInv'
           /\ \A m \in Nodes, d \in Callers : m # n => task'[d][m] = task[d][m]
<1>1. /\ task' = [task EXCEPT ![c][n] = NoTask] /\ missed' = missed \cup {n} /\ Event
      /\ UNCHANGED <<storeVars, todo, rec, uses, dep, nodeVars, retried>>
  BY DEF CreateFails
<1>2. StoreTyped' /\ Known'
  BY <1>1, KnownKept
<1>3. /\ task' \in [Callers -> [Nodes -> Deployment]]
      /\ \A m \in Nodes, d \in Callers : m # n => task'[d][m] = task[d][m]
  <2>1. task \in [Callers -> [Nodes -> Deployment]] /\ NoTask \in Deployment
    BY Nothing DEF TypeInv, DeployTyped
  <2> QED
    BY <1>1, <2>1
<1>4. missed' \subseteq Nodes /\ events' \in 0..MaxEvents
  BY <1>1, BoundsTyped, EventType
<1>5. DeployTyped' /\ NodeTyped' /\ Unreported'
  BY <1>1, <1>3, <1>4 DEF TypeInv, DeployTyped, NodeTyped, Unreported, nodeVars
<1> QED
  BY <1>2, <1>3, <1>5 DEF TypeInv

\* The new row of n is the latest: only what is about n has changed
LEMMA CreatedTyped ==
    ASSUME TypeInv, NEW c \in Callers, NEW n \in Nodes, CreateDeployment(c, n)
    PROVE  /\ TypeInv'
           /\ dep'[n] = "pending" /\ ~rec'[n].latest /\ rec'[n].at = rec[n].at
           /\ \A m \in Nodes : m # n => /\ dep'[m] = dep[m] /\ rec'[m] = rec[m]
                                        /\ \A d \in Callers : task'[d][m] = task[d][m]
<1>1. /\ task' = [d \in Callers |-> [task[d] EXCEPT ![n] =
                    IF d = c THEN [at |-> "mark", latest |-> TRUE]
                             ELSE [task[d][n] EXCEPT !.latest = FALSE]]]
      /\ rec' = [rec EXCEPT ![n] = [rec[n] EXCEPT !.latest = FALSE]]
      /\ dep' = [dep EXCEPT ![n] = "pending"]
      /\ sync' = [sync EXCEPT ![n] = [sync[n] EXCEPT !.recent = FALSE]]
      /\ missed' = missed \ {n}
      /\ UNCHANGED <<storeVars, todo, uses, got, served, retried, events>>
  BY DEF CreateDeployment
<1>2. /\ task \in [Callers -> [Nodes -> Deployment]] /\ rec \in [Nodes -> Check]
      /\ dep \in [Nodes -> Status] /\ sync \in [Nodes -> SyncState]
  BY DEF TypeInv, DeployTyped, NodeTyped
<1>3. /\ task' \in [Callers -> [Nodes -> Deployment]]
      /\ \A d \in Callers, m \in Nodes : m # n => task'[d][m] = task[d][m]
  <2> DEFINE x(d) == IF d = c THEN [at |-> "mark", latest |-> TRUE]
                              ELSE [task[d][n] EXCEPT !.latest = FALSE]
  <2>1. ASSUME NEW d \in Callers PROVE x(d) \in Deployment
    <3>1. task[d][n] \in Deployment
      BY <1>2
    <3>2. CASE d = c
      BY <3>2 DEF Deployment
    <3>3. CASE d # c
      BY <3>1, <3>3 DEF Deployment
    <3> QED
      BY <3>2, <3>3
  <2>2. task' = [d \in Callers |-> [task[d] EXCEPT ![n] = x(d)]]
    BY <1>1
  <2> HIDE DEF x
  <2> QED
    BY <1>2, <2>1, <2>2
<1>4. /\ rec' \in [Nodes -> Check] /\ ~rec'[n].latest /\ rec'[n].at = rec[n].at
      /\ \A m \in Nodes : m # n => rec'[m] = rec[m]
  BY <1>1, <1>2 DEF Check
<1>5. /\ dep' \in [Nodes -> Status] /\ dep'[n] = "pending"
      /\ \A m \in Nodes : m # n => dep'[m] = dep[m]
  BY <1>1, <1>2 DEF Status
<1>6. /\ sync' \in [Nodes -> SyncState]
      /\ \A m \in Nodes : sync'[m].status = sync[m].status
  BY <1>1, <1>2 DEF SyncState
<1>7. StoreTyped' /\ Known'
  BY <1>1, KnownKept
<1>8. DeployTyped' /\ NodeTyped' /\ Unreported'
  BY <1>1, <1>3, <1>4, <1>5, <1>6 DEF TypeInv, DeployTyped, NodeTyped, Unreported
<1> QED
  BY <1>3, <1>4, <1>5, <1>7, <1>8 DEF TypeInv

\* The rest of a deployment: its status is never a success
LEMMA DeployedTyped ==
    ASSUME TypeInv, NEW c \in Callers, NEW n \in Nodes,
           MarkPending(c, n) \/ MarkFails(c, n) \/ \E ok \in BOOLEAN : SSHCopy(c, n, ok)
    PROVE  /\ TypeInv'
           /\ UNCHANGED <<storeVars, todo, rec, uses, got, served, missed>>
           /\ \A m \in Nodes : /\ dep'[m] = "success" => dep[m] = "success"
                               /\ \A d \in Callers : task[d][m].at = "create" => task'[d][m].at = "create"
<1>1. /\ DeployTyped /\ NodeTyped /\ task \in [Callers -> [Nodes -> Deployment]]
      /\ task[c][n] \in Deployment /\ sync \in [Nodes -> SyncState]
  BY DEF TypeInv, DeployTyped, NodeTyped
<1>2. UNCHANGED <<storeVars, todo, rec, uses, got, served, retried, missed>>
  BY DEF MarkPending, MarkFails, SSHCopy, nodeVars, boundVars
<1>3. PICK x \in Deployment : task' = [task EXCEPT ![c][n] = x] /\ task[c][n].at # "create"
  <2>1. CASE MarkPending(c, n)
    <3> DEFINE x == [task[c][n] EXCEPT !.at = "ssh"]
    <3>1. x \in Deployment
      BY <1>1 DEF Deployment
    <3>2. task' = [task EXCEPT ![c][n] = x] /\ task[c][n].at # "create"
      BY <2>1 DEF MarkPending
    <3> QED
      BY <3>1, <3>2
  <2>2. CASE MarkFails(c, n) \/ \E ok \in BOOLEAN : SSHCopy(c, n, ok)
    <3>1. task' = [task EXCEPT ![c][n] = NoTask] /\ task[c][n].at # "create"
      BY <2>2 DEF MarkFails, SSHCopy
    <3> QED
      BY <3>1, Nothing
  <2> QED
    BY <2>1, <2>2
<1>4. /\ task' \in [Callers -> [Nodes -> Deployment]]
      /\ \A d \in Callers, m \in Nodes : task[d][m].at = "create" => task'[d][m] = task[d][m]
  BY <1>1, <1>3, TaskType
<1>5. \E s \in {"pending", "failed"} : dep' = [dep EXCEPT ![n] = s] \/ dep' = dep
  BY DEF MarkPending, MarkFails, SSHCopy, Report
<1>6. dep' \in [Nodes -> Status] /\ \A m \in Nodes : dep'[m] = "success" => dep[m] = "success"
  BY <1>1, <1>5, StatusType DEF Status
<1>7. sync' \in [Nodes -> SyncState] /\ \A m \in Nodes : sync'[m].status = "synced" => sync[m].status = "synced"
  <2>1. CASE MarkPending(c, n)
    BY <1>1, <2>1 DEF MarkPending, SyncState
  <2>2. CASE MarkFails(c, n) \/ \E ok \in BOOLEAN : SSHCopy(c, n, ok)
    BY <1>1, <2>2 DEF MarkFails, SSHCopy, nodeVars
  <2> QED
    BY <2>1, <2>2
<1>8. events' \in 0..MaxEvents
  BY EventType DEF MarkPending, MarkFails, SSHCopy, boundVars, TypeInv, NodeTyped
<1>9. StoreTyped' /\ Known'
  BY <1>2, KnownKept
<1>10. DeployTyped' /\ NodeTyped' /\ Unreported'
  BY <1>2, <1>4, <1>6, <1>7, <1>8 DEF TypeInv, DeployTyped, NodeTyped, Unreported
<1> QED
  BY <1>2, <1>4, <1>6, <1>9, <1>10 DEF TypeInv

\* A check begins: the latest deployment, the stored pair, a node that has reported
LEMMA ReadTyped ==
    ASSUME TypeInv, NEW n \in Nodes, ReconcileRead(n)
    PROVE  /\ TypeInv'
           /\ UNCHANGED <<storeVars, todo, task, uses, dep, nodeVars, missed>>
           /\ rec'[n].leaf = file /\ rec'[n].at = "dial" /\ ~got[n].busy
           /\ \A m \in Nodes : m # n => rec'[m] = rec[m]
<1> DEFINE x == [at |-> "dial", leaf |-> file, status |-> dep[n], latest |-> TRUE]
<1>1. /\ rec' = [rec EXCEPT ![n] = x] /\ dep[n] \in {"pending", "failed"} /\ sync[n].status = "synced"
      /\ UNCHANGED <<storeVars, todo, task, uses, dep, nodeVars, boundVars>>
  BY DEF ReconcileRead, Unconfirmed, Synced
<1>2. x \in Check /\ x.leaf = file /\ x.at = "dial"
  BY <1>1 DEF TypeInv, StoreTyped, Check
<1> HIDE DEF x
<1>3. rec' \in [Nodes -> Check] /\ rec'[n] = x /\ \A m \in Nodes : m # n => rec'[m] = rec[m]
  BY <1>1, <1>2, CheckType DEF TypeInv
<1>4. StoreTyped' /\ Known'
  BY <1>1, KnownKept
<1>5. DeployTyped' /\ NodeTyped' /\ Unreported'
  BY <1>1, <1>3 DEF TypeInv, DeployTyped, NodeTyped, Unreported, nodeVars, boundVars
<1>6. ~got[n].busy
  BY <1>1 DEF TypeInv, Unreported
<1> QED
  BY <1>1, <1>2, <1>3, <1>4, <1>5, <1>6 DEF TypeInv, boundVars

\* The node shows the stored pair to the check under way
LEMMA ShownTyped ==
    ASSUME TypeInv, NEW n \in Nodes, Handshake(n)
    PROVE  /\ TypeInv'
           /\ UNCHANGED <<storeVars, todo, task, uses, dep, nodeVars, missed>>
           /\ rec[n].at = "dial" /\ rec'[n].latest = rec[n].latest /\ rec'[n].leaf = rec[n].leaf
           /\ rec'[n].at = "confirm"
           /\ \A m \in Nodes : m # n => rec'[m] = rec[m]
<1> DEFINE x == [rec[n] EXCEPT !.at = "confirm"]
<1>1. /\ rec' = [rec EXCEPT ![n] = x] /\ rec[n].at = "dial"
      /\ UNCHANGED <<storeVars, todo, task, uses, dep, nodeVars, boundVars>>
  BY DEF Handshake
<1>2. x \in Check /\ x.at = "confirm" /\ x.latest = rec[n].latest /\ x.leaf = rec[n].leaf
  BY DEF TypeInv, DeployTyped, Check
<1> HIDE DEF x
<1>3. rec' \in [Nodes -> Check] /\ rec'[n] = x /\ \A m \in Nodes : m # n => rec'[m] = rec[m]
  BY <1>1, <1>2, CheckType DEF TypeInv
<1>4. StoreTyped' /\ Known'
  BY <1>1, KnownKept
<1>5. DeployTyped' /\ NodeTyped' /\ Unreported'
  BY <1>1, <1>3 DEF TypeInv, DeployTyped, NodeTyped, Unreported, nodeVars, boundVars
<1> QED
  BY <1>1, <1>2, <1>3, <1>4, <1>5 DEF TypeInv, boundVars

\* A check ends: nothing but its deployment has changed
LEMMA CheckedTyped ==
    ASSUME TypeInv, NEW n \in Nodes,
           SaveSuccess(n) \/ StillWaiting(n) \/ GiveUp(n) \/ RetryDeployment(n)
    PROVE  /\ TypeInv'
           /\ UNCHANGED <<storeVars, todo, uses, nodeVars, missed>>
           /\ rec'[n].at = "idle"
           /\ \A m \in Nodes : m # n => rec'[m] = rec[m] /\ dep'[m] = dep[m]
           /\ \A m \in Nodes, d \in Callers : task[d][m].at = "create" => task'[d][m].at = "create"
           /\ dep'[n] = "success" /\ dep[n] # "success" => SaveSuccess(n) /\ rec[n].latest
<1>1. /\ DeployTyped /\ NodeTyped /\ task \in [Callers -> [Nodes -> Deployment]] /\ retried \subseteq Nodes
      /\ dep \in [Nodes -> Status] /\ "loop" \in Callers
  BY DEF TypeInv, DeployTyped, NodeTyped, Callers
<1>2. UNCHANGED <<storeVars, todo, uses, nodeVars, missed, events>>
  BY DEF SaveSuccess, StillWaiting, GiveUp, RetryDeployment, boundVars
<1>3. rec' = [rec EXCEPT ![n] = NoCheck]
  BY DEF SaveSuccess, StillWaiting, GiveUp, RetryDeployment
<1>4. rec' \in [Nodes -> Check] /\ rec'[n] = NoCheck /\ \A m \in Nodes : m # n => rec'[m] = rec[m]
  BY <1>1, <1>3, Nothing, CheckType
<1>5. PICK s \in {"failed", "success"} : /\ dep' = [dep EXCEPT ![n] = s] \/ dep' = dep
                                         /\ s = "success" => dep' = dep \/ (SaveSuccess(n) /\ rec[n].latest)
  <2>1. CASE SaveSuccess(n)
    <3>1. dep' = IF rec[n].latest THEN [dep EXCEPT ![n] = "success"] ELSE dep
      BY <2>1 DEF SaveSuccess
    <3> QED
      BY <2>1, <3>1
  <2>2. CASE GiveUp(n)
    BY <2>2 DEF GiveUp
  <2>3. CASE StillWaiting(n) \/ RetryDeployment(n)
    BY <2>3 DEF StillWaiting, RetryDeployment
  <2> QED
    BY <2>1, <2>2, <2>3
<1>6. /\ dep' \in [Nodes -> Status] /\ \A m \in Nodes : m # n => dep'[m] = dep[m]
      /\ dep'[n] \in {s, dep[n]}
  BY <1>1, <1>5, StatusType DEF Status
<1>7. /\ task' \in [Callers -> [Nodes -> Deployment]] /\ retried' \subseteq Nodes
      /\ \A m \in Nodes, d \in Callers : task[d][m].at = "create" => task'[d][m].at = "create"
  <2>1. CASE SaveSuccess(n) \/ StillWaiting(n) \/ GiveUp(n)
    BY <1>1, <2>1 DEF SaveSuccess, StillWaiting, GiveUp, boundVars
  <2>2. CASE RetryDeployment(n)
    <3>1. task' = [task EXCEPT !["loop"][n] = Fresh] /\ retried' = retried \cup {n}
      BY <2>2 DEF RetryDeployment, Fresh
    <3> QED
      BY <1>1, <3>1, FreshType, TaskType
  <2> QED
    BY <2>1, <2>2
<1>8. StoreTyped' /\ Known'
  BY <1>2, KnownKept
<1>9. DeployTyped' /\ NodeTyped' /\ Unreported'
  BY <1>2, <1>4, <1>6, <1>7 DEF TypeInv, DeployTyped, NodeTyped, Unreported, nodeVars
<1> QED
  BY <1>2, <1>4, <1>5, <1>6, <1>7, <1>8, <1>9, Nothing DEF TypeInv

\* What the node does
LEMMA NodeTypedStep ==
    ASSUME TypeInv, NEW n \in Nodes,
           OtherChange(n) \/ NodeFetch(n) \/ \E ok \in BOOLEAN : NodeReport(n, ok)
    PROVE  TypeInv' /\ UNCHANGED <<storeVars, deployVars, missed>>
<1>1. UNCHANGED <<storeVars, deployVars, retried, missed>>
  BY DEF OtherChange, NodeFetch, NodeReport, boundVars
<1>2. events' \in 0..MaxEvents
  BY EventType DEF OtherChange, NodeFetch, NodeReport, boundVars, TypeInv, NodeTyped
<1>3. /\ sync \in [Nodes -> SyncState] /\ got \in [Nodes -> Config] /\ served \in [Nodes -> Pair]
      /\ file \in Pair /\ Unreported
  BY DEF TypeInv, NodeTyped, StoreTyped
<1>4. /\ sync' \in [Nodes -> SyncState] /\ got' \in [Nodes -> Config] /\ served' \in [Nodes -> Pair]
      /\ Unreported'
  <2>1. CASE OtherChange(n)
    <3>1. sync' = [sync EXCEPT ![n] = [sync[n] EXCEPT !.status = "pending"]] /\ UNCHANGED <<got, served>>
      BY <2>1 DEF OtherChange
    <3>2. sync' \in [Nodes -> SyncState] /\ \A m \in Nodes : sync'[m].status = "synced" => sync'[m] = sync[m]
      BY <1>3, <3>1 DEF SyncState
    <3> QED
      BY <1>3, <3>1, <3>2 DEF Unreported
  <2>2. CASE NodeFetch(n)
    <3> DEFINE x == [busy |-> TRUE, pair |-> IF n \in TLSNodes /\ Usable THEN file ELSE NoPair]
    <3>1. got' = [got EXCEPT ![n] = x] /\ UNCHANGED <<sync, served>> /\ sync[n].status # "synced"
      BY <2>2 DEF NodeFetch
    <3>2. x \in Config
      BY <1>3, Nothing DEF Config
    <3> HIDE DEF x
    <3> QED
      BY <1>3, <3>1, <3>2 DEF Unreported
  <2>3. CASE \E ok \in BOOLEAN : NodeReport(n, ok)
    <3>1. got' = [got EXCEPT ![n] = NoConfig]
      BY <2>3 DEF NodeReport
    <3>2. /\ sync' \in [Nodes -> SyncState] /\ \A m \in Nodes : m # n => sync'[m] = sync[m]
      <4>1. PICK x \in SyncState : sync' = [sync EXCEPT ![n] = x]
        <5> DEFINE done == [status |-> "synced", recent |-> TRUE]
                   bad == [sync[n] EXCEPT !.status = "failed"]
        <5>1. done \in SyncState /\ bad \in SyncState
          BY <1>3 DEF SyncState
        <5>2. sync' = [sync EXCEPT ![n] = done] \/ sync' = [sync EXCEPT ![n] = bad]
          BY <2>3 DEF NodeReport
        <5> QED
          BY <5>1, <5>2
      <4> QED
        BY <1>3, <4>1
    <3>3. served' \in [Nodes -> Pair]
      BY <1>3, <2>3 DEF NodeReport, Config
    <3>4. got' \in [Nodes -> Config] /\ ~got'[n].busy /\ \A m \in Nodes : m # n => got'[m] = got[m]
      BY <1>3, <3>1, Nothing
    <3> QED
      BY <1>3, <3>2, <3>3, <3>4 DEF Unreported
  <2> QED
    BY <2>1, <2>2, <2>3
<1>5. StoreTyped' /\ Known'
  BY <1>1, KnownKept DEF deployVars
<1>6. DeployTyped' /\ NodeTyped'
  BY <1>1, <1>2, <1>4 DEF TypeInv, DeployTyped, NodeTyped, deployVars
<1> QED
  BY <1>1, <1>4, <1>5, <1>6 DEF TypeInv

LEMMA OlderRow ==
    ASSUME NEW x \in Rows
    PROVE  /\ Older(x) \in Rows /\ Older(x).status = x.status
           /\ Older(x) = NoRow => x = NoRow
           /\ InForce(Older(x)) => InForce(x)
<1>1. CASE x = NoRow
  BY <1>1 DEF Older, NoRow, Rows, InForce
<1>2. CASE x \in Row
  <2>1. CASE x.left = 0
    BY <2>1 DEF Older
  <2>2. CASE x.left # 0
    <3>1. x.left - 1 \in 0..Life /\ x.left > 0
      BY <1>2, <2>2, Constants DEF Row
    <3>2. Older(x) = [x EXCEPT !.left = x.left - 1]
      BY <2>2 DEF Older
    <3>3. Older(x) \in Row /\ Older(x).status = x.status
      BY <1>2, <3>1, <3>2 DEF Row
    <3> QED
      BY <3>1, <3>3, Nothing DEF Rows, InForce
  <2> QED
    BY <2>1, <2>2
<1> QED
  BY <1>1, <1>2 DEF Rows

LEMMA OlderPair ==
    ASSUME NEW x \in Pair
    PROVE  Older(x) \in Pair /\ Older(x).id = x.id
<1>1. CASE x.left = 0
  BY <1>1 DEF Older
<1>2. CASE x.left # 0
  <2>1. x.left - 1 \in 0..Life
    BY <1>2, Constants DEF Pair
  <2> QED
    BY <1>2, <2>1 DEF Older, Pair
<1> QED
  BY <1>1, <1>2

LEMMA TickTyped ==
    ASSUME TypeInv, Tick
    PROVE  /\ TypeInv'
           /\ UNCHANGED <<issued, taskVars, deployVars, sync, got, missed>>
           /\ file'.id = file.id /\ (Usable' => Usable)
           /\ \A n \in Nodes : served'[n].id = served[n].id
<1>1. /\ row' = Older(row) /\ file' = Older(file) /\ served' = [n \in Nodes |-> Older(served[n])]
      /\ retried' = {} /\ UNCHANGED <<issued, taskVars, deployVars, sync, got, missed, events>>
  BY DEF Tick
<1>2. row \in Rows /\ file \in Pair /\ served \in [Nodes -> Pair]
  BY DEF TypeInv, StoreTyped, NodeTyped
<1>3. row' \in Rows /\ row'.status = row.status /\ (row' = NoRow => row = NoRow)
  BY <1>1, <1>2, OlderRow
<1>4. Usable' => Usable
  <2>1. InForce(row') => InForce(row)
    BY <1>1, <1>2, OlderRow
  <2> QED
    BY <2>1 DEF Usable, InForce
<1>5. file' \in Pair /\ file'.id = file.id
  BY <1>1, <1>2, OlderPair
<1>6. served' \in [Nodes -> Pair] /\ \A n \in Nodes : served'[n].id = served[n].id
  <2>1. ASSUME NEW n \in Nodes PROVE Older(served[n]) \in Pair /\ Older(served[n]).id = served[n].id
    BY <1>2, OlderPair
  <2> QED
    BY <1>1, <2>1
<1>7. StoreTyped' /\ DeployTyped' /\ NodeTyped' /\ Unreported'
  BY <1>1, <1>3, <1>5, <1>6 DEF TypeInv, StoreTyped, DeployTyped, NodeTyped, Unreported, deployVars, taskVars
<1>8. Known'
  BY <1>1, <1>3, <1>5 DEF TypeInv, Known, deployVars, taskVars
<1> QED
  BY <1>1, <1>4, <1>5, <1>6, <1>7, <1>8 DEF TypeInv

LEMMA CrashTyped == ASSUME TypeInv, Crash PROVE TypeInv'
<1>1. /\ ren' = NoRenewal /\ app' = NoApplication /\ man' = NoUpload /\ edit' = NoRow /\ todo' = {}
      /\ task' = [c \in Callers |-> [n \in Nodes |-> NoTask]] /\ rec' = [n \in Nodes |-> NoCheck]
      /\ missed' = missed \cup {n \in uses : WillDeploy(n)} /\ Event
      /\ UNCHANGED <<row, file, issued, uses, dep, nodeVars, retried>>
  BY DEF Crash
<1>2. events' \in 0..MaxEvents
  BY <1>1, EventType
<1>3. missed' \subseteq Nodes
  BY <1>1, BoundsTyped
<1>4. task' \in [Callers -> [Nodes -> Deployment]] /\ rec' \in [Nodes -> Check]
  BY <1>1, Nothing
<1>5. StoreTyped'
  BY <1>1, Nothing DEF TypeInv, StoreTyped
<1>6. DeployTyped' /\ NodeTyped' /\ Unreported'
  BY <1>1, <1>2, <1>3, <1>4 DEF TypeInv, DeployTyped, NodeTyped, Unreported, nodeVars
<1>7. Known'
  BY <1>1, Nothing DEF TypeInv, Known
<1> QED
  BY <1>5, <1>6, <1>7 DEF TypeInv

LEMMA StutterTyped == ASSUME TypeInv, UNCHANGED certVars PROVE TypeInv'
<1>1. UNCHANGED <<storeVars, deployVars, nodeVars, boundVars>>
  BY DEF certVars
<1>2. StoreTyped' /\ Known'
  BY <1>1, KnownKept DEF deployVars
<1> QED
  BY <1>1, <1>2 DEF TypeInv, DeployTyped, NodeTyped, Unreported, deployVars, nodeVars, boundVars

LEMMA TypeInitially == Init => TypeInv
<1> SUFFICES ASSUME Init PROVE TypeInv
  OBVIOUS
<1>1. StoreTyped
  BY Nothing DEF Init, StoreTyped
<1>2. DeployTyped
  BY Nothing DEF Init, DeployTyped, Status
<1>3. NodeTyped /\ Unreported
  BY Nothing, Constants DEF Init, NodeTyped, SyncState, Unreported
<1>4. Known
  BY Nothing DEF Init, Known
<1> QED
  BY <1>1, <1>2, <1>3, <1>4 DEF TypeInv

\* The steps that store a pair or save the row
StoreStep ==
    \/ \E by \in Callers : RenewStart(by)
    \/ RenewIssued \/ RenewFailed \/ RenewSave \/ RenewAborts
    \/ \E auto \in BOOLEAN, nodes \in SUBSET Nodes : Apply(auto, nodes)
    \/ ApplyRow \/ ApplyIssued \/ ApplyFailed \/ ApplySave \/ ApplyAborts
    \/ ApplyAssign \/ ApplyAssignFails
    \/ \E nodes \in SUBSET Nodes : StoreByHand(Life, nodes)
    \/ ManualSave \/ ManualAssign \/ ManualAborts
    \/ ReadToEdit \/ \E auto \in BOOLEAN : SetAutoRenew(auto)

\* The steps that assign a node, or start a deployment
AssignStep ==
    \/ \E nodes \in SUBSET Nodes, deploys \in BOOLEAN : AssignToNodes(nodes, deploys)
    \/ \E n \in Nodes : UnassignFromNode(n)

\* The steps of deployments
DeployingStep(c) ==
    \/ DeployToAssignedNodes(c) \/ ListFails(c)
    \/ \E n \in Nodes : DeployStep(c, n)

LEMMA NextSteps ==
    Next <=> \/ StoreStep \/ AssignStep \/ (\E c \in Callers : DeployingStep(c))
             \/ (\E n \in Nodes : NodeStep(n)) \/ Tick \/ Crash
  BY DEF Next, StoreStep, AssignStep, DeployingStep

LEMMA TypeStep == TypeInv /\ [Next]_certVars => TypeInv'
<1> SUFFICES ASSUME TypeInv, [Next]_certVars PROVE TypeInv'
  OBVIOUS
<1>1. CASE StoreStep
  BY <1>1, RenewStartTyped, RenewIssuedTyped, RenewFailedTyped, RenewSaveTyped, RenewAbortsTyped, ApplyTyped,
     ApplyRowTyped, ApplyIssuedTyped, ApplyFailedTyped, ApplySaveTyped, ApplyAbortsTyped, ApplyAssignTyped,
     StoreByHandTyped, ManualSaveTyped, ManualAssignTyped, ManualAbortsTyped, ReadToEditTyped, SetAutoRenewTyped
     DEF StoreStep
<1>2. CASE \E c \in Callers : DeployingStep(c)
  BY <1>2, ListedTyped, ListFailsTyped, CreatedTyped, CreateFailsTyped, DeployedTyped DEF DeployingStep, DeployStep
<1>3. CASE \E n \in Nodes : NodeStep(n)
  BY <1>3, ReadTyped, ShownTyped, CheckedTyped, NodeTypedStep DEF NodeStep
<1>4. CASE Tick \/ Crash \/ UNCHANGED certVars
  BY <1>4, TickTyped, CrashTyped, StutterTyped
<1>5. CASE AssignStep
  BY <1>5, AssignedTyped DEF AssignStep
<1> QED
  BY <1>1, <1>2, <1>3, <1>4, <1>5, NextSteps

(***************************************************************************)
(* Whatever requests, deployments, checks, failures and restarts overlap,   *)
(* the certificate's row, the tasks and the rows of the deployments keep    *)
(* their states, and a row is active only when a pair is stored             *)
(* (setCertificateMaterialFields, updateApplyFailure, Renew).               *)
(***************************************************************************)
THEOREM CertificatesTypeCorrect == CertificatesSpec => []CertificatesTypeOK
<1>1. TypeInv => CertificatesTypeOK
  <2> SUFFICES ASSUME TypeInv PROVE CertificatesTypeOK
    OBVIOUS
  <2>1. row.status = "active" => file # NoPair
    BY Nothing DEF TypeInv, Known
  <2> QED
    BY <2>1 DEF TypeInv, StoreTyped, DeployTyped, NodeTyped, CertificatesTypeOK, Renewal, Application,
                Handwork, Deployment, Check, Status, SyncState, Config
<1> QED
  BY <1>1, TypeInitially, TypeStep, PTL DEF CertificatesSpec

-----------------------------------------------------------------------------
(***************************************************************************)
(* What a successful deployment means                                       *)
(***************************************************************************)

\* Nobody is going to deploy to n, and nobody has to
Quiet(n) == n \in uses \ missed /\ ~WillDeploy(n)

\* The deployment of n is confirmed, or about to be by a check that saw the stored pair
Shown(n) == dep[n] = "success" \/ (rec[n].at = "confirm" /\ rec[n].latest)

\* ... or it may still be, by the check under way
Confirmable(n) == Shown(n) \/ (rec[n].at = "dial" /\ rec[n].latest)

\* Then a check of the latest deployment compares with the stored pair, and the node
\* serves that pair and is not about to replace it by another
Holds(n) ==
    Quiet(n) =>
        /\ rec[n].at = "dial" /\ rec[n].latest => rec[n].leaf.id = file.id
        /\ Shown(n) /\ Usable => served[n].id = file.id
        /\ got[n].busy /\ Usable /\ Confirmable(n) => got[n].pair.id = file.id

Serving == \A n \in TLSNodes : Holds(n)

\* A step by which a node can only lose what has to be shown
LEMMA HoldsStill ==
    ASSUME NEW n \in TLSNodes, Holds(n),
           Quiet(n)' => Quiet(n),
           file'.id = file.id, Usable' => Usable,
           rec'[n].at # "idle" /\ rec'[n].latest => rec'[n] = rec[n],
           dep'[n] = "success" => dep[n] = "success",
           served'[n].id = served[n].id,
           got'[n].busy => got'[n] = got[n]
    PROVE  Holds(n)'
<1> SUFFICES ASSUME Quiet(n)'
             PROVE  /\ rec'[n].at = "dial" /\ rec'[n].latest => rec'[n].leaf.id = file'.id
                    /\ Shown(n)' /\ Usable' => served'[n].id = file'.id
                    /\ got'[n].busy /\ Usable' /\ Confirmable(n)' => got'[n].pair.id = file'.id
  BY DEF Holds
<1>1. (Shown(n)' => Shown(n)) /\ (Confirmable(n)' => Confirmable(n))
  BY DEF Confirmable, Shown
<1> QED
  BY <1>1 DEF Holds

\* Whoever is quiet after a step that saves a row without deploying it was quiet before,
\* and the row has not come into use by that step
LEMMA SavedQuietly ==
    ASSUME TypeInv, NEW cert, SaveRow(cert), NEW n \in TLSNodes, n \in uses' \ missed', uses' = uses
    PROVE  n \in uses \ missed /\ (Usable' => Usable)
<1>1. row' = cert /\ (InForce(cert) /\ ~Usable => missed' = missed \cup uses)
      /\ (missed' = missed \/ missed' = missed \cup uses)
  BY DEF SaveRow
<1>2. Usable' = InForce(cert)
  BY <1>1 DEF Usable, InForce
<1> QED
  BY <1>1, <1>2

LEMMA ServingStoreStep == ASSUME TypeInv, Serving, StoreStep PROVE Serving'
<1> SUFFICES ASSUME NEW n \in TLSNodes PROVE Holds(n)'
  BY DEF Serving
<1>0. Holds(n) /\ ren \in Renewal /\ app \in Application /\ man \in Handwork
  BY DEF Serving, TypeInv, StoreTyped
<1>1. UNCHANGED <<task, rec, dep, nodeVars>>
  BY DEF StoreStep, RenewStart, RenewIssued, RenewFailed, RenewSave, RenewAborts, Apply, ApplyRow, ApplyIssued,
         ApplyFailed, ApplySave, ApplyAborts, ApplyAssign, ApplyAssignFails, StoreByHand, ManualSave, ManualAssign,
         ManualAborts, ReadToEdit, SetAutoRenew, deployVars
<1>2. UNCHANGED <<rec, dep, served, got>>
  BY <1>1 DEF nodeVars
<1>3. CASE (Quiet(n)' => Quiet(n)) /\ file' = file /\ (Usable' => Usable)
  BY <1>0, <1>2, <1>3, HoldsStill
<1>4. CASE ~Quiet(n)'
  BY <1>4 DEF Holds
<1>5. CASE \E by \in Callers : RenewStart(by)
  <2>1. /\ ren'.at # "save" /\ ren.at # "save"
        /\ UNCHANGED <<row, file, app, man, todo, uses, missed>>
    BY <1>0, <1>5, Nothing DEF RenewStart, deployVars
  <2> QED
    BY <1>1, <1>3, <2>1 DEF Quiet, WillDeploy, Usable
<1>6. CASE RenewFailed
  <2>1. PICK cert : SaveRow(cert)
    BY <1>6 DEF RenewFailed
  <2>2. ren.at = "acme" /\ ren'.at = "idle" /\ UNCHANGED <<file, app, man, todo, uses>>
    BY <1>6, Nothing DEF RenewFailed, deployVars
  <2>3. CASE Quiet(n)'
    <3>1. n \in uses \ missed /\ (Usable' => Usable)
      BY <2>1, <2>2, <2>3, SavedQuietly DEF Quiet
    <3> QED
      BY <1>1, <1>3, <2>2, <2>3, <3>1 DEF Quiet, WillDeploy
  <2> QED
    BY <1>4, <2>3
<1>7. CASE \E auto \in BOOLEAN, nodes \in SUBSET Nodes : Apply(auto, nodes)
  <2>1. app.at = "idle" /\ app'.at = "check" /\ UNCHANGED <<row, file, ren, man, todo, uses, missed>>
    BY <1>7, Nothing DEF Apply, deployVars
  <2> QED
    BY <1>1, <1>3, <2>1 DEF Quiet, WillDeploy, Usable
<1>16. CASE ApplyRow
  <2>1. app.at = "check" /\ app'.at \in {"idle", "issue"} /\ UNCHANGED <<file, ren, man, todo, uses>>
    BY <1>0, <1>16, Nothing DEF ApplyRow, Application, deployVars
  <2>2. CASE UNCHANGED <<row, missed>>
    BY <1>1, <1>3, <2>1, <2>2 DEF Quiet, WillDeploy, Usable
  <2>3. CASE SaveRow(app.cert) /\ Quiet(n)'
    <3>1. n \in uses \ missed /\ (Usable' => Usable)
      BY <2>1, <2>3, SavedQuietly DEF Quiet
    <3> QED
      BY <1>1, <1>3, <2>1, <2>3, <3>1 DEF Quiet, WillDeploy
  <2> QED
    BY <1>4, <1>16, <2>2, <2>3 DEF ApplyRow
<1>8. CASE ApplyFailed
  <2>1. PICK cert : SaveRow(cert)
    BY <1>8 DEF ApplyFailed
  <2>2. app.at = "issue" /\ app'.at = "idle" /\ UNCHANGED <<file, ren, man, todo, uses>>
    BY <1>8, Nothing DEF ApplyFailed, deployVars
  <2>3. CASE Quiet(n)'
    <3>1. n \in uses \ missed /\ (Usable' => Usable)
      BY <2>1, <2>2, <2>3, SavedQuietly DEF Quiet
    <3> QED
      BY <1>1, <1>3, <2>2, <2>3, <3>1 DEF Quiet, WillDeploy
  <2> QED
    BY <1>4, <2>3
<1>9. CASE RenewIssued \/ RenewSave \/ ApplyIssued
  <2>1. ren'.at = "save" \/ app'.at = "save" \/ todo' # {}
    BY <1>0, <1>9 DEF RenewIssued, RenewSave, ApplyIssued, Renewal, Application
  <2> QED
    BY <1>4, <2>1 DEF Quiet, WillDeploy
<1>10. CASE ApplySave
  <2>1. app'.at = "assign" \/ (missed' = missed \cup uses /\ uses' = uses)
    BY <1>0, <1>10 DEF ApplySave, Application, deployVars
  <2> QED
    BY <1>4, <2>1 DEF Quiet, WillDeploy
<1>11. CASE ApplyAssign
  <2>1. todo' # {}
    BY <1>11 DEF ApplyAssign
  <2> QED
    BY <1>4, <2>1 DEF Quiet, WillDeploy
<1>12. CASE \E nodes \in SUBSET Nodes : StoreByHand(Life, nodes)
  <2>1. man'.at = "save"
    BY <1>12 DEF StoreByHand
  <2> QED
    BY <1>4, <2>1 DEF Quiet, WillDeploy
<1>13. CASE ManualSave
  <2>1. man.at = "save" /\ uses' = uses
    BY <1>13 DEF ManualSave, deployVars
  <2>2. CASE man.new /\ row # NoRow
    <3>1. missed' = missed \cup uses
      BY <1>13, <2>2 DEF ManualSave
    <3> QED
      BY <1>4, <2>1, <3>1 DEF Quiet
  <2>3. CASE man.new /\ row = NoRow
    <3>1. uses = {}
      BY <2>3 DEF TypeInv, Known
    <3> QED
      BY <1>4, <2>1, <3>1 DEF Quiet
  <2>4. CASE ~man.new
    <3>1. man'.at = "assign" /\ ~man'.new
      BY <1>0, <1>13, <2>4 DEF ManualSave, Handwork
    <3> QED
      BY <1>4, <3>1 DEF Quiet, WillDeploy
  <2> QED
    BY <2>2, <2>3, <2>4
<1>14. CASE ManualAssign
  <2>1. CASE todo' = todo
    <3>1. /\ uses' = uses /\ man'.at = "idle" /\ man.at = "assign" /\ man.new
          /\ UNCHANGED <<row, file, ren, app, missed>>
      BY <1>14, <2>1, Nothing DEF ManualAssign, boundVars
    <3> QED
      BY <1>1, <1>3, <2>1, <3>1 DEF Quiet, WillDeploy, Usable
  <2>2. CASE todo' # todo
    <3>1. todo' # {}
      BY <1>14, <2>2 DEF ManualAssign
    <3> QED
      BY <1>4, <3>1 DEF Quiet, WillDeploy
  <2> QED
    BY <2>1, <2>2
<1>15. CASE \E auto \in BOOLEAN : SetAutoRenew(auto)
  <2>1. PICK cert : SaveRow(cert)
    BY <1>15 DEF SetAutoRenew
  <2>2. UNCHANGED <<file, ren, app, man, todo, uses>>
    BY <1>15 DEF SetAutoRenew, deployVars
  <2>3. CASE Quiet(n)'
    <3>1. n \in uses \ missed /\ (Usable' => Usable)
      BY <2>1, <2>2, <2>3, SavedQuietly DEF Quiet
    <3> QED
      BY <1>1, <1>3, <2>2, <2>3, <3>1 DEF Quiet, WillDeploy
  <2> QED
    BY <1>4, <2>3
<1>17. CASE ReadToEdit
  <2>1. UNCHANGED <<row, file, ren, app, man, todo, uses, missed>>
    BY <1>17 DEF ReadToEdit, deployVars
  <2> QED
    BY <1>1, <1>3, <2>1 DEF Quiet, WillDeploy, Usable
<1>18. CASE RenewAborts \/ ApplyAborts \/ ApplyAssignFails \/ ManualAborts
  <2>1. uses' \subseteq missed'
    BY <1>18 DEF RenewAborts, ApplyAborts, ApplyAssignFails, ManualAborts, deployVars
  <2> QED
    BY <1>4, <2>1 DEF Quiet
<1> QED
  BY <1>5, <1>6, <1>7, <1>8, <1>9, <1>10, <1>11, <1>12, <1>13, <1>14, <1>15, <1>16, <1>17, <1>18 DEF StoreStep

\* A node that is assigned by itself is deployed to, or missed
LEMMA ServingAssignStep == ASSUME TypeInv, Serving, AssignStep PROVE Serving'
<1> SUFFICES ASSUME NEW n \in TLSNodes PROVE Holds(n)'
  BY DEF Serving
<1>0. Holds(n)
  BY DEF Serving
<1>1. UNCHANGED <<row, file, ren, app, man, task, rec, dep, served, got>>
  BY DEF AssignStep, AssignToNodes, UnassignFromNode, storeVars, taskVars, nodeVars
<1>2. todo' # {} \/ (todo' = todo /\ uses' \ missed' \subseteq uses \ missed)
  BY DEF AssignStep, AssignToNodes, UnassignFromNode
<1>3. Quiet(n)' => Quiet(n)
  BY <1>1, <1>2 DEF Quiet, WillDeploy
<1>4. Usable' = Usable
  BY <1>1 DEF Usable
<1> QED
  BY <1>0, <1>1, <1>3, <1>4, HoldsStill

\* Who is about to deploy is about to deploy after a step that leaves the stores alone
\* and ends no deployment before its row is created
LEMMA QuietBefore ==
    ASSUME NEW n \in Nodes, Quiet(n)', UNCHANGED <<storeVars, todo, uses>>, n \in missed => n \in missed',
           \A d \in Callers : task[d][n].at = "create" => task'[d][n].at = "create"
    PROVE  Quiet(n)
  BY DEF Quiet, WillDeploy, storeVars, taskVars

LEMMA ServingDeployStep ==
    ASSUME TypeInv, Serving, NEW c \in Callers, DeployingStep(c)
    PROVE  Serving'
<1> SUFFICES ASSUME NEW m \in TLSNodes PROVE Holds(m)'
  BY DEF Serving
<1>0. Holds(m) /\ m \in Nodes
  BY CertificatesAssumption DEF Serving
<1>1. CASE DeployToAssignedNodes(c)
  <2>1. uses' = uses /\ \A n \in uses : task'[c][n].at = "create"
    BY <1>1, ListedTyped DEF DeployToAssignedNodes
  <2>2. ~Quiet(m)'
    BY <2>1 DEF Quiet, WillDeploy
  <2> QED
    BY <2>2 DEF Holds
<1>2. ASSUME NEW n \in Nodes, CreateDeployment(c, n) PROVE Holds(m)'
  <2>1. /\ dep'[n] = "pending" /\ ~rec'[n].latest
        /\ \A k \in Nodes : k # n => /\ dep'[k] = dep[k] /\ rec'[k] = rec[k]
                                     /\ \A d \in Callers : task'[d][k] = task[d][k]
    BY <1>2, CreatedTyped
  <2>2. CASE m = n
    BY <2>1, <2>2 DEF Holds, Confirmable, Shown
  <2>3. CASE m # n
    <3>1. UNCHANGED <<storeVars, todo, uses, got, served>> /\ missed' = missed \ {n}
      BY <1>2 DEF CreateDeployment
    <3>2. Quiet(m)' => Quiet(m)
      BY <1>0, <2>1, <2>3, <3>1, QuietBefore
    <3>3. file' = file /\ Usable' = Usable
      BY <3>1 DEF storeVars, Usable
    <3> QED
      BY <1>0, <2>1, <2>3, <3>1, <3>2, <3>3, HoldsStill
  <2> QED
    BY <2>2, <2>3
<1>3. ASSUME NEW n \in Nodes,
             MarkPending(c, n) \/ MarkFails(c, n) \/ \E ok \in BOOLEAN : SSHCopy(c, n, ok)
      PROVE  Holds(m)'
  <2>1. /\ UNCHANGED <<storeVars, todo, rec, uses, got, served, missed>>
        /\ \A k \in Nodes : /\ dep'[k] = "success" => dep[k] = "success"
                            /\ \A d \in Callers : task[d][k].at = "create" => task'[d][k].at = "create"
    BY <1>3, DeployedTyped
  <2>2. Quiet(m)' => Quiet(m)
    BY <1>0, <2>1, QuietBefore
  <2>3. file' = file /\ Usable' = Usable
    BY <2>1 DEF storeVars, Usable
  <2> QED
    BY <1>0, <2>1, <2>2, <2>3, HoldsStill
<1>4. CASE ListFails(c)
  <2>1. uses' \subseteq missed'
    BY <1>4 DEF ListFails
  <2> QED
    BY <2>1 DEF Holds, Quiet
<1>5. ASSUME NEW n \in Nodes, CreateFails(c, n) PROVE Holds(m)'
  <2>1. missed' = missed \cup {n} /\ UNCHANGED <<storeVars, todo, rec, uses, dep, nodeVars>>
    BY <1>5 DEF CreateFails
  <2>2. CASE m = n
    BY <2>1, <2>2 DEF Holds, Quiet
  <2>3. CASE m # n
    <3>1. \A d \in Callers : task'[d][m] = task[d][m]
      BY <1>0, <1>5, <2>3, CreateFailsTyped
    <3>2. Quiet(m)' => Quiet(m)
      BY <1>0, <2>1, <3>1, QuietBefore
    <3>3. UNCHANGED <<file, got, served>> /\ Usable' = Usable
      BY <2>1 DEF storeVars, Usable, nodeVars
    <3> QED
      BY <1>0, <2>1, <3>2, <3>3, HoldsStill
  <2> QED
    BY <2>2, <2>3
<1> QED
  BY <1>1, <1>2, <1>3, <1>4, <1>5 DEF DeployingStep, DeployStep

LEMMA ServingNodeStep ==
    ASSUME TypeInv, Serving, NEW n \in Nodes, NodeStep(n)
    PROVE  Serving'
<1> SUFFICES ASSUME NEW m \in TLSNodes PROVE Holds(m)'
  BY DEF Serving
<1>0. Holds(m) /\ m \in Nodes /\ Unreported
  BY CertificatesAssumption DEF Serving, TypeInv
<1>1. CASE ReconcileRead(n)
  <2>1. /\ UNCHANGED <<storeVars, todo, task, uses, dep, nodeVars, missed>>
        /\ rec'[n].leaf = file /\ rec'[n].at = "dial" /\ dep[n] # "success" /\ ~got[n].busy
        /\ \A k \in Nodes : k # n => rec'[k] = rec[k]
    BY <1>1, ReadTyped DEF ReconcileRead, Unconfirmed
  <2>2. (Quiet(m)' => Quiet(m)) /\ file' = file /\ Usable' = Usable /\ UNCHANGED <<got, served>>
    BY <1>0, <2>1, QuietBefore DEF storeVars, Usable, nodeVars
  <2>3. CASE m = n
    BY <1>0, <2>1, <2>2, <2>3 DEF Holds, Shown
  <2>4. CASE m # n
    BY <1>0, <2>1, <2>2, <2>4, HoldsStill
  <2> QED
    BY <2>3, <2>4
<1>2. CASE SaveSuccess(n) \/ StillWaiting(n) \/ GiveUp(n) \/ RetryDeployment(n)
  <2>1. /\ UNCHANGED <<storeVars, todo, uses, nodeVars, missed>>
        /\ rec'[n].at = "idle"
        /\ \A k \in Nodes : k # n => rec'[k] = rec[k] /\ dep'[k] = dep[k]
        /\ \A k \in Nodes, d \in Callers : task[d][k].at = "create" => task'[d][k].at = "create"
        /\ dep'[n] = "success" /\ dep[n] # "success" => SaveSuccess(n) /\ rec[n].latest
    BY <1>2, CheckedTyped
  <2>2. (Quiet(m)' => Quiet(m)) /\ file' = file /\ Usable' = Usable /\ UNCHANGED <<got, served>>
    BY <1>0, <2>1, QuietBefore DEF storeVars, Usable, nodeVars
  <2>3. CASE m # n \/ ~(dep'[n] = "success" /\ dep[n] # "success")
    BY <1>0, <2>1, <2>2, <2>3, HoldsStill
  <2>4. CASE m = n /\ dep'[n] = "success" /\ dep[n] # "success"
    <3>1. Shown(n)
      BY <2>1, <2>4 DEF SaveSuccess, Shown
    <3> QED
      BY <1>0, <2>1, <2>2, <2>4, <3>1 DEF Holds, Confirmable
  <2> QED
    BY <2>3, <2>4
<1>4. CASE Handshake(n)
  <2>1. /\ UNCHANGED <<storeVars, todo, task, uses, dep, nodeVars, missed>>
        /\ rec[n].at = "dial" /\ rec'[n].latest = rec[n].latest /\ rec'[n].at = "confirm"
        /\ \A k \in Nodes : k # n => rec'[k] = rec[k]
    BY <1>4, ShownTyped
  <2>2. (Quiet(m)' => Quiet(m)) /\ file' = file /\ Usable' = Usable /\ UNCHANGED <<dep, got, served>>
    BY <1>0, <2>1, QuietBefore DEF storeVars, Usable, nodeVars
  <2>3. CASE m = n
    <3>1. served[n].id = rec[n].leaf.id
      BY <1>4, <2>3 DEF Handshake, Confirmed
    <3> QED
      BY <1>0, <2>1, <2>2, <2>3, <3>1 DEF Holds, Shown, Confirmable
  <2>4. CASE m # n
    BY <1>0, <2>1, <2>2, <2>4, HoldsStill
  <2> QED
    BY <2>3, <2>4
<1>3. CASE OtherChange(n) \/ NodeFetch(n) \/ \E ok \in BOOLEAN : NodeReport(n, ok)
  <2>1. UNCHANGED <<storeVars, deployVars, missed>>
    BY <1>3, NodeTypedStep
  <2>2. (Quiet(m)' => Quiet(m)) /\ file' = file /\ Usable' = Usable /\ UNCHANGED <<rec, dep>>
    BY <1>0, <2>1, QuietBefore DEF storeVars, Usable, deployVars
  <2>3. /\ got \in [Nodes -> Config] /\ served \in [Nodes -> Pair]
        /\ Shown(m)' = Shown(m) /\ Confirmable(m)' = Confirmable(m)
    BY <2>2 DEF TypeInv, NodeTyped, Shown, Confirmable
  <2>4. CASE OtherChange(n)
    BY <1>0, <2>2, <2>4, HoldsStill DEF OtherChange
  <2>5. CASE NodeFetch(n)
    <3> DEFINE x == [busy |-> TRUE, pair |-> IF n \in TLSNodes /\ Usable THEN file ELSE NoPair]
    <3>1. got' = [got EXCEPT ![n] = x] /\ served' = served
      BY <2>5 DEF NodeFetch
    <3>2. n \in TLSNodes /\ Usable => x.pair = file
      OBVIOUS
    <3> HIDE DEF x
    <3>3. got'[n] = x /\ (m # n => got'[m] = got[m])
      BY <1>0, <2>3, <3>1
    <3>4. CASE m = n
      BY <1>0, <2>2, <2>3, <3>1, <3>2, <3>3, <3>4 DEF Holds
    <3>5. CASE m # n
      BY <1>0, <2>2, <3>1, <3>3, <3>5, HoldsStill
    <3> QED
      BY <3>4, <3>5
  <2>6. CASE \E ok \in BOOLEAN : NodeReport(n, ok)
    <3>1. got' = [got EXCEPT ![n] = NoConfig] /\ got[n].busy
      BY <2>6 DEF NodeReport
    <3>2. ~got'[n].busy /\ (m # n => got'[m] = got[m])
      BY <1>0, <2>3, <3>1, Nothing
    <3>3. /\ m # n => served'[m] = served[m]
          /\ served'[n] = got[n].pair \/ served' = served
      BY <1>0, <2>3, <2>6 DEF NodeReport
    <3>4. CASE m = n
      BY <1>0, <2>2, <2>3, <3>1, <3>2, <3>3, <3>4 DEF Holds, Confirmable
    <3>5. CASE m # n
      BY <1>0, <2>2, <3>2, <3>3, <3>5, HoldsStill
    <3> QED
      BY <3>4, <3>5
  <2> QED
    BY <1>3, <2>4, <2>5, <2>6
<1> QED
  BY <1>1, <1>2, <1>3, <1>4 DEF NodeStep

LEMMA ServingTick == ASSUME TypeInv, Serving, Tick PROVE Serving'
<1> SUFFICES ASSUME NEW m \in TLSNodes PROVE Holds(m)'
  BY DEF Serving
<1>0. Holds(m) /\ m \in Nodes
  BY CertificatesAssumption DEF Serving
<1>1. /\ UNCHANGED <<taskVars, deployVars, got, missed>>
      /\ file'.id = file.id /\ (Usable' => Usable) /\ served'[m].id = served[m].id
  BY <1>0, TickTyped
<1>2. Quiet(m)' => Quiet(m)
  BY <1>1 DEF Quiet, WillDeploy, deployVars, taskVars
<1> QED
  BY <1>0, <1>1, <1>2, HoldsStill DEF deployVars

LEMMA ServingCrash == ASSUME TypeInv, Serving, Crash PROVE Serving'
<1> SUFFICES ASSUME NEW m \in TLSNodes PROVE Holds(m)'
  BY DEF Serving
<1>0. Holds(m) /\ m \in Nodes
  BY CertificatesAssumption DEF Serving
<1>1. /\ rec' = [n \in Nodes |-> NoCheck] /\ missed' = missed \cup {n \in uses : WillDeploy(n)}
      /\ UNCHANGED <<row, file, uses, dep, nodeVars>>
  BY DEF Crash
<1>2. Quiet(m)' => Quiet(m)
  BY <1>1 DEF Quiet
<1>3. rec'[m].at = "idle" /\ Usable' = Usable /\ UNCHANGED <<got, served, dep, file>>
  BY <1>0, <1>1, Nothing DEF Usable, nodeVars
<1> QED
  BY <1>0, <1>2, <1>3, HoldsStill

LEMMA ServingStep == TypeInv /\ Serving /\ [Next]_certVars => Serving'
<1> SUFFICES ASSUME TypeInv, Serving, [Next]_certVars PROVE Serving'
  OBVIOUS
<1>1. CASE StoreStep
  BY <1>1, ServingStoreStep
<1>2. CASE \E c \in Callers : DeployingStep(c)
  BY <1>2, ServingDeployStep
<1>3. CASE \E n \in Nodes : NodeStep(n)
  BY <1>3, ServingNodeStep
<1>4. CASE Tick \/ Crash
  BY <1>4, ServingTick, ServingCrash
<1>5. CASE UNCHANGED certVars
  <2>1. UNCHANGED <<row, file, ren, app, man, todo, task, rec, uses, dep, sync, got, served, missed>>
    BY <1>5 DEF certVars, storeVars, taskVars, deployVars, nodeVars, boundVars
  <2> QED
    BY <2>1 DEF Serving, Holds, Quiet, WillDeploy, Confirmable, Shown, Usable, InForce
<1>6. CASE AssignStep
  BY <1>6, ServingAssignStep
<1> QED
  BY <1>1, <1>2, <1>3, <1>4, <1>5, <1>6, NextSteps

(***************************************************************************)
(* For any number of nodes and any overlap of renewals, applications,       *)
(* uploads, assignments, deployments, checks, fetches, failing saves and    *)
(* restarts of the panel, a deployment shown as successful of a row in use  *)
(* means that the node serves the stored certificate, or that whoever       *)
(* stored a newer one is still going to deploy it, or that the node is one  *)
(* of those the property excepts (verifyAppliedCertificate, DeployToNode,   *)
(* DeployToAssignedNodes, assignCertificateToNodes, findCertificateForDomain*)
(* and the deferred saves of Renew and Apply).                              *)
(***************************************************************************)
THEOREM ConfirmedNodeServesStored == CertificatesSpec => []ConfirmedMeansServed
<1>1. Init => TypeInv /\ Serving
  BY TypeInitially DEF Init, Serving, Holds, Quiet
<1>2. TypeInv /\ Serving /\ [Next]_certVars => TypeInv' /\ Serving'
  BY TypeStep, ServingStep
<1>3. Serving => ConfirmedMeansServed
  <2> SUFFICES ASSUME Serving, NEW n \in TLSNodes, n \in uses \ missed, dep[n] = "success", Usable, ~WillDeploy(n)
               PROVE  served[n].id = file.id
    BY DEF ConfirmedMeansServed
  <2> QED
    BY DEF Serving, Holds, Quiet, Shown
<1> QED
  BY <1>1, <1>2, <1>3, PTL DEF CertificatesSpec
=============================================================================
