---------------------------- MODULE Certificates ----------------------------
(***************************************************************************)
(* The certificate of one domain: its row in the database, the key pair in   *)
(* the panel's certificate directory, and the nodes that serve it.  Material  *)
(* is stored by an ACME application, an ACME renewal (requested in the panel   *)
(* or started by the monitoring loop) or by hand; each of them reads the row,  *)
(* works for minutes, stores the pair and saves the whole row it read.  Nodes  *)
(* embed the stored pair when they fetch their configuration (NodeSync has     *)
(* that part in detail); a deployment asks for a fetch, and the loop confirms  *)
(* it when the node serves the stored bytes.                                  *)
(*                                                                          *)
(* Time passes in units longer than any task: a month where renewal starts    *)
(* 30 days before the end.  Waiting times of minutes end at any moment.       *)
(* Deletion is not modelled; of a node's row only the assignment is.          *)
(***************************************************************************)
EXTENDS Naturals, FiniteSets

CONSTANTS
    Nodes,       \* nodes that may use the certificate
    TLSNodes,    \* those with a proxy that terminates TLS for the domain
    Life,        \* units a new ACME certificate is valid
    Window,      \* renewThreshold: renewal starts with less than this left
    MaxEvents    \* bound: requests, changes of nodes, restarts of the panel and
                 \* failures of its own files and tables
                 \* (a deployment is retried at most once in a unit of time)

ASSUME CertificatesAssumption ==
    /\ IsFiniteSet(Nodes) /\ TLSNodes \subseteq Nodes
    /\ Window \in Nat \ {0} /\ Life \in Nat /\ Window <= Life
    /\ MaxEvents \in Nat

VARIABLES
    row,      \* certificates: the row of the domain
    file,     \* the pair under certDir
    issued,   \* acme.sh has issued the domain before, and can renew it
    ren,      \* the renewal under way (at most one, s.renewing)
    app,      \* the application under way
    man,      \* the upload or replacement by hand under way
    edit,     \* the row a change of auto_renew has read and is going to save
    todo,     \* callers of DeployToAssignedNodes that have not listed the nodes yet
    task,     \* DeployToNode, by caller and node
    rec,      \* the reconciliation of a node under way
    uses,     \* nodes.certificate_id is this certificate
    dep,      \* status of the latest certificate_deployments row of each node
    sync,     \* nodes.sync_status; recent: synced_at is not before that row's creation
    got,      \* the configuration a node has fetched and not yet applied, if any
    served,   \* the certificate a node's Xray serves
    retried,  \* nodes whose deployment the loop has retried in this unit of time
    missed,   \* history: nodes nobody will deploy the stored pair to
    events    \* requests, changes, restarts and failures so far

taskVars == <<ren, app, man, edit>>
storeVars == <<row, file, issued, taskVars>>
deployVars == <<todo, task, rec, uses, dep>>
nodeVars == <<sync, got, served>>
boundVars == <<retried, missed, events>>
certVars == <<storeVars, deployVars, nodeVars, boundVars>>

Callers == {"loop", "panel"}
\* Pairs differ by id; as many ids as can be in use at once, and 0 for none
Ids == 1..(3 * Cardinality(Nodes) + 1)
Pair == [id : Ids \cup {0}, left : 0..Life]
NoPair == [id |-> 0, left |-> 0]

\* left: time until expire_date, 0 when it has passed
Row == [provider : {"acme", "manual"}, auto : BOOLEAN,
        status : {"pending", "active", "failed", "expired"}, left : 0..Life]
NoRow == [provider |-> "none", auto |-> FALSE, status |-> "none", left |-> 0]
Rows == Row \cup {NoRow}

\* A task holds the row as it read it, or the row it is going to save
NoRenewal == [at |-> "idle", by |-> "panel", cert |-> NoRow]
NoApplication == [at |-> "idle", cert |-> NoRow, was |-> "none", nodes |-> {}]
NoUpload == [at |-> "idle", cert |-> NoRow, new |-> FALSE, nodes |-> {}]
\* latest: the deployment row the task created is still the newest of its node
NoTask == [at |-> "idle", latest |-> FALSE]
NoConfig == [busy |-> FALSE, pair |-> NoPair]
NoCheck == [at |-> "idle", leaf |-> NoPair, status |-> "none", latest |-> FALSE]

CertificatesTypeOK ==
    /\ row \in Rows /\ file \in Pair /\ issued \in BOOLEAN /\ edit \in Rows
    /\ ren \in [at : {"idle", "acme", "save"}, by : Callers, cert : Rows]
    /\ app \in [at : {"idle", "check", "issue", "save", "assign"}, cert : Rows,
                was : {"none", "active", "failed", "expired"}, nodes : SUBSET Nodes]
    /\ man \in [at : {"idle", "save", "assign"}, cert : Rows, new : BOOLEAN,
                nodes : SUBSET Nodes]
    /\ todo \subseteq Callers
    /\ task \in [Callers -> [Nodes -> [at : {"idle", "create", "mark", "ssh"},
                                       latest : BOOLEAN]]]
    /\ rec \in [Nodes -> [at : {"idle", "dial", "confirm"}, leaf : Pair, latest : BOOLEAN,
                          status : {"none", "pending", "failed"}]]
    /\ uses \subseteq Nodes
    /\ dep \in [Nodes -> {"none", "pending", "failed", "success"}]
    /\ sync \in [Nodes -> [status : {"pending", "failed", "synced"}, recent : BOOLEAN]]
    /\ got \in [Nodes -> [busy : BOOLEAN, pair : Pair]] /\ served \in [Nodes -> Pair]
    /\ retried \subseteq Nodes /\ missed \subseteq Nodes /\ events \in 0..MaxEvents
    \* a row that is active has a pair in the directory
    /\ row.status = "active" => file # NoPair

Init ==
    /\ row = NoRow /\ file = NoPair /\ issued = FALSE
    /\ ren = NoRenewal /\ app = NoApplication /\ man = NoUpload /\ edit = NoRow
    /\ todo = {} /\ task = [c \in Callers |-> [n \in Nodes |-> NoTask]]
    /\ rec = [n \in Nodes |-> NoCheck]
    /\ uses = {} /\ dep = [n \in Nodes |-> "none"]
    /\ sync = [n \in Nodes |-> [status |-> "synced", recent |-> FALSE]]
    /\ got = [n \in Nodes |-> NoConfig] /\ served = [n \in Nodes |-> NoPair]
    /\ retried = {} /\ missed = {} /\ events = 0

-----------------------------------------------------------------------------
(* Storing a pair.                                                          *)

Event == events < MaxEvents /\ events' = events + 1

InUse == {served[n].id : n \in Nodes} \cup {got[n].pair.id : n \in Nodes}
         \cup {rec[n].leaf.id : n \in Nodes}
NewPair(left) == [id |-> CHOOSE i \in Ids : i \notin InUse, left |-> left]

\* setCertificateMaterialFields
Active(cert, left) == [cert EXCEPT !.status = "active", !.left = left]

\* findCertificateForDomain: the row decides whether a configuration has the pair
InForce(cert) == cert.status = "active" /\ cert.left > 0
Usable == InForce(row)

\* The row is saved and no deployment follows.  A row that comes back into use is
\* missed by the nodes that fetched a configuration without the pair before
SaveRow(cert) ==
    /\ row' = cert
    /\ missed' = IF InForce(cert) /\ ~Usable THEN missed \cup uses ELSE missed

\* The loop's goroutine does one thing at a time
LoopFree ==
    /\ ren.at = "idle" \/ ren.by # "loop"
    /\ "loop" \notin todo
    /\ \A n \in Nodes : task["loop"][n] = NoTask /\ rec[n] = NoCheck

\* A mutated form of NeedsRenewal: an expired certificate is not renewed any more
NeedsRenewalUnexpired(cert) == cert.left < Window /\ cert.left > 0

\* certificateNeedsRenewal, an expired certificate included
NeedsRenewal(cert) == cert.left < Window

\* Renew(id), by the loop for a certificate that is due or by the panel's handler
RenewStart(by) ==
    /\ row # NoRow /\ row.provider # "manual"
    /\ by = "loop" => LoopFree /\ row.auto /\ NeedsRenewal(row)
    /\ ren = NoRenewal
    /\ ren' = [at |-> "acme", by |-> by, cert |-> row]
    /\ IF by = "panel" THEN Event ELSE UNCHANGED events
    /\ UNCHANGED <<row, file, issued, app, man, edit, deployVars, nodeVars, retried, missed>>

\* acme.sh renews a domain it has issued, and installs the pair
RenewIssued ==
    /\ ren.at = "acme" /\ issued
    /\ file' = NewPair(Life)
    /\ ren' = [ren EXCEPT !.at = "save"]
    /\ UNCHANGED <<row, issued, app, man, edit, deployVars, nodeVars, boundVars>>

\* What the deferred handler saves: the row as it was read, expired when it is
NotRenewed ==
    IF ren.cert.left = 0 THEN [ren.cert EXCEPT !.status = "expired"] ELSE ren.cert

\* An error before a pair is installed; the handler's own save may fail as well
RenewFailed ==
    /\ ren.at = "acme"
    /\ \E cert \in {NotRenewed, row} : SaveRow(cert)
    /\ ren' = NoRenewal
    /\ UNCHANGED <<file, issued, app, man, edit, deployVars, nodeVars, retried, events>>

\* The row is saved, the lock released and the caller goes on to deploy
RenewSave ==
    /\ ren.at = "save" /\ ren.by \notin todo
    /\ row' = Active(ren.cert, Life)
    /\ ren' = NoRenewal
    /\ todo' = todo \cup {ren.by}
    /\ UNCHANGED <<file, issued, app, man, edit, task, rec, uses, dep, nodeVars, boundVars>>

\* An error after the pair was installed: reading it back, saving the row (the deferred
\* handler then saves the activated row, if it can) or loading it again.  Nobody deploys
RenewAborts ==
    /\ Event
    /\ ren.at = "save"
    /\ row' \in {row, NotRenewed, Active(ren.cert, Life)}
    /\ ren' = NoRenewal
    /\ missed' = missed \cup uses
    /\ UNCHANGED <<file, issued, app, man, edit, deployVars, nodeVars, retried>>

\* Apply: a row in any state but pending is reused; the expiry is an estimate.  A new
\* row renews itself whatever was asked: FALSE is replaced by the column's default
Apply(auto, nodes) ==
    /\ Event
    /\ app = NoApplication /\ row.status # "pending"
    /\ app' = [at |-> "check", was |-> row.status, nodes |-> nodes,
               cert |-> [provider |-> "acme", auto |-> auto \/ row = NoRow, left |-> Life,
                         status |-> IF row.status = "active" THEN "active" ELSE "pending"]]
    /\ UNCHANGED <<row, file, issued, ren, man, edit, deployVars, nodeVars, retried, missed>>

\* After the look-up of the domain the row is saved as it will be during the
\* application.  The save may fail, and a new row does when there is one by now
ApplyRow ==
    /\ app.at = "check"
    /\ \/ UNCHANGED <<row, missed>> /\ app' = NoApplication
       \/ /\ app.was = "none" => row = NoRow
          /\ SaveRow(app.cert)
          /\ app' = [app EXCEPT !.at = "issue"]
    /\ UNCHANGED <<file, issued, ren, man, edit, deployVars, nodeVars, retried, events>>

\* issueWithAcme, up to its save of the row
ApplyIssued ==
    /\ app.at = "issue"
    /\ file' = NewPair(Life) /\ issued' = TRUE
    /\ app' = [app EXCEPT !.at = "save"]
    /\ UNCHANGED <<row, ren, man, edit, deployVars, nodeVars, boundVars>>

\* A mutated form of ApplyFailed: the previous status is not looked at
ApplyFailedActive ==
    /\ app.at = "issue"
    /\ SaveRow([app.cert EXCEPT !.status = "active"])
    /\ app' = NoApplication
    /\ UNCHANGED <<file, issued, ren, man, edit, deployVars, nodeVars, retried, events>>

\* updateApplyFailure: an active certificate stays active
NotIssued == [app.cert EXCEPT !.status = IF app.was = "active" THEN "active" ELSE "failed"]

\* The last attempt fails before a pair is installed, possibly after acme.sh issued it
ApplyFailed ==
    /\ app.at = "issue"
    /\ issued' \in {issued, TRUE}
    /\ \E cert \in {NotIssued, row} : SaveRow(cert)
    /\ app' = NoApplication
    /\ UNCHANGED <<file, ren, man, edit, deployVars, nodeVars, retried, events>>

\* Without nodes in the request the goroutine ends here
ApplySave ==
    /\ app.at = "save"
    /\ row' = Active(app.cert, Life)
    /\ IF app.nodes = {}
       THEN app' = NoApplication /\ missed' = missed \cup uses
       ELSE app' = [app EXCEPT !.at = "assign"] /\ UNCHANGED missed
    /\ UNCHANGED <<file, issued, ren, man, edit, deployVars, nodeVars, retried, events>>

\* The last attempt fails after its pair was installed
ApplyAborts ==
    /\ Event
    /\ app.at = "save"
    /\ row' \in {row, NotIssued}
    /\ app' = NoApplication
    /\ missed' = missed \cup uses
    /\ UNCHANGED <<file, issued, ren, man, edit, deployVars, nodeVars, retried>>

\* assignCertificateToNodes, then DeployToAssignedNodes
ApplyAssign ==
    /\ app.at = "assign" /\ "panel" \notin todo
    /\ uses' = uses \cup app.nodes
    /\ app' = NoApplication
    /\ todo' = todo \cup {"panel"}
    /\ UNCHANGED <<row, file, issued, ren, man, edit, task, rec, dep, nodeVars, boundVars>>

\* A node of the request is gone or cannot be saved: others are assigned, and the
\* deployment is left out for every node
ApplyAssignFails ==
    /\ Event
    /\ app.at = "assign"
    /\ \E assigned \in SUBSET app.nodes :
          /\ uses' = uses \cup assigned
          /\ missed' = missed \cup uses'
    /\ app' = NoApplication
    /\ UNCHANGED <<row, file, issued, ren, man, edit, todo, task, rec, dep, nodeVars, retried>>

\* Upload (no row yet) or UpdateMaterial: the pair is stored, then the row saved; a new
\* row gets the column's default for auto_renew
StoreByHand(left, nodes) ==
    /\ Event
    /\ man = NoUpload /\ row # NoRow => nodes = {}
    /\ file' = NewPair(left)
    /\ man' = [at |-> "save", new |-> row = NoRow, nodes |-> nodes,
               cert |-> [provider |-> "manual", auto |-> row = NoRow, status |-> "active",
                         left |-> left]]
    /\ UNCHANGED <<row, issued, ren, app, edit, deployVars, nodeVars, retried, missed>>

\* An upload that finds a row by now fails on the unique domain, its pair stays stored
ManualSave ==
    /\ man.at = "save"
    /\ IF man.new /\ row # NoRow
       THEN man' = NoUpload /\ missed' = missed \cup uses /\ UNCHANGED row
       ELSE man' = [man EXCEPT !.at = "assign"] /\ row' = man.cert /\ UNCHANGED missed
    /\ UNCHANGED <<file, issued, ren, app, edit, deployVars, nodeVars, retried, events>>

\* Create deploys when a node could be assigned.  Update saves its row once more, with
\* the auto_renew of the request, and deploys
ManualAssign ==
    /\ man.at = "assign" /\ "panel" \notin todo
    /\ \E assigned \in SUBSET man.nodes :
          /\ uses' = uses \cup assigned
          /\ todo' = IF man.new /\ assigned = {} THEN todo ELSE todo \cup {"panel"}
    /\ \E auto \in BOOLEAN : row' = IF man.new THEN row ELSE [man.cert EXCEPT !.auto = auto]
    /\ man' = NoUpload
    /\ UNCHANGED <<file, issued, ren, app, edit, task, rec, dep, nodeVars, boundVars>>

\* A save of the row fails after the pair was stored, and the request ends
ManualAborts ==
    /\ Event
    /\ man.at = "save" \/ (man.at = "assign" /\ ~man.new)
    /\ man' = NoUpload
    /\ missed' = missed \cup uses
    /\ UNCHANGED <<row, file, issued, ren, app, edit, deployVars, nodeVars, retried>>

\* UpdateAutoRenew, and Update without new material, read the row ...
ReadToEdit ==
    /\ Event
    /\ row # NoRow /\ edit = NoRow
    /\ edit' = row
    /\ UNCHANGED <<row, file, issued, ren, app, man, deployVars, nodeVars, retried, missed>>

\* ... and save the whole of it
SetAutoRenew(auto) ==
    /\ edit # NoRow
    /\ SaveRow([edit EXCEPT !.auto = auto])
    /\ edit' = NoRow
    /\ UNCHANGED <<file, issued, ren, app, man, deployVars, nodeVars, retried, events>>

\* AssignToNodes, and an edit of a node that names the certificate; the edit may fail
\* after it saved the node and before it deploys
AssignToNodes(nodes, deploys) ==
    /\ Event
    /\ row # NoRow /\ nodes # {} /\ "panel" \notin todo
    /\ deploys \/ nodes \cap uses = {}
    /\ uses' = uses \cup nodes
    /\ IF deploys THEN todo' = todo \cup {"panel"} /\ UNCHANGED missed
                  ELSE missed' = missed \cup nodes /\ UNCHANGED todo
    /\ UNCHANGED <<storeVars, task, rec, dep, nodeVars, retried>>

\* UnassignFromNode, and an edit of a node that names another certificate
UnassignFromNode(n) ==
    /\ Event
    /\ n \in uses
    /\ uses' = uses \ {n}
    /\ UNCHANGED <<storeVars, todo, task, rec, dep, nodeVars, retried, missed>>

-----------------------------------------------------------------------------
(* Deploying: DeployToAssignedNodes starts one DeployToNode for every node   *)
(* that uses the certificate.                                               *)

DeployToAssignedNodes(c) ==
    /\ c \in todo /\ \A n \in Nodes : task[c][n] = NoTask
    /\ todo' = todo \ {c}
    /\ task' = [task EXCEPT ![c] =
                  [n \in Nodes |-> IF n \in uses THEN [NoTask EXCEPT !.at = "create"] ELSE @[n]]]
    /\ UNCHANGED <<storeVars, rec, uses, dep, nodeVars, boundVars>>

\* The nodes cannot be listed, which is logged
ListFails(c) ==
    /\ Event
    /\ c \in todo
    /\ todo' = todo \ {c}
    /\ missed' = missed \cup uses
    /\ UNCHANGED <<storeVars, task, rec, uses, dep, nodeVars, retried>>

\* A new deployment row is the latest: those of others no longer are
CreateDeployment(c, n) ==
    /\ task[c][n].at = "create"
    /\ task' = [d \in Callers |-> [task[d] EXCEPT ![n] =
                  IF d = c THEN [at |-> "mark", latest |-> TRUE]
                           ELSE [@ EXCEPT !.latest = FALSE]]]
    /\ rec' = [rec EXCEPT ![n].latest = FALSE]
    /\ dep' = [dep EXCEPT ![n] = "pending"]
    /\ sync' = [sync EXCEPT ![n].recent = FALSE]
    /\ missed' = missed \ {n}
    /\ UNCHANGED <<storeVars, todo, uses, got, served, retried, events>>

\* The row cannot be created, and the latest stays what it was
CreateFails(c, n) ==
    /\ Event
    /\ task[c][n].at = "create"
    /\ task' = [task EXCEPT ![c][n] = NoTask]
    /\ missed' = missed \cup {n}
    /\ UNCHANGED <<storeVars, todo, rec, uses, dep, nodeVars, retried>>

Report(c, n, status) ==
    dep' = IF task[c][n].latest THEN [dep EXCEPT ![n] = status] ELSE dep

\* The stored pair is read and found valid (it has not expired); the node is marked
MarkPending(c, n) ==
    /\ task[c][n].at = "mark" /\ file.left > 0
    /\ sync' = [sync EXCEPT ![n].status = "pending"]
    /\ task' = [task EXCEPT ![c][n].at = "ssh"]
    /\ UNCHANGED <<storeVars, todo, rec, uses, dep, got, served, boundVars>>

\* There is no valid pair, or it cannot be read, or the node's row cannot be written
MarkFails(c, n) ==
    /\ task[c][n].at = "mark"
    /\ IF file.left = 0 THEN UNCHANGED events ELSE Event
    /\ Report(c, n, "failed")
    /\ task' = [task EXCEPT ![c][n] = NoTask]
    /\ UNCHANGED <<storeVars, todo, rec, uses, nodeVars, retried, missed>>

\* deployViaSSH; Xray does not read the uploaded files
SSHCopy(c, n, ok) ==
    /\ task[c][n].at = "ssh"
    /\ Report(c, n, IF ok THEN "pending" ELSE "failed")
    /\ task' = [task EXCEPT ![c][n] = NoTask]
    /\ UNCHANGED <<storeVars, todo, rec, uses, nodeVars, boundVars>>

-----------------------------------------------------------------------------
(* Reconciling, every minute, and the node.                                 *)

Unconfirmed(n) == n \in uses /\ dep[n] \in {"pending", "failed"} /\ row # NoRow
Synced(n) == sync[n].status = "synced" /\ sync[n].recent

\* verifyAppliedCertificate up to the connection
ReconcileRead(n) ==
    /\ LoopFree /\ Unconfirmed(n) /\ Synced(n) /\ file # NoPair
    /\ rec' = [rec EXCEPT ![n] = [at |-> "dial", leaf |-> file, status |-> dep[n],
                                    latest |-> TRUE]]
    /\ UNCHANGED <<storeVars, todo, task, uses, dep, nodeVars, boundVars>>

\* A mutated form of Confirmed: a finished handshake is enough
ConfirmedByHandshake(n) == n \in TLSNodes => served[n] # NoPair

\* The node serves the very bytes that are stored, and they have not expired
Confirmed(n) ==
    n \in TLSNodes => served[n].id = rec[n].leaf.id /\ rec[n].leaf.left > 0

Handshake(n) ==
    /\ rec[n].at = "dial" /\ Confirmed(n)
    /\ rec' = [rec EXCEPT ![n].at = "confirm"]
    /\ UNCHANGED <<storeVars, todo, task, uses, dep, nodeVars, boundVars>>

SaveSuccess(n) ==
    /\ rec[n].at = "confirm"
    /\ dep' = IF rec[n].latest THEN [dep EXCEPT ![n] = "success"] ELSE dep
    /\ rec' = [rec EXCEPT ![n] = NoCheck]
    /\ UNCHANGED <<storeVars, todo, task, uses, nodeVars, boundVars>>

\* Verification fails, at once when the node has not reported since
Unverified(n) ==
    \/ rec[n].at = "dial" /\ ~Confirmed(n)
    \/ LoopFree /\ Unconfirmed(n) /\ ~(Synced(n) /\ file # NoPair)

\* The status reconciliation read with the deployment
ReadStatus(n) == IF rec[n].at = "dial" THEN rec[n].status ELSE dep[n]

\* Less than 5 minutes have passed
StillWaiting(n) ==
    /\ rec[n].at = "dial" /\ Unverified(n)
    /\ rec' = [rec EXCEPT ![n] = NoCheck]
    /\ UNCHANGED <<storeVars, todo, task, uses, dep, nodeVars, boundVars>>

\* The whole row is saved: it was read as pending
GiveUp(n) ==
    /\ Unverified(n) /\ ReadStatus(n) = "pending"
    /\ dep' = IF rec[n].at = "idle" \/ rec[n].latest
              THEN [dep EXCEPT ![n] = "failed"] ELSE dep
    /\ rec' = [rec EXCEPT ![n] = NoCheck]
    /\ UNCHANGED <<storeVars, todo, task, uses, nodeVars, boundVars>>

RetryDeployment(n) ==
    /\ Unverified(n) /\ ReadStatus(n) = "failed" /\ n \notin retried
    /\ retried' = retried \cup {n}
    /\ task' = [task EXCEPT !["loop"][n] = [NoTask EXCEPT !.at = "create"]]
    /\ rec' = [rec EXCEPT ![n] = NoCheck]
    /\ UNCHANGED <<storeVars, todo, uses, dep, nodeVars, missed, events>>

\* A change of its proxies or users marks the node too
OtherChange(n) ==
    /\ Event
    /\ sync[n].status = "synced"
    /\ sync' = [sync EXCEPT ![n].status = "pending"]
    /\ UNCHANGED <<storeVars, deployVars, got, served, retried, missed>>

\* The agent fetches the node's configuration, with the pair stored now
NodeFetch(n) ==
    /\ sync[n].status # "synced" /\ ~got[n].busy
    /\ got' = [got EXCEPT ![n] =
                 [busy |-> TRUE, pair |-> IF n \in TLSNodes /\ Usable THEN file ELSE NoPair]]
    /\ UNCHANGED <<storeVars, deployVars, sync, served, boundVars>>

\* It applies what it fetched and reports; whatever was marked since is overwritten
NodeReport(n, ok) ==
    /\ got[n].busy
    /\ got' = [got EXCEPT ![n] = NoConfig]
    /\ IF ok
       THEN /\ served' = [served EXCEPT ![n] = got[n].pair]
            /\ sync' = [sync EXCEPT ![n] = [status |-> "synced", recent |-> TRUE]]
       ELSE /\ sync' = [sync EXCEPT ![n].status = "failed"]
            /\ UNCHANGED served
    /\ UNCHANGED <<storeVars, deployVars, boundVars>>

-----------------------------------------------------------------------------
(* Time and restarts.                                                       *)

\* Nothing that takes less than a unit of time is under way
Settled ==
    /\ ren = NoRenewal /\ app = NoApplication /\ man = NoUpload /\ edit = NoRow /\ todo = {}
    /\ \A n \in Nodes : /\ \A c \in Callers : task[c][n] = NoTask
                        /\ rec[n] = NoCheck /\ got[n] = NoConfig /\ sync[n].status = "synced"
                        /\ Unconfirmed(n) => dep[n] = "failed" /\ n \in retried

Older(x) == IF x.left = 0 THEN x ELSE [x EXCEPT !.left = @ - 1]

Tick ==
    /\ Settled
    /\ row' = Older(row) /\ file' = Older(file)
    /\ served' = [n \in Nodes |-> Older(served[n])]
    /\ retried' = {}
    /\ UNCHANGED <<issued, taskVars, deployVars, sync, got, missed, events>>

\* Somebody is still going to create a deployment of the stored pair for n
WillDeploy(n) ==
    \/ ren.at = "save" \/ app.at \in {"save", "assign"} \/ todo # {}
    \/ man.at = "save" \/ (man.at = "assign" /\ ~man.new)
    \/ \E c \in Callers : task[c][n].at = "create"

\* The panel stops; its goroutines and locks are gone, database and files are not
Crash ==
    /\ Event
    /\ ren' = NoRenewal /\ app' = NoApplication /\ man' = NoUpload /\ edit' = NoRow
    /\ todo' = {} /\ task' = [c \in Callers |-> [n \in Nodes |-> NoTask]]
    /\ rec' = [n \in Nodes |-> NoCheck]
    /\ missed' = missed \cup {n \in uses : WillDeploy(n)}
    /\ UNCHANGED <<row, file, issued, uses, dep, nodeVars, retried>>

-----------------------------------------------------------------------------
(* The specification.                                                       *)

NodeStep(n) ==
    \/ ReconcileRead(n) \/ Handshake(n) \/ SaveSuccess(n) \/ StillWaiting(n) \/ GiveUp(n) \/ RetryDeployment(n)
    \/ OtherChange(n) \/ NodeFetch(n)
    \/ \E ok \in BOOLEAN : NodeReport(n, ok)

DeployStep(c, n) ==
    \/ CreateDeployment(c, n) \/ CreateFails(c, n) \/ MarkPending(c, n) \/ MarkFails(c, n)
    \/ \E ok \in BOOLEAN : SSHCopy(c, n, ok)

Next ==
    \/ \E by \in Callers : RenewStart(by)
    \/ RenewIssued \/ RenewFailed \/ RenewSave \/ RenewAborts
    \/ \E auto \in BOOLEAN, nodes \in SUBSET Nodes : Apply(auto, nodes)
    \/ ApplyRow \/ ApplyIssued \/ ApplyFailed \/ ApplySave \/ ApplyAborts
    \/ ApplyAssign \/ ApplyAssignFails
    \/ \E nodes \in SUBSET Nodes : StoreByHand(Life, nodes)
    \/ ManualSave \/ ManualAssign \/ ManualAborts
    \/ ReadToEdit \/ \E auto \in BOOLEAN : SetAutoRenew(auto)
    \/ \E nodes \in SUBSET Nodes, deploys \in BOOLEAN : AssignToNodes(nodes, deploys)
    \/ \E n \in Nodes : UnassignFromNode(n)
    \/ \E c \in Callers : \/ DeployToAssignedNodes(c) \/ ListFails(c)
                          \/ \E n \in Nodes : DeployStep(c, n)
    \/ \E n \in Nodes : NodeStep(n)
    \/ Tick \/ Crash

CertificatesSpec == Init /\ [][Next]_certVars

\* The loop comes round and its tasks end; acme.sh (for a domain it has issued), SSH and
\* the node succeed if they are tried again and again; time passes
Fairness ==
    /\ SF_certVars(Tick)
    /\ SF_certVars(RenewStart("loop")) /\ SF_certVars(RenewIssued)
    /\ WF_certVars(RenewFailed) /\ WF_certVars(RenewSave)
    /\ WF_certVars(ApplyRow) /\ WF_certVars(ApplyFailed) /\ WF_certVars(ApplySave) /\ WF_certVars(ApplyAssign)
    /\ WF_certVars(ManualSave) /\ WF_certVars(ManualAssign)
    /\ WF_certVars(\E auto \in BOOLEAN : SetAutoRenew(auto))
    /\ \A c \in Callers :
          /\ WF_certVars(DeployToAssignedNodes(c))
          /\ \A n \in Nodes : WF_certVars(DeployStep(c, n))
    /\ \A n \in Nodes :
          /\ WF_certVars(\/ Handshake(n) \/ SaveSuccess(n) \/ StillWaiting(n) \/ GiveUp(n)
                         \/ RetryDeployment(n))
          /\ SF_certVars(ReconcileRead(n)) /\ SF_certVars(GiveUp(n))
          /\ SF_certVars(RetryDeployment(n))
          /\ WF_certVars(NodeFetch(n) \/ \E ok \in BOOLEAN : NodeReport(n, ok))
          /\ SF_certVars(NodeReport(n, TRUE))

FairCertificatesSpec == CertificatesSpec /\ Fairness

-----------------------------------------------------------------------------
(* Properties.                                                              *)

\* A deployment the panel shows as successful, of a row that is in use, means that the
\* node serves the certificate that is stored now, unless somebody who stored a newer
\* one is still going to deploy it, or nobody is.  Nobody is, until the node has a new
\* deployment row, when
\*  - the panel stopped in between;
\*  - an application did not name any node, or could not assign one of those it named;
\*  - a renewal, an application or an upload failed after its pair was installed, at a
\*    save of the row (an upload also on the row another request created);
\*  - the nodes could not be listed, or the deployment row of the node not created;
\*  - the node was assigned by an edit that failed before it deployed;
\*  - the row was out of use and came back by a save that no deployment follows (the
\*    start or failure of an application, the failure of a renewal, a stale save of
\*    auto_renew).
ConfirmedMeansServed ==
    \A n \in TLSNodes :
        n \in uses \ missed /\ dep[n] = "success" /\ Usable
            => served[n].id = file.id \/ WillDeploy(n)

AutoRenewed == row.provider = "acme" /\ row.auto /\ issued

\* As long as renewal is on, for a domain that acme.sh has issued, a node that uses the
\* certificate serves one that has not expired again and again, whatever failed,
\* overlapped or was cut short before.  (A domain acme.sh never issued cannot be renewed:
\* the panel asks to apply for it again.)
NodeServesValid ==
    \A n \in TLSNodes : <>[](AutoRenewed /\ n \in uses) => []<>(served[n].left > 0)
=============================================================================
