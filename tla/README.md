# A verification project for Vpanel

Vpanel is a panel that sells proxy subscriptions and runs the nodes that serve
them: one Go process (the *panel*) with a database and an HTTP API, a web
front-end, and one *agent* process per node that supervises Xray. This directory
holds TLA+ models of the parts whose correctness depends on the order of events,
the TLC configurations that check them on small instances, and TLAPS proofs of
the results that matter most. Paths below are relative to `src/internal/`.

`tlc -config OrderRace.cfg MCOrderPayment` checks a run, `tlapm
OrderPaymentProofs.tla` checks proofs. `PROJECT.json` lists the components, the
runs, the source lines behind every definition, the hazards and the findings.

## 1. The system

### Components, their state and their operations

| Part | State | Operations that change it | What makes it correct |
|---|---|---|---|
| Orders (`commercial/order`, `database/repository/order_repository.go`, `commercial_atomic.go`) | table `orders` | Create, Pay, syncFulfillment, RetryPendingFulfillments, Cancel, Complete, UpdateStatus, ExpirePendingOrders | an order is paid once, its plan is applied once, its runtime work is done in the end |
| Payments (`commercial/payment`) | none of its own; in-memory retry records | CreatePayment, HandleCallback, SwitchPaymentMethod | a callback may come any number of times |
| Refunds (`commercial/refund`) | `orders`, wallet | RefundToBalance | at most once, at most what was paid |
| Wallet (`commercial/balance`, `balance_repository.go`) | `users.balance`, `balance_transactions` | CreditAtomic, DebitAtomic, Adjust | never negative; the audit rows explain the balance |
| Plans (`commercial/plan`) | `commercial_plans` | Create, Update, SetActive, Delete | an order of a deleted plan is not applied |
| Subscriptions: trials, pauses, plan changes (`commercial/trial`, `pause`, `planchange`) | `trials`, `subscription_pauses`, `pending_downgrades`, `users.expires_at` | activate, grant, convert, expire; pause, resume; upgrade, schedule, apply | paid days are kept |
| Recharges (`balance_recharge_repository.go`, `api/handlers/balance.go`) | `balance_recharge_orders`, wallet | create, cancel, mark paid | a charge is credited once and never stranded |
| Gift cards (`commercial/giftcard`) | `gift_cards`, wallet | create, redeem, set status, delete | a card is money once |
| Commissions, coupons | their tables | none that is wired | |
| Commercial scheduler (`commercial/planchange/scheduler.go`) | one goroutine | every minute: due downgrades, pending fulfilments | pending work is retried |
| User accounts (`user_repository.go`, `api/handlers/auth.go`, `portal_auth.go`) | `users` | whole-row saves | edits touch nothing else; an administrator remains |
| Panel authentication (`api/handlers/session.go`, `auth.go`, `portal/auth`) | `auth_sessions`, `two_factor_secrets`, `users` | login, challenge, refresh, logout, change of password, two-factor set-up and removal | a token is exchanged once; a session stands for the password it was opened with |
| Node agent (`agent`) | registration, commands in hand, pending traffic batch, `traffic-state.json`, Xray's configuration file and process | heartbeat, commands, configuration sync, Xray watchdog | survives the panel's absence |
| Traffic accounting (`agent/traffic_reporter.go`, `api/handlers/node_agent.go`, `node/traffic_service.go`) | committed counters; deduper; `node_traffic`, `traffic`, `nodes.traffic_total`, `users.traffic_used` | PrepareDelta, Commit, begin/done, RecordTrafficBatch, reset | every byte counted once |
| Configuration sync (`api/handlers/node_recovery.go`, `node_agent.go`, `agent`) | `nodes.sync_status`; in-memory command tracker | mark pending, queue, hand out with a heartbeat, execute, report | a node that is shown as synced has the configuration; it catches up |
| Health checking (`node/health_checker.go`) | counters per node, `nodes.status` | probe a sample, count, write the status | a dead proxy is noticed, a good node comes back |
| Failover and load balancing (`node/failover_manager.go`, ...) | assignments | failover, recovery | users are on healthy nodes |
| Node registration and tokens (`node/service.go`, `node/auth.go`) | tokens, `nodes.status` | register, rotate, revoke, validate | an agent gives up only when its token is void |
| Certificates (`certificate/service.go`, `api/handlers/certificate.go`) | `certificates`, `certificate_deployments`, the pair on disk, `nodes.certificate_id` | apply, renew (panel and loop), upload, deploy, verify, retry, delete | what is shown as deployed is served; renewal keeps nodes supplied |
| Entitlements (`entitlement`) | proxies of a user | reconcile | proxies match the plan |
| Notifications (`notification`) | outbox | enqueue, claim, send, retry | at least once |
| Portal, subscription links, Xray configuration, IP limits, cache, settings, logs, backup | various | CRUD and rendering | mostly sequential |

### Interactions

Requests, gateway callbacks and the scheduler are goroutines that share only the
database. Each commercial service runs several statements or transactions; the
important ones are single transactions (`commercial_atomic.go`). With SQLite the
pool has one connection, so that a statement or transaction is one atomic step;
with other databases the transactions lock the rows they read
(`clause.Locking`). What runs *between* two of them may be interleaved with
anything. The agent and the panel talk over HTTP in one direction: the agent
asks, and the panel's answer may be lost.

### Hard behaviours

Duplicated, late and concurrent callbacks; a payment racing a cancellation or
another payment; the process dying between the payment and the work that follows
it; a pass of the scheduler over a list that is out of date; rows read, kept and
saved whole; heartbeats whose answer is lost, retried while the first copy is
still being handled; either side restarting between two steps; a counter that
starts again at zero; a pause that stops half way; commands that are forgotten,
sent twice or answered late; a status column with four writers; a token
presented twice at once; a certificate renewed by two parties while a node
fetches its configuration. `PROJECT.json` lists each under `hazards`, at its line,
with the properties aimed at it or the reason why there is none yet.

## 2. The modules

| Module | What it models |
|---|---|
| `Wallet` | the balance column and the sum of the audit rows; `CreditAtomic`, `DebitAtomic`, `Adjust` |
| `OrderPromise` | what an order promises, abstractly: opened, then settled or closed once, then perhaps returned once |
| `OrderPayment` (extends `Wallet`) | orders, callbacks, wallet payments, the administrator, fulfilment, scheduler, refunds, restarts |
| `Subscription` | one user's paid time: purchases, pauses, upgrades and scheduled downgrades on the columns of one `users` row |
| `TrafficReport` | agent, network and panel, as far as traffic is accounted |
| `WalletCredits` (extends `Wallet`) | gift cards and recharges, the two ways in which money enters the wallet |
| `NodeSync` | how a change of a node's configuration reaches its Xray process |
| `NodeHealth` | the status of one node and the life of its agent |
| `Access` | sessions, refresh tokens, second-factor challenges and the accounts behind them |
| `Certificates` | one domain's certificate: row, stored pair, deployments, nodes |
| `OrderPaymentProofs`, `TrafficReportProofs`, `WalletCreditsProofs`, `SubscriptionProofs`, `NodeSyncProofs`, `CertificatesProofs` | the proofs about the module of that name |
| `AccessProofs` | the proofs about `Access` and, in its last part, about `NodeHealth`; the two share no state and no names |
| `SumLemmas` | sums over finite sets and least numbers, which the provers know nothing of |
| `MC*` | constants for TLC |

### OrderPayment

State: `orders` (one record per row: status, owner, plan, amount, payment number
and method, expiry, `fulfillment_pending`, refunded amount), `plans`,
`expiresAt` and `trial` per user, `jobs` (for every request goroutine and the
scheduler, where in `syncFulfillment` it is), `batch` (what the scheduler has
listed and not reached), `charges` (what customers paid at a gateway; external),
the clock, and history variables that no action reads: how often a plan was
applied, the sums of an order's purchase and refund rows, which orders had their
runtime hook run, what administrators adjusted.

Every handler is an action of its name. `PayAndApplyPlan`, `RefundToBalance` and
the guarded status updates are one step each, because they are one transaction
or one guarded `UPDATE`; a rolled-back transaction is a step that is not
enabled. A handler that reads an order and checks it before it runs such a
statement is merged with it: the second check decides, and the handler may stall
in between for any time, which is the action being taken late.
`syncFulfillment` runs outside the transaction and is four steps, each of which
may fail (`SyncFails`) or be cut off (`Restart`).

Left out because it changes nothing in these states: `Create` sets
`balance_used` to 0, so the balance that `Cancel` would return is always 0; the
recovery of refunds made by older releases needs rows no code of this version
writes; the cancellation of commissions in a refund meets no rows, since no
wired code creates commissions. Prices are per plan; coupons are refused by the
code. `ExpirePendingOrders` exists and is modelled although nothing calls it on a
timer.

### TrafficReport

One node and one counter: the panel's keys contain the node id, and a batch
carries the growth of all counters together. State of the agent: committed
counter, pending batch, the file, whether it is registered, and where
`sendHeartbeat` is (`beat`). State of the panel: per request, where `Heartbeat`
is (`handlers`), the deduper's two maps, and `nodes.traffic_total`. A batch is
its content (bytes and counter), because its id is a digest of them. `recorded`,
`dropped`, `produced` and `times` are history.

The agent's heartbeat is five steps (prepare, persist, send, wait, save), and the
agent may restart between any two. A request is on its way or in the handler
from `SendHeartbeat` on; the agent may give up waiting at any time
(`HeartbeatFails`) while the request goes on. The handler is: ask the deduper,
compare the node's total with its limit, record in one transaction or fail,
answer, and only then, deferred, tell the deduper. A panel that restarts forgets
both maps and cuts requests off.

Not modelled: the token becoming invalid (which stops the agent for good),
commands in the answer, sessions, alerts and access revocation after the
transaction, and the split of bytes over users and proxies.

### WalletCredits

State: `cards` and `recharges` (the rows; a deleted card keeps its columns as
history), `redeeming` and `deleting` (where `Redeem` and `Delete` stand, since
both read, decide and act in separate statements), `creating` (a `CreateRecharge`
that waits for the gateway), `offered` and `charged` (what the gateway and the
customer did; external), the clock, and `credits`, the history of how often a
card was credited. `Redeem` is read, compare with the clock, and then either
`MarkExpired`, by id alone, or the transaction `RedeemAndCredit` with its guard.
A callback of a recharge reads the row before `MarkPaidAndCredit` reads it again;
only the second reading decides, so they are one step. Nothing that is wired
sells cards, expires them on a timer, or expires recharges.

### Subscription

State: the clock in ticks (`TicksPerDay` to a day, because a pause keeps whole
days), the columns of the `users` row that decide about a subscription,
`subscription_pauses`, the user's row of `pending_downgrades`, which plans are on
sale, and per request what it has read. `owed` (paid ticks not yet served),
`due` (the plan paid for last) and `broken` (a pause or resume stopped half way)
are history. `Pause` is three steps (check, record, save the row with the expiry
set to now) and `Resume` three (read, save, close), because they are separate
statements without a transaction; each may be cut off after any step
(`Abandon`). An upgrade is quoted first and paid later, in one transaction that
checks again. Requests are short against a tick. Traffic quotas, and the plan of
users from before the plan columns existed, are left out; trial days are not
told apart from paid ones.

### NodeSync

State: the version of the configuration that the panel would generate now,
`nodes.sync_status`, the tracker (pending, in flight, cooling types, the last
`MaxEvents` events, which decide whether a command can grow old), the heartbeat
in the panel, the agent's commands, the result under way, and the versions in
the node's file and in Xray. A command that is older than its time to live, a
cooldown that ends, a heartbeat that times out are actions of their own. The
agent executes commands in its heartbeat goroutine: the fetch, the file, the
restart and the report are separate steps, between which the watchdog acts and
either process may die; every such fault counts against `MaxFaults`. Command ids
are taken from those nobody remembers, and `NodeSyncTypeOK` says that there always
is one (`MaxIds` is a bound of the model; the code takes ids from the clock). `Systemd` selects where Xray runs,
`Overlaps` lets a change fall between a sync's fetch and its result.

### NodeHealth

One node. `row.status` has four writers (registration, heartbeat, the checker,
token operations), each modelled as its read and its later write. The checker's
verdict comes from a rotating sample of the proxies, the failures it remembers,
and the grace period of a pending sync; thresholds saturate. `world` is what
probes would find; it is an input that changes at most `MaxWorlds` times.
`LookupResults` says whether the lookup of a token may fail in the database.

### Access

Each request is a sequence of database statements (look up the session, load the
user, consume, load again, create; read the account, count administrators,
save), and statements of different requests interleave. A password hash is a
number, fresh each time because it is salted; a session's credential is the
fingerprint of one. Saving an account writes every column of the copy that was
read. `from` and `verified` of a session, `replaced` and `restored` are history.
Codes are correct when the account has a secret. Rate limits, reset tokens,
backup codes, e-mail verification and OAuth are left out.

### Certificates

Time passes in units of about a month, longer than any task, and only when
nothing short is under way (`Settled`); what takes minutes ends at any moment
inside a unit, and the loop retries a deployment once per unit. An application,
a renewal and an upload each read the row, work, store the pair and save the
whole row they hold; the pair is one step (the code writes two files). A
deployment row per node is created, the node marked, an SSH copy made, which
does not change what Xray serves; the node fetches the pair with its
configuration. The loop compares what the node serves with what is stored.
`missed` is history: nodes for which somebody stored a pair that nobody will
deploy, or for which a row that was out of use (the generator leaves an expired
row out of a configuration) came back by a save that no deployment follows
(`SaveRow`). Deletion, self-signed certificates and alerts are left out.

## 3. The runs

| Run | Instance | Shows |
|---|---|---|
| `order_race` | one order of a plan of price 2; two payments, two request goroutines and the scheduler; clock to 2, order valid for 1; plan withdrawn or deleted | `TypeOK`, `PaidOnce`, `RefundedOnce`, `SyncedMeansProvisioned`, `PaymentKept`, and `KeepsPromise`: the tables implement `OrderPromise` |
| `order_stack` | two orders of one user, top-ups and corrections of the wallet, clock to 1 | `BalanceExplained`: the balance is what the other tables say; `PaidTimeKept`: paid days stack |
| `order_live` | two orders, one retried per pass | `EventuallySynced` |
| `credits_race` | two users, two cards, a recharge, two redemptions at once; cards expire at 1 or never, clock to 2; the wallet holds two credits | `CreditsTypeOK`, `CardCreditedOnce`, `BalanceFromCredits`: the balance is the value of the cards and recharges whose rows name the user; `ChargeCreditable` |
| `traffic_count` | two overlapping requests, 3 bytes, limit 2, Xray restarts | `TypeOK`, `RecordedOnce`, `NeverOvercounted` |
| `traffic_loss` | one request, 2 bytes, agent and panel restart, disk fails, batches expire | `NothingLost`, `EventuallyReported` |
| `subscription_days` | two plans of two days, prices 1 and 5, two ticks to a day; 2 purchases, 2 pauses, 6 ticks | `DaysNotLost`, `DaysNotGained`: all a pause costs or gives is less than a day; `PaidPlanServed`; `DueDowngradeDecided` |
| `node_sync` | 2 changes, 1 fault of any kind at any place, 2 events remembered | `SuccessMeansLoaded`, `SyncedMeansWritten`, `NodeCatchesUp` |
| `node_health` | two proxies of which a check probes one, thresholds of 2, one change of the world | `StoppedOnlyWithoutToken`, `DeadProxyNoticed`, `RecoveredNodeReturns` |
| `access_sessions` | two accounts, two requests at once, two passwords, three sessions | `OneSuccessor`, `SessionProvesPassword` |
| `second_factor` | violation: one account | removing the second factor locks the account out (section 5) |
| `certificate_renewal` | one node, certificates of two units renewed with less than two left, two requests or restarts | `ConfirmedMeansServed`, `NodeServesValid` |

Every passing run but `order_stack`, `order_live` and `traffic_loss` also checks
its module's type invariant.

Why the bounds are enough for the cases at stake. Two goroutines and two
payments are the least with which a callback is duplicated while another way of
paying wins; three workers with the scheduler let two syncs of one order overlap
with a refund. The clock passes the expiry of the order. Two orders are the
least that stack, and the balance holds the price of one but not of both, so
that debits are refused. Three bytes let a batch be pending, another grow behind
it and the counter restart below the committed one (`traffic_loss`, which checks
liveness too, makes do with two: one pending, one behind it); with a limit of 2 the node
passes from below the limit to beyond it and is reset. `MaxRecorded` is twice
`MaxTraffic`: it is reached only where batches are counted twice. Two
redemptions and two users are the least that race for a card, and the second
card lets a wallet be filled from cards and recharge until the column refuses a
third credit. In `credits_race` administrators disable cards but do not
reactivate them (`AdminStatuses`); section 5 says what that would do.
Users, cards and requests are symmetric there; all its properties are invariants
that treat them alike. The orders run
without a deadlock check: an instance whose orders are all settled may stop.
In `subscription_days` a pause of the maximal length ends inside the clock's
range and a second pause is possible once the first cycle is over; the wallet
pays for one upgrade and not for two. The user sends one request at a time; its
steps interleave with purchases, the scheduler and the catalogue. Section 5 says
what two at a time do.
In `node_sync` the list of events is as short as it
can be for a command to be pushed out of it. Two requests in `access_sessions`
are the least that present one token at once, and three sessions are a login, a
challenge's or refresh's successor, and a second one. In `certificate_renewal`
an event is a request of an administrator, a change on the node, a restart or a
failure of the panel's own files and tables;
renewals by the loop are free. The safety part was also checked with three
events and certificates of three units (1.7 million states).

The flags `BuysWhilePaused`, `PausesWithPending`, `Overlaps`, `Systemd`,
`LookupResults` and `AdminStatuses`, and the single request of
`subscription_days` and `traffic_loss`, exclude in the passing runs an overlap or
a failure that the code allows and that breaks a property. They are not claims about the
code: section 5 lists what happens with each of them set.

### Fairness

`order_live`: `planchange.Scheduler` runs a pass when the process starts and then
every minute, for ever (weak fairness of listing). Restarts may cut passes short
any number of times, but a pass is begun again each time, so of infinitely many
chances some are taken (strong fairness of `RetryNext` and of the three steps of
the scheduler's sync). That a step does not fail *every* time is an assumption
about the failures: they are transient. It matters: once `RetryLimit` orders
fail permanently, later ones starve, since the pass always takes the first ones
by id. No fairness is assumed of requests, callbacks or administrators.

`traffic_loss`: the heartbeat loop ticks for ever and registers again after every
failure ("Panel outages are transient and the agent must resume heartbeats
automatically"). Strong fairness of the agent's steps, and of the panel handling
a request *while the agent waits for it*, says that of infinitely many attempts
not all fail. Weak fairness ends abandoned requests.

`subscription_days`: `planchange.Scheduler` applies due downgrades every minute
(weak fairness of `ApplyDueDowngrade`). Nothing else has to happen.

`node_sync`: the agent's heartbeat and watchdog loops and the panel's handlers go
on, and waiting times end (weak fairness). Faults need none; there are finitely
many of them.

`node_health`: the checker's ticker goes on and the grace period ends. Agent and
operator need not act: the checker alone must notice a dead proxy and bring a
good node back.

`certificate_renewal`: the loop comes round and its tasks end (weak fairness);
`acme.sh` and the node succeed if they are tried again and again, and time passes
(strong fairness). Requests by administrators need none, but those begun end.

### Mutants

Every property of a passing run has a mutant: a definition with a plausible bug
(named as a mutated form where it stands, just before the definition it
replaces) under which TLC finds the property violated. Examples: a payment that
does not check the status again, a deduper that ignores batches in flight, a
failed batch that is remembered as recorded.

## 4. The proofs

All theorems hold for every value of the constants that satisfies the named
assumptions of the modules (`WalletAssumption`, `OrderAssumption`,
`TrafficAssumption`, `CreditsAssumption`, `SubscriptionAssumption`,
`NodeSyncAssumption`, `NodeHealthAssumption`, `AccessAssumption`,
`CertificatesAssumption`), which TLC evaluates on every run. Every invariant of
a passing run is the conclusion of a theorem. Some theorems assume more; those
assumptions are the flags and bounds under which the runs pass too, section 5
shows what the code does without them, and the theorem states them as its
hypotheses.

| Theorem | Assumes besides |
|---|---|
| `BatchRecordedOnce` | the panel neither restarts nor forgets |
| `BytesChargedOnce` | that, and the agent's disk works |
| `NothingIsLost` | Xray does not restart, a node's requests do not overlap |
| `CardIsMoneyOnce`, `BalanceExplainedByCredits` | no card is set back to active; the second also that the tables are finite |
| `PaidDaysNotLost`, `PaidDaysNotGained` | one request of the user at a time, no purchase during a pause |
| `PaidPlanInForce` | that, and no downgrade scheduled across a pause |
| `SuccessLoadsConfig` | Xray is a child of the agent |
| `SyncedNodeHasChanges` | no change between a fetch and its result |
| all of `NodeSyncProofs` | `[]IdLeft`: a new command finds an id the model may give it (the run checks it) |
| `AgentStopsOnlyWithoutToken` | lookups of tokens do not fail |

Two habits of the prover (tlapm 1.4.5) that whoever extends the proofs should
know. `[f EXCEPT ![r].a = x, ![r].b = y]` reaches the SMT solver as two values of
one element, which makes a leaf that expands it true of anything; the models
write `[f EXCEPT ![r] = [@ EXCEPT !.a = x, !.b = y]]`. And every function that
occurs together with a sequence is taken to have a domain `1..n`; no leaf depends
on that (the obligations that mention `Len` were solved again without it). The
hypotheses of every leaf were also given to the solver alone, to see that only
leaves whose case cannot occur are contradictory.

**OrderPaymentProofs.** `Inductive` shows `Spec => []IInv` with

    IInv == TypeOK /\ Books /\ SyncBooks /\ SyncedMeansProvisioned

`PaidOnce` alone is not inductive: to see that a payment finds `applied = 0` one
must know that an unpaid order has no method, no payment number and no rows.
`Books` says what the columns of an order say together, status by status.
`SyncedMeansProvisioned` is not inductive either: a goroutine about to clear the
flag must have run the hook, and another payment must not have withdrawn that.
`SyncBooks` says what a goroutine has done by the step it is at, and that only
paid orders are ever synced or listed; with `PaidStays` and `TrialStays` (paid
orders stay paid or refunded, ended trials stay ended) the work of one goroutine
is not undone by another. From `IInv` follow

- `TypeCorrect`: no balance below zero or beyond the column's largest value;
- `PaymentExactlyOnce`, `RefundAtMostOnce`, `NoLostFulfilment`;
- `PaymentNeverReplaced`, an action property;
- `ImplementsPromise`: every step maps to a step of `OrderPromise` or to none.

`BalanceExplainedByOrders` and `PaidTimeNeverLost` are about sums over all
orders of a user. Both are inductive with `TypeOK`; the work is to show what a
step does to the sums. Either no order changes what it counts for anybody
(`SumsKept`), or exactly one does, for its owner, and the sum moves by just that
(`SumNext`): a wallet payment takes its price, a refund gives back its amount, a
payment adds its plan's days.

**SumLemmas.** Sums are written with `SumFunctionOnSet`, a fold defined by
`CHOOSE` of a table. The library's induction theorems cannot be applied by the
provers, but the least-element principle behind them (`WFMin`) can: `LeastNumber`
and `LeastSubset` follow from it, with them that the table exists and is unique,
and then that a sum over a set does not depend on the order, what removing,
inserting and changing one element does to it, and that it is monotone.

**TrafficReportProofs.**

- `TypeCorrect`, with the extra conjunct that the counter never exceeds what went
  through Xray.
- `BatchRecordedOnce`. The invariant
  `Dedup`: a request that has not recorded its batch has not succeeded, no two
  requests own one batch, an owned batch is in flight and not remembered, and a batch that was recorded is remembered or owned by the
  request that recorded it. The last part carries the batch across the gap
  between the answer and the deferred end of the handler.
- `BytesChargedOnce`. `Ledger`: what is accounted is the sum of the batches that
  count, and, from each of the three places from which the agent may go on (its
  memory, its disk after a restart, a heartbeat without a batch), all batches
  known anywhere and the batch that would come next fit into what Xray has
  counted. `Stored`: a batch is sent only when it is on the disk; without that,
  a restart measures from a counter below a batch that is on its way.
- `NothingIsLost`. `AgentSafe` and `PanelSafe`: what lies below
  any batch, wherever it is, is already accounted; what was answered with
  success or is remembered is accounted itself; committed counters, in memory
  and on disk, never run ahead of what is accounted. The panel may restart and
  forget, and the disk may fail: those only count twice, they do not lose.

**WalletCreditsProofs.**

- `CreditsTypeCorrect`, with the extra conjunct that a pending recharge has an
  owner, without which the credit has no wallet to go to.
- `CardIsMoneyOnce`. `CardUnspent`: a card that is active, or not yet
  made, was never credited; a redemption therefore finds no earlier credit, and
  no write of another status, however late, makes a card redeemable again.
- `NoChargeStranded`. `OfferKept`: a recharge whose page was handed out is no
  longer one its handler may cancel, and is pending or paid.
- `BalanceExplainedByCredits`. `CardUnowned`: a card that may still be redeemed
  names nobody, so that its redemption adds to the sum and takes from none.

**SubscriptionProofs.** `SubscriptionTypeCorrect` needs that rows which requests
kept are rows of the table (`RowsOK`): a zero number of days in one of them would
be divided by. For the days, `Phase` says that at most one pause is open and what
a request under way knows of it. `Covered` and `Bounded` compare what runs or is
kept with what is owed, separately for no open pause, an open one, and the moment
at which `Resume` has restored the row and not closed the pause, when both hold
the days. The slack is less than one day for each pause so far. `Bounded` is
given up once a pause or resume stopped half way, `Covered` is not. `PlanHeld`
says that a row in the hands of a pause or resume names the plan in force; this
is what a second request would break.

**NodeSyncProofs.** `SyncInv` has, besides types, that commands known to the
tracker and the agent have different ids (`Sound`) and that the step the agent is
at belongs to the command at the head of its list (`Phase`). Both are needed for
a result to settle the command it was reported for (`CompletedIsHead`). `Loads`:
from the writing of the file to the report, the file has what was fetched and a
running process has loaded it, across crashes and self-heals. `Settles`: until a
success is settled the file has the newest version. `Others`, which removes
commands from a list, is a recursive function and not `SelectSeq`, of which the
provers know nothing; `OthersExists` and the lemmas after it say what it returns.

**CertificatesProofs.** `TypeInv`: whoever holds a row holds one with a pair
stored if it is or will be active. That a fresh id for a pair exists is shown by
counting: each node has at most three pairs in use, and there is one id more.
`Serving`: for a node to which nobody is going to deploy (`Quiet`), a check of
the latest deployment compares with the stored pair, a confirmed node serves it,
and a configuration it has fetched but not loaded has it too. The last part is
what a fetch that began before a confirmation needs. The attempt to prove this
showed that the property had been too strong: a renewal that fails saves a row
read before it expired, the row runs out before the pair, the node fetches a
configuration without the pair, and a new application writes an estimated expiry,
so that the row is in use again and the old success shows a certificate that the
node does not serve. TLC finds it with four events. The model now notes such
nodes in `missed` (`SaveRow`), and the property no longer excepts pairs that have
expired.

**AccessProofs.**

- `TokenExchangedOnce`. A session that a request has consumed is out of the
  table, without successor and in no other request's hands (`Spent`, `OnlyOne`);
  then the one it opens is the only one.
- `NoSessionFromOldPassword`. `HashRead` and `HashProved` follow the hash through
  the steps of a request: the account is loaded twice, and what is compared with
  the session, what is consumed and what the new session is opened under may be
  different readings. They agree, or the hash of the session was lost and came
  back by a stale save, which `restored` notes.
- `AccessTypeCorrect`, needed by both.
- `SampleIsFull`: the rotating sample has exactly the size asked for, or has all
  proxies. `Sample` stops at a least number of steps, which has to be shown to
  exist (`VisitedType`). `NodeHealthTypeCorrect` rests on the same lemmas.
- `AgentStopsOnlyWithoutToken`, inductive together with the agent's type.

Only model-checked: the liveness properties (`EventuallySynced`,
`EventuallyReported`, `DueDowngradeDecided`, `NodeCatchesUp`, `DeadProxyNoticed`,
`RecoveredNodeReturns`, `NodeServesValid`), which need fairness and `ENABLED`, out
of the prover's reach.

## 5. Findings and observations

### Finding

`Disable2FA` (`portal/auth/service.go`) deletes the row of `two_factor_secrets`
and leaves `users.two_factor_enabled` set, which every login reads: the account is
then asked for a second factor that nothing can answer, although the handler
reports that two-factor sign-in is off. Run `second_factor`.

### Observations

Sequences the models contain, or would contain with a flag set, that a reader of
the code should know of. They are not runs; each says how to see it, if the
modules can show it.

Orders and wallet

- `SwitchPaymentMethod` (`commercial/payment/retry.go`) saves an order row it
  read before a payment committed; the order is pending again, and a replayed
  callback applies the plan a second time.
- `userRepository.Update` saves every column of a user row. A handler that waits
  between reading and saving overwrites a balance, an expiry, or a password that
  changed meanwhile; sessions opened under the old password are then current
  again (`Access` has this step: `restored`).
- `SetStatus` of a gift card makes a redeemed card active again, and it is
  credited twice: `CardCreditedOnce` fails with "active" in `AdminStatuses`.
- A retry pass takes the first 100 pending orders by id; once that many fail
  permanently, later ones starve. A charge for an order that was cancelled, or
  whose plan was deleted, is refused and recorded nowhere. The balance in a
  recharge's audit row is read before the update. `ExpireTrials` writes back
  trials it listed earlier.

Subscriptions

- A purchase while a pause is recorded is overwritten by `Resume`, which writes
  the expiry from the days kept: `DaysNotLost` fails with `BuysWhilePaused`.
- A downgrade scheduled before a pause falls due during it, so that the resumed
  time is served on the cheaper plan: `PaidPlanServed` fails with
  `PausesWithPending`.
- `Pause` and `Resume` save the whole row they read: an upgrade paid in between is
  undone, the plan and the debit alike. `PaidPlanServed` fails with two
  `Requests`.

Traffic

- The deduper answers success for a batch that is only being recorded; if that
  fails, the batch is not retried. It takes two overlapping requests:
  `NothingLost` fails with two `Requests`.
- The deduper's memory does not survive a restart of the panel; a batch whose
  answer was lost is then recorded twice: `RecordedOnce` fails with
  `PanelMayRestart`.
- Bytes Xray counted since the last heartbeat are gone when it restarts. A batch
  id is a digest of the content, so that two equal batches within the deduper's
  memory are one.

Nodes

- A change made between a sync's fetch and its result is settled by that result:
  `SyncedMeansWritten` fails with `Overlaps`.
- Where Xray runs under systemd, a sync restarts it only if it was running when
  the sync began; started in between with the old file, it keeps that file, and
  the command reports success: `SuccessMeansLoaded` fails with `Systemd`.
- A command whose event was pushed out of the last 12 does not grow old; only
  its result or a restart of the panel removes it. Revoking access only queues.
- A database error during a token lookup is answered 401, which stops the agent
  for good: `StoppedOnlyWithoutToken` fails with `LookupResults = {TRUE, FALSE}`.
- Registration writes `online` unconditionally, and the checker may set a node
  online whose token was revoked.

Accounts

- The check that an enabled administrator remains counts before it saves; two
  requests at once can remove the last two.

Certificates

- A re-application of an active certificate that fails keeps the estimated
  expiry it wrote first, and renewal comes months late (compare
  `Docs/certificate-guide.md:402`).
- An application that names no nodes does not redeploy to the nodes assigned
  already, and a crash between storing and deploying leaves the old success in
  place (`missed`); a crash while an application runs leaves the row pending, and
  `Apply` refuses a pending row.
- `Renew` saves the row it read minutes before and undoes a replacement by hand
  or a change of the automatic renewal; a deletion is not blocked by the loop's
  renewal, whose save inserts the row again.
- The generator drops a certificate whose row is not active or expired, whatever
  is stored.

## 6. Plan

Done: wallet, orders, payments, refunds, fulfilment; gift cards and recharges;
traffic accounting; subscriptions (pauses and plan changes); configuration sync;
node status; sessions; certificates. Every invariant the runs check is proved.

Left, in this order:

1. An abstract ledger that `OrderPayment` and `WalletCredits` implement, and an
   abstract accounting that `TrafficReport` implements, with the refinements
   proved from the invariants of section 4.
2. Failover slots and their release; the notification outbox and its dispatcher;
   the rate limiter; reset tokens and backup codes; activation and expiry of
   trials.
3. `Certificates` with deletion, composed with `NodeSync` instead of its own
   short form of a node.

## 7. Not modelled

Rendering and I/O: subscription links, Xray configuration, scripts run over SSH,
invoices, the web front-end, logs and backup. Signatures and encodings of the
gateways. Queries, statistics and settings. The data-parallel detail of traffic
(users, proxies, directions). Rate limits, OAuth, reset tokens, backup codes and
e-mail verification. Failover and load balancing. Deletion of certificates,
self-signed ones and expiry alerts. Commissions and coupons, which no wired code
reaches. Most of the repository's lines are of these kinds (handlers that
validate, list and format, SQL queries, scripts); the share of lines that the
map covers is therefore small and is not meant to become large.
