# Vectra ProRouter: models, checks and proofs

Vectra ProRouter manages a fleet of OpenWrt routers. A **panel** (Next.js and
PostgreSQL, `src/apps/web`) keeps the desired configuration of each router and a
table of jobs; a **controller** on each router polls it, executes what it is
handed and reports. Two controllers exist: the legacy PassWall agent
(`src/router/vectra-controller-agent`, Go) and `vctl`
(`src/router/vectra-controller-pro`, Go). Partners (Vectra Connect and others)
own routers through the panel's partner API.

This directory models the protocol between them (what may happen to a job from
the moment somebody queues it until everyone agrees that it is over), who may
switch a router's proxy off and on, which node a router's traffic is moved to, and
how partners hear of their routers.

## 1. Inventory

| Component | State it keeps | Operations | Hard part |
|---|---|---|---|
| Job table and delivery (`router-control.ts`) | `vectra_job`, `vectra_job_result`, router row, desired revisions | queue, deliver on check-in, record a result, fail what cannot be delivered | `recordJobResult` holds no transaction: it decides on rows it read earlier and writes unconditionally |
| Stuck-job janitor (`stuck-job-janitor.ts`) | none (a timer) | scan, cancel one job per transaction | races with results; must not free an owner's key |
| Partner actions (`partner-routers.ts`, `partner-router-events.ts`) | job payload (`cancelledBy`, `cancelledRunReported`), webhooks | queue by idempotency key, cancel, tell the owner the result | cancel against a delivery in progress; exactly-once news about a cancelled action that ran |
| Claims (`router-claims.ts`, `router-claim-state.ts`) | owner, release, claim code | claim, unbind | withdraws jobs and config that other requests are working on |
| Drafts and revisions (`draft.ts`, `draft-selection.ts`) | desired revisions | save, queue apply, discard | a discarded draft may already be on its way |
| Agent cycle and journal (`main.go`, `state.go`) | `CurrentJob`, `PendingJobResult`, retry counter in `state.json` | recover, check in, accept, execute, report, restart into a new version | crashes and failed saves between any two steps; a result that can never be confirmed |
| Control-plane recovery, local rescue (`controlplane_recovery.go`, `rescue_runtime.go`) | phases and timers in `state.json` | probe, switch to direct mode, back, restart, reboot, park | three judges over one switch; caches, pacing, restarts in the middle of a phase |
| Cron watchdog (`vectra-controller-watchdog`) | ownership marker file, stamps in `/var/run` | probe, fail safe to direct, give back | reads the switch minutes before it writes it |
| vctl cycle and owner actions (`cmd_agent.go`, `cmd_agent_jobs.go`, `connect_dispatch.go`, `connect_maintenance.go`, `connectactions`) | `state.json`, the journal of actions, the reboot receipt | recover, check in, change owner, execute, report, reboot, restart into a new version | three files replaced one after the other; an action may be handed out again at any time |
| vctl failover (`failover.go`, `internal/failover`, `cmd_rpcd.go`, `localui.go`) | the policy's moves, the owner's pins in the overrides file; xray's override and observatory | look, decide, apply, confirm; pin and release; reapply after a start | the watchdog, the owner and the start hook over one override that only xray keeps; evidence older than the node's death |
| vctl apply, power (`internal/apply`, `internal/power`) | installed configurations | apply with rollback | a dead-man switch, many timers |
| Webhook outbox (`partner-webhooks.ts`) | outbox rows with leases; per process the partners' running loops and addresses | enqueue, lease, deliver, retry, give up | a send that outlives its lease, in a process that shares only the rows |
| Background loops (`background-lock.ts`, `auto-rescue.ts`, `rollout-control.ts`, retention) | advisory locks, rescue cases, rollouts | tick | two processes during a deploy; caps and parking |
| Authentication (`router-credential-binding.ts`, `router-checkin-replay.ts`) | credentials, nonces | register, bind, check nonces | replay and rotation |
| UI, tRPC CRUD, installer, scripts | - | presentation, one-shot I/O | - |

Interaction: the agent calls `register`, `check-in` and `job-result` over HTTP;
every answer may be lost, and every request may be handled after the agent has
stopped waiting for it. The panel never calls the router. Inside the panel all
requests and timers share the database and interleave at every `await`; during a
deploy two processes do so at once.

What makes these components correct:

* a job key names one unfinished job; an idempotency key names one action for good;
* what a partner cancelled is not handed out, and its owner hears of its run once;
* every running job ends; every queued job of a router that polls ends;
* a job is executed at most once and recorded as a success only if it succeeded;
* an update is a success only if the new version runs;
* no saved journal keeps a router silent;
* an owner's action has its effect once and for that owner only; a reboot is told before it is done;
* a released router has neither approval nor configuration of its former owner;
* the panel's silence never costs the VPN; a proxy that works is used again; a
  runtime that is missing is never switched on;
* a balancer that works is left alone; with one node that works, traffic gets
  through, and the watchdog's override and its word "down" do not outlive the trouble;
* a webhook is sent by one loop at a time, and is delivered or given up.

## 2. Modules

| Module | What it is | Runs / proofs |
|---|---|---|
| `PanelJobs` | the panel's side for one router, any router behaviour | `panel_*`, `PanelJobsProofs` |
| `PanelJobsProofs` | inductive invariant, type correctness, one active job per key | TLAPS |
| `PanelOwnerProofs` | partners' cancels, idempotency keys, notices to owners | TLAPS |
| `AgentJournal` | the legacy agent's side, any panel behaviour | `agent`, `AgentJournalProofs` |
| `AgentJournalProofs` | coherent journal, confirmed updates | TLAPS |
| `VctlJournal` | vctl's side, any panel behaviour: jobs, owners' actions, reboots | `vctl_*`, `VctlJournalProofs` |
| `VctlJournalProofs` | at most once, true successes, reboot after delivery, former owners | TLAPS |
| `JobProtocol` | `PanelJobs` composed with `AgentJournal` over a faulty network | `protocol` |
| `JobContract` | the abstract promise about each job | refined by `JobProtocol` (`KeepsContract`, `ContractKept`) |
| `JobProtocolProofs` | one execution per job, the contract's safety part implemented | TLAPS |
| `ProxyRecovery` | who switches a PassWall router between proxy and direct: rescue, recovery, watchdog, owner | `recovery`, `watchdog_race`, `ProxyRecoveryProofs` |
| `ProxyRecoveryProofs` | the panel's silence keeps the VPN, waits only parked, a missing runtime stays off | TLAPS |
| `Failover` | vctl's watchdog, the owner's pins and the start hook over xray's main balancer | `failover`, `FailoverProofs` |
| `FailoverProofs` | a balancer that works is left alone | TLAPS |
| `WebhookOutbox` | the partners' webhooks, delivered by several processes | `webhooks`, `WebhookOutboxProofs` |
| `WebhookOutboxProofs` | one sender at a time, leases hold, type correctness | TLAPS |
| `MC*` | values for TLC | |

### PanelJobs

One action is one SQL statement, or one transaction: that is the grain at which
the panel's requests interleave.

* `job[j]` is a row of `vectra_job`. `key` says that the row holds its dedupe key
  (`Target[j]`); `delivered` is `deliveredAt`; `by` and `reported` are
  `payload.cancelledBy` and `payload.cancelledRunReported`; `owner` is
  `payload.ownerRef`; `born` is the order of `createdAt`; `over` is history: a
  result was written over a row that had ended. `completedAt` is set
  exactly in the terminal states and is not a field. `absent` is a row not
  inserted yet.
* `router` is the router row: owner, release, `importState = approved`,
  `activeRevisionId`, `lastAppliedRevisionId`. `rev` is the status of its desired
  revisions.
* `calls[h]` is one `recordJobResult` in flight: what it still remembers of the
  rows it read, and the statement it is at. `checkin` is the check-in in
  progress, `sweep` the candidates the janitor has read and not yet handled.
* `handed` and `told` are history: jobs that were in an answer, and the events
  (`router.action`) sent to owners about the result of an action, from both places
  that send them: the report of a cancelled run and the end of `recordJobResult`.

Queueing: `Author`, `QueueApply`, `QueueAction`, `QueueOther`, with the unique
index (`KeyFree`). Delivery: `CheckInRead` (report, candidates, desired
revision), `CheckInDeliver` (the transaction under the router row lock),
`FailUndeliverable`, `CheckInAnswer`. Results: `Receive`, `HandlerRead`,
`HandlerReport`, `HandlerWrite`, `HandlerRevision`, `HandlerRouter`,
`HandlerNotify` (`notifyPartnerActionResultWithDb`, a transaction of its own), `Respond`,
and at every one of them `HandlerError` (a statement throws) and `HandlerCrash`
(the process dies). Others: `JanitorScan`, `JanitorCancel`, `JanitorFails`,
`PartnerCancel`, `Unbind`, `Claim`.

The router is not trusted: `RouterReports` lets it report anything about a job it
was handed, repeatedly and in several requests at once.

### AgentJournal

`mem` and `disk` are the journal in the process and in `state.json`; a failed
save leaves them different, and the attempt to save at the end of a cycle
(`persistStateIfChanged`) may or may not repair that. An action ends where the
agent waits for the panel or where a crash would make a difference. `Flush` is
`flushPendingJobResult`, with the retry budget of an unconfirmed update;
`RecoverPending`, `RecoverCurrent` and `RecoverNothing` are `recoverJobJournal`;
`Accept`, `AcceptAcked`, `Refuse`, `Execute`, `Finish`, `FinishUpdate` are
`executeJobs`. `runtime` is the version that runs and `staged` the one on disk:
after a restart either may come up. `ran` and `worked` are history. Crashes,
failed saves and failed requests are counted by `faults`, bounded by `MaxFaults`.

### VctlJournal

vctl keeps three files: `disk` is `state.json` (`CurrentJob` with the version it
expects, `PendingJobResult`, the owner), `record` the journal of actions
(`connect-actions.json`), `receipt` the scheduled reboot
(`connect-maintenance.json`). Each is replaced atomically and none with another,
so an action of the module writes at most one of them, or waits for the panel or
the system; between any two actions the process may die (`Restart`) or the power
go (`Boot`). `mem` is the state of the process, which runs on with what it could
not save. `at` is where `runOnce` is: the place, the job in hand, its result, and
what the result is submitted for, since `finishJob` and `maintenanceFinish` are
called from six places and go on differently. `batch` holds the jobs of the last
answer still to be executed.

`FlushPending`, `RecoverCurrent`, `RecoverNothing` are `recoverJournal`; `Truth`
is what it reconstructs from the journal of actions and the receipt. `Report`,
`Submitted`, `SubmitFailed` are `finishJob` and `maintenanceFinish`; `Deliver` and
`DeliverReceipt` are `connectRecoverDelivered` and
`connectMaintenanceResultDelivered`. `CheckedIn` is the answer with its owner
(`adoptClaimInfo`, `release`) and jobs. `MaintainTerminal`, `MaintainDispatch`,
`RebootCommand`, `RebootCommandFailed`, `MaintainNothing` are
`connectMaintenanceAfterCheckin`. `StartJob`, `StartAction`, `SaveAction`,
`Blocked`, `Execute`, `CompleteAction`, `Install`, `SaveInstalled`,
`ScheduleReboot`, `RefuseReboot` are `executeJob` and `jobConnectAction` with their
callees. `SaveBetween` stands for every save of the rescue and of the loop between
two cycles: it puts what the process knows on disk, whenever it likes.

The panel is not trusted: any answer may name any owner and hand any job, again
or for the first time, up to `MaxHanded` times; with `Repeats` FALSE it does not
hand a job whose final result it has. A request that fails may have been handled.

### JobProtocol and JobContract

`JobProtocol` extends `PanelJobs`, instantiates `AgentJournal` and replaces the
arbitrary router and the arbitrary panel by each other. `waiting` is the request
the agent waits for. It may give up at any time (`GiveUp`); the panel then still
handles the request, and its answer is dropped. `JobContract` has two variables
per job, the record and the outcome of its only execution; `JobProtocol`
implements it with the record read off the job's state. A late result may
reopen or overwrite a record in the code, and the contract allows it, but never a
second execution, never a success that did not happen, and not for ever. Its
specification is a safety part (`Safety`, which is proved) and `Ends` (which takes
the fairness of both programs and is checked by TLC).

### ProxyRecovery

`env` is the world the probes look at: the panel (which may answer the full
check-in and not the 5 s probe: `lossy`), the WAN, the foreign targets, the node and
the PassWall runtime. `pw` is the UCI main switch and `marker` the file by which the
watchdog knows its own direct mode. `mem` and `disk` are the recovery fields of
`state.json`; timestamps are classes of age (the comment of the module lists them,
and `Gone` moves them when time passes; a clock may or may not reach its next class).
`ram` is what a restart forgets: the probe caches and the pacer.

A cycle of `runOnce` is `Wake`, which collects the inventory, then `Rescue`
(`FailSafe`, `RescueStandsBy`, `RestartPasswall`, `JudgeDirect`, `JudgeProxy`,
`CountFailure`), `Advance` (`advanceControlPlaneRecovery`, one operator per phase:
`Watching`, `RestartWait`, `DirectSettle`, `RebootWait`, `PostRebootCheck`,
`PasswallRetryWait`, `OperatorAttention`; `Proceed` is what the loop makes of its
outcome, the advisory skip of the check-in included) and `Report`, with the
operator's jobs that write the switch. `WatchdogReads` and `WatchdogWrites` are one
run of the watchdog: it reads, probes for up to four minutes and writes, so the
agent and the owner act in between, and the agent's probes find the node busy.

### WebhookOutbox

`row` is the outbox table with `nextAttemptAt` as a class (due, leased, later,
never). `flight` holds the delivery loops of each process, `slot` the map in which
a process finds the loop of a partner; a loop that hung and was replaced is still
there and may write. `book` is each process's registry of addresses. `Pass` is
`dispatchDuePartnerWebhooks`, `NextRow`, `LateWrite`, `Lease`, `WaitForPartnerAddress`
and `Send` are `deliverPartnerRow`; a loop is `late` when an await of it outlasted
its lease and the five minutes after which a pass replaces it. The guard of every
write is that of its `WHERE`: the lease compares the attempts that were read, a
failure is written only under its own lease, a delivery under any, and a wait for
an address compares nothing but `deliveredAt`.

### Failover

`node` is what a node is like (a `hollow` one answers connections and carries
nothing), `obs`, `pick` and `stagePick` what xray's observatory and strategies make
of it, `override` what xray is told. `failing` is the detector's verdict on the
connection table. `ours`, `unconf` and `downSince` are the `Policy`; in `ours`,
`held` and `back` are what `ReleaseHold` and `AnsweredSince` say of its time. `pins`
is the overrides file, `request` an owner's call between xray and that file, `hook`
what the start hook has read and not yet applied. `changes` and `mishaps` bound the
changes of nodes and the restarts, failed calls and acts of the owner; `trouble`
is history: a node has not been up.

`Decide` is `Policy.Decide` at one look, with an operator for each of its three
situations: no override of its own (`DecideChosen`), moved (`DecideMoved`), lent
another country (`DecideBorrowed`). `Apply` and `Confirm` are `applyFailover`, steps
of their own because the owner (`OwnerPins`, `OwnerReleases`, `OwnerRecorded`:
`rpcdPin` in another process), the start hook (`HookReads`, `HookApplies`) and the
nodes go on between them. `Probe`, `Answers`, `GoesUnanswered`, `Forgotten` are what
the observatory and the connection table see.

## 3. Runs

| Run | Question | Instance |
|---|---|---|
| `panel_apply` | Does every running job end, is a queued apply handed although one that cannot be delivered is in front of it? | an apply, a job of the other engine, 1 candidate per check-in, 1 result at a time |
| `panel_actions` | Do cancel, delivery, janitor, results, retry and unbind of an owner's action fit together, and how often is the owner told? With the invariants of the proofs | 2 actions with one key, 3 concurrent results |
| `panel_release_race` | (violated) Does a released router stay unapproved? | 1 apply, 1 result |
| `agent` | Is the journal coherent, is an update confirmed before it is reported, does the agent always check in again? | 1 apply, 1 update, 3 faults, the budget of the code (6) |
| `protocol` | Once, a success only if it succeeded, and the contract with its liveness? | 1 update, 2 requests in flight, 2 faults |
| `vctl_safety` | Does an action have its effect once and for its owner only, is a success true, is the panel told before a reboot? | 1 action, 1 reboot, 2 owners, 2 hand-outs, 3 faults |
| `vctl_live` | Is every reboot that ended reported and forgotten? | 1 job, 1 update, 2 reboots, 2 faults |
| `vctl_stuck_result` | (violated) Does a pending result leave the journal? | 1 action, 2 faults |
| `recovery` | Does the panel's silence keep the VPN, does a working proxy come back, is the router heard, does the wait for an operator end? | a node or a shunt, foreign targets out at the start, triggers of 1, 1 fault |
| `watchdog_race` | (violated) Does the watchdog leave the direct mode of others alone? | a node, 2 faults |
| `failover` | Is a balancer that works left alone, does traffic find the node that works, are the override and "down" given back? | 2 members, a reserve of 1, 1 node of another country; 2 changes of a node, or 1 and a mishap |
| `webhooks` | One sender at a time, every webhook settled, and delivered when it can be? | 2 processes, 2 partners, 2 webhooks, 2 attempts, 2 faults |

Every passing property is also checked against a mutated definition of the code
(the operators marked "Mutant" in the modules), which must violate it.

**Bounds.** Two jobs with one key and two concurrent results are the smallest
instance in which a key can be taken twice, a result repeated, or a row changed
between a read and a write. `panel_actions` has three: a late one that writes over
a cancelled row, and two that both report the cancelled run. It has no apply, and
`Claim` needs one: a router unbound there stays without an owner, no action is
queued for it again, and so two rows with one key never exist in it
(`IdempotentActions` says just that). A claim after an unbind fires in `panel_apply`; actions of a
second owner beside those of the first are covered by the theorems only. That two
applies of one revision, whose key a result gives up, never overlap is also left to
the theorem `OneActive`: a third job beside such a pair is too much for the liveness
of `panel_apply`.
The candidate limit is 1 or 2 instead of 10, so that it is reached. Two or three
faults allow a crash while recovering from a crash. The retry budget is 2 in
`protocol` (the counter is only compared with it) and 6 in `agent`. `told` and `ran` stop
counting at 2: their properties say "at most one". In `VctlJournal` an action
needs two hand-outs to run twice or to be answered from its record, and a second
reboot or job is needed to find the one receipt or the one pending result taken.
Boots are bounded by the faults and the reboots. In `recovery` one fault is an
outage, a crash or an act of the owner: each of them starts a whole episode
(detection, direct mode, settling, reboot, retry, park, way back) in which nothing
else has to go wrong; `MCForeign` adds an outage of the foreign targets that was
there from the start, and may end at any time. `Gaps` {0, 1, 3} let the clocks reach every class, since a clock may
move on by one. The trigger counts of 1 instead of 5 and 3 shorten the counting and
no decision looks at anything but whether they are reached. In `webhooks` only
one process queues and sweeps, the other delivers what it leased
before and what a crash left it; two webhooks of two partners show that a partner
who is down does not hold up another. Two faults are a hang and a crash, or two
hangs, which is what it takes to bring two loops to one row. In `failover` two members
are needed to move within the balancer, and one node each for what comes after it;
the nodes start all up, once with a pin the owner left, or all down but that of another
country, and two changes
are a node that dies and comes back, or a second one that dies when traffic was
moved to it. A mishap may fall into any of its steps. Jobs, requests with equal roles
and owners are symmetric; the liveness runs use no symmetry.

**Fairness.** `PanelJobs`: the janitor's timer fires (weak), and of one
candidate's transactions not every one fails (strong: it is enabled again by the
next sweep only). `QueuedIsHanded` has its premise in itself (`Polling`): the router
checks in again and again and the web processes do not die for ever, their steps
are taken, and a call is sometimes free for failing what cannot be delivered.
`AgentJournal`: the process takes steps and procd restarts it
(weak, of the steps that are not faults); crashes and failures are never fair.
`VctlJournal`: the
loop runs, its requests have timeouts, procd restarts the process and a router
told to reboot does (weak); faults are not fair, and the owner stays.
`JobProtocol`: additionally the panel's handlers take their steps and the network
delivers what is not one of the counted faults.
`ProxyRecovery`: the agent polls for ever and time passes, cron runs the watchdog
(weak). A watchdog's verdict takes at most 4 of every 15 minutes and the agent
restarts PassWall at most every 5, so not every cycle can meet one: the steps of
the agent with an idle watchdog, and `Rescue` past the restart's cooldown, are
strongly fair. Failures, repairs and people are not.
`Failover`: the observatory has its rounds, the node that carries traffic is dialled
by it, the watchdog looks every two seconds, holds end, the hook and the owner's
call come to their end (weak). Nodes, restarts, lost calls and people are promised
nothing, but they are bounded: the liveness properties are about the time after
them, in which the owner leaves the balancer to the watchdog.
`WebhookOutbox`: the timer of the process under the loop lock fires, loops that do
not hang go on, time passes (weak); a week's wait ends (strong: it is one of the
outcomes of an hourly wait). An await that hangs, the partner's endpoint and the pass a process starts
for what it just queued are promised nothing.

## 4. Proofs

`PanelJobsProofs` proves for every set of jobs, keys, owners and concurrent
requests (the jobs finite):

* `TypeCorrect`: `Spec => []TypeOK`;
* `OneActive`: `Spec => []OneActivePerTarget`;
* `Invariance`: `Spec => []IInv`, from which both follow.

`OneActivePerTarget` is not inductive: `HandlerWrite` reopens a job as running
from what it read earlier. `KeysOK` strengthens it: an unfinished job holds its
key, no two rows hold one key (the unique index), and a handler about to write
"accepted" still carries the key it read, so its write is refused by the index if
the key was taken meanwhile. `PresentOK` (whatever a check-in or a handler refers
to was inserted) keeps a late write from creating a row, and `BirthsOK` (creation
numbers are distinct) makes "the first candidate" exist. The assumptions are
those stated in `PanelJobs`: kinds of jobs are subsets of the jobs, the model
values are fresh, owners' keys are not keys of other jobs.

`PanelOwnerProofs` builds on it:

* `OwnerInvariance`, `CancelledIsNeverHanded`, `PartnerCancelIsFinal`
  (`Spec => []OwnerOK`, `[]CancelledNeverHanded`, `PartnerCancelSticks`). A late
  write may overwrite any row, so the proof has to show that no request in flight
  is about a partner-cancelled job: `OwnerOK` says that a request is about a job
  that was handed out or that `failUndeliverableJobs` took out of the queue, and
  that what was handed out is stamped and so cannot be cancelled.
* `OneActionPerKey` (`Spec => []IdempotentActions`). `ActionKeysOK`: only an
  unbind takes an action's key, and a handler about to write has the key it read,
  because it decides to write only on an unfinished row.
* `ToldOnce` (`Spec => []ToldOnceUnlessOverwritten`). An owner is told from two
  places: `HandlerReport`, which claims the cancelled row first (`reported`), and
  `HandlerNotify`, at the end of a request that wrote its result. `HeardOK` ties
  them, for a row nothing was written over: who was told was told of a row that
  ended, so whoever reads it afterwards only acknowledges, or finds it claimed; and
  a request still to tell has ended the row itself and is the only one, because a
  second would have had to write over it. So the late write is the only cause of
  the second notice of section 5.

`AgentJournalProofs` proves for any jobs, answers, retry budget and number of faults:

* `AgentInvariance`, `JournalStaysCoherent`, `UpdateSuccessIsConfirmed`
  (`AgentSpec => []AgentIInv`, `[]JournalCoherent`, `[]UpdateSuccessConfirmed`).
  `PhaseOK` strengthens the three: from the check-in to the end of a job nothing
  is pending, so a result is only ever saved for the job the journal names.

`VctlJournalProofs` proves for any jobs, versions, owners, answers, number of
hand-outs and number of faults:

* `VctlInvariance`, `RunsAtMostOnce`, `SuccessesAreTrue`, `RebootsAfterDelivery`,
  `FormerOwnersKeptOut` (`Spec => []VctlIInv`, `[]ConnectRunsAtMostOnce`,
  `[]SuccessIsTrue`, `[]RebootAfterDelivery`, `NothingOfFormerOwnerSent`).

None of them is inductive, because what one file says is only true by what
another said when it was written. `RecordOK`: an action without a record has not
run, and a recorded success happened. `ReceiptOK`: a receipt has a record and its
owner; what was commanded is dispatched, what is acknowledged was heard, and
another boot id means a boot since. `StateOK`, of the process and of the disk: a
pending success happened and is of the owner in the same file, which is why
`release` has to clear it. `AtOK`: what each place of the cycle knows of its job;
an action about to run has the record "started" and has not run. A crash keeps
`StateOK(disk)` and forgets `at`, so nothing else is needed of it. The
assumptions are those of `VctlJournal`: kinds of jobs are disjoint, the model
values fresh.

`ProxyRecoveryProofs` proves for any worlds, gaps, trigger counts and number of faults:

* `RecoveryInvariance`, `RecoveryTypeCorrect`, `WaitsOnlyParked`
  (`[]AwaitingIsParked`), `MissingRuntimeStaysOff` (`NeverRearmsMissing`);
* `PanelOutageIsHarmless` (`[]PanelOutageKeepsVpn`) for routers whose selection is
  not virtual. It needs all of what a cycle may still hold against a proxy: without
  a `cause` no cached verdict is "dead", no failure is counted, the inventory
  saw what is there, recovery has not taken PassWall, and a watchdog that is
  probing will find the node alive. Each of the judges keeps that for the others.

`FailoverProofs` proves for any members, reserves, nodes of other countries, worlds
and bounds:

* `FailoverInvariance`, `FailoverTypeCorrect` (`[]TypeOK`), `HealthyLeftAlone`
  (`[]HealthyKeepsChoice`). `Quiet` strengthens it: while every node has been up the
  observatory holds none dead, no dial goes unanswered and no look has an action to
  apply, so the calls that fail and what the owner and the hook leave in xray meet a
  policy that has nothing of its own. It rests on the balancer having a member: an
  empty path has no node that is not down. Types need that only a member in
  trouble, never "nothing preferred", is moved off.

`WebhookOutboxProofs` proves for any processes, partners, webhooks, registries,
attempts and faults:

* `OutboxInvariance`, `OneSender` (`[]OneSenderInTime`), `LeaseHoldsAlways`
  (`[]LeaseHolds`). Comparing and raising the attempts is not enough: a loop may
  have read a row with the attempts somebody else is about to lease it with. The
  invariant says that nobody has read, or is about to write with, the attempts of
  a row being sent (`NotRead`), which holds because a leased row is not due while
  its sender is in time, and what was read before has fewer attempts (`ReadsOK`).

* `OutboxTypeCorrect` (`[]TypeOK`). The map of a process (`slot`) names a loop that
  runs, and a pass always finds a free place for the loop it starts: a place is lost
  only to a loop that was replaced or is late, there are never more of those than
  faults (`LostOK`), and a process has one place more than there may be faults. The
  bound on loops in the model thus never keeps a pass from starting one.

`JobProtocolProofs` proves about panel and agent together, for any jobs of the
legacy agent (`PassWallRouter`: a router that runs PassWall, no jobs for the other
engine), any number of requests in flight, any retry budget and number of faults:

* `ProtocolInvariance` (`ProtocolSpec => []ProtocolIInv`), `RunsOnce`
  (`[]RunsAtMostOnce`), and `PartsKeepTheirs`: what `PanelJobsProofs` and
  `AgentJournalProofs` show of each program holds of the two together;
* `ContractKept` (`ProtocolSpec => Contract!Safety`): every step is one that
  `JobContract` allows, or changes neither a job's record nor its outcome. `Execute`
  is its `Run`, an insert its `Queue`, and every write of a state its `Record`.

That a job runs once is known to neither program: the panel does not see the
execution and the agent remembers only its current job. The invariant ties them. A
job it ran has left the panel's queue and never comes back (`OnceOK`); an answer it
still waits for offers only jobs it has not run, and a result it waits to have
accepted is of the job it holds (`WaitingOK`); what it knows of was handed to it
(`HandedOK`); a success is true wherever it is, pending in memory or on disk, on its
way, about to be written or written (`SuccessesOK`). A late request of a crashed
agent breaks none of this, because a request past the update of its row is about a
row that left the queue (`PanelOK`). The proof keeps the two programs apart: what
the agent does is seen by the panel as `AgentMoved`, what the panel does by the
agent as `PanelMoved`, and only `Execute` changes what both speak of. The
assumptions besides those of the two parts are `AgentJobs` (the kinds of its jobs)
and `RequestNames` (fresh names for who waits for what).

Every safety property of a passing run is stated by a theorem.
Liveness (`EveryRunningJobEnds`, `QueuedIsHanded`, `CheckInsResume`, `EndedRebootResolves`,
`BackToProxy`, `NoBlackHole`, `NeverSilent`, `AttentionLifted`, `EverySettles`,
`ReachesPartner`, `TrafficCarried`, `HandedBack`, `DownIsOver`, and `Ends`, the
liveness part of `KeepsContract`) is out of the prover's reach and stays with TLC.

## 5. What the checks found

1. `recordJobResult` re-approves a released router (`panel_release_race`), against
   the comment at `router-claims.ts:607`.
2. The watchdog reads the switch, probes for minutes and writes it without reading
   it again, and so undoes a direct mode the agent entered meanwhile
   (`watchdog_race`), against `rescue_runtime.go:327`.
3. The failure of an interrupted action is sent at every cycle for ever once its
   first delivery failed (`vctl_stuck_result`), and reboots wait for it, against
   `cmd_agent.go:1612`.

More came up in the models and has no run of its own:

* The owner of a cancelled action that ran can be told twice. A request reads the
  row as running; the janitor cancels it; a second request with the same result finds it
  cancelled, claims `cancelledRunReported` and tells the owner; the first one writes
  "succeeded" over the cancelled row (`router-control.ts:2810`) and tells again
  (`router-control.ts:2999`), because that notice claims nothing and
  `enqueuePartnerWebhookWithDb` does not compare jobs. `router-control.ts:2745` says
  "Once per job", and `router-control.claims.test.ts:1020` tests "reports a cancelled
  owner action's run only once". The claim does its work among the reports, and
  `ToldOnceUnlessOverwritten` excepts the late write and nothing else. Without the
  exception TLC finds the trace above in `panel_actions`.
* After a new claim, and until its first apply succeeded, the panel falls back to the
  revision the router applied for its former owner (`preferredDesiredRevisionId`,
  `router-control.ts:1046`), against "nothing of the owner's config can still reach
  it" (`router-claims.ts:607`). No race is needed.
* The janitor's cancel does not make a silent agent check in again, although
  `stuck-job-janitor.ts:24` says so: the agent sends its pending result before it
  polls, whatever the panel has decided meanwhile, and only its own retry budget
  frees it (`CheckInsResume`).
* vctl has one place for an unsent result and overwrites it with the next job's,
  against `cmd_agent_jobs.go:111`.
* vctl: a crash between the delivery of "reboot scheduled" and its receipt leaves a
  reboot that never happens and refuses all others; `connect_dispatch_test.go:398`
  tests for the same loss in recovery.
* vctl can report an update as done although no process of the new version ran,
  against `cmd_agent_jobs.go:905`: its success could not be saved, the next job
  replaced `CurrentJob` with the expected version but not the pending success, and
  a crash came.
* Recovery of a virtual selection has nothing to probe and takes it for dead: an
  outage of the panel together with one of the foreign targets switches the VPN off,
  although `docs/r46-panel-independent-vpn.md` says that it no longer can.
  `PanelOutageIsHarmless` therefore excludes such routers.
* While recovery is parked and PassWall is on again, a node that is dead is kept:
  local rescue stands by and `OperatorAttention` only waits for the foreign targets,
  with the panel reachable (`controlplane_recovery.go:508`).
* The direct mode local rescue enters is undone in the same cycle by
  `shouldResumeProxyAfterExternalDirect` if the panel answers and no retry was made
  for twelve hours: it takes every direct it did not make itself for somebody else's.
* `holdLoopPresence` ignores the result of `pg_try_advisory_lock`: with two
  overlapping workers the one that survives is never seen by `/api/health`, against
  the comment at `background-lock.ts:214`.
* vctl: the watchdog reads the owner's pins before it decides, and applies its actions
  one after the other, each with up to 2 s for the call and 5 s for its confirmation.
  A pin set in between is replaced in xray and stays recorded, so nothing applies it
  again before the next start; `policy.go:182` says that the owner's pins are never
  touched.
* vctl: an override that xray carried out and whose answer came too late is nobody's:
  the policy takes it for somebody else's and leaves it for ever, although
  `failover.go:754` says that nothing changed in xray and the next look asks again.
  The start hook leaves the same behind when it applies a pin that was released
  after it read the file. `Orphaned` names these states.
* vctl: a pinned balancer is left before its `downSince` is cleared, so a balancer
  that was down, and that the owner then pins to a node that works, counts as down
  for as long as the pin stands (`PROXY_DOWN` after a minute), although
  `policy.go:329` says that it is 0 when there is a candidate.
* A webhook given up after all its attempts can be brought back by a process that
  has no address for its partner: `waitForPartnerAddress` does not compare the
  attempts. `LeaseHolds` allows for it (`addressless`).

## 6. Abstractions

* Every modelled job has a dedupe key; a job without one is a job with a key of its own.
* A queueing request (its checks, the insert, the status of its revision) is one
  step; in the code what it checked may be stale when it inserts.
* `CheckInRead` writes the router row and reads candidates, revision and snapshot
  in one step. The controller that checks in is the one of the router's engine.
* An exclusive job is one of `isEngineAgnosticExclusiveJob`; `Unrunnable` stands
  for an engine mismatch and for a payload that cannot be serialized.
* An owner's action is accepted without its validation (capabilities, a revision
  applied before, the limit of ten pending jobs).
* The router reports as applied any revision it was handed.
* Job state `delivered` is in the schema but nothing modelled here writes it.
* `deliverAfter`, incident transitions, the subscription guard, hostname updates,
  draft discard, PassWall import and approval are not modelled, nor is the notice of a
  claim's apply (`notifyPartnerOfClaimApplyResult`).
* What runs before the journal in the agent's cycle (rescue, control-plane
  recovery) may only end the cycle (`SkipCycle`). A save is atomic or fails.

* vctl: the acknowledgement of a job ("accepted" from `ackJob`) changes nothing in
  vctl and is left out, so "accepted" in `told` is that of a scheduled reboot.
  A file that cannot be read is not modelled, nor is a boot id that cannot be:
  there the code ends the cycle or refuses the job.
* vctl: `update_now`, `set_auto_update` and the daily install share the receipt's
  file; only that the daily look at the feed may save it for a new owner is
  modelled (`MaintainNothing`). Records of actions are kept for ever, in the code
  for 90 days or 2 MB.
* vctl: an update's version may or may not come up after a restart; which one is
  nondeterministic. Registration, rescue and the data plane only save the state.

* Recovery: time is classes of age, so two clocks that are both past a class are not
  told apart; a cycle's measurements and the switch they lead to are one step, the
  watchdog's are two. The router is registered. An outage of the foreign targets
  alone is not a `cause`: it must not cost the VPN either. `Trigger`, `Recover`,
  `Worlds`, `Gaps` and `MaxFaults` are bounds. The inventory's own checks are not modelled.
* Failover: one balancer, the main one, with a fallback into a second; a fallback that
  is a server of its own is not modelled, nor is a chain of several stages told
  apart. The principle is one node, and any live candidate may be the fastest. Names
  resolve; the exit check finds every exit fit; the render, and so the members, do
  not change. What a look reads is read when it decides; a look that cannot read
  the table or xray's API does nothing. After its first, a round of the observatory
  is one step. A restart of the daemon restarts xray too. What is
  published of the tunnel and reported as incidents is not modelled.
* Webhooks: time is classes; the processes' clocks agree. The order of a batch and
  its size are abstracted (any row of the batch may be next), and the journal of
  sends is not modelled. An hour's wait for an address ends in another wait or in
  the week being over.

Components not modelled, with the reason for each, are listed in `PROJECT.json`.

## 7. Plan

1. *Done*: `PanelJobs`, `AgentJournal`, `JobProtocol`, `JobContract`, `VctlJournal`,
   `ProxyRecovery`, `WebhookOutbox`, `Failover`, with their proofs.
2. *The rest of the job protocol*: `Drafts` (save, queue and discard statement by
   statement, against delivery and results); `VctlProtocol`
   (`VctlJournal` composed with `PanelJobs`); `update_now` and the automatic
   update of vctl;
   `AgentState` (last-good copy, credential mirror, credential floor).
3. *Around it*: the stable exit and the names that come back (`Failover`),
   `BackgroundLock`, `AutoRescue` (caps), `Claims` (claim codes), `CheckinReplay`,
   `Rollout`, `HistoryRetention`, `ApplyRollback`, `UpdateGuard`; the job-safety
   floors as operators checked against a reference definition.
4. *Proofs*: done for every safety property checked; next the composition of
   `VctlJournal` with the panel, then the invariants of the modules of step 3.
