---------------------------- MODULE VctlJournal ----------------------------
(***************************************************************************)
(* vctl's polling cycle and its three durable files: state.json            *)
(* (CurrentJob, PendingJobResult, the owner), the journal of the owner's   *)
(* actions (connect-actions.json) and the reboot receipt                   *)
(* (connect-maintenance.json).  Each is replaced atomically, none with     *)
(* another: a step here writes at most one of them, or waits for the panel *)
(* or the system, and between any two steps the process may die.           *)
(*                                                                         *)
(* The panel may hand any job at any check-in, again or for the first      *)
(* time; a request may fail before or after the panel handled it.          *)
(***************************************************************************)
EXTENDS Naturals, FiniteSets

CONSTANTS
    Plain,       \* jobs with a result of their own (apply, refresh, logs ...)
    Updates,     \* update_controller jobs
    Actions,     \* connect_router_action jobs with an immediate effect
    Reboots,     \* connect_router_action jobs that reboot
    Version,     \* the version each update installs
    OldVersion,  \* the version vctl starts with
    OwnerOf,     \* the owner each action is signed for
    Owners, NoOwner, NoTask, NoVersion,
    Answers,     \* the owners a check-in's answer may name
    Repeats,     \* whether the panel may hand a job it has the result of again
    MaxHanded,   \* bound on how often a job is handed out
    MaxFaults    \* bound on crashes, failed saves and failed requests

Connect == Actions \cup Reboots
Tasks == Plain \cup Updates \cup Connect
Versions == {OldVersion} \cup {Version[t] : t \in Updates}

ASSUME VctlConstants ==
    /\ Plain \cap (Updates \cup Connect) = {} /\ Updates \cap Connect = {}
    /\ Actions \cap Reboots = {}
    /\ NoTask \notin Tasks /\ NoOwner \notin Owners /\ NoVersion \notin Versions
    /\ OwnerOf \in [Connect -> Owners] /\ Answers \subseteq Owners \cup {NoOwner}
    /\ Repeats \in BOOLEAN
    /\ MaxHanded \in Nat /\ MaxFaults \in Nat

VARIABLES
    disk,    \* state.json
    mem,     \* the state of the running process
    record,  \* the status of each action in the journal of actions
    receipt, \* the scheduled reboot
    at,      \* where runOnce is: place, job, result, and what comes after it
    batch,   \* jobs of the last answer still to be executed
    runtime, \* the version of the running process
    staged,  \* the version opkg installed last
    boot,    \* how often the router booted (its boot id)
    halting, \* the system was told to reboot
    told,    \* the results the panel received (history)
    ran,     \* how often each job had its effect (history)
    worked,  \* the outcomes of its executions (history)
    seen,    \* the versions that ran, the reboots a boot followed (history)
    handed,  \* how often each job was handed out
    faults   \* faults so far

process == <<mem, at, batch>>
system  == <<runtime, staged, boot, halting>>
history == <<ran, worked, seen>>
vars == <<disk, mem, record, receipt, at, batch, runtime, staged, boot, halting,
          told, ran, worked, seen, handed, faults>>

Results == {"accepted", "success", "upToDate", "failure"}
State == [cur: Tasks \cup {NoTask}, exp: Versions \cup {NoVersion},
          pend: Results \cup {"none"}, pendFor: Tasks \cup {NoTask},
          owner: Owners \cup {NoOwner}]
NewState == [cur |-> NoTask, exp |-> NoVersion, pend |-> "none",
             pendFor |-> NoTask, owner |-> NoOwner]

Receipt == [owner: Owners \cup {NoOwner}, job: Reboots \cup {NoTask}, boot: Nat,
            dispatched: BOOLEAN, acked: BOOLEAN, terminal: {"none", "success", "failure"}]
NoReceipt(o) == [owner |-> o, job |-> NoTask, boot |-> 0, dispatched |-> FALSE,
                 acked |-> FALSE, terminal |-> "none"]

Places == {"poll", "checkIn", "maintain", "command", "commandFailed", "jobs",
           "begun", "execute", "installed", "complete", "report", "submit",
           "refuse", "deliver", "receipt", "restarting"}
\* What a result is submitted for, and so what follows it.
Purposes == {"flush", "recover", "terminal", "job", "schedule", "refuse"}
Cursor == [place: Places, job: Tasks \cup {NoTask}, out: Results \cup {"none"},
           for: Purposes]
At(place, t, out, for) == [place |-> place, job |-> t, out |-> out, for |-> for]
Idle(place) == At(place, NoTask, "none", "job")

VctlTypeOK ==
    /\ disk \in State /\ mem \in State
    /\ record \in [Connect -> {"none", "started", "interrupted", "succeeded", "failed"}]
    /\ receipt \in Receipt
    /\ at \in Cursor
    /\ batch \subseteq Tasks
    /\ runtime \in Versions /\ staged \in Versions
    /\ boot \in Nat /\ halting \in BOOLEAN
    /\ told \subseteq Tasks \X Results
    /\ ran \in [Tasks -> Nat]
    /\ worked \in [Tasks -> SUBSET {"success", "failure"}]
    /\ seen \subseteq Versions \cup Reboots
    /\ handed \in [Tasks -> 0..MaxHanded]
    /\ faults \in 0..MaxFaults

Init ==
    /\ disk = NewState /\ mem = NewState
    /\ record = [t \in Connect |-> "none"]
    /\ receipt = NoReceipt(NoOwner)
    /\ at = Idle("poll") /\ batch = {}
    /\ runtime = OldVersion /\ staged = OldVersion
    /\ boot = 0 /\ halting = FALSE
    /\ told = {}
    /\ ran = [t \in Tasks |-> 0] /\ worked = [t \in Tasks |-> {}]
    /\ seen = {OldVersion}
    /\ handed = [t \in Tasks |-> 0]
    /\ faults = 0

-----------------------------------------------------------------------------
\* Every crash, failed save, failed request and failed command is counted.
Fault == faults < MaxFaults /\ faults' = faults + 1

\* persist: state m is the process's whether or not it could be written.
Saved(m) == mem' = m /\ disk' = m /\ UNCHANGED faults
Unsaved(m) == mem' = m /\ UNCHANGED disk /\ Fault
Persist(m) == Saved(m) \/ Unsaved(m)

\* CurrentJob is forgotten with the version it expects.
WithResult(m, t, s) ==
    [m EXCEPT !.pend = s, !.pendFor = t, !.cur = NoTask, !.exp = NoVersion]
WithoutResult(m) == [m EXCEPT !.pend = "none", !.pendFor = NoTask]

\* readMaintenance: a receipt of another owner is none.
Scheduled == IF receipt.owner = mem.owner THEN receipt ELSE NoReceipt(mem.owner)
PendingReboot(t) == mem.owner # NoOwner /\ Scheduled.job = t

\* The next process: what is on disk, and the version opkg installed - or the
\* old one still (TestMaintenanceInstalledNewOldRuntimeRestartIsBounded).
Begins ==
    /\ mem' = disk
    /\ at' = Idle("poll") /\ batch' = {}
    /\ runtime' \in {staged, runtime}

\* The process dies, or procd restarts it after an update.
Restart ==
    /\ IF at.place = "restarting" THEN UNCHANGED faults ELSE Fault
    /\ Begins
    /\ seen' = seen \cup {runtime'}
    /\ UNCHANGED <<disk, record, receipt, staged, boot, halting, told, ran, worked, handed>>

\* The system comes up again: the reboot it was told to do, or a power loss.
Boot ==
    /\ IF halting THEN UNCHANGED faults ELSE Fault
    /\ Begins
    /\ boot' = boot + 1 /\ halting' = FALSE
    /\ seen' = seen \cup {runtime'} \cup ({receipt.job} \ {NoTask})
    /\ UNCHANGED <<disk, record, receipt, staged, told, ran, worked, handed>>

-----------------------------------------------------------------------------
(***************************************************************************)
(* recoverJournal.  Whatever it cannot do is left to the next cycle; the   *)
(* check-in follows all the same.                                          *)
(***************************************************************************)
Confirmed == staged = mem.exp /\ runtime = mem.exp
Unconfirmed == mem.exp # NoVersion /\ mem.pend = "success"

\* The pending result, turned into a failure if the new version does not run;
\* opkg may be unable to tell which version is installed.
FlushPending ==
    LET m == IF Unconfirmed /\ ~Confirmed THEN [mem EXCEPT !.pend = "failure"] ELSE mem
    IN  /\ at.place = "poll" /\ mem.pend # "none"
        /\ \/ Saved(m) /\ at' = At("submit", m.pendFor, m.pend, "flush")
           \/ Unsaved(m) /\ at' = Idle("checkIn")
           \/ Unconfirmed /\ Fault /\ at' = Idle("checkIn") /\ UNCHANGED <<disk, mem>>
        /\ UNCHANGED <<record, receipt, batch, system, told, history, handed>>

\* Mutant: a job that was started is taken for done.
TruthOptimistic(t) == IF t \in Connect /\ record[t] = "none" THEN "failure" ELSE "success"

\* What is known of the job a crash left: the journal of actions has the last
\* word, and a scheduled reboot is still to come.
Truth(t) ==
    IF t \in Reboots /\ PendingReboot(t) /\ record[t] # "none" THEN "accepted"
    ELSE IF t \in Connect /\ record[t] = "succeeded" THEN "success"
    ELSE "failure"

RecoverCurrent ==
    /\ at.place = "poll" /\ mem.pend = "none" /\ mem.cur # NoTask
    /\ at' = At("report", mem.cur, Truth(mem.cur), "recover")
    /\ UNCHANGED <<disk, mem, record, receipt, batch, system, told, history, handed, faults>>

RecoverNothing ==
    /\ at.place = "poll" /\ mem.pend = "none" /\ mem.cur = NoTask
    /\ at' = Idle("checkIn")
    /\ UNCHANGED <<disk, mem, record, receipt, batch, system, told, history, handed, faults>>

-----------------------------------------------------------------------------
(***************************************************************************)
(* finishJob and maintenanceFinish: save the result, then submit it.       *)
(***************************************************************************)
\* Where the cycle goes on when a result was not delivered, or not kept.
GiveUp ==
    CASE at.for \in {"flush", "recover"} -> at' = Idle("checkIn")
      [] at.for = "refuse" -> at' = [at EXCEPT !.place = "refuse"]
      [] OTHER -> at' = Idle("jobs")

\* Where it goes on when it was.
GoOn ==
    CASE at.for \in {"flush", "terminal"} -> at' = [at EXCEPT !.place = "deliver"]
      [] at.for = "recover" -> at' = IF at.job \in Connect THEN [at EXCEPT !.place = "deliver"]
                                                           ELSE Idle("checkIn")
      [] at.for = "schedule" -> at' = [at EXCEPT !.place = "receipt"]
      [] at.for = "refuse" -> at' = [at EXCEPT !.place = "refuse"]
      [] at.for = "job" -> at' = Idle("jobs")

Report ==
    LET m == WithResult(mem, at.job, at.out)
    IN  /\ at.place = "report"
        /\ \/ Saved(m) /\ at' = [at EXCEPT !.place = "submit"]
           \/ Unsaved(m) /\ GiveUp
        /\ UNCHANGED <<record, receipt, batch, system, told, history, handed>>

\* A delivered result leaves the journal, except that a recovered one waits for
\* its action to be marked, and that maintenanceFinish keeps one whose removal
\* could not be saved.
Submitted ==
    /\ at.place = "submit"
    /\ told' = told \cup {<<at.job, at.out>>}
    /\ \/ at.for = "flush" /\ GoOn /\ UNCHANGED <<disk, mem, faults>>
       \/ at.for \in {"job", "recover"} /\ Persist(WithoutResult(mem)) /\ GoOn
       \/ at.for \in {"terminal", "schedule", "refuse"}
          /\ \/ Saved(WithoutResult(mem)) /\ GoOn
             \/ Unsaved(mem) /\ GiveUp
    /\ UNCHANGED <<record, receipt, batch, system, history, handed>>

\* Whether or not the panel got it, vctl has no answer.
SubmitFailed ==
    /\ at.place = "submit" /\ Fault
    /\ told' \in {told, told \cup {<<at.job, at.out>>}}
    /\ GiveUp
    /\ UNCHANGED <<disk, mem, record, receipt, batch, system, history, handed>>

\* Journal.Complete: a terminal status is written over "started" only.
CanComplete(t, s) == record[t] \in {s, "started"}
Completed(t, s) == record' = [record EXCEPT ![t] = s]

\* connectRecoverDelivered failed: the result is kept, or put back, for the
\* next cycle; a terminal reboot still has its receipt.
Undelivered ==
    /\ GiveUp
    /\ IF at.for = "recover" THEN mem' = [mem EXCEPT !.pend = at.out, !.pendFor = at.job]
                             ELSE UNCHANGED mem
    /\ disk' \in {disk, mem'}

\* connectRecoverDelivered, first half: mark the action of a delivered result.
Deliver ==
    LET s == IF at.out = "success" THEN "succeeded" ELSE "failed"
        marks == /\ at.job \in Connect /\ at.out # "accepted"
                 /\ mem.owner = OwnerOf[at.job] /\ record[at.job] # "none"
    IN  /\ at.place = "deliver"
        /\ \/ marks /\ CanComplete(at.job, s) /\ Completed(at.job, s)
              /\ at' = [at EXCEPT !.place = "receipt"] /\ UNCHANGED <<disk, mem, faults>>
           \/ ~marks /\ at' = [at EXCEPT !.place = "receipt"]
              /\ UNCHANGED <<disk, mem, record, faults>>
           \/ marks /\ ~CanComplete(at.job, s) /\ Undelivered /\ UNCHANGED <<record, faults>>
           \/ marks /\ record[at.job] # s /\ Fault /\ Undelivered /\ UNCHANGED record
        /\ UNCHANGED <<receipt, batch, system, told, history, handed>>

\* Mutant: a receipt is only ever acknowledged.
ReceiptAfterDeliveryKept(r) == [r EXCEPT !.acked = TRUE]

\* connectMaintenanceResultDelivered: a terminal receipt is done with, another
\* one may be acted on.
ReceiptAfterDelivery(r) ==
    IF r.terminal # "none" THEN NoReceipt(r.owner) ELSE [r EXCEPT !.acked = TRUE]

\* Second half: the receipt, then the delivered result of recoverJournal goes.
DeliverReceipt ==
    /\ at.place = "receipt"
    /\ \/ /\ receipt' = IF PendingReboot(at.job) THEN ReceiptAfterDelivery(receipt) ELSE receipt
          /\ IF at.for = "flush"
             THEN Persist([WithoutResult(mem) EXCEPT !.cur = NoTask, !.exp = NoVersion])
             ELSE UNCHANGED <<disk, mem, faults>>
          /\ at' = Idle(IF at.for \in {"flush", "recover"} THEN "checkIn" ELSE "jobs")
       \/ PendingReboot(at.job) /\ Fault /\ Undelivered /\ UNCHANGED receipt
    /\ UNCHANGED <<record, batch, system, told, history, handed>>

-----------------------------------------------------------------------------
(***************************************************************************)
(* The check-in and connectMaintenanceAfterCheckin.                        *)
(***************************************************************************)
\* Mutant: the results of the former owner stay.
ReleasedKeeping(o) == [mem EXCEPT !.owner = o]

\* release: nothing of the former owner is kept.
Released(o) == [NewState EXCEPT !.owner = o]

\* The panel's job has no final result yet.
Open(t) == \A s \in Results \ {"accepted"} : <<t, s>> \notin told

\* The answer names the router's owner.  A changed owner releases the router
\* first, and the rest of that answer is not for it.
CheckedIn(o, jobs) ==
    /\ at.place = "checkIn"
    /\ jobs \subseteq {t \in Tasks : handed[t] < MaxHanded /\ (Repeats \/ Open(t))}
    /\ handed' = [t \in Tasks |-> IF t \in jobs THEN handed[t] + 1 ELSE handed[t]]
    /\ IF mem.owner \notin {o, NoOwner}
       THEN Persist(Released(o)) /\ at' = Idle("poll") /\ batch' = {}
       ELSE \/ Saved([mem EXCEPT !.owner = o]) /\ at' = Idle("maintain") /\ batch' = jobs
            \/ Unsaved([mem EXCEPT !.owner = o]) /\ at' = Idle("poll") /\ batch' = {}
    /\ UNCHANGED <<record, receipt, system, told, history>>

\* No answer, or not yet the time for another check-in.
CheckInFailed ==
    /\ at.place = "checkIn" /\ Fault
    /\ at' = Idle("poll")
    /\ UNCHANGED <<disk, mem, record, receipt, batch, system, told, history, handed>>

JournalIdle == mem.pend = "none" /\ mem.cur = NoTask

\* Mutant: the command is taken for the reboot.
RebootAssumed == receipt.dispatched

\* Only another boot id proves a reboot.
RebootProven == boot # receipt.boot

\* A scheduled reboot ends with the proof of another boot, or with the failure
\* of its command; its end is saved before it is reported.
MaintainTerminal ==
    /\ at.place = "maintain" /\ mem.owner # NoOwner /\ Scheduled.job # NoTask
    /\ \/ /\ receipt.terminal # "none"
          /\ at' = At("report", receipt.job, receipt.terminal, "terminal")
          /\ UNCHANGED <<receipt, faults>>
       \/ /\ receipt.terminal = "none" /\ RebootProven
          /\ \/ /\ receipt' = [receipt EXCEPT !.terminal = "success"]
                /\ at' = At("report", receipt.job, "success", "terminal")
                /\ UNCHANGED faults
             \/ at' = Idle("jobs") /\ Fault /\ UNCHANGED receipt
    /\ UNCHANGED <<disk, mem, record, batch, system, told, history, handed>>

\* Mutant: the reboot does not wait for the delivery.
MayRebootUnacked == ~receipt.dispatched /\ JournalIdle

MayReboot == receipt.acked /\ ~receipt.dispatched /\ JournalIdle

\* The dispatch is saved before the command is given.
MaintainDispatch ==
    /\ at.place = "maintain" /\ mem.owner # NoOwner /\ Scheduled.job # NoTask
    /\ receipt.terminal = "none" /\ ~RebootProven
    /\ MayReboot
    /\ \/ /\ receipt' = [receipt EXCEPT !.dispatched = TRUE]
          /\ at' = At("command", receipt.job, "none", "terminal")
          /\ UNCHANGED faults
       \/ at' = Idle("jobs") /\ Fault /\ UNCHANGED receipt
    /\ UNCHANGED <<disk, mem, record, batch, system, told, history, handed>>

\* /sbin/reboot; it may fail, or be given up after its timeout although the
\* system goes down.
RebootCommand ==
    /\ at.place = "command"
    /\ ran' = [ran EXCEPT ![at.job] = @ + 1]
    /\ \/ halting' = TRUE /\ at' = Idle("jobs") /\ UNCHANGED faults
       \/ halting' \in BOOLEAN /\ Fault /\ at' = [at EXCEPT !.place = "commandFailed"]
    /\ UNCHANGED <<disk, mem, record, receipt, batch, runtime, staged, boot, told,
                   worked, seen, handed>>

RebootCommandFailed ==
    /\ at.place = "commandFailed"
    /\ \/ /\ receipt' = [receipt EXCEPT !.terminal = "failure"]
          /\ at' = At("report", at.job, "failure", "terminal")
          /\ UNCHANGED faults
       \/ at' = Idle("jobs") /\ Fault /\ UNCHANGED receipt
    /\ UNCHANGED <<disk, mem, record, batch, system, told, history, handed>>

\* Nothing to do - or, with no reboot scheduled, the daily look at the feed,
\* which saves this owner's maintenance state over another owner's.
MaintainNothing ==
    /\ at.place = "maintain"
    /\ \/ mem.owner = NoOwner /\ UNCHANGED receipt
       \/ /\ Scheduled.job # NoTask /\ receipt.terminal = "none"
          /\ ~RebootProven /\ ~MayReboot
          /\ UNCHANGED receipt
       \/ /\ mem.owner # NoOwner /\ Scheduled.job = NoTask
          /\ receipt' \in IF JournalIdle THEN {receipt, NoReceipt(mem.owner)} ELSE {receipt}
    /\ at' = Idle("jobs")
    /\ UNCHANGED <<disk, mem, record, batch, system, told, history, handed, faults>>

-----------------------------------------------------------------------------
(***************************************************************************)
(* executeJob.  An acknowledgement ("accepted") changes nothing in vctl,   *)
(* whatever comes of it, and is left out.                                  *)
(***************************************************************************)
Take(t) == at.place = "jobs" /\ t \in batch /\ batch' = batch \ {t}

\* Plain jobs and updates: saving CurrentJob is best effort.
StartJob(t) ==
    /\ t \in Plain \cup Updates /\ Take(t)
    /\ Persist([mem EXCEPT !.cur = t, !.exp = NoVersion])
    /\ at' = At("execute", t, "none", "job")
    /\ UNCHANGED <<record, receipt, system, told, history, handed>>

\* Mutant: an action that was started and not finished is started again.
BeginsAgain(t) == record[t] \in {"none", "started"}

\* Journal.Begin: only an action without a record may run.
BeginsNew(t) == record[t] = "none"

\* jobConnectAction up to Begin.  An action without an end becomes
\* interrupted and is never run again; a replay is answered with its record.
StartAction(t) ==
    /\ t \in Connect /\ Take(t)
    /\ \/ /\ mem.owner # OwnerOf[t]
          /\ at' = At("report", t, "failure", "job") /\ UNCHANGED <<record, faults>>
       \/ /\ mem.owner = OwnerOf[t] /\ PendingReboot(t)
          /\ at' = Idle("jobs") /\ UNCHANGED <<record, faults>>
       \/ /\ mem.owner = OwnerOf[t] /\ ~PendingReboot(t)
          /\ \/ /\ BeginsNew(t) /\ Completed(t, "started")
                /\ at' = At("begun", t, "none", "job") /\ UNCHANGED faults
             \/ /\ ~BeginsNew(t)
                /\ record' = [record EXCEPT ![t] = IF @ = "started" THEN "interrupted" ELSE @]
                /\ at' = At("report", t, IF record[t] = "succeeded" THEN "success"
                                                                   ELSE "failure", "job")
                /\ UNCHANGED faults
             \/ /\ record[t] \in {"none", "started"} /\ Fault
                /\ at' = At("report", t, "failure", "job") /\ UNCHANGED record
    /\ UNCHANGED <<disk, mem, receipt, system, told, history, handed>>

\* The action is CurrentJob before anything happens to the router.
SaveAction ==
    LET m == [mem EXCEPT !.cur = at.job, !.exp = NoVersion]
    IN  /\ at.place = "begun"
        /\ \/ Saved(m) /\ at' = [at EXCEPT !.place = "execute"]
           \/ Unsaved(m) /\ at' = [at EXCEPT !.place = "complete", !.out = "failure"]
        /\ UNCHANGED <<record, receipt, batch, system, told, history, handed>>

\* The guard blocks the job, or its payload is refused: nothing was done.
Blocked ==
    /\ at.place = "execute" /\ at.job \notin Reboots
    /\ at' = [at EXCEPT !.place = IF at.job \in Actions THEN "complete" ELSE "report",
                        !.out = "failure"]
    /\ UNCHANGED <<disk, mem, record, receipt, batch, system, told, history, handed, faults>>

\* A plain job or an action; what it does to the router is its outcome.
Execute(outcome) ==
    /\ at.place = "execute" /\ at.job \in Plain \cup Actions
    /\ ran' = [ran EXCEPT ![at.job] = @ + 1]
    /\ worked' = [worked EXCEPT ![at.job] = @ \cup {outcome}]
    /\ at' = [at EXCEPT !.place = IF at.job \in Actions THEN "complete" ELSE "report",
                        !.out = outcome]
    /\ UNCHANGED <<disk, mem, record, receipt, batch, system, told, seen, handed, faults>>

\* connectFinish: the action's record, then the job's result.
CompleteAction ==
    /\ at.place = "complete"
    /\ \/ /\ Completed(at.job, IF at.out = "success" THEN "succeeded" ELSE "failed")
          /\ at' = [at EXCEPT !.place = "report"] /\ UNCHANGED faults
       \/ /\ Fault /\ UNCHANGED record
          /\ at' = [at EXCEPT !.place = "report", !.out = "failure"]
    /\ UNCHANGED <<disk, mem, receipt, batch, system, told, history, handed>>

\* updateController: the package is installed, or is already; an update that
\* fails is Blocked.
Install ==
    /\ at.place = "execute" /\ at.job \in Updates
    /\ \/ staged' = Version[at.job] /\ at' = [at EXCEPT !.place = "installed"]
          /\ ran' = [ran EXCEPT ![at.job] = @ + 1]
       \/ staged = Version[at.job] /\ UNCHANGED <<staged, ran>>
          /\ at' = [at EXCEPT !.place = "report", !.out = "upToDate"]
    /\ UNCHANGED <<disk, mem, record, receipt, batch, runtime, boot, halting, told,
                   worked, seen, handed, faults>>

\* The success of an update is saved, and sent by the process that comes next.
SaveInstalled ==
    LET m == [mem EXCEPT !.exp = Version[at.job], !.pend = "success", !.pendFor = at.job]
    IN  /\ at.place = "installed"
        /\ \/ Saved(m) /\ at' = Idle("restarting")
           \/ Unsaved(m) /\ at' = Idle("jobs")
        /\ UNCHANGED <<record, receipt, batch, system, told, history, handed>>

\* connectMaintenance, "reboot": one at a time, and its receipt is saved before
\* the panel is told that it is scheduled.
ScheduleReboot ==
    /\ at.place = "execute" /\ at.job \in Reboots
    /\ \/ /\ Scheduled.job = NoTask
          /\ receipt' = [NoReceipt(mem.owner) EXCEPT !.job = at.job, !.boot = boot]
          /\ at' = At("report", at.job, "accepted", "schedule") /\ UNCHANGED faults
       \/ /\ at' = At("report", at.job, "failure", "refuse") /\ UNCHANGED receipt
          /\ \/ Scheduled.job # NoTask /\ UNCHANGED faults
             \/ Scheduled.job = NoTask /\ Fault
    /\ UNCHANGED <<disk, mem, record, batch, system, told, history, handed>>

\* A refused reboot has its record completed after its result was sent.
RefuseReboot ==
    /\ at.place = "refuse"
    /\ \/ CanComplete(at.job, "failed") /\ Completed(at.job, "failed") /\ UNCHANGED faults
       \/ Fault /\ UNCHANGED record
    /\ at' = Idle("jobs")
    /\ UNCHANGED <<disk, mem, receipt, batch, system, told, history, handed>>

\* runOnce saves the state once more and ends.
JobsDone ==
    /\ at.place = "jobs" /\ batch = {}
    /\ Persist(mem)
    /\ at' = Idle("poll")
    /\ UNCHANGED <<record, receipt, batch, system, told, history, handed>>

\* The rescue, and what the loop does between cycles, save the state too.
SaveBetween ==
    /\ at.place \in {"poll", "checkIn"}
    /\ disk' = mem
    /\ UNCHANGED <<mem, record, receipt, at, batch, system, told, history, handed, faults>>

-----------------------------------------------------------------------------
Cycle ==
    \/ FlushPending \/ RecoverCurrent \/ RecoverNothing
    \/ Report \/ Submitted \/ SubmitFailed \/ Deliver \/ DeliverReceipt
    \/ CheckInFailed \/ \E o \in Answers, jobs \in SUBSET Tasks : CheckedIn(o, jobs)
    \/ MaintainTerminal \/ MaintainDispatch \/ MaintainNothing
    \/ RebootCommand \/ RebootCommandFailed
    \/ \E t \in Tasks : StartJob(t)
    \/ \E t \in Connect : StartAction(t)
    \/ SaveAction \/ Blocked \/ CompleteAction
    \/ \E outcome \in {"success", "failure"} : Execute(outcome)
    \/ Install \/ SaveInstalled \/ ScheduleReboot \/ RefuseReboot \/ JobsDone
    \/ SaveBetween

Next == Cycle \/ Restart \/ Boot

Spec == Init /\ [][Next]_vars

\* The loop runs, requests have timeouts, procd restarts the process, a system
\* told to reboot does, and the owner stays.  Faults are not fair.
FairSpec ==
    /\ Spec
    /\ WF_vars((Cycle \/ (Restart /\ at.place = "restarting")) /\ faults' = faults)
    /\ WF_vars(Boot /\ halting)

-----------------------------------------------------------------------------
Heard(t) == \E s \in Results : <<t, s>> \in told
Happened(t) ==
    /\ t \in Plain \cup Actions => "success" \in worked[t]
    /\ t \in Reboots => t \in seen
OfOwner(t, m) == t \in Connect => m.owner = OwnerOf[t]

\* An owner's action has its effect at most once, and a reboot is commanded at
\* most once, however often the panel hands it out and wherever the process
\* dies between the three files (Begin: "started=false always forbids
\* execution"; "At-most-once dispatch").
ConnectRunsAtMostOnce == \A t \in Connect : ran[t] <= 1

\* The router is not rebooted before the panel received a result of that job
\* (connectMaintenanceResultDelivered: "so reboot cannot precede successful
\* result delivery, including a retried result after interruption").
RebootAfterDelivery == \A t \in Reboots : ran[t] > 0 => Heard(t)

\* A success of an action was an execution that succeeded, and that of a reboot
\* a boot after it was scheduled - through crashes, replays and recovery.
SuccessIsTrue == \A t \in Tasks : <<t, "success">> \in told => Happened(t)

\* A router that was released, or has another owner, reports no success of its
\* former owner's actions.
NothingOfFormerOwnerSent ==
    [][ \A t \in Connect :
          <<t, "success">> \in told' \ told => mem.owner = OwnerOf[t] ]_vars

\* What state.json may say, in memory or on disk.
StateOK(m) ==
    /\ m.cur \in Connect => m.owner = OwnerOf[m.cur]
    /\ m.pend # "none" => m.pendFor \in Tasks
    /\ m.pend = "success" => Happened(m.pendFor) /\ OfOwner(m.pendFor, m)

\* What the scheduled reboot may say.
ReceiptOK ==
    /\ receipt.terminal # "none" => receipt.job # NoTask
    /\ receipt.job # NoTask =>
        /\ receipt.owner = OwnerOf[receipt.job]
        /\ record[receipt.job] # "none"
        /\ ran[receipt.job] > 0 => receipt.dispatched
        /\ boot # receipt.boot \/ receipt.terminal = "success" => receipt.job \in seen
        /\ receipt.acked => Heard(receipt.job)

\* An action without a record has not run, and a success on record is true.
RecordOK ==
    \A t \in Connect : /\ ran[t] <= 1
                       /\ record[t] = "none" => ran[t] = 0
                       /\ record[t] = "succeeded" => Happened(t)

\* What each place of the cycle knows of its job.
AtOK ==
    /\ at.place \in {"begun", "execute", "installed", "complete", "report", "submit",
                     "refuse", "deliver", "receipt", "command", "commandFailed"}
          => at.job \in Tasks
    /\ at.place \in {"complete", "report", "submit", "deliver", "receipt"} => at.out \in Results
    /\ at.out = "success" => Happened(at.job) /\ OfOwner(at.job, mem)
    /\ at.place \in {"begun", "execute"} /\ at.job \in Connect
          => ran[at.job] = 0 /\ record[at.job] = "started" /\ mem.owner = OwnerOf[at.job]
    /\ at.place = "begun" => at.job \in Connect
    /\ at.place = "complete" => at.job \in Connect
    /\ at.place = "installed" => at.job \in Updates
    /\ at.place = "refuse" \/ at.for = "refuse" => at.job \in Connect
    /\ at.place \in {"command", "commandFailed"} =>
        at.job \in Reboots /\ receipt.job = at.job /\ receipt.dispatched /\ Heard(at.job)
    /\ at.place = "command" => ran[at.job] = 0
    /\ at.place \in {"deliver", "receipt"} => Heard(at.job)

\* The inductive invariant of the proofs.
VctlIInv ==
    /\ VctlTypeOK
    /\ StateOK(mem) /\ StateOK(disk)
    /\ ReceiptOK /\ RecordOK /\ AtOK
    /\ SuccessIsTrue /\ RebootAfterDelivery

\* A reboot that ended is reported and its receipt removed, so that the owner
\* can reboot, and the router update itself, again.
EndedRebootResolves == receipt.terminal # "none" ~> receipt.terminal = "none"

\* A pending result does not stay for ever: it is sent and leaves the journal
\* (recoverJournal: "flushes a pending result").
PendingDrains == \A t \in Tasks : mem.pendFor = t ~> mem.pendFor # t
=============================================================================
