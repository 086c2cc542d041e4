---------------------------- MODULE AgentJournal ----------------------------
(***************************************************************************)
(* The legacy agent's polling cycle and its job journal: what runOnce,     *)
(* recoverJobJournal, flushPendingJobResult and executeJobs do with        *)
(* CurrentJob, PendingJobResult and PendingJobResultRetryCount, in memory  *)
(* and in state.json.                                                      *)
(*                                                                         *)
(* An action ends where the agent waits for the panel or where a crash     *)
(* would make a difference: a save and the request that follows it are one *)
(* action, running a job and saving its result are two.  The panel's       *)
(* answers are parameters: JobProtocol supplies the real ones, Spec below  *)
(* lets the panel answer anything.                                         *)
(***************************************************************************)
EXTENDS Naturals, FiniteSets

CONSTANTS
    Tasks,       \* the jobs the agent can be handed
    ApplyTasks,  \* those that apply the desired revision
    UpdateTasks, \* those with an ExpectedControllerVersion
    Version,     \* the version each of them installs
    OldVersion,  \* the version the agent starts with
    Revisions,   \* the revisions an answer can carry
    NoTask, NoRevision,
    MaxRetries,  \* pendingJobResultMaxRetries (6 in the code)
    MaxFaults    \* bound on crashes, failed saves and failed requests

ASSUME AgentConstants ==
    /\ ApplyTasks \subseteq Tasks /\ UpdateTasks \subseteq Tasks
    /\ ApplyTasks \cap UpdateTasks = {}
    /\ NoTask \notin Tasks
    /\ NoRevision \notin Revisions
    /\ MaxRetries \in Nat \ {0}
    /\ MaxFaults \in Nat

VARIABLES
    disk,    \* the journal in state.json
    mem,     \* the journal of the running process
    pc,      \* where runOnce is
    batch,   \* jobs of the last answer still to be executed
    want,    \* the desired revision of the last answer
    post,    \* the job-result request the agent waits for
    runtime, \* the version of the running controller
    staged,  \* the version on disk, run after the next start
    ran,     \* how often each job was executed (history)
    worked,  \* how its last execution ended (history)
    faults   \* faults so far

agentVars == <<disk, mem, pc, batch, want, post, runtime, staged, ran, worked, faults>>

Outcomes == {"none", "success", "failure"}

\* CurrentJob; PendingJobResult with its job; PendingJobResultRetryCount.
Journal == [cur: Tasks \cup {NoTask}, pend: Outcomes, pendFor: Tasks \cup {NoTask},
            rev: Revisions \cup {NoRevision}, retries: 0..(MaxRetries + 1)]
EmptyJournal == [cur |-> NoTask, pend |-> "none", pendFor |-> NoTask,
                 rev |-> NoRevision, retries |-> 0]

\* A job-result request always names a job.
Post == [job: Tasks, status: {"accepted", "success", "failure"},
         rev: Revisions \cup {NoRevision}]
NoPost == [job |-> NoTask, status |-> "none", rev |-> NoRevision]

Versions == {OldVersion} \cup {Version[j] : j \in UpdateTasks}

Places == {"down", "start", "recovering", "checkin", "jobs", "acking",
           "running", "ran", "reporting"}

AgentTypeOK ==
    /\ disk \in Journal /\ mem \in Journal
    /\ pc \in Places
    /\ batch \subseteq Tasks
    /\ want \in Revisions \cup {NoRevision}
    /\ post \in Post \cup {NoPost}
    /\ runtime \in Versions /\ staged \in Versions
    /\ ran \in [Tasks -> 0..2]
    /\ worked \in [Tasks -> Outcomes]
    /\ faults \in 0..MaxFaults

AgentInit ==
    /\ disk = EmptyJournal /\ mem = EmptyJournal
    /\ pc = "down"
    /\ batch = {} /\ want = NoRevision
    /\ post = NoPost
    /\ runtime = OldVersion /\ staged = OldVersion
    /\ ran = [j \in Tasks |-> 0]
    /\ worked = [j \in Tasks |-> "none"]
    /\ faults = 0

-----------------------------------------------------------------------------
\* Every crash, failed save and failed request is counted.
Fault == faults < MaxFaults /\ faults' = faults + 1

\* The cycle ends with journal m in memory and d on disk.  persistStateIfChanged
\* writes m if the state changed since the cycle began; that may fail as well.
EndCycle(m, d) ==
    /\ mem' = m /\ disk' \in {d, m}
    /\ pc' = "start" /\ batch' = {} /\ post' = NoPost

Save(m) == mem' = m /\ disk' = m

\* main: load the state.  What runs is the controller that was installed, or
\* the one before when the installed one does not come up.
Start ==
    /\ pc = "down"
    /\ pc' = "start"
    /\ mem' = disk
    /\ runtime' \in {staged, runtime}
    /\ UNCHANGED <<disk, batch, want, post, staged, ran, worked, faults>>

Crash ==
    /\ pc # "down" /\ Fault
    /\ pc' = "down"
    /\ mem' = EmptyJournal /\ batch' = {} /\ post' = NoPost
    /\ UNCHANGED <<disk, want, runtime, staged, ran, worked>>

\* A cycle that never comes to the journal: the rescue or the control-plane
\* recovery failed, or is in a phase that skips most check-ins.
SkipCycle ==
    /\ pc = "start"
    /\ EndCycle(mem, disk)
    /\ UNCHANGED <<want, runtime, staged, ran, worked, faults>>

-----------------------------------------------------------------------------
(***************************************************************************)
(* The journal.                                                            *)
(***************************************************************************)
\* persistPendingJobResult: a result for another job starts a fresh budget.
WithResult(m, j, status, r) ==
    [cur |-> m.cur, pend |-> status, pendFor |-> j, rev |-> r,
     retries |-> IF m.pend = "none" \/ m.pendFor # j THEN 0 ELSE m.retries]

\* Mutant: the result stays behind.
ClearedJobOnly(m) == [m EXCEPT !.cur = NoTask, !.retries = 0]

\* clearJobJournal: whatever the journal held.
Cleared(m) == EmptyJournal

\* Mutant: the first report is sent at once.
NeedsConfirmationLater(m) ==
    m.cur \in UpdateTasks /\ m.pend = "success" /\ m.retries > 0

\* requiresControllerRuntimeConfirmation
NeedsConfirmation(m) == m.cur \in UpdateTasks /\ m.pend = "success"

\* Mutant: no bail-out.
NeverExhausted(m) == FALSE

\* The retry budget of an unconfirmed update.
Exhausted(m) == m.retries >= MaxRetries

\* flushPendingJobResult up to its request, of journal m with d on disk.  "seen"
\* is whether the inventory it was given carries the runtime version.  Saving
\* the retry counter is best effort.
Flush(m, d, seen, place) ==
    LET confirmed == seen /\ runtime = Version[m.cur]
        counted == [m EXCEPT !.retries = IF @ <= MaxRetries THEN @ + 1 ELSE @]
        send(n, status) ==
            /\ mem' = n /\ pc' = place
            /\ post' = [job |-> n.pendFor, status |-> status, rev |-> n.rev]
            /\ UNCHANGED batch
    IN  IF ~NeedsConfirmation(m) \/ confirmed
        THEN disk' = d /\ send(m, m.pend)
        ELSE IF ~Exhausted(counted)
        THEN EndCycle(counted, d)
        ELSE disk' \in {d, counted} /\ send(counted, "failure")

\* submitJobResultNow: save the result, then flush it; when the save fails the
\* result stays in memory for the next cycle.
Submit(j, status, r, seen, place) ==
    LET m == WithResult(mem, j, status, r)
    IN  \/ Flush(m, m, seen, place) /\ UNCHANGED faults
        \/ EndCycle(m, disk) /\ Fault

-----------------------------------------------------------------------------
(***************************************************************************)
(* recoverJobJournal, before every check-in.                               *)
(***************************************************************************)
RecoverPending ==
    /\ pc = "start" /\ mem.pend # "none"
    /\ \E seen \in BOOLEAN : Flush(mem, disk, seen, "recovering")
    /\ UNCHANGED <<want, runtime, staged, ran, worked, faults>>

\* Mutant: a result is made up although no job was started.
RecoverCurrentUnchecked ==
    /\ pc = "start" /\ mem.pend = "none"
    /\ \E seen \in BOOLEAN : Submit(mem.cur, "failure", NoRevision, seen, "recovering")
    /\ UNCHANGED <<want, runtime, staged, ran, worked>>

\* The agent restarted, or gave up, before it had a result.
RecoverCurrent ==
    /\ pc = "start" /\ mem.pend = "none" /\ mem.cur # NoTask
    /\ \E seen \in BOOLEAN : Submit(mem.cur, "failure", NoRevision, seen, "recovering")
    /\ UNCHANGED <<want, runtime, staged, ran, worked>>

RecoverNothing ==
    /\ pc = "start" /\ mem.pend = "none" /\ mem.cur = NoTask
    /\ pc' = "checkin"
    /\ UNCHANGED <<disk, mem, batch, want, post, runtime, staged, ran, worked, faults>>

\* The panel acknowledged a result: forget the job, then go on - unless the
\* journal cannot be saved.
Acked(from, to) ==
    /\ pc = from
    /\ \/ Save(Cleared(mem)) /\ pc' = to /\ post' = NoPost /\ UNCHANGED <<batch, faults>>
       \/ EndCycle(Cleared(mem), disk) /\ Fault
    /\ UNCHANGED <<want, runtime, staged, ran, worked>>

RecoverAcked == Acked("recovering", "checkin")

-----------------------------------------------------------------------------
(***************************************************************************)
(* The check-in and executeJobs.                                           *)
(***************************************************************************)
\* The answer's jobs, if any, are executed only once the fresh contact is saved.
CheckedIn(jobs, r) ==
    /\ pc = "checkin"
    /\ want' = r
    /\ \/ /\ mem' = mem /\ disk' = IF jobs = {} THEN disk ELSE mem
          /\ pc' = "jobs" /\ batch' = jobs /\ UNCHANGED <<post, faults>>
       \/ jobs # {} /\ EndCycle(mem, disk) /\ Fault
    /\ UNCHANGED <<runtime, staged, ran, worked>>

Accept(j) ==
    /\ pc = "jobs" /\ j \in batch
    /\ batch' = batch \ {j}
    /\ post' = [job |-> j, status |-> "accepted", rev |-> NoRevision]
    /\ pc' = "acking"
    /\ UNCHANGED <<disk, mem, want, runtime, staged, ran, worked, faults>>

\* persistCurrentJob, after the panel knows the job is accepted.
AcceptAcked ==
    /\ pc = "acking"
    /\ LET m == [mem EXCEPT !.cur = post.job]
       IN  \/ Save(m) /\ pc' = "running" /\ post' = NoPost /\ UNCHANGED <<batch, faults>>
           \/ EndCycle(m, disk) /\ Fault
    /\ UNCHANGED <<want, runtime, staged, ran, worked>>

\* The resource guard refuses the job, or the answer had no desired revision.
Refuse ==
    /\ pc = "running"
    /\ Submit(mem.cur, "failure", NoRevision, FALSE, "reporting")
    /\ UNCHANGED <<want, runtime, staged, ran, worked>>

Execute(outcome) ==
    /\ pc = "running"
    /\ mem.cur \in ApplyTasks => want # NoRevision
    /\ pc' = "ran"
    /\ ran' = [ran EXCEPT ![mem.cur] = IF @ < 2 THEN @ + 1 ELSE @]
    /\ worked' = [worked EXCEPT ![mem.cur] = outcome]
    /\ staged' = IF outcome = "success" /\ mem.cur \in UpdateTasks
                 THEN Version[mem.cur] ELSE staged
    /\ UNCHANGED <<disk, mem, batch, want, post, runtime, faults>>

\* An apply reports the revision of the answer, which is the one it applied.
ResultRevision ==
    IF mem.cur \in ApplyTasks /\ worked[mem.cur] = "success" THEN want ELSE NoRevision

Finish ==
    /\ pc = "ran"
    /\ Submit(mem.cur, worked[mem.cur], ResultRevision, FALSE, "reporting")
    /\ UNCHANGED <<want, runtime, staged, ran, worked>>

\* A successful update_controller saves its result and restarts the process;
\* the next one reports it, once it knows which version it runs.
FinishUpdate ==
    /\ pc = "ran" /\ mem.cur \in UpdateTasks /\ worked[mem.cur] = "success"
    /\ LET m == WithResult(mem, mem.cur, "success", NoRevision)
       IN  \/ /\ disk' = m /\ mem' = EmptyJournal /\ pc' = "down"
              /\ batch' = {} /\ post' = NoPost /\ UNCHANGED faults
           \/ EndCycle(m, disk) /\ Fault
    /\ UNCHANGED <<want, runtime, staged, ran, worked>>

ReportAcked == Acked("reporting", "jobs")

JobsDone ==
    /\ pc = "jobs" /\ batch = {}
    /\ EndCycle(mem, disk)
    /\ UNCHANGED <<want, runtime, staged, ran, worked, faults>>

\* A request that fails, or is not answered within the client's timeout, ends
\* the cycle; the panel may have handled it all the same.
RequestFailed ==
    /\ pc \in {"recovering", "checkin", "acking", "reporting"}
    /\ Fault
    /\ EndCycle(mem, disk)
    /\ UNCHANGED <<want, runtime, staged, ran, worked>>

-----------------------------------------------------------------------------
\* The steps the agent takes on its own.
AgentStep ==
    \/ Start \/ Crash \/ SkipCycle
    \/ RecoverPending \/ RecoverCurrent \/ RecoverNothing
    \/ \E j \in Tasks : Accept(j)
    \/ Refuse \/ Finish \/ FinishUpdate \/ JobsDone
    \/ \E outcome \in {"success", "failure"} : Execute(outcome)

\* The steps the panel's answer, or its absence, lets it take.
AgentAnswered ==
    \/ RecoverAcked \/ AcceptAcked \/ ReportAcked \/ RequestFailed
    \/ \E jobs \in SUBSET Tasks, r \in Revisions \cup {NoRevision} : CheckedIn(jobs, r)

AgentNext == AgentStep \/ AgentAnswered

\* The process runs, procd starts it again, requests end (each has a timeout)
\* and check-ins are paced, never skipped for good.  Crashes, failed saves and
\* failed requests are not fair.
AgentFairness ==
    WF_agentVars(AgentNext /\ faults' = faults)

AgentSpec == AgentInit /\ [][AgentNext]_agentVars
AgentFairSpec == AgentSpec /\ AgentFairness

-----------------------------------------------------------------------------
\* A saved result always belongs to the job the journal names, in memory and
\* on disk, whichever saves failed: otherwise the confirmation of an update
\* would be asked for another job's result.
Coherent(m) == m.pend # "none" => m.pendFor = m.cur /\ m.cur # NoTask
JournalCoherent == Coherent(mem) /\ Coherent(disk)

\* An update is reported as a success only by a process that runs the version
\* the job was to install, across restarts, lost saves and repeated reports.
UpdateSuccessConfirmed ==
    post.status = "success" /\ post.job \in UpdateTasks
        => runtime = Version[post.job]

\* Where the cycle is says what the journal holds: a request is waited for only
\* in the places named, nothing is pending from the check-in to the end of a
\* job, and a job that ran has an outcome.
PhaseOK ==
    /\ IF pc \in {"recovering", "acking", "reporting"} THEN post \in Post ELSE post = NoPost
    /\ pc \in {"checkin", "jobs", "acking", "running", "ran"} => mem.pend = "none"
    /\ pc \in {"running", "ran"} => mem.cur \in Tasks
    /\ pc = "ran" => worked[mem.cur] \in {"success", "failure"}

\* The inductive invariant of the proofs.
AgentIInv == AgentTypeOK /\ JournalCoherent /\ UpdateSuccessConfirmed /\ PhaseOK

\* No journal keeps the agent from the panel for good: whatever it has to
\* report first, and whichever version it came up with, the next check-in goes
\* out (the incident the retry budget was added for).
CheckInsResume == []<>(pc = "jobs")
=============================================================================
