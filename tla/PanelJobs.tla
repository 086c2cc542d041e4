----------------------------- MODULE PanelJobs -----------------------------
(***************************************************************************)
(* The panel's job table for one router: queueing, delivery on check-in,   *)
(* the job-result handler, the stuck-job janitor, a partner's cancel and   *)
(* the unbind of an owner.                                                 *)
(*                                                                         *)
(* One action is one database statement, or one transaction: the panel is  *)
(* a Node process (two of them during a deploy) in which every await       *)
(* between two statements lets any other request run.  Only a queueing     *)
(* request is taken as one step.  recordJobResult holds no transaction, so *)
(* each of its statements is a step of its own and the rows it decided on  *)
(* may have changed by the time it writes.                                 *)
(***************************************************************************)
EXTENDS Naturals, FiniteSets

CONSTANTS
    Jobs,            \* the job rows that can ever be inserted for the router
    ApplyJobs,       \* apply_xray_config / apply_passwall_config
    ActionJobs,      \* an owner's action: payload.origin = partner_action
    ConnectJobs,     \* those of them of type connect_router_action
    ExclusiveJobs,   \* delivered alone: isEngineAgnosticExclusiveJob
    Unrunnable,      \* failed at delivery: this router's engine cannot run them
    Target,          \* the dedupe key of each job; for an apply, its revision
    Calls,           \* job-result requests that can be in flight at once
    PassWall,        \* the router's engine: PassWall, or xray-direct
    CandidateLimit,  \* the rows one check-in reads (10 in the code)
    Owners,          \* the accounts that can own the router
    NoJob, NoRev, NoOwner

ASSUME JobKinds ==
    /\ ApplyJobs \subseteq Jobs /\ ActionJobs \subseteq Jobs
    /\ ExclusiveJobs \subseteq Jobs /\ Unrunnable \subseteq Jobs
    /\ ApplyJobs \cap ActionJobs = {} /\ ConnectJobs \subseteq ActionJobs
ASSUME Finite == IsFiniteSet(Jobs)
ASSUME NoJobFresh == NoJob \notin Jobs
ASSUME EngineAndLimit == PassWall \in BOOLEAN /\ CandidateLimit \in Nat \ {0}
ASSUME OwnerFresh == NoOwner \notin Owners
ASSUME RevFresh == NoRev \notin {Target[j] : j \in Jobs}
\* A partner's idempotency key is never the key of another kind of job.
ASSUME ActionKeys ==
    \A j \in ActionJobs, k \in Jobs \ ActionJobs : Target[j] # Target[k]

Revs == {Target[j] : j \in ApplyJobs}

Terminal == {"succeeded", "failed", "cancelled"}
Active == {"queued", "running"}
States == {"absent"} \cup Active \cup Terminal

VARIABLES
    job,      \* the vectra_job rows
    router,   \* the vectra_router row
    rev,      \* the status of each vectra_passwall_desired_revision
    calls,    \* the recordJobResult calls in flight
    checkin,  \* the check-in being answered
    handed,   \* jobs that were in an answer to the router
    sweep,    \* the janitor's candidates still to be handled
    told      \* events sent to owners about the result of their action

vars == <<job, router, rev, calls, checkin, handed, sweep, told>>

(***************************************************************************)
(* Rows.  completedAt is set exactly in the terminal states, so it is not  *)
(* a field; the other times are not kept either: a running job may be past *)
(* the janitor's threshold at any moment.  "by" is who cancelled the job,  *)
(* of which the row keeps only a partner's cancel (payload.cancelledBy);   *)
(* "over" is history: a result was written over the row when it had ended. *)
(***************************************************************************)
Cancellers == {"nobody", "partner", "janitor", "unbind"}
Row == [state: States, key: BOOLEAN, delivered: BOOLEAN, by: Cancellers,
        reported: BOOLEAN, over: BOOLEAN, owner: Owners \cup {NoOwner}, born: Nat]
NewRow(state, key, owner, born) ==
    [state |-> state, key |-> key, delivered |-> FALSE, by |-> "nobody",
     reported |-> FALSE, over |-> FALSE, owner |-> owner, born |-> born]

Statuses == {"accepted", "success", "failure"}
Steps == {"idle", "received", "report", "write", "revision", "router",
          "notify", "done"}
\* A call carries what the request said, and of the row only what the handler
\* still uses after reading it: the dedupe key it will write back, and whether
\* the router's owner is the one who asked for the job.
Call == [pc: Steps, job: Jobs \cup {NoJob}, status: Statuses,
         rev: Revs \cup {NoRev}, key: BOOLEAN, hears: BOOLEAN, internal: BOOLEAN]
NewCall(pc, j, status, r, internal) ==
    [pc |-> pc, job |-> j, status |-> status, rev |-> r,
     key |-> FALSE, hears |-> FALSE, internal |-> internal]
NoCall == NewCall("idle", NoJob, "accepted", NoRev, FALSE)

NoCheckIn == [pc |-> "idle", batch |-> {}, rev |-> NoRev, todo |-> {}]

\* Of the router: its owner, whether it was released by one and is approved;
\* activeRevisionId and lastAppliedRevisionId.
RouterRow == [owner: Owners \cup {NoOwner}, released: BOOLEAN, approved: BOOLEAN,
              active: Revs \cup {NoRev}, last: Revs \cup {NoRev}]

RevStates == {"absent", "draft", "queued", "applied", "failed", "discarded"}

TypeOK ==
    /\ job \in [Jobs -> Row]
    /\ router \in RouterRow
    /\ rev \in [Revs -> RevStates]
    /\ calls \in [Calls -> Call]
    /\ checkin \in [pc: {"idle", "read", "answer"}, batch: SUBSET Jobs,
                    rev: Revs \cup {NoRev}, todo: SUBSET Jobs]
    /\ handed \subseteq Jobs
    /\ sweep \subseteq Jobs
    /\ told \in [Jobs -> 0..2]

Init ==
    /\ job = [j \in Jobs |-> NewRow("absent", FALSE, NoOwner, 0)]
    /\ \E o \in IF PassWall THEN {NoOwner} ELSE Owners :
        router = [owner |-> o, released |-> FALSE, approved |-> TRUE,
                  active |-> NoRev, last |-> NoRev]
    /\ rev = [r \in Revs |-> "absent"]
    /\ calls = [h \in Calls |-> NoCall]
    /\ checkin = NoCheckIn
    /\ handed = {} /\ sweep = {}
    /\ told = [j \in Jobs |-> 0]

-----------------------------------------------------------------------------
(***************************************************************************)
(* Queueing.  The unique index on dedupe_key refuses a second row with the *)
(* same key, and the lookup before the insert returns the active one.      *)
(***************************************************************************)
Present == {j \in Jobs : job[j].state # "absent"}

KeyFree(j) == \A k \in Jobs \ {j} : Target[k] = Target[j] => ~job[k].key

\* Mutant: the key is given up on acceptance.
KeyGivenUpEarly(j, key, status) == key /\ status # "accepted"

\* How a row's key survives a result (resolveJobDedupeKeyAfterResult).
KeyAfterResult(j, key, status) ==
    key /\ (status = "accepted" \/ j \in ActionJobs)

\* payload.ownerRef is set on an owner's action only.
Insert(j) ==
    /\ job[j].state = "absent"
    /\ KeyFree(j)
    /\ LET owner == IF j \in ActionJobs THEN router.owner ELSE NoOwner
       IN  job' = [job EXCEPT
                     ![j] = NewRow("queued", TRUE, owner, 1 + Cardinality(Present))]

\* An operator saves a draft.
Author(r) ==
    /\ rev[r] = "absent"
    /\ rev' = [rev EXCEPT ![r] = "draft"]
    /\ UNCHANGED <<job, router, calls, checkin, handed, sweep, told>>

\* Editable statuses of an operator draft: queueing marks it queued.  Queueing
\* takes a released router over.
QueueApply(j) ==
    /\ j \in ApplyJobs
    /\ router.approved /\ rev[Target[j]] # "absent"
    /\ Insert(j)
    /\ rev' = [rev EXCEPT ![Target[j]] =
                  IF PassWall \/ @ \in {"draft", "queued", "failed"} THEN "queued" ELSE @]
    /\ router' = [router EXCEPT !.released = FALSE]
    /\ UNCHANGED <<calls, checkin, handed, sweep, told>>

QueueAction(j) ==
    /\ j \in ActionJobs
    /\ router.owner # NoOwner /\ ~router.released
    /\ Insert(j)
    /\ UNCHANGED <<router, rev, calls, checkin, handed, sweep, told>>

QueueOther(j) ==
    /\ j \notin ApplyJobs \cup ActionJobs
    /\ Insert(j)
    /\ UNCHANGED <<router, rev, calls, checkin, handed, sweep, told>>

-----------------------------------------------------------------------------
(***************************************************************************)
(* Delivery on check-in.  A job stays queued until the router accepts it,  *)
(* so an answer that is lost is simply repeated.                           *)
(***************************************************************************)
Queued == {j \in Jobs : job[j].state = "queued"}

\* PassWall routers get the newest job first, xray-direct routers the oldest.
Precedes(j, k) == IF PassWall THEN job[j].born > job[k].born
                              ELSE job[j].born < job[k].born

FirstOf(S) == CHOOSE j \in S : \A k \in S \ {j} : Precedes(j, k)

Candidates ==
    {j \in Queued : Cardinality({k \in Queued : Precedes(k, j)}) < CandidateLimit}

\* selectDeliverableJobsForCheckIn: without an approved import no apply goes out
\* and no connect_router_action (the other actions are stopped at the row lock,
\* and with them their whole batch); an exclusive job goes out alone.
Deliverable(S) ==
    LET allowed == IF router.approved THEN S \ Unrunnable
                   ELSE S \ (Unrunnable \cup ApplyJobs \cup ConnectJobs)
        exclusive == allowed \cap ExclusiveJobs
    IN  IF exclusive # {} THEN {FirstOf(exclusive)} ELSE allowed

\* preferredDesiredRevisionId: the first job with a revision decides, then the
\* active revision, then the one the router applied last.
DesiredRevision(batch, last) ==
    LET applies == batch \cap ApplyJobs
    IN  CASE ~router.approved -> NoRev
          [] router.approved /\ applies # {} -> Target[FirstOf(applies)]
          [] router.approved /\ applies = {} ->
                IF router.active # NoRev THEN router.active ELSE last

HandedRevs == {Target[j] : j \in handed \cap ApplyJobs}

\* routerAlreadyHoldsDesiredRevision: an xray-direct router that gets no job and
\* reports the revision it would be sent is not sent it again.
AlreadyHolds(batch, reported, desired) ==
    ~PassWall /\ batch = {} /\ reported = desired

\* The check-in first writes what the router reports to run (nothing, or any
\* revision it was handed), then reads the candidates.
CheckInRead ==
    /\ checkin.pc = "idle"
    /\ \E reported \in HandedRevs \cup {NoRev} :
        LET batch == Deliverable(Candidates)
            last == IF reported # NoRev THEN reported ELSE router.last
            desired == DesiredRevision(batch, last)
        IN  /\ router' = [router EXCEPT !.last = last]
            /\ checkin' = [pc |-> "read", batch |-> batch,
                           rev |-> IF AlreadyHolds(batch, reported, desired)
                                   THEN NoRev ELSE desired,
                           todo |-> IF PassWall THEN {} ELSE Candidates \cap Unrunnable]
    /\ UNCHANGED <<job, rev, calls, handed, sweep, told>>

\* The router row as a delivery of an owner's action needs it.
Serves == router.owner # NoOwner /\ ~router.released /\ router.approved

\* Mutant: the jobs are not read again under the lock.
StillDeliverableUnread(batch) ==
    IF batch \cap ActionJobs # {} /\ ~Serves THEN {} ELSE batch

\* The part of a batch that is still to go out when the router row is locked
\* (the lock is taken only for a batch with an owner's action in it).
StillDeliverable(batch) ==
    IF batch \cap ActionJobs = {} THEN batch
    ELSE IF ~Serves THEN {}
    ELSE {j \in batch : j \in ActionJobs
                           => job[j].state = "queued" /\ job[j].owner = router.owner}

\* Mutant: a delivery is not stamped.
CheckInDeliverUnstamped ==
    /\ checkin.pc = "read"
    /\ LET sent == StillDeliverable(checkin.batch)
       IN  /\ checkin' = [checkin EXCEPT !.pc = "answer", !.batch = sent]
           /\ handed' = handed \cup sent
    /\ UNCHANGED <<job, router, rev, calls, sweep, told>>

\* Stamped in the same transaction: from now on a cancel knows the router may
\* have the action, although it stays queued.
CheckInDeliver ==
    /\ checkin.pc = "read"
    /\ LET sent == StillDeliverable(checkin.batch)
       IN  /\ checkin' = [checkin EXCEPT !.pc = "answer", !.batch = sent]
           /\ handed' = handed \cup sent
           /\ job' = [j \in Jobs |->
                  IF j \in sent \cap ActionJobs
                  THEN [job[j] EXCEPT !.delivered = TRUE]
                  ELSE job[j]]
    /\ UNCHANGED <<router, rev, calls, sweep, told>>

\* Mutant: what can never be delivered stays in the queue.
FailUndeliverableLeft(j, h) ==
    /\ checkin.pc = "answer" /\ j \in checkin.todo
    /\ calls[h] = NoCall
    /\ checkin' = [checkin EXCEPT !.todo = @ \ {j}]
    /\ UNCHANGED <<job, calls, router, rev, handed, sweep, told>>

\* failUndeliverableJobs: out of the queue by a conditional update, then failed
\* through recordJobResult like any other failure.
FailUndeliverable(j, h) ==
    /\ checkin.pc = "answer" /\ j \in checkin.todo
    /\ calls[h] = NoCall
    /\ checkin' = [checkin EXCEPT !.todo = @ \ {j}]
    /\ IF job[j].state = "queued"
       THEN /\ job' = [job EXCEPT ![j].state = "running"]
            /\ calls' = [calls EXCEPT
                  ![h] = NewCall("received", j, "failure", NoRev, TRUE)]
       ELSE UNCHANGED <<job, calls>>
    /\ UNCHANGED <<router, rev, handed, sweep, told>>

CheckInAnswer ==
    /\ checkin.pc = "answer" /\ checkin.todo = {}
    /\ \A h \in Calls : ~calls[h].internal
    /\ checkin' = NoCheckIn
    /\ UNCHANGED <<job, router, rev, calls, handed, sweep, told>>

-----------------------------------------------------------------------------
(***************************************************************************)
(* recordJobResult, one statement at a time.                               *)
(***************************************************************************)
\* Of a connect_router_action no revision is taken.
Receive(h, j, status, r) ==
    /\ calls[h] = NoCall
    /\ LET taken == IF j \in ConnectJobs THEN NoRev ELSE r
       IN  calls' = [calls EXCEPT ![h] = NewCall("received", j, status, taken, FALSE)]
    /\ UNCHANGED <<job, router, rev, checkin, handed, sweep, told>>

\* The early acknowledgement: nothing left to record.
AlreadyRecorded(state, status) ==
    state \in Terminal \/ (status = "accepted" /\ state = "running")

Answered(c) == NewCall("done", NoJob, "accepted", NoRev, c.internal)

\* The owner that asked for the job still has the router.
Hears(j) == router.owner # NoOwner /\ router.owner = job[j].owner

HandlerRead(h) ==
    LET c == [calls[h] EXCEPT
                !.hears = Hears(calls[h].job) /\ calls[h].status # "accepted"]
        row == job[c.job]
        ranCancelled == row.state = "cancelled" /\ c.job \in ActionJobs
                        /\ c.status # "accepted"
    IN  /\ calls[h].pc = "received"
        /\ calls' = [calls EXCEPT ![h] =
              IF ranCancelled
              THEN [c EXCEPT !.pc = "report"]
              ELSE IF AlreadyRecorded(row.state, c.status)
              THEN Answered(c)
              ELSE [c EXCEPT !.pc = "write",
                             !.key = KeyAfterResult(c.job, row.key, c.status)]]
        /\ UNCHANGED <<job, router, rev, checkin, handed, sweep, told>>

\* notifyPartnerActionResultWithDb: an owner who had the router when the handler
\* read it, and still has it, is sent an event.
Tells(c) == c.hears /\ Hears(c.job) /\ ~router.released
ToldBy(c) == [told EXCEPT ![c.job] = IF Tells(c) /\ @ < 2 THEN @ + 1 ELSE @]

\* Mutant: the report does not claim the row first.
HandlerReportUnclaimed(h) ==
    /\ calls[h].pc = "report"
    /\ calls' = [calls EXCEPT ![h] = Answered(@)]
    /\ job' = [job EXCEPT ![calls[h].job].reported = TRUE]
    /\ told' = ToldBy(calls[h])
    /\ UNCHANGED <<router, rev, checkin, handed, sweep>>

\* A cancelled action that ran anyway: its owner hears the real result, once.
\* The claim of the row and the event are one transaction, which may fail.
HandlerReport(h) ==
    LET c == calls[h]
        claims == job[c.job].state = "cancelled" /\ ~job[c.job].reported
    IN  /\ c.pc = "report"
        /\ calls' = [calls EXCEPT ![h] = Answered(@)]
        /\ \/ /\ claims
              /\ job' = [job EXCEPT ![c.job].reported = TRUE]
              /\ told' = ToldBy(c)
           \/ UNCHANGED <<job, told>>
        /\ UNCHANGED <<router, rev, checkin, handed, sweep>>

\* Mutants: an accepted job is "delivered"; a failed one goes back to the queue.
RecordedDelivered(status) == IF status = "accepted" THEN "delivered"
                             ELSE IF status = "success" THEN "succeeded" ELSE "failed"
RecordedRetried(status) == IF status = "accepted" THEN "running"
                           ELSE IF status = "success" THEN "succeeded" ELSE "queued"

Recorded(status) == IF status = "accepted" THEN "running"
                    ELSE IF status = "success" THEN "succeeded" ELSE "failed"

\* parsed.appliedRevisionId ?? job.desiredRevisionId
AppliedRevision(c) == IF c.rev # NoRev THEN c.rev
                      ELSE IF c.job \in ApplyJobs THEN Target[c.job] ELSE NoRev

\* After the rows, the owner hears of the result of an action.
Onward(c) == IF c.job \in ActionJobs THEN [c EXCEPT !.pc = "notify", !.key = FALSE]
                                     ELSE Answered(c)

\* The update of the job row is unconditional; what it writes was decided on
\* the row as HandlerRead saw it.
HandlerWrite(h) ==
    LET c == calls[h]
    IN  /\ c.pc = "write"
        /\ c.key => KeyFree(c.job)
        /\ job' = [job EXCEPT
              ![c.job].state = Recorded(c.status),
              ![c.job].key = c.key,
              ![c.job].delivered = TRUE,
              ![c.job].over = @ \/ job[c.job].state \in Terminal]
        /\ calls' = [calls EXCEPT ![h] =
              IF c.status = "accepted" THEN Answered(c)
              ELSE IF AppliedRevision(c) # NoRev
              THEN [c EXCEPT !.pc = "revision", !.key = FALSE] ELSE Onward(c)]
        /\ UNCHANGED <<router, rev, checkin, handed, sweep, told>>

HandlerRevision(h) ==
    LET c == calls[h]
    IN  /\ c.pc = "revision"
        /\ rev' = [rev EXCEPT ![AppliedRevision(c)] =
                      IF c.status = "success" THEN "applied" ELSE "failed"]
        /\ calls' = [calls EXCEPT ![h] =
              IF c.status = "success" THEN [c EXCEPT !.pc = "router"] ELSE Onward(c)]
        /\ UNCHANGED <<job, router, checkin, handed, sweep, told>>

\* The update returns the row: whom it belongs to now is whom the handler tells.
HandlerRouter(h) ==
    LET c == calls[h]
    IN  /\ c.pc = "router"
        /\ router' = [router EXCEPT !.active = AppliedRevision(c),
                                    !.last = AppliedRevision(c),
                                    !.approved = TRUE]
        /\ calls' = [calls EXCEPT ![h] = Onward([c EXCEPT !.hears = Hears(c.job)])]
        /\ UNCHANGED <<job, rev, checkin, handed, sweep, told>>

\* The event of the result; a failure of this transaction is only logged.
HandlerNotify(h) ==
    /\ calls[h].pc = "notify"
    /\ told' \in {told, ToldBy(calls[h])}
    /\ calls' = [calls EXCEPT ![h] = Answered(@)]
    /\ UNCHANGED <<job, router, rev, checkin, handed, sweep>>

Respond(h) ==
    /\ calls[h].pc = "done"
    /\ calls' = [calls EXCEPT ![h] = NoCall]
    /\ UNCHANGED <<job, router, rev, checkin, handed, sweep, told>>

\* A statement throws.  The call of failUndeliverableJobs is caught there, and
\* the job it took out of the queue is failed directly if it is still running.
HandlerError(h) ==
    LET c == calls[h]
    IN  /\ c.pc \notin {"idle", "done"}
        /\ calls' = [calls EXCEPT ![h] = NoCall]
        /\ job' = IF c.internal /\ job[c.job].state = "running"
                  THEN [job EXCEPT
                          ![c.job].state = "failed",
                          ![c.job].key = KeyAfterResult(c.job, @, "failure")]
                  ELSE job
        /\ UNCHANGED <<router, rev, checkin, handed, sweep, told>>

\* The web process that runs this call, or this check-in, dies.
HandlerCrash(h) ==
    /\ calls[h].pc # "idle"
    /\ calls' = [calls EXCEPT ![h] = NoCall]
    /\ checkin' = IF calls[h].internal THEN NoCheckIn ELSE checkin
    /\ UNCHANGED <<job, router, rev, handed, sweep, told>>

CheckInCrash ==
    /\ checkin.pc # "idle"
    /\ checkin' = NoCheckIn
    /\ calls' = [h \in Calls |-> IF calls[h].internal THEN NoCall ELSE calls[h]]
    /\ UNCHANGED <<job, router, rev, handed, sweep, told>>

-----------------------------------------------------------------------------
(***************************************************************************)
(* Everyone else who writes a job: the janitor, the partner, the unbind.   *)
(***************************************************************************)
\* Mutants: only stamped jobs grow old, or only those that never were.
StuckStamped == {j \in Jobs : job[j].state = "running" /\ job[j].delivered}
StuckUnstamped == {j \in Jobs : job[j].state = "running" /\ ~job[j].delivered}

\* buildStuckJobCandidateFilter: running, not completed, and too old by
\* deliveredAt, or by createdAt for a job that was never stamped.
Stuck == {j \in Jobs : job[j].state = "running"}

JanitorScan ==
    /\ sweep = {} /\ Stuck # {}
    /\ sweep' = Stuck
    /\ UNCHANGED <<job, router, rev, calls, checkin, handed, told>>

\* Mutant: every cancelled job gives up its key.
JanitorCancelFreesKey(j) ==
    /\ j \in sweep
    /\ sweep' = sweep \ {j}
    /\ job' = IF job[j].state = "running"
              THEN [job EXCEPT ![j].state = "cancelled", ![j].by = "janitor",
                               ![j].key = FALSE]
              ELSE job
    /\ UNCHANGED <<router, rev, calls, checkin, handed, told>>

\* One conditional update and its event row, in one transaction.
JanitorCancel(j) ==
    /\ j \in sweep
    /\ sweep' = sweep \ {j}
    /\ job' = IF job[j].state = "running"
              THEN [job EXCEPT ![j].state = "cancelled", ![j].by = "janitor",
                               ![j].key = @ /\ j \in ActionJobs]
              ELSE job
    /\ UNCHANGED <<router, rev, calls, checkin, handed, told>>

\* The transaction of one candidate fails; the rest of the sweep goes on.
JanitorFails(j) ==
    /\ j \in sweep
    /\ sweep' = sweep \ {j}
    /\ UNCHANGED <<job, router, rev, calls, checkin, handed, told>>

\* Mutant: queued is taken to mean not handed out.
PartnerCancelQueued(j) ==
    /\ j \in ActionJobs
    /\ Hears(j) /\ ~router.released
    /\ job[j].state = "queued"
    /\ job' = [job EXCEPT ![j].state = "cancelled", ![j].by = "partner"]
    /\ UNCHANGED <<router, rev, calls, checkin, handed, sweep, told>>

\* Under the router row lock the delivery takes as well.
PartnerCancel(j) ==
    /\ j \in ActionJobs
    /\ Hears(j) /\ ~router.released
    /\ job[j].state = "queued" /\ ~job[j].delivered
    /\ job' = [job EXCEPT ![j].state = "cancelled", ![j].by = "partner"]
    /\ UNCHANGED <<router, rev, calls, checkin, handed, sweep, told>>

\* One transaction: the owner, the approval, the active revision and every
\* unfinished job of the owner's are withdrawn.
Unbind ==
    /\ router.owner # NoOwner
    /\ router' = [owner |-> NoOwner, released |-> TRUE, approved |-> FALSE,
                  active |-> NoRev, last |-> router.last]
    /\ job' = [j \in Jobs |->
          IF j \in ApplyJobs \cup ActionJobs /\ job[j].state \in Active
          THEN [job[j] EXCEPT !.state = "cancelled", !.key = FALSE, !.by = "unbind"]
          ELSE job[j]]
    /\ rev' = [r \in Revs |-> IF rev[r] \in {"draft", "queued"} THEN "discarded"
                              ELSE rev[r]]
    /\ UNCHANGED <<calls, checkin, handed, sweep, told>>

\* A new claim authors a new revision and queues its apply in one transaction.
Claim(j) ==
    /\ router.owner = NoOwner /\ ~PassWall
    /\ j \in ApplyJobs /\ rev[Target[j]] = "absent"
    /\ Insert(j)
    /\ rev' = [rev EXCEPT ![Target[j]] = "queued"]
    /\ \E o \in Owners :
        router' = [router EXCEPT !.owner = o, !.released = FALSE, !.approved = TRUE]
    /\ UNCHANGED <<calls, checkin, handed, sweep, told>>

-----------------------------------------------------------------------------
CallStep(h) ==
    \/ HandlerRead(h) \/ HandlerReport(h) \/ HandlerWrite(h)
    \/ HandlerRevision(h) \/ HandlerRouter(h) \/ HandlerNotify(h)

JobStep(j) ==
    \/ QueueApply(j) \/ QueueAction(j) \/ QueueOther(j)
    \/ JanitorCancel(j) \/ JanitorFails(j)
    \/ PartnerCancel(j) \/ Claim(j)

PanelStep ==
    \/ \E r \in Revs : Author(r)
    \/ \E j \in Jobs : JobStep(j)
    \/ \E h \in Calls : CallStep(h) \/ HandlerError(h) \/ HandlerCrash(h)
    \/ \E j \in Jobs, h \in Calls : FailUndeliverable(j, h)
    \/ CheckInRead \/ CheckInDeliver \/ CheckInCrash
    \/ JanitorScan \/ Unbind

\* The router, seen from the panel: about a job it was handed it may report
\* anything, at any time, again and in several requests at once, and as applied
\* any revision it was handed.
RouterReports ==
    \E h \in Calls, j \in handed, status \in Statuses, r \in HandedRevs \cup {NoRev} :
        /\ r # NoRev => status = "success" /\ r # Target[j]
        /\ Receive(h, j, status, r)

Next ==
    \/ PanelStep
    \/ RouterReports
    \/ CheckInAnswer
    \/ \E h \in Calls : Respond(h)

\* The janitor's timer fires again and again (and a running job grows old), and
\* not every transaction for one candidate fails: it comes back with the next
\* sweep.
Fairness ==
    /\ WF_vars(JanitorScan)
    /\ \A j \in Jobs : SF_vars(JanitorCancel(j))

Spec == Init /\ [][Next]_vars
FairSpec == Spec /\ Fairness

-----------------------------------------------------------------------------
(***************************************************************************)
(* Properties.                                                             *)
(***************************************************************************)
\* The dedupe key of a job is held for as long as the job can run, so no two
\* unfinished jobs ever have the same key: an apply is never queued twice for
\* one revision, however results, cancels and late requests interleave.
OneActivePerTarget ==
    \A j, k \in Jobs : j # k /\ Target[j] = Target[k] =>
        ~(job[j].state \in Active /\ job[k].state \in Active)

\* Why it holds.  Rows are numbered as they come, so that "the first" of some
\* queued jobs exists; everything the panel remembers is about rows that are
\* there; an unfinished job holds its key, no two jobs hold one key, and a
\* handler about to reopen a job as running still has the key it read.
BirthsOK ==
    /\ \A j \in Present : job[j].born \in 1..Cardinality(Present)
    /\ \A j, k \in Present : j # k => job[j].born # job[k].born

PresentOK ==
    /\ checkin.batch \subseteq Present /\ checkin.todo \subseteq Present
    /\ handed \subseteq Present
    /\ \A h \in Calls :
        /\ calls[h].pc \notin {"idle", "done"} => calls[h].job \in Present
        /\ calls[h].pc \in {"revision", "router"} => AppliedRevision(calls[h]) \in Revs

KeysOK ==
    /\ \A j \in Jobs : job[j].state \in Active => job[j].key
    /\ \A j, k \in Jobs : j # k /\ Target[j] = Target[k] => ~(job[j].key /\ job[k].key)
    /\ \A h \in Calls : calls[h].pc = "write" /\ calls[h].status = "accepted"
                         => calls[h].key

\* Why a partner's cancel is final: only what was never handed out, and so never
\* stamped, can be cancelled, and a request is about a job that was handed out
\* or that failUndeliverableJobs took out of the queue.
OwnerOK ==
    /\ \A j \in Jobs : job[j].by = "partner" => j \in ActionJobs /\ job[j].state = "cancelled"
    /\ \A j \in handed : /\ job[j].by # "partner"
                         /\ j \in ActionJobs => job[j].delivered
    /\ \A h \in Calls : calls[h].pc \notin {"idle", "done"} =>
          \/ calls[h].job \in handed
          \/ /\ job[calls[h].job].state \notin {"absent", "queued"}
             /\ job[calls[h].job].by # "partner"

\* Why an idempotency key names one action for good: only an unbind takes an
\* action's key, and a handler that is about to write one back still has it.
ActionKeysOK ==
    /\ \A j \in ActionJobs : job[j].state # "absent" /\ ~job[j].key => job[j].by = "unbind"
    /\ \A h \in Calls : calls[h].pc = "write" /\ calls[h].job \in ActionJobs => calls[h].key

\* Why an owner hears of an action once as long as nothing is written over a row
\* that has ended: who was told was told of an ended row, and who is about to
\* tell has ended the row itself and is alone with it.
Telling(h) == calls[h].pc \in {"revision", "router", "notify"}

HeardOf(j) == \/ job[j].state \in {"succeeded", "failed"}
              \/ job[j].state = "cancelled" /\ job[j].reported

HeardOK ==
    /\ \A j \in Jobs : job[j].over => job[j].state # "absent"
    /\ \A j \in Jobs : ~job[j].over => told[j] <= 1 /\ (told[j] = 1 => HeardOf(j))
    /\ \A h \in Calls : Telling(h) /\ ~job[calls[h].job].over =>
          /\ job[calls[h].job].state \in {"succeeded", "failed"}
          /\ told[calls[h].job] = 0
          /\ \A g \in Calls \ {h} : Telling(g) => calls[g].job # calls[h].job

IInv == TypeOK /\ BirthsOK /\ PresentOK /\ KeysOK

\* A partner's idempotency key names one action for good: a retry finds the
\* first action and never inserts a second, whether it succeeded, failed or
\* was cancelled - unless the unbind of the owner withdrew one of them.
IdempotentActions ==
    \A j, k \in ActionJobs :
        /\ j # k /\ Target[j] = Target[k]
        /\ job[j].state # "absent" /\ job[k].state # "absent"
        => job[j].by = "unbind" \/ job[k].by = "unbind"

\* The partner is told "cancelled" only of an action the router was never
\* handed, and is not handed afterwards either (the row lock and the re-read).
CancelledNeverHanded == \A j \in handed : job[j].by # "partner"

\* What a partner cancelled stays cancelled: no result, no delivery failure
\* and no sweep brings it back.
PartnerCancelSticks ==
    [][\A j \in Jobs : job[j].by = "partner" => job'[j].state = "cancelled"]_vars

\* However often the router repeats a result, whoever cancels the action and
\* whatever dies in between, its owner hears of it at most once - unless a
\* request that read the row before it ended wrote its own result over it.
ToldOnceUnlessOverwritten == \A j \in Jobs : told[j] <= 1 \/ job[j].over

\* Every job in 'running' leaves it, whoever died or lost what: the janitor's
\* promise, also for a job that was never stamped as delivered.
EveryRunningJobEnds ==
    \A j \in Jobs : job[j].state = "running" ~> job[j].state \in Terminal

\* The router polls, the panel's requests go on, what cannot be delivered is
\* failed when a call is free, and the web processes do not die for ever (a crash
\* that leaves what an answer or an error leaves is not told from it).
Polling ==
    /\ WF_vars(CheckInRead \/ CheckInDeliver \/ CheckInAnswer)
    /\ \A h \in Calls : WF_vars(CallStep(h) \/ HandlerError(h) \/ Respond(h))
    /\ SF_vars(\E j \in Jobs, h \in Calls : FailUndeliverable(j, h))
    /\ <>[][/\ CheckInCrash => CheckInAnswer
            /\ \A h \in Calls : HandlerCrash(h) => HandlerError(h) \/ Respond(h)]_vars

\* However few candidates a check-in reads, jobs that can never be delivered do not
\* keep the others from an approved router that polls.
QueuedIsHanded ==
    Polling => \A j \in ApplyJobs \ Unrunnable :
        job[j].state = "queued"
            ~> j \in handed \/ job[j].state # "queued" \/ ~router.approved

\* An unlinked router stays unapproved until the next claim: "its in-flight
\* xray applies are cancelled (so a late result cannot re-approve it)".
ReleasedStaysUnapproved == router.released => ~router.approved
=============================================================================
