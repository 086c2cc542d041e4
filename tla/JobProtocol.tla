---------------------------- MODULE JobProtocol ----------------------------
(***************************************************************************)
(* The panel and one legacy (PassWall) router together: the job table of   *)
(* PanelJobs, the polling agent of AgentJournal, and between them requests *)
(* that are lost before or after they were handled, or handled so slowly   *)
(* that the agent has given up on them.                                    *)
(***************************************************************************)
EXTENDS PanelJobs

CONSTANTS UpdateJobs, Version, OldVersion, MaxRetries, MaxFaults

VARIABLES
    disk, mem, pc, batch, want, post, runtime, staged, ran, worked, faults,
    waiting  \* the request whose answer the agent waits for

Agent == INSTANCE AgentJournal WITH
    Tasks <- Jobs, ApplyTasks <- ApplyJobs, UpdateTasks <- UpdateJobs,
    Revisions <- Revs, NoTask <- NoJob, NoRevision <- NoRev

agentVars == <<disk, mem, pc, batch, want, post, runtime, staged, ran, worked, faults>>
allVars == <<vars, agentVars, waiting>>

\* A PassWall router: newest job first, no owner, no job of another engine.
ASSUME PassWallRouter == PassWall /\ ActionJobs = {} /\ Unrunnable = {}

ASSUME AgentJobs ==
    /\ UpdateJobs \subseteq Jobs /\ ApplyJobs \cap UpdateJobs = {}
    /\ MaxRetries \in Nat \ {0} /\ MaxFaults \in Nat

Nobody == "nobody"
AtCheckIn == "check-in"
ASSUME RequestNames == Nobody \notin Calls /\ AtCheckIn \notin Calls

ProtocolInit == Init /\ Agent!AgentInit /\ waiting = Nobody

-----------------------------------------------------------------------------
\* The agent by itself.  It executes the jobs of an answer in its order.
AgentMoves ==
    /\ Agent!AgentStep
    /\ pc = "jobs" /\ batch # {} => batch' = batch \ {FirstOf(batch)}
    /\ ~Agent!Crash
    /\ UNCHANGED <<vars, waiting>>

AgentCrashes == Agent!Crash /\ waiting' = Nobody /\ UNCHANGED vars

\* A job-result request arrives; it is handled whether or not the agent still
\* waits when it is done.
Send(h) ==
    /\ waiting = Nobody /\ post # Agent!NoPost
    /\ Receive(h, post.job, post.status, post.rev)
    /\ waiting' = h
    /\ UNCHANGED agentVars

SendCheckIn ==
    /\ waiting = Nobody /\ pc = "checkin"
    /\ CheckInRead
    /\ waiting' = AtCheckIn
    /\ UNCHANGED agentVars

Answer(h) ==
    /\ Respond(h)
    /\ IF waiting = h
       THEN /\ Agent!RecoverAcked \/ Agent!AcceptAcked \/ Agent!ReportAcked
            /\ waiting' = Nobody
       ELSE UNCHANGED <<agentVars, waiting>>

AnswerCheckIn ==
    /\ CheckInAnswer
    /\ IF waiting = AtCheckIn
       THEN Agent!CheckedIn(checkin.batch, checkin.rev) /\ waiting' = Nobody
       ELSE UNCHANGED <<agentVars, waiting>>

\* The connection breaks, before the request arrived, while it is handled or
\* after that, or the client's timeout is over.
GiveUp == Agent!RequestFailed /\ waiting' = Nobody /\ UNCHANGED vars

\* The panel answers with an error, or its process dies.
Fails(request) ==
    IF waiting = request
    THEN Agent!RequestFailed /\ waiting' = Nobody
    ELSE UNCHANGED <<agentVars, waiting>>

PanelFails ==
    \/ \E h \in Calls : (HandlerError(h) \/ HandlerCrash(h)) /\ Fails(h)
    \/ CheckInCrash /\ Fails(AtCheckIn)

PanelMoves ==
    /\ \/ \E j \in Jobs : QueueApply(j) \/ QueueOther(j)
                            \/ JanitorCancel(j) \/ JanitorFails(j)
       \/ \E r \in Revs : Author(r)
       \/ \E h \in Calls : CallStep(h)
       \/ CheckInDeliver \/ JanitorScan
    /\ UNCHANGED <<agentVars, waiting>>

ProtocolNext ==
    \/ AgentMoves \/ AgentCrashes \/ GiveUp
    \/ \E h \in Calls : Send(h) \/ Answer(h)
    \/ SendCheckIn \/ AnswerCheckIn
    \/ PanelFails \/ PanelMoves

\* Both programs run, the network delivers what is not one of the counted
\* faults, and the janitor's timer fires.
ProtocolFairness ==
    /\ WF_allVars(AgentMoves /\ faults' = faults)
    /\ WF_allVars(SendCheckIn) /\ WF_allVars(AnswerCheckIn)
    /\ WF_allVars(CheckInDeliver /\ UNCHANGED <<agentVars, waiting>>)
    /\ \A h \in Calls :
        /\ WF_allVars(CallStep(h) /\ UNCHANGED <<agentVars, waiting>>)
        /\ WF_allVars(Answer(h))
    /\ WF_allVars(\E h \in Calls : Send(h))
    /\ WF_allVars(JanitorScan /\ UNCHANGED <<agentVars, waiting>>)
    /\ \A j \in Jobs : SF_allVars(JanitorCancel(j) /\ UNCHANGED <<agentVars, waiting>>)

ProtocolSpec == ProtocolInit /\ [][ProtocolNext]_allVars
ProtocolFairSpec == ProtocolSpec /\ ProtocolFairness

-----------------------------------------------------------------------------
\* The panel never hands a job out again once the router may have run it, and
\* the router forgets a job only when the panel has ended it: no crash, lost
\* answer or failed save makes a router execute one job twice.
RunsAtMostOnce == \A j \in Jobs : ran[j] <= 1

(***************************************************************************)
(* Why.  A job leaves the queue when the router accepts it, or ends, and   *)
(* never comes back; what the agent is about to run, or may still be       *)
(* handed by the answer it waits for, it has not run.                      *)
(***************************************************************************)
Left(j) == job[j].state \notin {"absent", "queued"}

\* No job of another engine, so no call of failUndeliverableJobs; a call past
\* the update of the row has a row that left the queue.
PanelOK ==
    /\ checkin.todo = {}
    /\ \A h \in Calls :
        /\ ~calls[h].internal
        /\ calls[h].pc \in {"report", "revision", "router", "notify"} => Left(calls[h].job)

\* The jobs the agent knows of, in memory, on disk and in its request, are such
\* as it was handed.
KnownJobs == batch \cup {post.job, mem.cur, mem.pendFor, disk.cur, disk.pendFor}
HandedOK ==
    /\ KnownJobs \subseteq handed \cup {NoJob}
    /\ checkin.pc = "answer" => checkin.batch \subseteq handed

\* What the agent waits for is the request it made: a check-in that offers only
\* jobs it has not run, or the result it has to report.
WaitingOK ==
    /\ waiting = AtCheckIn =>
        /\ pc = "checkin" /\ checkin.pc # "idle"
        /\ \A j \in checkin.batch : ran[j] = 0
    /\ \A h \in Calls : waiting = h =>
        /\ pc \in {"recovering", "acking", "reporting"}
        /\ calls[h].pc # "idle"
        /\ calls[h].pc # "done" => calls[h].job = post.job
        /\ calls[h].pc = "done" => Left(post.job)

OnceOK ==
    /\ \A j \in Jobs :
        /\ ran[j] <= 1
        /\ ran[j] = 0 <=> worked[j] = "none"
        /\ ran[j] > 0 => Left(j)
    /\ \A j \in batch : ran[j] = 0
    /\ pc = "acking" => ran[post.job] = 0 /\ post.job \notin batch
    /\ pc = "running" => ran[mem.cur] = 0 /\ mem.cur \notin batch /\ Left(mem.cur)

\* A success is one wherever it is: pending, on its way, being recorded, recorded.
SuccessesOK ==
    /\ \A m \in {mem, disk} : m.pend = "success" => worked[m.pendFor] = "success"
    /\ post.status = "success" => worked[post.job] = "success"
    /\ \A h \in Calls :
        calls[h].pc \in {"received", "write"} /\ calls[h].status = "success"
            => worked[calls[h].job] = "success"
    /\ \A j \in Jobs : job[j].state = "succeeded" => worked[j] = "success"

ProtocolIInv ==
    /\ IInv /\ Agent!AgentIInv
    /\ PanelOK /\ HandedOK /\ WaitingOK /\ OnceOK /\ SuccessesOK

\* The contract with each job's record read off the panel's row.
Contract == INSTANCE JobContract WITH
    record <- [j \in Jobs |-> IF job[j].state \in Active THEN "open" ELSE job[j].state],
    outcome <- worked

\* Panel and agent together keep the contract of every job: executed once, a
\* success only of what succeeded, and over in the end.
KeepsContract == Contract!Spec
=============================================================================
