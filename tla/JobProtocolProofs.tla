------------------------- MODULE JobProtocolProofs -------------------------
(***************************************************************************)
(* Theorems about JobProtocol, for any jobs, requests and faults: a router *)
(* executes a job at most once, a success is recorded only of a job that   *)
(* succeeded, and panel and agent together take only steps the contract of *)
(* JobContract allows.                                                     *)
(*                                                                         *)
(* The panel's part and the agent's part of the invariant are inductive by *)
(* themselves (PanelJobsProofs, AgentJournalProofs).  What is shown here   *)
(* is what ties them: every step is a step of the agent, seen by the panel *)
(* as AgentMoved, and one of the panel, seen by the agent as PanelMoved -  *)
(* except Execute, which changes what both speak of.                       *)
(***************************************************************************)
EXTENDS JobProtocol, PanelJobsProofs

AP == INSTANCE AgentJournalProofs WITH
    Tasks <- Jobs, ApplyTasks <- ApplyJobs, UpdateTasks <- UpdateJobs,
    Revisions <- Revs, NoTask <- NoJob, NoRevision <- NoRev

-----------------------------------------------------------------------------
(***************************************************************************)
(* The agent's own invariant, brought over from AgentJournalProofs.        *)
(***************************************************************************)
LEMMA SameInvariant == AP!AgentIInv <=> Agent!AgentIInv
BY DEF AP!AgentIInv, AP!AgentTypeOK, AP!JournalCoherent, AP!Coherent,
       AP!UpdateSuccessConfirmed, AP!PhaseOK, AP!Journal, AP!Outcomes, AP!Post,
       AP!NoPost, AP!Versions, AP!Places,
       Agent!AgentIInv, Agent!AgentTypeOK, Agent!JournalCoherent, Agent!Coherent,
       Agent!UpdateSuccessConfirmed, Agent!PhaseOK, Agent!Journal, Agent!Outcomes,
       Agent!Post, Agent!NoPost, Agent!Versions, Agent!Places

LEMMA SameInvariantNext == AP!AgentIInv' <=> Agent!AgentIInv'
BY DEF AP!AgentIInv, AP!AgentTypeOK, AP!JournalCoherent, AP!Coherent,
       AP!UpdateSuccessConfirmed, AP!PhaseOK, AP!Journal, AP!Outcomes, AP!Post,
       AP!NoPost, AP!Versions, AP!Places,
       Agent!AgentIInv, Agent!AgentTypeOK, Agent!JournalCoherent, Agent!Coherent,
       Agent!UpdateSuccessConfirmed, Agent!PhaseOK, Agent!Journal, Agent!Outcomes,
       Agent!Post, Agent!NoPost, Agent!Versions, Agent!Places

LEMMA SameNext == AP!AgentNext <=> Agent!AgentNext
BY DEF AP!AgentNext, AP!AgentStep, AP!AgentAnswered, AP!Start, AP!Crash, AP!SkipCycle,
       AP!EndCycle, AP!Save, AP!Fault, AP!WithResult, AP!Cleared, AP!NeedsConfirmation,
       AP!Exhausted, AP!Flush, AP!Submit, AP!RecoverPending, AP!RecoverCurrent,
       AP!RecoverNothing, AP!Acked, AP!RecoverAcked, AP!CheckedIn, AP!Accept,
       AP!AcceptAcked, AP!Refuse, AP!Execute, AP!ResultRevision, AP!Finish,
       AP!FinishUpdate, AP!ReportAcked, AP!JobsDone, AP!RequestFailed,
       AP!EmptyJournal, AP!NoPost, AP!agentVars,
       Agent!AgentNext, Agent!AgentStep, Agent!AgentAnswered, Agent!Start, Agent!Crash,
       Agent!SkipCycle, Agent!EndCycle, Agent!Save, Agent!Fault, Agent!WithResult,
       Agent!Cleared, Agent!NeedsConfirmation, Agent!Exhausted, Agent!Flush,
       Agent!Submit, Agent!RecoverPending, Agent!RecoverCurrent, Agent!RecoverNothing,
       Agent!Acked, Agent!RecoverAcked, Agent!CheckedIn, Agent!Accept,
       Agent!AcceptAcked, Agent!Refuse, Agent!Execute, Agent!ResultRevision,
       Agent!Finish, Agent!FinishUpdate, Agent!ReportAcked, Agent!JobsDone,
       Agent!RequestFailed, Agent!EmptyJournal, Agent!NoPost, Agent!agentVars

\* The agent starts with its invariant,
LEMMA AgentInitIInv == Agent!AgentInit => Agent!AgentIInv
<1>1. Agent!AgentInit => AP!AgentInit
  BY DEF Agent!AgentInit, AP!AgentInit, Agent!EmptyJournal, AP!EmptyJournal,
         Agent!NoPost, AP!NoPost
<1>2. AP!AgentInit => AP!AgentIInv
  BY AP!InitInvariant, JobKinds, NoJobFresh, RevFresh, AgentJobs DEF Revs
<1>3. QED
  BY <1>1, <1>2, SameInvariant

\* and keeps it whatever it does, and whatever it is answered.
LEMMA AgentKeeps ==
    ASSUME Agent!AgentIInv, Agent!AgentNext \/ UNCHANGED agentVars
    PROVE  Agent!AgentIInv'
<1>1. AP!AgentIInv /\ [AP!AgentNext]_(AP!agentVars)
  BY SameInvariant, SameNext DEF agentVars, AP!agentVars
<1>2. AP!AgentIInv'
  BY <1>1, AP!NextInvariant, JobKinds, NoJobFresh, RevFresh, AgentJobs DEF Revs
<1>3. QED
  BY <1>2, SameInvariantNext

-----------------------------------------------------------------------------
(***************************************************************************)
(* What a step of the agent means to the invariant.                        *)
(***************************************************************************)
\* A journal speaks of jobs that were handed out, and claims no false success.
Fine(m) ==
    /\ {m.cur, m.pendFor} \subseteq handed \cup {NoJob}
    /\ m.pend = "success" => worked[m.pendFor] = "success"

\* So does a request.
FinePost(p) ==
    /\ p.job \in handed \cup {NoJob}
    /\ p.status = "success" => worked[p.job] = "success"

\* The phases in which the agent holds a job it has not run yet.
PhaseMoved ==
    /\ pc' = "acking" =>
        \/ pc = "acking" /\ UNCHANGED <<post, batch>>
        \/ post'.job \in batch /\ post'.job \notin batch'
    /\ pc' = "running" =>
        \/ pc = "running" /\ UNCHANGED <<mem, batch>>
        \/ /\ pc = "acking" /\ mem'.cur = post.job /\ batch' = batch
           /\ Left(post.job)

\* A step of the agent that executes nothing.
AgentMoved ==
    /\ UNCHANGED <<ran, worked>>
    /\ Fine(mem') /\ Fine(disk') /\ FinePost(post')
    /\ \A j \in batch' : j \in handed /\ ran[j] = 0
    /\ PhaseMoved

\* What the invariant says of the agent's journals, request and batch.
LEMMA AgentIsFine ==
    ASSUME ProtocolIInv
    PROVE  /\ Fine(mem) /\ Fine(disk) /\ FinePost(post)
           /\ \A j \in batch : j \in handed /\ ran[j] = 0
<1>1. KnownJobs \subseteq handed \cup {NoJob} /\ batch \subseteq Jobs
  BY DEF ProtocolIInv, HandedOK, Agent!AgentIInv, Agent!AgentTypeOK
<1>2. /\ {mem.cur, mem.pendFor, disk.cur, disk.pendFor, post.job} \subseteq handed \cup {NoJob}
      /\ batch \subseteq handed
  BY <1>1, NoJobFresh DEF KnownJobs
<1>3. /\ \A m \in {mem, disk} : m.pend = "success" => worked[m.pendFor] = "success"
      /\ post.status = "success" => worked[post.job] = "success"
      /\ \A j \in batch : ran[j] = 0
  BY DEF ProtocolIInv, SuccessesOK, OnceOK
<1>4. QED
  BY <1>2, <1>3 DEF Fine, FinePost

LEMMA NothingMoved ==
    ASSUME ProtocolIInv, UNCHANGED agentVars
    PROVE  AgentMoved
BY AgentIsFine DEF agentVars, AgentMoved, PhaseMoved

LEMMA BlankIsFine ==
    Fine(Agent!EmptyJournal) /\ FinePost(Agent!NoPost)
BY DEF Fine, FinePost, Agent!EmptyJournal, Agent!NoPost

\* The end of a cycle leaves no request, no batch and one of two journals.
LEMMA EndCycleMoves ==
    ASSUME NEW m, NEW d, Fine(m), Fine(d), Agent!EndCycle(m, d),
           UNCHANGED <<ran, worked>>
    PROVE  AgentMoved
BY BlankIsFine DEF Agent!EndCycle, AgentMoved, PhaseMoved

\* A flush sends what the journal holds, or a failure in its place.
LEMMA FlushMoves ==
    ASSUME ProtocolIInv, NEW m \in Agent!Journal, NEW d, Fine(m), Fine(d),
           NEW seen, NEW place \in {"recovering", "reporting"},
           Agent!Flush(m, d, seen, place), UNCHANGED <<ran, worked>>
    PROVE  AgentMoved
<1> DEFINE counted == [m EXCEPT !.retries = IF @ <= MaxRetries THEN @ + 1 ELSE @]
<1>1. /\ counted.cur = m.cur /\ counted.pend = m.pend
      /\ counted.pendFor = m.pendFor /\ counted.rev = m.rev
  BY DEF Agent!Journal
<1>2. Fine(counted)
  BY <1>1 DEF Fine
<1> DEFINE sent(n, status) ==
        /\ mem' = n /\ pc' = place
        /\ post' = [job |-> n.pendFor, status |-> status, rev |-> n.rev]
        /\ UNCHANGED batch
<1>3. \/ disk' = d /\ sent(m, m.pend)
      \/ Agent!EndCycle(counted, d)
      \/ disk' \in {d, counted} /\ sent(counted, "failure")
  BY DEF Agent!Flush
<1> HIDE DEF counted
<1>4. CASE Agent!EndCycle(counted, d)
  BY <1>2, <1>4, EndCycleMoves
<1>5. ASSUME NEW n \in {m, counted}, NEW status \in {n.pend, "failure"}, sent(n, status),
             Fine(disk')
      PROVE  AgentMoved
  <2>1. Fine(n) /\ FinePost(post')
    BY <1>2, <1>5 DEF Fine, FinePost
  <2>2. PhaseMoved
    BY <1>5 DEF PhaseMoved
  <2>3. QED
    BY <1>5, <2>1, <2>2, AgentIsFine DEF AgentMoved
<1>6. QED
  BY <1>2, <1>3, <1>4, <1>5

\* A result for the current job is sent, or stays in memory.
LEMMA SubmitMoves ==
    ASSUME ProtocolIInv, NEW status \in {"success", "failure"},
           NEW r \in Revs \cup {NoRev}, NEW seen,
           NEW place \in {"recovering", "reporting"},
           status = "success" => worked[mem.cur] = "success",
           mem.cur \in Jobs, Agent!Submit(mem.cur, status, r, seen, place),
           UNCHANGED <<ran, worked>>
    PROVE  AgentMoved
<1> DEFINE m == Agent!WithResult(mem, mem.cur, status, r)
<1>1. mem \in Agent!Journal
  BY DEF ProtocolIInv, Agent!AgentIInv, Agent!AgentTypeOK
<1>2. m \in Agent!Journal
  BY <1>1, AgentJobs DEF Agent!WithResult, Agent!Journal, Agent!Outcomes
<1>3. Fine(m) /\ Fine(disk)
  BY AgentIsFine DEF Agent!WithResult, Fine
<1>4. Agent!Flush(m, m, seen, place) \/ Agent!EndCycle(m, disk)
  BY DEF Agent!Submit
<1> HIDE DEF m
<1>5. QED
  BY <1>2, <1>3, <1>4, FlushMoves, EndCycleMoves

\* An acknowledged result is forgotten.
LEMMA AckedMoves ==
    ASSUME ProtocolIInv, NEW from, NEW to \in {"checkin", "jobs"}, Agent!Acked(from, to)
    PROVE  AgentMoved
<1>1. Fine(Agent!Cleared(mem)) /\ Fine(disk)
  BY BlankIsFine, AgentIsFine DEF Agent!Cleared
<1>2. UNCHANGED <<ran, worked>>
  BY DEF Agent!Acked
<1>3. CASE Agent!EndCycle(Agent!Cleared(mem), disk)
  BY <1>1, <1>2, <1>3, EndCycleMoves
<1>4. CASE /\ Agent!Save(Agent!Cleared(mem)) /\ pc' = to /\ post' = Agent!NoPost
           /\ UNCHANGED <<batch, faults>>
  BY <1>1, <1>2, <1>4, BlankIsFine, AgentIsFine DEF Agent!Save, AgentMoved, PhaseMoved
<1>5. QED
  BY <1>3, <1>4 DEF Agent!Acked

\* A request that fails ends the cycle, whatever it was about.
LEMMA FailureMoves ==
    ASSUME ProtocolIInv, Agent!RequestFailed
    PROVE  AgentMoved
BY AgentIsFine, EndCycleMoves DEF Agent!RequestFailed

LEMMA CrashMoves ==
    ASSUME ProtocolIInv, Agent!Crash
    PROVE  AgentMoved
BY AgentIsFine, BlankIsFine DEF Agent!Crash, AgentMoved, PhaseMoved

\* The agent learns that the job it offered to run is accepted.
LEMMA AcceptAckedMoves ==
    ASSUME ProtocolIInv, Agent!AcceptAcked, Left(post.job)
    PROVE  AgentMoved
<1> DEFINE m == [mem EXCEPT !.cur = post.job]
<1>1. mem \in Agent!Journal
  BY DEF ProtocolIInv, Agent!AgentIInv, Agent!AgentTypeOK
<1>2. m.cur = post.job /\ m.pend = mem.pend /\ m.pendFor = mem.pendFor
  BY <1>1 DEF Agent!Journal
<1>3. Fine(m) /\ Fine(disk)
  BY <1>2, AgentIsFine DEF Fine, FinePost
<1>4. pc = "acking" /\ UNCHANGED <<ran, worked>>
  BY DEF Agent!AcceptAcked
<1>5. \/ Agent!Save(m) /\ pc' = "running" /\ post' = Agent!NoPost /\ batch' = batch
      \/ Agent!EndCycle(m, disk)
  BY DEF Agent!AcceptAcked
<1> HIDE DEF m
<1>6. CASE Agent!EndCycle(m, disk)
  BY <1>3, <1>4, <1>6, EndCycleMoves
<1>7. CASE Agent!Save(m) /\ pc' = "running" /\ post' = Agent!NoPost /\ batch' = batch
  BY <1>2, <1>3, <1>4, <1>7, BlankIsFine, AgentIsFine
     DEF Agent!Save, AgentMoved, PhaseMoved
<1>8. QED
  BY <1>5, <1>6, <1>7

\* The jobs of an answer are such as were handed out and not run.
LEMMA CheckedInMoves ==
    ASSUME ProtocolIInv, NEW jobs, NEW r, Agent!CheckedIn(jobs, r),
           \A j \in jobs : j \in handed /\ ran[j] = 0
    PROVE  AgentMoved
<1>1. UNCHANGED <<ran, worked>>
  BY DEF Agent!CheckedIn
<1>2. CASE Agent!EndCycle(mem, disk)
  BY <1>1, <1>2, AgentIsFine, EndCycleMoves
<1>3. CASE /\ mem' = mem /\ disk' = IF jobs = {} THEN disk ELSE mem
           /\ pc' = "jobs" /\ batch' = jobs /\ UNCHANGED <<post, faults>>
  BY <1>1, <1>3, AgentIsFine DEF AgentMoved, PhaseMoved
<1>4. QED
  BY <1>2, <1>3 DEF Agent!CheckedIn

\* What the agent does by itself, but for a crash and an execution.
LEMMA OwnStepMoves ==
    ASSUME ProtocolIInv, Agent!AgentStep, ~Agent!Crash,
           \A outcome \in {"success", "failure"} : ~Agent!Execute(outcome)
    PROVE  AgentMoved
<1>1. /\ mem \in Agent!Journal /\ disk \in Agent!Journal
      /\ want \in Revs \cup {NoRev} /\ batch \subseteq Jobs
      /\ Agent!PhaseOK
  BY DEF ProtocolIInv, Agent!AgentIInv, Agent!AgentTypeOK
<1>2. CASE Agent!Start
  BY <1>2, AgentIsFine DEF Agent!Start, AgentMoved, PhaseMoved
<1>3. CASE Agent!SkipCycle \/ Agent!JobsDone
  BY <1>3, AgentIsFine, EndCycleMoves DEF Agent!SkipCycle, Agent!JobsDone
<1>4. CASE Agent!RecoverPending
  BY <1>1, <1>4, AgentIsFine, FlushMoves DEF Agent!RecoverPending
<1>5. CASE Agent!RecoverCurrent
  <2>1. mem.cur \in Jobs
    BY <1>1, <1>5 DEF Agent!RecoverCurrent, Agent!Journal
  <2>2. QED
    BY <1>5, <2>1, SubmitMoves DEF Agent!RecoverCurrent
<1>6. CASE Agent!RecoverNothing
  BY <1>6, AgentIsFine DEF Agent!RecoverNothing, AgentMoved, PhaseMoved
<1>7. ASSUME NEW j \in Jobs, Agent!Accept(j) PROVE AgentMoved
  BY <1>7, AgentIsFine DEF Agent!Accept, AgentMoved, PhaseMoved, FinePost
<1>8. CASE Agent!Refuse
  BY <1>1, <1>8, SubmitMoves DEF Agent!Refuse, Agent!PhaseOK
<1>9. CASE Agent!Finish
  <2>1. mem.cur \in Jobs /\ worked[mem.cur] \in {"success", "failure"}
    BY <1>1, <1>9 DEF Agent!Finish, Agent!PhaseOK
  <2>2. Agent!ResultRevision \in Revs \cup {NoRev}
    BY <1>1 DEF Agent!ResultRevision
  <2>3. Agent!Submit(mem.cur, worked[mem.cur], Agent!ResultRevision, FALSE, "reporting")
    BY <1>9 DEF Agent!Finish
  <2>4. UNCHANGED <<ran, worked>>
    BY <1>9 DEF Agent!Finish
  <2>5. QED
    BY <2>1, <2>2, <2>3, <2>4, SubmitMoves
<1>10. CASE Agent!FinishUpdate
  <2> DEFINE m == Agent!WithResult(mem, mem.cur, "success", NoRev)
  <2>1. Fine(m) /\ Fine(disk)
    BY <1>10, AgentIsFine DEF Agent!FinishUpdate, Agent!WithResult, Fine
  <2>2. /\ UNCHANGED <<ran, worked>>
        /\ \/ /\ disk' = m /\ mem' = Agent!EmptyJournal /\ pc' = "down"
              /\ batch' = {} /\ post' = Agent!NoPost
           \/ Agent!EndCycle(m, disk)
    BY <1>10 DEF Agent!FinishUpdate
  <2> HIDE DEF m
  <2>3. QED
    BY <2>1, <2>2, BlankIsFine, EndCycleMoves DEF AgentMoved, PhaseMoved
<1>11. QED
  BY <1>2, <1>3, <1>4, <1>5, <1>6, <1>7, <1>8, <1>9, <1>10 DEF Agent!AgentStep

-----------------------------------------------------------------------------
(***************************************************************************)
(* What a step of the panel means to the invariant.                        *)
(***************************************************************************)
\* The job is off the queue after the step.
LeftNow(j) == job'[j].state \notin {"absent", "queued"}

\* A row that left the queue does not come back, and a success is recorded only
\* of a job that succeeded.
RowsMoved ==
    \A j \in Jobs :
        /\ Left(j) => LeftNow(j)
        /\ job'[j].state = "succeeded" => worked[j] = "success"

\* A call may be as it is only if the row it speaks of is.
CallFine(c) ==
    /\ ~c.internal
    /\ c.pc \in {"report", "revision", "router", "notify"} => LeftNow(c.job)
    /\ c.pc \in {"received", "write"} /\ c.status = "success"
           => worked[c.job] = "success"
CallsMoved == \A h \in Calls : CallFine(calls'[h])

AnswerMoved ==
    /\ handed \subseteq handed'
    /\ checkin'.todo = {}
    /\ checkin'.pc = "answer" => checkin'.batch \subseteq handed'

PanelMoved == RowsMoved /\ CallsMoved /\ AnswerMoved

\* The two halves of a step keep all but what the agent waits for.
LEMMA HalvesKeep ==
    ASSUME ProtocolIInv, IInv', Agent!AgentIInv', PanelMoved, AgentMoved
    PROVE  PanelOK' /\ HandedOK' /\ OnceOK' /\ SuccessesOK'
<1>1. /\ calls' \in [Calls -> Call] /\ batch \subseteq Jobs /\ handed \subseteq Jobs
      /\ ran \in [Jobs -> 0..2]
  BY DEF IInv, TypeOK, ProtocolIInv, Agent!AgentIInv, Agent!AgentTypeOK
<1>2. PanelOK'
  BY DEF PanelMoved, CallsMoved, CallFine, AnswerMoved, PanelOK, Left, LeftNow
<1>3. HandedOK'
  BY DEF PanelMoved, AgentMoved, AnswerMoved, Fine, FinePost, HandedOK, KnownJobs
<1>4. OnceOK'
  <2>1. \A j \in Jobs : /\ ran'[j] <= 1
                        /\ ran'[j] = 0 <=> worked'[j] = "none"
                        /\ ran'[j] > 0 => LeftNow(j)
    BY <1>1 DEF ProtocolIInv, OnceOK, AgentMoved, PanelMoved, RowsMoved
  <2>2. \A j \in batch' : ran'[j] = 0
    BY DEF AgentMoved
  <2>3. pc' = "acking" => ran'[post'.job] = 0 /\ post'.job \notin batch'
    BY AgentIsFine DEF ProtocolIInv, OnceOK, AgentMoved, PhaseMoved
  <2>4. ASSUME pc' = "running"
        PROVE  ran'[mem'.cur] = 0 /\ mem'.cur \notin batch' /\ LeftNow(mem'.cur)
    <3>1. mem'.cur \in Jobs
      BY <2>4 DEF Agent!AgentIInv, Agent!PhaseOK
    <3>2. ran'[mem'.cur] = 0 /\ mem'.cur \notin batch' /\ Left(mem'.cur)
      BY <2>4 DEF ProtocolIInv, OnceOK, AgentMoved, PhaseMoved
    <3>3. \A j \in Jobs : Left(j) => LeftNow(j)
      BY DEF PanelMoved, RowsMoved
    <3>4. LeftNow(mem'.cur)
      BY <3>1, <3>2, <3>3
    <3>5. QED
      BY <3>2, <3>4
  <2>5. QED
    BY <2>1, <2>2, <2>3, <2>4 DEF OnceOK, Left, LeftNow
<1>5. SuccessesOK'
  BY DEF PanelMoved, AgentMoved, RowsMoved, CallsMoved, CallFine, Fine, FinePost,
         SuccessesOK
<1>6. QED
  BY <1>2, <1>3, <1>4, <1>5

\* What the invariant says of the panel's half.
LEMMA PanelIsFine ==
    ASSUME ProtocolIInv
    PROVE  /\ \A j \in Jobs : job[j].state = "succeeded" => worked[j] = "success"
           /\ checkin.todo = {}
           /\ checkin.pc = "answer" => checkin.batch \subseteq handed
           /\ \A h \in Calls :
                /\ calls[h] \in Call /\ ~calls[h].internal
                /\ calls[h].pc \in {"report", "revision", "router", "notify"} => Left(calls[h].job)
                /\ calls[h].pc \in {"received", "write"} /\ calls[h].status = "success"
                       => worked[calls[h].job] = "success"
                /\ calls[h].pc \notin {"idle", "done"} => calls[h].job \in Jobs
BY DEF ProtocolIInv, PanelOK, HandedOK, SuccessesOK, IInv, TypeOK, PresentOK, Present

\* Calls that stay as they were, or are over, are fine when no row comes back.
LEMMA OldCallsMoved ==
    ASSUME ProtocolIInv, RowsMoved,
           \A h \in Calls : calls'[h] = calls[h] \/ CallFine(calls'[h])
    PROVE  CallsMoved
<1>1. ASSUME NEW h \in Calls, calls'[h] = calls[h] PROVE CallFine(calls'[h])
  <2>1. calls[h].pc \in {"report", "revision", "router", "notify"} =>
            calls[h].job \in Jobs /\ Left(calls[h].job)
    BY PanelIsFine
  <2>2. calls[h].pc \in {"report", "revision", "router", "notify"} => LeftNow(calls[h].job)
    BY <2>1 DEF RowsMoved
  <2>3. QED
    BY <1>1, <2>2, PanelIsFine DEF CallFine
<1>2. QED
  BY <1>1 DEF CallsMoved

\* A step of the agent alone.
LEMMA NothingMovedAtPanel ==
    ASSUME ProtocolIInv, UNCHANGED vars
    PROVE  PanelMoved
<1>1. UNCHANGED <<job, calls, checkin, handed>>
  BY DEF vars
<1>2. RowsMoved
  BY <1>1, PanelIsFine DEF RowsMoved, Left, LeftNow
<1>3. CallsMoved
  BY <1>1, <1>2, OldCallsMoved
<1>4. AnswerMoved
  BY <1>1, PanelIsFine DEF AnswerMoved
<1>5. QED
  BY <1>2, <1>3, <1>4 DEF PanelMoved

\* Rows that only the queueing, the janitor or nobody changes.
LEMMA OnlyRowsMove ==
    ASSUME ProtocolIInv, UNCHANGED <<calls, checkin, handed>>,
           \A j \in Jobs : \/ job'[j].state = job[j].state
                           \/ ~Left(j) /\ job'[j].state = "queued"
                           \/ job'[j].state = "cancelled"
    PROVE  PanelMoved
<1>1. RowsMoved
  BY PanelIsFine DEF RowsMoved, Left, LeftNow
<1>2. CallsMoved
  BY <1>1, OldCallsMoved
<1>3. AnswerMoved
  BY PanelIsFine DEF AnswerMoved
<1>4. QED
  BY <1>1, <1>2, <1>3 DEF PanelMoved

LEMMA QueueMoves ==
    ASSUME ProtocolIInv, NEW j \in Jobs, QueueApply(j) \/ QueueOther(j)
    PROVE  PanelMoved
<1>1. Insert(j) /\ UNCHANGED <<calls, checkin, handed>>
  BY DEF QueueApply, QueueOther
<1>2. job \in [Jobs -> Row]
  BY DEF ProtocolIInv, IInv, TypeOK
<1>3. \A k \in Jobs : \/ job'[k].state = job[k].state
                      \/ ~Left(k) /\ job'[k].state = "queued"
  BY <1>1, <1>2 DEF Insert, NewRow, Left
<1>4. QED
  BY <1>1, <1>3, OnlyRowsMove

LEMMA JanitorMoves ==
    ASSUME ProtocolIInv,
           JanitorScan \/ \E j \in Jobs : JanitorCancel(j) \/ JanitorFails(j)
    PROVE  PanelMoved
<1>1. UNCHANGED <<calls, checkin, handed>>
  BY DEF JanitorScan, JanitorCancel, JanitorFails
<1>2. job \in [Jobs -> Row]
  BY DEF ProtocolIInv, IInv, TypeOK
<1>3. \A k \in Jobs : job'[k].state = job[k].state \/ job'[k].state = "cancelled"
  <2>1. CASE JanitorScan \/ \E j \in Jobs : JanitorFails(j)
    BY <2>1 DEF JanitorScan, JanitorFails
  <2>2. ASSUME NEW j \in Jobs, JanitorCancel(j)
        PROVE  \A k \in Jobs : job'[k].state = job[k].state \/ job'[k].state = "cancelled"
    <3>1. \/ job' = job
          \/ job' = [job EXCEPT ![j] = [@ EXCEPT !.state = "cancelled", !.by = "janitor",
                                          !.key = job[j].key /\ j \in ActionJobs]]
      BY <1>2, <2>2 DEF JanitorCancel
    <3>2. QED
      BY <1>2, <3>1 DEF Row
  <2>3. QED
    BY <2>1, <2>2
<1>4. QED
  BY <1>1, <1>3, OnlyRowsMove

LEMMA AuthorMoves ==
    ASSUME ProtocolIInv, NEW r \in Revs, Author(r)
    PROVE  PanelMoved
BY OnlyRowsMove DEF Author

\* The check-in: what is offered is handed out before the answer is sent.
LEMMA CheckInMoves ==
    ASSUME ProtocolIInv, CheckInRead \/ CheckInDeliver \/ CheckInAnswer \/ CheckInCrash
    PROVE  PanelMoved
<1>1. checkin.todo = {} /\ Unrunnable = {} /\ ActionJobs = {}
  BY PanelIsFine, PassWallRouter
<1>2. job \in [Jobs -> Row] /\ checkin \in [pc: {"idle", "read", "answer"},
          batch: SUBSET Jobs, rev: Revs \cup {NoRev}, todo: SUBSET Jobs]
  BY DEF ProtocolIInv, IInv, TypeOK
<1>3. \A j \in Jobs : job'[j].state = job[j].state
  BY <1>1, <1>2 DEF CheckInRead, CheckInDeliver, CheckInAnswer, CheckInCrash
<1>4. RowsMoved
  BY <1>3, PanelIsFine DEF RowsMoved, Left, LeftNow
<1>5. CallsMoved
  <2>1. \A h \in Calls : calls'[h] = calls[h]
    BY PanelIsFine DEF CheckInRead, CheckInDeliver, CheckInAnswer, CheckInCrash
  <2>2. QED
    BY <1>4, <2>1, OldCallsMoved
<1>6. AnswerMoved
  <2>1. CASE CheckInRead
    <3>1. handed' = handed /\ checkin'.pc = "read" /\ checkin'.todo = {}
      BY <2>1, PassWallRouter DEF CheckInRead
    <3>2. QED
      BY <1>1, <3>1 DEF AnswerMoved
  <2>2. CASE CheckInDeliver
    BY <1>1, <1>2, <2>2 DEF CheckInDeliver, AnswerMoved
  <2>3. CASE CheckInAnswer \/ CheckInCrash
    BY <2>3 DEF CheckInAnswer, CheckInCrash, NoCheckIn, AnswerMoved
  <2>4. QED
    BY <2>1, <2>2, <2>3
<1>7. QED
  BY <1>4, <1>5, <1>6 DEF PanelMoved

-----------------------------------------------------------------------------
(***************************************************************************)
(* The job-result calls.                                                   *)
(***************************************************************************)
\* One call is replaced, and nothing of the rows' states changes.
LEMMA OneCallMoves ==
    ASSUME ProtocolIInv, NEW h \in Calls, NEW d, calls' = [calls EXCEPT ![h] = d],
           CallFine(d), UNCHANGED <<checkin, handed>>,
           RowsMoved
    PROVE  PanelMoved
<1>1. \A g \in Calls : calls'[g] = calls[g] \/ CallFine(calls'[g])
  BY DEF ProtocolIInv, IInv, TypeOK
<1>2. AnswerMoved
  BY PanelIsFine DEF AnswerMoved
<1>3. QED
  BY <1>1, <1>2, OldCallsMoved DEF PanelMoved

LEMMA OverFine ==
    ASSUME NEW c, ~c.internal
    PROVE  CallFine(NoCall) /\ CallFine(Answered(c))
BY DEF CallFine, NoCall, Answered, NewCall

\* There is no owner's action, and so nothing to tell an owner.
LEMMA NobodyIsTold == \A c : Onward(c) = Answered(c)
BY PassWallRouter DEF Onward

LEMMA RowsStay ==
    ASSUME ProtocolIInv, UNCHANGED job
    PROVE  RowsMoved
BY PanelIsFine DEF RowsMoved, Left, LeftNow

LEMMA ReceiveMoves ==
    ASSUME ProtocolIInv, NEW h \in Calls, Receive(h, post.job, post.status, post.rev)
    PROVE  PanelMoved
<1> DEFINE taken == IF post.job \in ConnectJobs THEN NoRev ELSE post.rev
           d == NewCall("received", post.job, post.status, taken, FALSE)
<1>1. CallFine(d)
  BY AgentIsFine DEF CallFine, NewCall, FinePost
<1>2. calls' = [calls EXCEPT ![h] = d] /\ UNCHANGED <<job, checkin, handed>>
  BY DEF Receive
<1> HIDE DEF d
<1>3. QED
  BY <1>1, <1>2, OneCallMoves, RowsStay

LEMMA HandlerReadMoves ==
    ASSUME ProtocolIInv, NEW h \in Calls, HandlerRead(h)
    PROVE  PanelMoved
<1> DEFINE c == calls[h]
           key == KeyAfterResult(c.job, job[c.job].key, c.status)
           hears == Hears(c.job) /\ c.status # "accepted"
           d == [c EXCEPT !.hears = hears, !.pc = "write", !.key = key]
<1>1. /\ c \in Call /\ ~c.internal /\ c.pc = "received" /\ c.job \in Jobs
      /\ c.status = "success" => worked[c.job] = "success"
  BY PanelIsFine DEF HandlerRead
<1>2. UNCHANGED <<job, checkin, handed>>
  BY DEF HandlerRead
<1>3. calls' = [calls EXCEPT ![h] = Answered(c)] \/ calls' = [calls EXCEPT ![h] = d]
  BY <1>1, PassWallRouter DEF HandlerRead, Answered, Call
<1> HIDE DEF key, hears
<1>4. CallFine(d)
  BY <1>1 DEF CallFine, Call
<1>5. CallFine(Answered(c))
  BY <1>1, OverFine
<1> HIDE DEF c, d
<1>6. QED
  BY <1>2, <1>3, <1>4, <1>5, OneCallMoves, RowsStay

\* A row is written as the call says, and leaves the queue by it.
LEMMA HandlerWriteMoves ==
    ASSUME ProtocolIInv, NEW h \in Calls, HandlerWrite(h)
    PROVE  PanelMoved
<1> DEFINE c == calls[h]
           n == c.job
           over == job[n].over \/ job[n].state \in Terminal
<1>1. /\ c \in Call /\ ~c.internal /\ c.pc = "write" /\ n \in Jobs
      /\ c.status = "success" => worked[n] = "success"
  BY PanelIsFine DEF HandlerWrite
<1>2. /\ job \in [Jobs -> Row]
      /\ UNCHANGED <<checkin, handed>>
      /\ job' = [job EXCEPT ![n] = [@ EXCEPT !.state = Recorded(c.status), !.key = c.key,
                                             !.delivered = TRUE, !.over = over]]
  BY DEF HandlerWrite, ProtocolIInv, IInv, TypeOK
<1>3. /\ calls' = [calls EXCEPT ![h] = Answered(c)]
         \/ calls' = [calls EXCEPT ![h] = [c EXCEPT !.pc = "revision", !.key = FALSE]]
  BY NobodyIsTold DEF HandlerWrite
<1> HIDE DEF over
<1>4. /\ Recorded(c.status) \in {"running", "succeeded", "failed"}
      /\ Recorded(c.status) = "succeeded" => c.status = "success"
  BY DEF Recorded
<1>5. /\ \A k \in Jobs : k # n => job'[k] = job[k]
      /\ job'[n].state = Recorded(c.status)
  BY <1>1, <1>2 DEF Row
<1>6. RowsMoved
  BY <1>1, <1>4, <1>5, PanelIsFine DEF RowsMoved, Left, LeftNow
<1>7. CallFine([c EXCEPT !.pc = "revision", !.key = FALSE])
  <2>1. LeftNow(n)
    BY <1>4, <1>5 DEF LeftNow
  <2>2. QED
    BY <1>1, <2>1 DEF CallFine, Call, Left, LeftNow
<1>8. CallFine(Answered(c))
  BY <1>1, OverFine
<1> HIDE DEF c
<1>9. QED
  BY <1>2, <1>3, <1>6, <1>7, <1>8, OneCallMoves

LEMMA HandlerFinishMoves ==
    ASSUME ProtocolIInv, NEW h \in Calls,
           HandlerRevision(h) \/ HandlerRouter(h) \/ HandlerNotify(h)
    PROVE  PanelMoved
<1> DEFINE c == calls[h]
<1>1. /\ c \in Call /\ ~c.internal /\ c.job \in Jobs /\ Left(c.job)
  BY PanelIsFine DEF HandlerRevision, HandlerRouter, HandlerNotify
<1>2. UNCHANGED <<job, checkin, handed>>
  BY DEF HandlerRevision, HandlerRouter, HandlerNotify
<1>3. \/ calls' = [calls EXCEPT ![h] = Answered(c)]
      \/ calls' = [calls EXCEPT ![h] = [c EXCEPT !.pc = "router"]]
  BY <1>1, NobodyIsTold DEF HandlerRevision, HandlerRouter, HandlerNotify, Answered, Call
<1>4. CallFine([c EXCEPT !.pc = "router"]) /\ CallFine(Answered(c))
  BY <1>1, <1>2, OverFine DEF CallFine, Call, Left, LeftNow
<1> HIDE DEF c
<1>5. QED
  BY <1>2, <1>3, <1>4, OneCallMoves, RowsStay

\* A report is about an owner's action, and there is none.
LEMMA HandlerReportMoves ==
    ASSUME ProtocolIInv, NEW h \in Calls, HandlerReport(h)
    PROVE  PanelMoved
<1> DEFINE c == calls[h]
<1>1. c \in Call /\ ~c.internal /\ c.job \in Jobs /\ Left(c.job)
  BY PanelIsFine DEF HandlerReport
<1>2. /\ job \in [Jobs -> Row]
      /\ UNCHANGED <<checkin, handed>>
      /\ calls' = [calls EXCEPT ![h] = Answered(c)]
      /\ job' = job \/ job' = [job EXCEPT ![c.job] = [@ EXCEPT !.reported = TRUE]]
  BY DEF HandlerReport, ProtocolIInv, IInv, TypeOK
<1>3. \A k \in Jobs : job'[k].state = job[k].state
  BY <1>1, <1>2 DEF Row
<1>4. RowsMoved
  BY <1>3, PanelIsFine DEF RowsMoved, Left, LeftNow
<1>5. QED
  BY <1>1, <1>2, <1>4, OverFine, OneCallMoves

\* The answer, an error, a dead process: the call is over.
LEMMA CallEndMoves ==
    ASSUME ProtocolIInv, NEW h \in Calls, Respond(h) \/ HandlerError(h) \/ HandlerCrash(h)
    PROVE  PanelMoved
<1>1. calls[h] \in Call /\ ~calls[h].internal
  BY PanelIsFine
<1>2. /\ UNCHANGED <<job, checkin, handed>>
      /\ calls' = [calls EXCEPT ![h] = NoCall]
  BY <1>1 DEF Respond, HandlerError, HandlerCrash
<1>3. QED
  BY <1>1, <1>2, OverFine, OneCallMoves, RowsStay

-----------------------------------------------------------------------------
(***************************************************************************)
(* What the agent waits for.                                               *)
(***************************************************************************)
LEMMA NobodyWaits == ASSUME waiting' = Nobody PROVE WaitingOK'
BY RequestNames DEF WaitingOK, Nobody, AtCheckIn

\* Outside of the places where the agent waits, nobody answers it.
LEMMA NotWaiting ==
    ASSUME ProtocolIInv, pc \notin {"checkin", "recovering", "acking", "reporting"},
           waiting' = waiting
    PROVE  WaitingOK'
<1>1. WaitingOK
  BY DEF ProtocolIInv
<1>2. waiting # AtCheckIn
  BY <1>1 DEF WaitingOK
<1>3. \A h \in Calls : waiting # h
  BY <1>1 DEF WaitingOK
<1>4. QED
  BY <1>2, <1>3 DEF WaitingOK, AtCheckIn

\* A call goes on about the same job, and is done only when the row left the
\* queue.
Advances(c, d) ==
    /\ d.pc # "idle"
    /\ d.pc = "done" => c.pc = "done" \/ LeftNow(c.job)
    /\ d.pc # "done" => c.pc # "done" /\ d.job = c.job

\* The panel moves while the agent waits.
LEMMA StillWaiting ==
    ASSUME ProtocolIInv, IInv', RowsMoved, UNCHANGED <<agentVars, waiting>>,
           waiting = AtCheckIn =>
               checkin'.pc # "idle" /\ checkin'.batch \subseteq checkin.batch,
           \A h \in Calls : waiting = h =>
               calls'[h] = calls[h] \/ Advances(calls[h], calls'[h])
    PROVE  WaitingOK'
<1>1. UNCHANGED <<pc, post, ran>> /\ waiting' = waiting
  BY DEF agentVars
<1>2. WaitingOK
  BY DEF ProtocolIInv
<1>3. ASSUME waiting = AtCheckIn
      PROVE  /\ pc' = "checkin" /\ checkin'.pc # "idle"
             /\ \A j \in checkin'.batch : ran'[j] = 0
  BY <1>1, <1>2, <1>3 DEF WaitingOK
<1>4. ASSUME NEW h \in Calls, waiting = h
      PROVE  /\ pc' \in {"recovering", "acking", "reporting"}
             /\ calls'[h].pc # "idle"
             /\ calls'[h].pc # "done" => calls'[h].job = post'.job
             /\ calls'[h].pc = "done" => LeftNow(post'.job)
  <2>1. /\ pc \in {"recovering", "acking", "reporting"}
        /\ calls[h].pc # "idle"
        /\ calls[h].pc # "done" => calls[h].job = post.job
        /\ calls[h].pc = "done" => Left(post.job)
    BY <1>2, <1>4 DEF WaitingOK
  <2>2. post.job \in Jobs
    BY <2>1, NoJobFresh DEF ProtocolIInv, Agent!AgentIInv, Agent!PhaseOK, Agent!Post
  <2>3. Left(post.job) => LeftNow(post.job)
    BY <2>2 DEF RowsMoved
  <2>4. CASE calls'[h] = calls[h]
    BY <1>1, <2>1, <2>3, <2>4
  <2>5. CASE Advances(calls[h], calls'[h])
    BY <1>1, <2>1, <2>3, <2>5 DEF Advances
  <2>6. QED
    BY <1>4, <2>4, <2>5
<1>5. QED
  BY <1>1, <1>3, <1>4 DEF WaitingOK, Left, LeftNow

\* Every statement of a call advances it.
LEMMA CallStepAdvances ==
    ASSUME ProtocolIInv, NEW h \in Calls, CallStep(h), RowsMoved
    PROVE  \A g \in Calls : calls'[g] = calls[g] \/ Advances(calls[g], calls'[g])
<1> DEFINE c == calls[h]
<1>1. /\ c \in Call
      /\ c.pc \notin {"idle", "done"} => c.job \in Jobs
      /\ c.pc \in {"report", "revision", "router", "notify"} => Left(c.job)
      /\ calls \in [Calls -> Call] /\ job \in [Jobs -> Row]
  BY PanelIsFine DEF ProtocolIInv, IInv, TypeOK
<1>2. Answered(c).pc = "done"
  BY DEF Answered, NewCall
<1>3. \A g \in Calls : g # h => calls'[g] = calls[g]
  BY <1>1 DEF CallStep, HandlerRead, HandlerReport, HandlerWrite, HandlerRevision,
              HandlerRouter, HandlerNotify
<1>4. CASE HandlerRead(h)
  <2> DEFINE key == KeyAfterResult(c.job, job[c.job].key, c.status)
             hears == Hears(c.job) /\ c.status # "accepted"
  <2>1. c.pc = "received" /\ job' = job
    BY <1>4 DEF HandlerRead
  <2>2. \/ /\ calls'[h] = Answered(c)
           /\ job[c.job].state \in Terminal \cup {"running"}
        \/ calls'[h] = [c EXCEPT !.hears = hears, !.pc = "write", !.key = key]
    BY <1>1, <1>4, PassWallRouter DEF HandlerRead, AlreadyRecorded, Answered, Call
  <2> HIDE DEF key, hears
  <2>3. QED
    BY <1>1, <1>2, <1>3, <2>1, <2>2 DEF Advances, LeftNow, Terminal, Call
<1>5. CASE HandlerWrite(h)
  <2>1. /\ c.pc = "write"
        /\ job'[c.job].state = Recorded(c.status)
        /\ calls'[h] = Answered(c) \/ calls'[h] = [c EXCEPT !.pc = "revision", !.key = FALSE]
    BY <1>1, <1>5, NobodyIsTold DEF HandlerWrite, Row
  <2>2. LeftNow(c.job)
    BY <2>1 DEF LeftNow, Recorded
  <2>3. QED
    BY <1>1, <1>2, <1>3, <2>1, <2>2 DEF Advances, Call
<1>6. CASE HandlerReport(h) \/ HandlerRevision(h) \/ HandlerRouter(h) \/ HandlerNotify(h)
  <2>1. /\ c.pc \in {"report", "revision", "router", "notify"}
        /\ calls'[h] = Answered(c) \/ calls'[h] = [c EXCEPT !.pc = "router"]
    BY <1>1, <1>6, NobodyIsTold
       DEF HandlerReport, HandlerRevision, HandlerRouter, HandlerNotify, Answered, Call
  <2>2. LeftNow(c.job)
    BY <1>1, <2>1 DEF RowsMoved
  <2>3. QED
    BY <1>1, <1>2, <1>3, <2>1, <2>2 DEF Advances, Call
<1>7. QED
  BY <1>4, <1>5, <1>6 DEF CallStep

-----------------------------------------------------------------------------
(***************************************************************************)
(* The steps of both together.                                             *)
(***************************************************************************)
LEMMA StepKeeps ==
    ASSUME ProtocolIInv, IInv', PanelMoved, AgentMoved, WaitingOK',
           Agent!AgentNext \/ UNCHANGED agentVars
    PROVE  ProtocolIInv'
<1>1. Agent!AgentIInv'
  BY AgentKeeps DEF ProtocolIInv
<1>2. QED
  BY <1>1, HalvesKeep DEF ProtocolIInv

\* An execution: of a job that left the queue, for the first time.
LEMMA ExecuteKeeps ==
    ASSUME ProtocolIInv, NEW outcome \in {"success", "failure"}, Agent!Execute(outcome),
           UNCHANGED <<vars, waiting>>
    PROVE  ProtocolIInv'
<1>1. IInv'
  BY StutterKeeps DEF ProtocolIInv
<1>2. Agent!AgentIInv'
  BY AgentKeeps DEF ProtocolIInv, Agent!AgentNext, Agent!AgentStep
<1>3. WaitingOK'
  BY NotWaiting DEF Agent!Execute
<1>4. /\ UNCHANGED <<job, calls, checkin, handed, disk, mem, batch, post>>
      /\ pc = "running" /\ pc' = "ran"
      /\ ran \in [Jobs -> 0..2] /\ worked \in [Jobs -> {"none", "success", "failure"}]
      /\ mem.cur \in Jobs
      /\ ran' = [ran EXCEPT ![mem.cur] = IF @ < 2 THEN @ + 1 ELSE @]
      /\ worked' = [worked EXCEPT ![mem.cur] = outcome]
  BY DEF Agent!Execute, vars, ProtocolIInv, Agent!AgentIInv, Agent!AgentTypeOK,
         Agent!PhaseOK, Agent!Outcomes
<1>5. /\ OnceOK /\ SuccessesOK /\ PanelOK /\ HandedOK
      /\ ran[mem.cur] = 0 /\ mem.cur \notin batch /\ Left(mem.cur)
  BY <1>4 DEF ProtocolIInv, OnceOK
<1>6. worked[mem.cur] = "none"
  BY <1>4, <1>5 DEF OnceOK
<1>7. PanelOK' /\ HandedOK'
  BY <1>4, <1>5 DEF PanelOK, HandedOK, KnownJobs, Left
<1>8. OnceOK'
  <2>1. ran'[mem.cur] = 1 /\ worked'[mem.cur] = outcome
    BY <1>4, <1>5
  <2>2. \A j \in Jobs : j # mem.cur => ran'[j] = ran[j] /\ worked'[j] = worked[j]
    BY <1>4
  <2>3. \A j \in Jobs : Left(j)' <=> Left(j)
    BY <1>4 DEF Left
  <2>4. \A j \in Jobs : /\ ran'[j] <= 1
                        /\ ran'[j] = 0 <=> worked'[j] = "none"
                        /\ ran'[j] > 0 => Left(j)'
    BY <1>5, <2>1, <2>2, <2>3 DEF OnceOK
  <2>5. \A j \in batch' : ran'[j] = 0
    BY <1>4, <1>5, <2>2 DEF OnceOK, ProtocolIInv, Agent!AgentIInv, Agent!AgentTypeOK
  <2>6. QED
    BY <1>4, <2>4, <2>5 DEF OnceOK
<1>9. SuccessesOK'
  <2>1. \A j : worked[j] = "success" => j # mem.cur
    BY <1>6
  <2>2. \A j : j # mem.cur => worked'[j] = worked[j]
    BY <1>4
  <2>3. QED
    BY <1>4, <1>5, <2>1, <2>2 DEF SuccessesOK
<1>10. QED
  BY <1>1, <1>2, <1>3, <1>7, <1>8, <1>9 DEF ProtocolIInv

LEMMA AgentMovesKeep ==
    ASSUME ProtocolIInv, AgentMoves
    PROVE  ProtocolIInv'
<1>1. UNCHANGED vars /\ waiting' = waiting /\ Agent!AgentStep /\ ~Agent!Crash
  BY DEF AgentMoves
<1>2. CASE \E outcome \in {"success", "failure"} : Agent!Execute(outcome)
  BY <1>1, <1>2, ExecuteKeeps
<1>3. CASE \A outcome \in {"success", "failure"} : ~Agent!Execute(outcome)
  <2>1. AgentMoved /\ PanelMoved /\ IInv'
    BY <1>1, <1>3, OwnStepMoves, NothingMovedAtPanel, StutterKeeps DEF ProtocolIInv
  <2>2. pc \in {"down", "start", "jobs", "running", "ran"}
    BY <1>1 DEF Agent!AgentStep, Agent!Start, Agent!SkipCycle, Agent!RecoverPending,
                Agent!RecoverCurrent, Agent!RecoverNothing, Agent!Accept, Agent!Refuse,
                Agent!Finish, Agent!FinishUpdate, Agent!JobsDone, Agent!Execute
  <2>3. WaitingOK'
    BY <1>1, <2>2, NotWaiting
  <2>4. QED
    BY <1>1, <2>1, <2>3, StepKeeps DEF Agent!AgentNext
<1>4. QED
  BY <1>2, <1>3

LEMMA AgentLosesKeep ==
    ASSUME ProtocolIInv, AgentCrashes \/ GiveUp
    PROVE  ProtocolIInv'
<1>1. /\ Agent!Crash \/ Agent!RequestFailed
      /\ UNCHANGED vars /\ waiting' = Nobody
  BY DEF AgentCrashes, GiveUp
<1>2. AgentMoved /\ PanelMoved /\ IInv' /\ WaitingOK'
  BY <1>1, CrashMoves, FailureMoves, NothingMovedAtPanel, StutterKeeps, NobodyWaits
     DEF ProtocolIInv
<1>3. QED
  BY <1>1, <1>2, StepKeeps DEF Agent!AgentNext, Agent!AgentStep, Agent!AgentAnswered

\* A result is sent: the call is about the job the agent waits for.
LEMMA SendKeeps ==
    ASSUME ProtocolIInv, NEW h \in Calls, Send(h)
    PROVE  ProtocolIInv'
<1>1. /\ post # Agent!NoPost /\ waiting' = h /\ UNCHANGED agentVars
      /\ Receive(h, post.job, post.status, post.rev)
  BY DEF Send
<1>2. pc \in {"recovering", "acking", "reporting"} /\ post \in Agent!Post
  BY <1>1 DEF ProtocolIInv, Agent!AgentIInv, Agent!PhaseOK
<1>3. /\ post.job \in handed /\ post.status \in Statuses /\ post.rev \in Revs \cup {NoRev}
  BY <1>2, AgentIsFine, NoJobFresh DEF FinePost, Agent!Post, Statuses
<1>4. IInv'
  BY <1>1, <1>3, ReceiveKeeps DEF ProtocolIInv
<1>5. calls'[h].pc = "received" /\ calls'[h].job = post.job
  BY <1>1 DEF Receive, NewCall, ProtocolIInv, IInv, TypeOK
<1>6. WaitingOK'
  <2>1. h # AtCheckIn /\ UNCHANGED <<pc, post>>
    BY <1>1, RequestNames DEF agentVars
  <2>2. QED
    BY <1>1, <1>2, <1>5, <2>1 DEF WaitingOK
<1>7. QED
  BY <1>1, <1>4, <1>6, ReceiveMoves, NothingMoved, StepKeeps

\* A check-in is sent: it offers queued jobs, which the router has not run.
LEMMA SendCheckInKeeps ==
    ASSUME ProtocolIInv, SendCheckIn
    PROVE  ProtocolIInv'
<1>1. /\ CheckInRead /\ pc = "checkin"
      /\ waiting' = AtCheckIn /\ UNCHANGED agentVars
  BY DEF SendCheckIn
<1>2. checkin'.pc = "read" /\ checkin'.batch = Deliverable(Candidates)
  BY <1>1 DEF CheckInRead
<1>3. \A j \in checkin'.batch : ran[j] = 0
  <2>1. checkin'.batch \subseteq Queued
    BY <1>2, DeliverableQueued DEF ProtocolIInv, IInv
  <2>2. ran \in [Jobs -> 0..2]
    BY DEF ProtocolIInv, Agent!AgentIInv, Agent!AgentTypeOK
  <2>3. QED
    BY <2>1, <2>2 DEF Queued, ProtocolIInv, OnceOK, Left
<1>4. WaitingOK'
  BY <1>1, <1>2, <1>3, RequestNames DEF WaitingOK, agentVars
<1>5. IInv'
  BY <1>1, CheckInReadKeeps DEF ProtocolIInv
<1>6. QED
  BY <1>1, <1>4, <1>5, CheckInMoves, NothingMoved, StepKeeps

\* The answer to a result, which the agent may have given up on.
LEMMA AnswerKeeps ==
    ASSUME ProtocolIInv, NEW h \in Calls, Answer(h)
    PROVE  ProtocolIInv'
<1>1. Respond(h) /\ calls[h].pc = "done"
  BY DEF Answer, Respond
<1>2. IInv' /\ PanelMoved
  BY <1>1, HandlerFinishKeeps, CallEndMoves DEF ProtocolIInv
<1>3. CASE waiting = h
  <2>1. /\ Agent!RecoverAcked \/ Agent!AcceptAcked \/ Agent!ReportAcked
        /\ waiting' = Nobody
    BY <1>3 DEF Answer
  <2>2. Left(post.job)
    BY <1>1, <1>3 DEF ProtocolIInv, WaitingOK
  <2>3. AgentMoved
    BY <2>1, <2>2, AckedMoves, AcceptAckedMoves DEF Agent!RecoverAcked, Agent!ReportAcked
  <2>4. QED
    BY <1>2, <2>1, <2>3, NobodyWaits, StepKeeps DEF Agent!AgentNext, Agent!AgentAnswered
<1>4. CASE waiting # h
  <2>1. UNCHANGED <<agentVars, waiting>>
    BY <1>4 DEF Answer
  <2>2. /\ \A g \in Calls : g # h => calls'[g] = calls[g]
        /\ checkin' = checkin
    BY <1>1 DEF Respond, ProtocolIInv, IInv, TypeOK
  <2>3. /\ \A g \in Calls : waiting = g => calls'[g] = calls[g]
        /\ waiting = AtCheckIn =>
               checkin'.pc # "idle" /\ checkin'.batch \subseteq checkin.batch
    BY <1>4, <2>2 DEF ProtocolIInv, WaitingOK
  <2>4. WaitingOK'
    BY <1>2, <2>1, <2>3, StillWaiting DEF PanelMoved
  <2>5. QED
    BY <1>2, <2>1, <2>4, NothingMoved, StepKeeps
<1>5. QED
  BY <1>3, <1>4

LEMMA AnswerCheckInKeeps ==
    ASSUME ProtocolIInv, AnswerCheckIn
    PROVE  ProtocolIInv'
<1>1. CheckInAnswer
  BY DEF AnswerCheckIn
<1>2. IInv' /\ PanelMoved
  BY <1>1, CheckInEndsKeeps, CheckInMoves DEF ProtocolIInv
<1>3. CASE waiting = AtCheckIn
  <2>1. Agent!CheckedIn(checkin.batch, checkin.rev) /\ waiting' = Nobody
    BY <1>3 DEF AnswerCheckIn
  <2>2. \A j \in checkin.batch : j \in handed /\ ran[j] = 0
    BY <1>1, <1>3, PanelIsFine DEF CheckInAnswer, ProtocolIInv, WaitingOK
  <2>3. AgentMoved
    BY <2>1, <2>2, CheckedInMoves
  <2>4. checkin.batch \in SUBSET Jobs /\ checkin.rev \in Revs \cup {NoRev}
    BY DEF ProtocolIInv, IInv, TypeOK
  <2>5. Agent!AgentNext
    BY <2>1, <2>4 DEF Agent!AgentNext, Agent!AgentAnswered
  <2>6. QED
    BY <1>2, <2>1, <2>3, <2>5, NobodyWaits, StepKeeps
<1>4. CASE waiting # AtCheckIn
  <2>1. UNCHANGED <<agentVars, waiting>> /\ calls' = calls
    BY <1>1, <1>4 DEF AnswerCheckIn, CheckInAnswer
  <2>2. WaitingOK'
    BY <1>2, <1>4, <2>1, StillWaiting DEF PanelMoved
  <2>3. QED
    BY <1>2, <2>1, <2>2, NothingMoved, StepKeeps
<1>5. QED
  BY <1>3, <1>4

\* The panel fails: who waited for that request learns of it, nobody else does.
LEMMA PanelFailsKeep ==
    ASSUME ProtocolIInv, PanelFails
    PROVE  ProtocolIInv'
<1>1. ASSUME NEW request, Fails(request), PanelMoved, IInv',
             waiting # request => WaitingOK' 
      PROVE  ProtocolIInv'
  <2>1. CASE waiting = request
    <3>1. Agent!RequestFailed /\ waiting' = Nobody
      BY <1>1, <2>1 DEF Fails
    <3>2. QED
      BY <1>1, <3>1, FailureMoves, NobodyWaits, StepKeeps
         DEF Agent!AgentNext, Agent!AgentAnswered
  <2>2. CASE waiting # request
    <3>1. UNCHANGED agentVars
      BY <1>1, <2>2 DEF Fails
    <3>2. QED
      BY <1>1, <2>2, <3>1, NothingMoved, StepKeeps
  <2>3. QED
    BY <2>1, <2>2
<1>2. ASSUME NEW h \in Calls, HandlerError(h) \/ HandlerCrash(h), Fails(h)
      PROVE  ProtocolIInv'
  <2>1. PanelMoved /\ IInv'
    BY <1>2, CallEndMoves, HandlerErrorKeeps, HandlerCrashKeeps DEF ProtocolIInv
  <2>2. ASSUME waiting # h PROVE WaitingOK'
    <3>1. UNCHANGED <<agentVars, waiting>>
      BY <1>2, <2>2 DEF Fails
    <3>2. \A g \in Calls : g # h => calls'[g] = calls[g]
      BY <1>2 DEF HandlerError, HandlerCrash, ProtocolIInv, IInv, TypeOK
    <3>3. checkin' = checkin
      BY <1>2, PanelIsFine DEF HandlerError, HandlerCrash
    <3>4. waiting = AtCheckIn =>
              checkin'.pc # "idle" /\ checkin'.batch \subseteq checkin.batch
      BY <3>3 DEF ProtocolIInv, WaitingOK
    <3>5. QED
      BY <2>1, <2>2, <3>1, <3>2, <3>4, StillWaiting DEF PanelMoved
  <2>3. QED
    BY <1>1, <1>2, <2>1, <2>2
<1>3. CASE CheckInCrash /\ Fails(AtCheckIn)
  <2>1. PanelMoved /\ IInv'
    BY <1>3, CheckInMoves, CheckInEndsKeeps DEF ProtocolIInv
  <2>2. ASSUME waiting # AtCheckIn PROVE WaitingOK'
    <3>1. UNCHANGED <<agentVars, waiting>>
      BY <1>3, <2>2 DEF Fails
    <3>2. \A g \in Calls : calls'[g] = calls[g]
      BY <1>3, PanelIsFine DEF CheckInCrash
    <3>3. QED
      BY <2>1, <2>2, <3>1, <3>2, StillWaiting DEF PanelMoved
  <2>3. QED
    BY <1>1, <1>3, <2>1, <2>2
<1>4. QED
  BY <1>2, <1>3 DEF PanelFails

\* The panel goes on by itself.
LEMMA PanelMovesKeep ==
    ASSUME ProtocolIInv, PanelMoves
    PROVE  ProtocolIInv'
<1>1. UNCHANGED <<agentVars, waiting>>
  BY DEF PanelMoves
<1>2. ASSUME IInv', PanelMoved,
             UNCHANGED checkin \/ CheckInDeliver,
             \A h \in Calls : calls'[h] = calls[h] \/ Advances(calls[h], calls'[h])
      PROVE  ProtocolIInv'
  <2>1. waiting = AtCheckIn =>
            checkin'.pc # "idle" /\ checkin'.batch \subseteq checkin.batch
    <3>1. CASE UNCHANGED checkin
      BY <3>1 DEF ProtocolIInv, WaitingOK
    <3>2. CASE CheckInDeliver
      BY <3>2 DEF CheckInDeliver, StillDeliverable, ProtocolIInv, IInv, TypeOK
    <3>3. QED
      BY <1>2, <3>1, <3>2
  <2>2. WaitingOK'
    BY <1>1, <1>2, <2>1, StillWaiting DEF PanelMoved
  <2>3. QED
    BY <1>1, <1>2, <2>2, NothingMoved, StepKeeps
<1>3. ASSUME NEW j \in Jobs, QueueApply(j) \/ QueueOther(j) PROVE ProtocolIInv'
  <2>1. IInv' /\ PanelMoved
    BY <1>3, QueueKeeps, QueueMoves DEF ProtocolIInv
  <2>2. UNCHANGED <<checkin, calls>>
    BY <1>3 DEF QueueApply, QueueOther
  <2>3. QED
    BY <1>2, <2>1, <2>2
<1>4. CASE JanitorScan \/ \E j \in Jobs : JanitorCancel(j) \/ JanitorFails(j)
  <2>1. IInv' /\ PanelMoved
    BY <1>4, JanitorCancelKeeps, SweepKeeps, JanitorMoves DEF ProtocolIInv
  <2>2. UNCHANGED <<checkin, calls>>
    BY <1>4 DEF JanitorScan, JanitorCancel, JanitorFails
  <2>3. QED
    BY <1>2, <2>1, <2>2
<1>5. ASSUME NEW r \in Revs, Author(r) PROVE ProtocolIInv'
  <2>1. IInv' /\ PanelMoved
    BY <1>5, AuthorKeeps, AuthorMoves DEF ProtocolIInv
  <2>2. UNCHANGED <<checkin, calls>>
    BY <1>5 DEF Author
  <2>3. QED
    BY <1>2, <2>1, <2>2
<1>6. ASSUME NEW h \in Calls, CallStep(h) PROVE ProtocolIInv'
  <2>1. IInv'
    BY <1>6, HandlerReadKeeps, HandlerReportKeeps, HandlerWriteKeeps, HandlerFinishKeeps
       DEF CallStep, ProtocolIInv
  <2>2. PanelMoved
    BY <1>6, HandlerReadMoves, HandlerReportMoves, HandlerWriteMoves,
       HandlerFinishMoves DEF CallStep
  <2>3. UNCHANGED checkin
    BY <1>6 DEF CallStep, HandlerRead, HandlerReport, HandlerWrite, HandlerRevision,
                HandlerRouter, HandlerNotify
  <2>4. \A g \in Calls : calls'[g] = calls[g] \/ Advances(calls[g], calls'[g])
    BY <1>6, <2>2, CallStepAdvances DEF PanelMoved
  <2>5. QED
    BY <1>2, <2>1, <2>2, <2>3, <2>4
<1>7. CASE CheckInDeliver
  <2>1. IInv' /\ PanelMoved
    BY <1>7, CheckInDeliverKeeps, CheckInMoves DEF ProtocolIInv
  <2>2. calls' = calls
    BY <1>7 DEF CheckInDeliver
  <2>3. QED
    BY <1>2, <1>7, <2>1, <2>2
<1>8. QED
  BY <1>3, <1>4, <1>5, <1>6, <1>7 DEF PanelMoves

-----------------------------------------------------------------------------
LEMMA ProtocolInitIInv == ProtocolInit => ProtocolIInv
<1> SUFFICES ASSUME ProtocolInit PROVE ProtocolIInv
  OBVIOUS
<1>1. Init /\ Agent!AgentInit /\ waiting = Nobody
  BY DEF ProtocolInit
<1>2. IInv /\ Agent!AgentIInv
  BY <1>1, InitIInv, AgentInitIInv
<1>3. /\ calls = [h \in Calls |-> NoCall] /\ checkin = NoCheckIn /\ handed = {}
      /\ \A j \in Jobs : job[j].state = "absent"
  BY <1>1 DEF Init, NewRow
<1>4. /\ mem = Agent!EmptyJournal /\ disk = Agent!EmptyJournal /\ pc = "down"
      /\ batch = {} /\ post = Agent!NoPost
      /\ ran = [j \in Jobs |-> 0] /\ worked = [j \in Jobs |-> "none"]
  BY <1>1 DEF Agent!AgentInit
<1>5. PanelOK
  BY <1>3 DEF PanelOK, NoCall, NewCall, NoCheckIn
<1>6. HandedOK
  BY <1>3, <1>4 DEF HandedOK, KnownJobs, NoCheckIn, Agent!EmptyJournal, Agent!NoPost
<1>7. WaitingOK
  BY <1>1, RequestNames DEF WaitingOK, Nobody, AtCheckIn
<1>8. OnceOK
  BY <1>4 DEF OnceOK
<1>9. SuccessesOK
  BY <1>3, <1>4 DEF SuccessesOK, NoCall, NewCall, Agent!EmptyJournal, Agent!NoPost
<1>10. QED
  BY <1>2, <1>5, <1>6, <1>7, <1>8, <1>9 DEF ProtocolIInv

LEMMA ProtocolNextKeeps == ProtocolIInv /\ [ProtocolNext]_allVars => ProtocolIInv'
<1> SUFFICES ASSUME ProtocolIInv, [ProtocolNext]_allVars PROVE ProtocolIInv'
  OBVIOUS
<1>1. CASE UNCHANGED allVars
  <2>1. UNCHANGED <<vars, agentVars, waiting>>
    BY <1>1 DEF allVars
  <2>2. IInv' /\ PanelMoved
    BY <2>1, StutterKeeps, NothingMovedAtPanel DEF ProtocolIInv
  <2>3. UNCHANGED <<checkin, calls>>
    BY <2>1 DEF vars
  <2>4. WaitingOK'
    BY <2>1, <2>2, <2>3, StillWaiting DEF PanelMoved, ProtocolIInv, WaitingOK
  <2>5. QED
    BY <2>1, <2>2, <2>4, NothingMoved, StepKeeps
<1>2. CASE AgentMoves
  BY <1>2, AgentMovesKeep
<1>3. CASE AgentCrashes \/ GiveUp
  BY <1>3, AgentLosesKeep
<1>4. ASSUME NEW h \in Calls, Send(h) \/ Answer(h) PROVE ProtocolIInv'
  BY <1>4, SendKeeps, AnswerKeeps
<1>5. CASE SendCheckIn \/ AnswerCheckIn
  BY <1>5, SendCheckInKeeps, AnswerCheckInKeeps
<1>6. CASE PanelFails \/ PanelMoves
  BY <1>6, PanelFailsKeep, PanelMovesKeep
<1>7. QED
  BY <1>1, <1>2, <1>3, <1>4, <1>5, <1>6 DEF ProtocolNext

\* The invariant of panel, agent and the requests between them holds throughout.
THEOREM ProtocolInvariance == ProtocolSpec => []ProtocolIInv
BY ProtocolInitIInv, ProtocolNextKeeps, PTL DEF ProtocolSpec

\* No crash, lost answer, late request or failed save makes a router execute one
\* job twice, however many jobs, requests and faults there are.
THEOREM RunsOnce == ProtocolSpec => []RunsAtMostOnce
<1>1. ProtocolIInv => RunsAtMostOnce
  BY DEF ProtocolIInv, OnceOK, RunsAtMostOnce
<1>2. QED
  BY <1>1, ProtocolInvariance, PTL

\* What each program keeps by itself it keeps with the other one: no two
\* unfinished jobs share a key, a saved result belongs to the job the journal
\* names, and an update is reported as a success only by the version it installed.
THEOREM PartsKeepTheirs ==
    ProtocolSpec => [](/\ OneActivePerTarget
                       /\ Agent!JournalCoherent
                       /\ Agent!UpdateSuccessConfirmed)
<1>1. ProtocolIInv => /\ OneActivePerTarget
                      /\ Agent!JournalCoherent
                      /\ Agent!UpdateSuccessConfirmed
  BY DEF ProtocolIInv, IInv, KeysOK, OneActivePerTarget, Agent!AgentIInv
<1>2. QED
  BY <1>1, ProtocolInvariance, PTL

-----------------------------------------------------------------------------
(***************************************************************************)
(* Panel and agent implement the contract: every step of theirs is one the *)
(* contract allows, or changes nothing it speaks of.                       *)
(***************************************************************************)
\* What the panel says of a job, by the state of its row.
Said(state) == IF state \in Active THEN "open" ELSE state
ContractStep == Contract!Next \/ UNCHANGED Contract!contractVars

\* Nothing changes that the contract speaks of.
LEMMA ContractStutter ==
    ASSUME UNCHANGED worked, \A j \in Jobs : job'[j].state = job[j].state
    PROVE  ContractStep
BY DEF ContractStep, Contract!contractVars

\* A row is written: a record of the contract, if it may be that one.
LEMMA ContractRecord ==
    ASSUME NEW n \in Jobs, UNCHANGED worked,
           \A j \in Jobs : j # n => job'[j].state = job[j].state,
           job[n].state # "absent",
           job'[n].state \in Active \cup Terminal,
           job'[n].state = "succeeded" => worked[n] = "success"
    PROVE  ContractStep
<1> DEFINE record == [j \in Jobs |-> Said(job[j].state)]
<1>1. PICK state : state = Said(job'[n].state)
  OBVIOUS
<1>2. [j \in Jobs |-> Said(job'[j].state)] = [record EXCEPT ![n] = state]
  BY <1>1
<1>3. record[n] # "absent" /\ state \in Contract!Over \cup {"open"}
  BY <1>1 DEF Said, Contract!Over, Terminal
<1>4. state = "succeeded" => worked[n] = "success"
  BY <1>1 DEF Said
<1>5. Contract!Record(n, state)
  BY <1>2, <1>3, <1>4 DEF Contract!Record, Said
<1>6. QED
  BY <1>3, <1>5 DEF ContractStep, Contract!Next

\* A job is queued.
LEMMA ContractQueue ==
    ASSUME ProtocolIInv, NEW n \in Jobs, Insert(n), UNCHANGED worked
    PROVE  ContractStep
<1>1. /\ \A j \in Jobs : j # n => job'[j].state = job[j].state
      /\ job[n].state = "absent" /\ job'[n].state = "queued"
  BY DEF Insert, NewRow, ProtocolIInv, IInv, TypeOK
<1> DEFINE record == [j \in Jobs |-> Said(job[j].state)]
<1>2. [j \in Jobs |-> Said(job'[j].state)] = [record EXCEPT ![n] = "open"]
  BY <1>1 DEF Said, Active
<1>3. record[n] = "absent"
  BY <1>1 DEF Said, Active
<1>4. Contract!Queue(n)
  BY <1>2, <1>3 DEF Contract!Queue, Said
<1>5. QED
  BY <1>4 DEF ContractStep, Contract!Next

\* A job is executed: the only time, and it was queued before.
LEMMA ContractRun ==
    ASSUME ProtocolIInv, NEW outcome \in {"success", "failure"}, Agent!Execute(outcome),
           UNCHANGED job
    PROVE  ContractStep
<1>1. /\ mem.cur \in Jobs /\ worked[mem.cur] = "none"
      /\ job[mem.cur].state # "absent"
      /\ worked' = [worked EXCEPT ![mem.cur] = outcome]
  BY DEF Agent!Execute, ProtocolIInv, Agent!AgentIInv, Agent!PhaseOK, OnceOK, Left
<1>2. Contract!Run(mem.cur, outcome)
  BY <1>1 DEF Contract!Run, Active
<1>3. QED
  BY <1>1, <1>2 DEF ContractStep, Contract!Next

\* Only an execution changes what became of a job.
LEMMA OnlyExecuteWorks ==
    ASSUME Agent!AgentNext, \A outcome \in {"success", "failure"} : ~Agent!Execute(outcome)
    PROVE  UNCHANGED worked
BY DEF Agent!AgentNext, Agent!AgentStep, Agent!AgentAnswered, Agent!Start, Agent!Crash,
       Agent!SkipCycle, Agent!RecoverPending, Agent!RecoverCurrent, Agent!RecoverNothing,
       Agent!Acked, Agent!RecoverAcked, Agent!CheckedIn, Agent!Accept, Agent!AcceptAcked,
       Agent!Refuse, Agent!Finish, Agent!FinishUpdate, Agent!ReportAcked, Agent!JobsDone,
       Agent!RequestFailed

LEMMA AgentMovesContract ==
    ASSUME ProtocolIInv, AgentMoves \/ AgentCrashes \/ GiveUp
    PROVE  ContractStep
<1>1. UNCHANGED job
  BY DEF AgentMoves, AgentCrashes, GiveUp, vars
<1>2. CASE \E outcome \in {"success", "failure"} : Agent!Execute(outcome)
  BY <1>1, <1>2, ContractRun
<1>3. CASE \A outcome \in {"success", "failure"} : ~Agent!Execute(outcome)
  <2>1. Agent!AgentNext
    BY DEF AgentMoves, AgentCrashes, GiveUp, Agent!AgentNext, Agent!AgentStep,
           Agent!AgentAnswered
  <2>2. QED
    BY <1>1, <1>3, <2>1, OnlyExecuteWorks, ContractStutter
<1>4. QED
  BY <1>2, <1>3

\* Requests and answers change no row and execute nothing.
LEMMA RequestsContract ==
    ASSUME ProtocolIInv,
           \/ \E h \in Calls : Send(h) \/ Answer(h)
           \/ SendCheckIn \/ AnswerCheckIn \/ PanelFails
    PROVE  ContractStep
<1>1. UNCHANGED job
  BY PanelIsFine DEF Send, Answer, SendCheckIn, AnswerCheckIn, PanelFails, Receive, Respond,
     CheckInRead, CheckInAnswer, HandlerError, HandlerCrash, CheckInCrash
<1>2. UNCHANGED worked
  BY DEF Send, Answer, SendCheckIn, AnswerCheckIn, PanelFails, Fails, agentVars,
     Agent!Acked, Agent!RecoverAcked, Agent!AcceptAcked, Agent!ReportAcked,
     Agent!CheckedIn, Agent!RequestFailed
<1>3. QED
  BY <1>1, <1>2, ContractStutter

LEMMA PanelMovesContract ==
    ASSUME ProtocolIInv, PanelMoves
    PROVE  ContractStep
<1>1. UNCHANGED worked /\ job \in [Jobs -> Row]
  BY DEF PanelMoves, agentVars, ProtocolIInv, IInv, TypeOK
<1>2. ASSUME NEW j \in Jobs, QueueApply(j) \/ QueueOther(j) PROVE ContractStep
  BY <1>1, <1>2, ContractQueue DEF QueueApply, QueueOther
<1>3. ASSUME NEW j \in Jobs, JanitorCancel(j) PROVE ContractStep
  <2>1. CASE job' = job
    BY <1>1, <2>1, ContractStutter
  <2>2. CASE /\ job[j].state = "running"
             /\ job' = [job EXCEPT ![j] = [@ EXCEPT !.state = "cancelled", !.by = "janitor",
                                             !.key = job[j].key /\ j \in ActionJobs]]
    <3>1. /\ \A k \in Jobs : k # j => job'[k] = job[k]
          /\ job'[j].state = "cancelled"
      BY <1>1, <2>2 DEF Row
    <3>2. QED
      BY <1>1, <2>2, <3>1, ContractRecord DEF Terminal
  <2>3. QED
    BY <1>1, <1>3, <2>1, <2>2 DEF JanitorCancel
<1>4. ASSUME NEW h \in Calls, HandlerWrite(h) PROVE ContractStep
  <2> DEFINE c == calls[h]
             n == c.job
  <2>1. /\ c.pc = "write" /\ n \in Jobs /\ job[n].state # "absent"
        /\ c.status = "success" => worked[n] = "success"
    BY <1>4, PanelIsFine DEF HandlerWrite, ProtocolIInv, IInv, PresentOK, Present
  <2>2. /\ \A k \in Jobs : k # n => job'[k] = job[k]
        /\ job'[n].state = Recorded(c.status)
    BY <1>1, <1>4, <2>1 DEF HandlerWrite, Row
  <2>3. /\ Recorded(c.status) \in Active \cup Terminal
        /\ Recorded(c.status) = "succeeded" => c.status = "success"
    BY DEF Recorded, Active, Terminal
  <2>4. QED
    BY <1>1, <2>1, <2>2, <2>3, ContractRecord
<1>5. ASSUME NEW h \in Calls, HandlerReport(h) PROVE ContractStep
  <2>1. \/ job' = job
        \/ job' = [job EXCEPT ![calls[h].job] = [@ EXCEPT !.reported = TRUE]]
    BY <1>5 DEF HandlerReport
  <2>2. \A k \in Jobs : job'[k].state = job[k].state
    BY <1>1, <2>1 DEF Row
  <2>3. QED
    BY <1>1, <2>2, ContractStutter
<1>6. ASSUME UNCHANGED job PROVE ContractStep
  BY <1>1, <1>6, ContractStutter
<1>7. CASE CheckInDeliver
  <2>1. \A k \in Jobs : job'[k] = job[k]
    BY <1>7, PassWallRouter DEF CheckInDeliver
  <2>2. QED
    BY <1>1, <2>1, ContractStutter
<1>8. \/ \E j \in Jobs : QueueApply(j) \/ QueueOther(j) \/ JanitorCancel(j)
      \/ \E h \in Calls : HandlerWrite(h) \/ HandlerReport(h)
      \/ CheckInDeliver
      \/ UNCHANGED job
  BY DEF PanelMoves, CallStep, HandlerRead, HandlerRevision, HandlerRouter, HandlerNotify,
         JanitorFails, JanitorScan, Author
<1>9. QED
  BY <1>2, <1>3, <1>4, <1>5, <1>6, <1>7, <1>8

LEMMA ContractInit == ProtocolInit => Contract!Init
BY DEF ProtocolInit, Init, NewRow, Agent!AgentInit, Contract!Init, Active

LEMMA ContractNext == ProtocolIInv /\ [ProtocolNext]_allVars => [Contract!Next]_(Contract!contractVars)
<1> SUFFICES ASSUME ProtocolIInv, [ProtocolNext]_allVars PROVE ContractStep
  BY DEF ContractStep
<1>1. CASE UNCHANGED allVars
  BY <1>1, ContractStutter DEF allVars, vars, agentVars
<1>2. CASE ProtocolNext
  BY <1>2, AgentMovesContract, RequestsContract, PanelMovesContract DEF ProtocolNext
<1>3. QED
  BY <1>1, <1>2

\* Panel and router together implement the contract of each job, but for its
\* promise that the job ends, which needs the fairness of both: the job is
\* executed at most once, only after it was queued, and recorded as succeeded
\* only when that execution succeeded.
THEOREM ContractKept == ProtocolSpec => Contract!Safety
BY ContractInit, ContractNext, ProtocolInvariance, PTL DEF ProtocolSpec, Contract!Safety
=============================================================================
