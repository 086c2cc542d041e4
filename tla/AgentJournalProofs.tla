------------------------- MODULE AgentJournalProofs -------------------------
(***************************************************************************)
(* The agent's journal, for every set of jobs and any answers: its type,   *)
(* its coherence on disk and in memory, and that an update is reported as  *)
(* a success only by a process that runs the new version.                  *)
(*                                                                         *)
(* Every change of the journal is one of EndCycle, Save, Flush, Submit and *)
(* Acked, so the lemmas about these carry the proof; the actions add where *)
(* the cycle was and whose result it is.                                   *)
(***************************************************************************)
EXTENDS AgentJournal, TLAPS

-----------------------------------------------------------------------------
(***************************************************************************)
(* The pure part: what clearing a journal and saving a result leave.       *)
(***************************************************************************)
\* clearJobJournal leaves a journal without a pending result.
LEMMA ClearedJournal ==
    ASSUME NEW m \in Journal
    PROVE  Cleared(m) \in Journal /\ Coherent(Cleared(m)) /\ Cleared(m).pend = "none"
  BY AgentConstants, SMT DEF EmptyJournal, Cleared, Journal, Coherent, Outcomes

\* persistPendingJobResult, called for the current job, keeps the journal coherent.
LEMMA WithResultJournal ==
    ASSUME NEW m \in Journal, m.cur \in Tasks,
           NEW status \in {"success", "failure"},
           NEW r \in Revisions \cup {NoRevision}
    PROVE  /\ WithResult(m, m.cur, status, r) \in Journal
           /\ Coherent(WithResult(m, m.cur, status, r))
           /\ WithResult(m, m.cur, status, r).pend # "none"
  <1>1. WithResult(m, m.cur, status, r) \in Journal
    BY AgentConstants, SMT DEF Journal, WithResult, Outcomes
  <1> QED
    BY <1>1, AgentConstants, SMT DEF WithResult, Coherent

-----------------------------------------------------------------------------
(***************************************************************************)
(* The steps that end or suspend a cycle.                                  *)
(***************************************************************************)
\* What every step has to establish about what it changes.
StepOK ==
    /\ mem' \in Journal /\ disk' \in Journal
    /\ Coherent(mem') /\ Coherent(disk')
    /\ batch' \subseteq Tasks
    /\ pc' \in Places
    /\ UpdateSuccessConfirmed'
    /\ PhaseOK'

\* The rest of the type invariant.
RestOK ==
    /\ want' \in Revisions \cup {NoRevision}
    /\ runtime' \in Versions /\ staged' \in Versions
    /\ ran' \in [Tasks -> 0..2]
    /\ worked' \in [Tasks -> Outcomes]
    /\ faults' \in 0..MaxFaults

LEMMA StepKeeps ==
    ASSUME StepOK, RestOK
    PROVE  AgentIInv'
  <1>1. post' \in Post \cup {NoPost}
    BY DEF StepOK, PhaseOK
  <1> QED
    BY <1>1 DEF StepOK, RestOK, AgentIInv, AgentTypeOK, JournalCoherent

\* A cycle that ends keeps a coherent journal, whether the last save worked.
LEMMA EndCycleKeeps ==
    ASSUME NEW m \in Journal, NEW d \in Journal, Coherent(m), Coherent(d),
           EndCycle(m, d)
    PROVE  StepOK
  BY SMT DEF EndCycle, StepOK, UpdateSuccessConfirmed, PhaseOK, NoPost, Places

\* A flush ends the cycle, or sends the result of the journal's own job - and a
\* success of an update only when its version runs.
LEMMA FlushKeeps ==
    ASSUME AgentTypeOK,
           NEW m \in Journal, NEW d \in Journal, Coherent(m), Coherent(d),
           m.pend # "none",
           NEW seen \in BOOLEAN, NEW place \in {"recovering", "reporting"},
           Flush(m, d, seen, place), runtime' = runtime
    PROVE  StepOK
  <1> DEFINE counted == [m EXCEPT !.retries = IF @ <= MaxRetries THEN @ + 1 ELSE @]
             confirmed == seen /\ runtime = Version[m.cur]
  <1>1. counted \in Journal /\ Coherent(counted)
    BY AgentConstants, SMT DEF Journal, Coherent
  <1>2. m.pendFor = m.cur /\ m.cur \in Tasks /\ m.pend \in {"success", "failure"}
    BY SMT DEF Journal, Coherent, Outcomes
  <1>3. CASE ~NeedsConfirmation(m) \/ confirmed
    <2>1. /\ disk' = d /\ mem' = m /\ pc' = place /\ batch' = batch
          /\ post' = [job |-> m.pendFor, status |-> m.pend, rev |-> m.rev]
      BY <1>3 DEF Flush
    <2>2. post' \in Post
      BY <2>1, <1>2, SMT DEF Post, Journal
    <2>3. UpdateSuccessConfirmed'
      BY <2>1, <1>2, <1>3, SMT DEF UpdateSuccessConfirmed, NeedsConfirmation
    <2> QED
      BY <2>1, <2>2, <2>3, SMT DEF StepOK, PhaseOK, Places, AgentTypeOK
  <1>4. CASE ~(~NeedsConfirmation(m) \/ confirmed) /\ ~Exhausted(counted)
    <2>1. EndCycle(counted, d)
      BY <1>4 DEF Flush
    <2> QED
      BY <2>1, <1>1, EndCycleKeeps
  <1>5. CASE ~(~NeedsConfirmation(m) \/ confirmed) /\ Exhausted(counted)
    <2>1. /\ disk' \in {d, counted} /\ mem' = counted /\ pc' = place /\ batch' = batch
          /\ post' = [job |-> counted.pendFor, status |-> "failure", rev |-> counted.rev]
      BY <1>5 DEF Flush
    <2>2. post' \in Post
      BY <2>1, <1>1, <1>2, SMT DEF Post, Journal
    <2> QED
      BY <2>1, <2>2, <1>1, SMT DEF StepOK, PhaseOK, Places, AgentTypeOK, UpdateSuccessConfirmed
  <1> QED
    BY <1>3, <1>4, <1>5

\* A result of the current job, saved and sent, or kept for the next cycle.
LEMMA SubmitKeeps ==
    ASSUME AgentIInv, mem.cur \in Tasks,
           NEW status \in {"success", "failure"},
           NEW r \in Revisions \cup {NoRevision},
           NEW seen \in BOOLEAN, NEW place \in {"recovering", "reporting"},
           Submit(mem.cur, status, r, seen, place), runtime' = runtime
    PROVE  StepOK /\ faults' \in 0..MaxFaults
  <1> DEFINE m == WithResult(mem, mem.cur, status, r)
  <1>1. AgentTypeOK /\ mem \in Journal /\ disk \in Journal /\ Coherent(disk)
    BY DEF AgentIInv, AgentTypeOK, JournalCoherent
  <1>2. m \in Journal /\ Coherent(m) /\ m.pend # "none"
    BY <1>1, WithResultJournal
  <1> HIDE DEF m
  <1>3. CASE Flush(m, m, seen, place) /\ UNCHANGED faults
    BY <1>1, <1>2, <1>3, FlushKeeps DEF AgentTypeOK
  <1>4. CASE EndCycle(m, disk) /\ Fault
    <2>1. StepOK
      BY <1>1, <1>2, <1>4, EndCycleKeeps
    <2>2. faults' \in 0..MaxFaults
      BY <1>1, <1>4, AgentConstants, SMT DEF Fault, AgentTypeOK
    <2> QED
      BY <2>1, <2>2
  <1> QED
    BY <1>3, <1>4 DEF Submit, m

\* An acknowledged result is forgotten.
LEMMA AckedKeeps ==
    ASSUME AgentIInv, NEW from \in Places, NEW to \in {"checkin", "jobs"}, Acked(from, to)
    PROVE  AgentIInv'
  <1>1. AgentTypeOK /\ mem \in Journal /\ disk \in Journal /\ Coherent(disk)
    BY DEF AgentIInv, AgentTypeOK, JournalCoherent
  <1>2. /\ Cleared(mem) \in Journal /\ Coherent(Cleared(mem))
        /\ Cleared(mem).pend = "none"
    BY <1>1, ClearedJournal
  <1>3. StepOK
    <2>1. CASE Save(Cleared(mem)) /\ pc' = to /\ post' = NoPost /\ UNCHANGED <<batch, faults>>
      BY <1>1, <1>2, <2>1, SMT
         DEF Save, StepOK, AgentTypeOK, UpdateSuccessConfirmed, PhaseOK, NoPost, Places
    <2>2. CASE EndCycle(Cleared(mem), disk) /\ Fault
      BY <1>1, <1>2, <2>2, EndCycleKeeps
    <2> QED
      BY <2>1, <2>2 DEF Acked
  <1>4. RestOK
    BY <1>1, AgentConstants, SMT DEF Acked, Fault, RestOK, AgentTypeOK
  <1> QED
    BY <1>3, <1>4, StepKeeps

-----------------------------------------------------------------------------
(***************************************************************************)
(* The initial state and every step.                                       *)
(***************************************************************************)
LEMMA InitInvariant == AgentInit => AgentIInv
  <1> SUFFICES ASSUME AgentInit PROVE AgentIInv
    OBVIOUS
  <1>1. EmptyJournal \in Journal /\ Coherent(EmptyJournal)
    BY AgentConstants, SMT DEF EmptyJournal, Journal, Coherent, Outcomes
  <1>2. AgentTypeOK
    BY <1>1, AgentConstants, SMT
       DEF AgentInit, AgentTypeOK, Places, Versions, Outcomes
  <1> QED
    BY <1>1, <1>2, SMT
       DEF AgentInit, AgentIInv, JournalCoherent, UpdateSuccessConfirmed, PhaseOK, NoPost

LEMMA NextInvariant == AgentIInv /\ [AgentNext]_agentVars => AgentIInv'
  <1> SUFFICES ASSUME AgentIInv, [AgentNext]_agentVars PROVE AgentIInv'
    OBVIOUS
  <1>0. /\ AgentTypeOK /\ PhaseOK /\ UpdateSuccessConfirmed
        /\ mem \in Journal /\ disk \in Journal /\ Coherent(mem) /\ Coherent(disk)
    BY DEF AgentIInv, AgentTypeOK, JournalCoherent
  <1>empty. EmptyJournal \in Journal /\ Coherent(EmptyJournal)
    BY AgentConstants, SMT DEF EmptyJournal, Journal, Coherent, Outcomes
  <1>1. CASE Start
    <2>1. StepOK
      BY <1>0, <1>1, SMT
         DEF Start, StepOK, AgentTypeOK, PhaseOK, UpdateSuccessConfirmed, NoPost, Places
    <2>2. RestOK
      BY <1>0, <1>1, SMT DEF Start, RestOK, AgentTypeOK
    <2> QED
      BY <2>1, <2>2, StepKeeps
  <1>2. CASE Crash
    <2>1. StepOK
      BY <1>0, <1>2, <1>empty, SMT
         DEF Crash, StepOK, AgentTypeOK, PhaseOK, UpdateSuccessConfirmed, NoPost, Places
    <2>2. RestOK
      BY <1>0, <1>2, AgentConstants, SMT DEF Crash, Fault, RestOK, AgentTypeOK
    <2> QED
      BY <2>1, <2>2, StepKeeps
  <1>3. CASE SkipCycle
    <2>1. StepOK
      BY <1>0, <1>3, EndCycleKeeps DEF SkipCycle
    <2>2. RestOK
      BY <1>0, <1>3, SMT DEF SkipCycle, RestOK, AgentTypeOK
    <2> QED
      BY <2>1, <2>2, StepKeeps
  <1>4. CASE RecoverPending
    <2>1. PICK seen \in BOOLEAN : Flush(mem, disk, seen, "recovering")
      BY <1>4 DEF RecoverPending
    <2>2. StepOK
      BY <1>0, <1>4, <2>1, FlushKeeps DEF RecoverPending
    <2>3. RestOK
      BY <1>0, <1>4, SMT DEF RecoverPending, RestOK, AgentTypeOK
    <2> QED
      BY <2>2, <2>3, StepKeeps
  <1>5. CASE RecoverCurrent
    <2>1. PICK seen \in BOOLEAN :
              Submit(mem.cur, "failure", NoRevision, seen, "recovering")
      BY <1>5 DEF RecoverCurrent
    <2>2. mem.cur \in Tasks
      BY <1>0, <1>5, SMT DEF RecoverCurrent, Journal
    <2>3. StepOK /\ faults' \in 0..MaxFaults
      BY <1>5, <2>1, <2>2, SubmitKeeps DEF RecoverCurrent
    <2>4. RestOK
      BY <1>0, <1>5, <2>3, SMT DEF RecoverCurrent, RestOK, AgentTypeOK
    <2> QED
      BY <2>3, <2>4, StepKeeps
  <1>6. CASE RecoverNothing
    <2>1. StepOK
      BY <1>0, <1>6, SMT
         DEF RecoverNothing, StepOK, AgentTypeOK, PhaseOK, UpdateSuccessConfirmed, NoPost, Places
    <2>2. RestOK
      BY <1>0, <1>6, SMT DEF RecoverNothing, RestOK, AgentTypeOK
    <2> QED
      BY <2>1, <2>2, StepKeeps
  <1>7. ASSUME NEW j \in Tasks, Accept(j) PROVE AgentIInv'
    <2>1. post' \in Post /\ post'.status = "accepted"
      BY <1>7, SMT DEF Accept, Post
    <2>2. StepOK
      BY <1>0, <1>7, <2>1, SMT
         DEF Accept, StepOK, AgentTypeOK, PhaseOK, UpdateSuccessConfirmed, Places
    <2>3. RestOK
      BY <1>0, <1>7, SMT DEF Accept, RestOK, AgentTypeOK
    <2> QED
      BY <2>2, <2>3, StepKeeps
  <1>8. CASE Refuse
    <2>1. StepOK /\ faults' \in 0..MaxFaults
      BY <1>0, <1>8, SubmitKeeps DEF Refuse, PhaseOK
    <2>2. RestOK
      BY <1>0, <1>8, <2>1, SMT DEF Refuse, RestOK, AgentTypeOK
    <2> QED
      BY <2>1, <2>2, StepKeeps
  <1>9. CASE Finish
    <2>1. /\ mem.cur \in Tasks /\ worked[mem.cur] \in {"success", "failure"}
          /\ ResultRevision \in Revisions \cup {NoRevision}
      BY <1>0, <1>9 DEF Finish, PhaseOK, ResultRevision, AgentTypeOK
    <2>2. StepOK /\ faults' \in 0..MaxFaults
      BY <1>9, <2>1, SubmitKeeps DEF Finish
    <2>3. RestOK
      BY <1>0, <1>9, <2>2, SMT DEF Finish, RestOK, AgentTypeOK
    <2> QED
      BY <2>2, <2>3, StepKeeps
  <1>10. CASE FinishUpdate
    <2> DEFINE m == WithResult(mem, mem.cur, "success", NoRevision)
    <2>1. m \in Journal /\ Coherent(m)
      BY <1>0, <1>10, WithResultJournal DEF FinishUpdate, PhaseOK
    <2> HIDE DEF m
    <2>2. StepOK
      <3>1. CASE /\ disk' = m /\ mem' = EmptyJournal /\ pc' = "down"
                 /\ batch' = {} /\ post' = NoPost /\ UNCHANGED faults
        BY <1>empty, <2>1, <3>1, SMT
           DEF StepOK, PhaseOK, UpdateSuccessConfirmed, NoPost, Places
      <3>2. CASE EndCycle(m, disk) /\ Fault
        BY <1>0, <2>1, <3>2, EndCycleKeeps
      <3> QED
        BY <1>10, <3>1, <3>2 DEF FinishUpdate, m
    <2>3. RestOK
      BY <1>0, <1>10, AgentConstants, SMT DEF FinishUpdate, Fault, RestOK, AgentTypeOK
    <2> QED
      BY <2>2, <2>3, StepKeeps
  <1>11. CASE JobsDone
    <2>1. StepOK
      BY <1>0, <1>11, EndCycleKeeps DEF JobsDone
    <2>2. RestOK
      BY <1>0, <1>11, SMT DEF JobsDone, RestOK, AgentTypeOK
    <2> QED
      BY <2>1, <2>2, StepKeeps
  <1>12. ASSUME NEW outcome \in {"success", "failure"}, Execute(outcome) PROVE AgentIInv'
    <2>1. mem.cur \in Tasks
      BY <1>0, <1>12 DEF Execute, PhaseOK
    <2>2. worked' \in [Tasks -> Outcomes] /\ worked'[mem.cur] = outcome
      BY <1>0, <1>12, <2>1, SMT DEF Execute, AgentTypeOK, Outcomes
    <2>3. ran' \in [Tasks -> 0..2]
      <3>1. ran[mem.cur] \in 0..2
        BY <1>0, <2>1 DEF AgentTypeOK
      <3>2. (IF ran[mem.cur] < 2 THEN ran[mem.cur] + 1 ELSE ran[mem.cur]) \in 0..2
        BY <3>1, SMT
      <3> QED
        BY <1>0, <1>12, <2>1, <3>2, SMT DEF Execute, AgentTypeOK
    <2>4. staged' \in Versions
      BY <1>0, <1>12, SMT DEF Execute, AgentTypeOK, Versions
    <2>5. StepOK
      BY <1>0, <1>12, <2>1, <2>2, SMT
         DEF Execute, StepOK, AgentTypeOK, PhaseOK, UpdateSuccessConfirmed, NoPost, Places
    <2>6. RestOK
      BY <1>0, <1>12, <2>2, <2>3, <2>4 DEF Execute, RestOK, AgentTypeOK
    <2> QED
      BY <2>5, <2>6, StepKeeps
  <1>13. CASE RecoverAcked
    BY <1>13, AckedKeeps DEF RecoverAcked, Places
  <1>14. CASE ReportAcked
    BY <1>14, AckedKeeps DEF ReportAcked, Places
  <1>15. CASE AcceptAcked
    <2> DEFINE m == [mem EXCEPT !.cur = post.job]
    <2>1. post.job \in Tasks /\ mem.pend = "none"
      BY <1>0, <1>15, SMT DEF AcceptAcked, PhaseOK, Post
    <2>2. m \in Journal /\ Coherent(m) /\ m.pend = "none" /\ m.cur \in Tasks
      BY <1>0, <2>1, SMT DEF Journal, Coherent
    <2> HIDE DEF m
    <2>3. StepOK
      <3>1. CASE Save(m) /\ pc' = "running" /\ post' = NoPost /\ UNCHANGED <<batch, faults>>
        BY <1>0, <2>2, <3>1, SMT
           DEF Save, StepOK, AgentTypeOK, PhaseOK, UpdateSuccessConfirmed, NoPost, Places
      <3>2. CASE EndCycle(m, disk) /\ Fault
        BY <1>0, <2>2, <3>2, EndCycleKeeps
      <3> QED
        BY <1>15, <3>1, <3>2 DEF AcceptAcked, m
    <2>4. RestOK
      BY <1>0, <1>15, AgentConstants, SMT DEF AcceptAcked, Fault, RestOK, AgentTypeOK
    <2> QED
      BY <2>3, <2>4, StepKeeps
  <1>16. CASE RequestFailed
    <2>1. StepOK
      BY <1>0, <1>16, EndCycleKeeps DEF RequestFailed
    <2>2. RestOK
      BY <1>0, <1>16, AgentConstants, SMT DEF RequestFailed, Fault, RestOK, AgentTypeOK
    <2> QED
      BY <2>1, <2>2, StepKeeps
  <1>17. ASSUME NEW jobs \in SUBSET Tasks, NEW r \in Revisions \cup {NoRevision},
                CheckedIn(jobs, r)
         PROVE  AgentIInv'
    <2>1. StepOK
      <3>1. CASE /\ mem' = mem /\ disk' = IF jobs = {} THEN disk ELSE mem
                 /\ pc' = "jobs" /\ batch' = jobs /\ UNCHANGED <<post, faults>>
        BY <1>0, <1>17, <3>1, SMT
           DEF CheckedIn, StepOK, AgentTypeOK, PhaseOK, UpdateSuccessConfirmed, NoPost, Places
      <3>2. CASE EndCycle(mem, disk) /\ Fault
        BY <1>0, <3>2, EndCycleKeeps
      <3> QED
        BY <1>17, <3>1, <3>2 DEF CheckedIn
    <2>2. RestOK
      BY <1>0, <1>17, AgentConstants, SMT DEF CheckedIn, Fault, RestOK, AgentTypeOK
    <2> QED
      BY <2>1, <2>2, StepKeeps
  <1>18. CASE UNCHANGED agentVars
    BY <1>18 DEF agentVars, AgentIInv, AgentTypeOK, JournalCoherent, Coherent,
                 UpdateSuccessConfirmed, PhaseOK
  <1> QED
    BY <1>1, <1>2, <1>3, <1>4, <1>5, <1>6, <1>7, <1>8, <1>9, <1>10, <1>11, <1>12,
       <1>13, <1>14, <1>15, <1>16, <1>17, <1>18
       DEF AgentNext, AgentStep, AgentAnswered

-----------------------------------------------------------------------------
(***************************************************************************)
(* The theorems.                                                           *)
(***************************************************************************)
\* The inductive invariant: the journal's type and coherence, confirmed
\* updates, and what the place in the cycle says about the journal.
THEOREM AgentInvariance == AgentSpec => []AgentIInv
  BY InitInvariant, NextInvariant, PTL DEF AgentSpec

\* A saved result belongs to the job the journal names, in memory and on disk,
\* whichever saves fail and wherever the process dies.
THEOREM JournalStaysCoherent == AgentSpec => []JournalCoherent
  <1>1. AgentIInv => JournalCoherent
    BY DEF AgentIInv
  <1> QED
    BY <1>1, AgentInvariance, PTL

\* An update is reported as a success only by a process that runs the version
\* the job was to install.
THEOREM UpdateSuccessIsConfirmed == AgentSpec => []UpdateSuccessConfirmed
  <1>1. AgentIInv => UpdateSuccessConfirmed
    BY DEF AgentIInv
  <1> QED
    BY <1>1, AgentInvariance, PTL
=============================================================================
