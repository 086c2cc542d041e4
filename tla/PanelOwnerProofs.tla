-------------------------- MODULE PanelOwnerProofs --------------------------
(***************************************************************************)
(* Theorems about a partner's cancel, for any set of actions, owners and   *)
(* concurrent requests: what was cancelled was never handed to the router, *)
(* and it stays cancelled.                                                 *)
(*                                                                         *)
(* Every step moves each row in one of four ways (Kept, Ended, Inserted,   *)
(* Withdrawn); one lemma shows that steps made of such moves preserve      *)
(* OwnerOK, the others that each action is made of them.  Only the         *)
(* delivery adds to what was handed out and has a lemma of its own.        *)
(*                                                                         *)
(* The next section shows in the same way that an idempotency key names    *)
(* one action for good, the last that an owner hears of an action at most  *)
(* once while no late result is written over it.                           *)
(***************************************************************************)
EXTENDS PanelJobsProofs

-----------------------------------------------------------------------------
(***************************************************************************)
(* How a step may move a row.                                              *)
(***************************************************************************)
Kept(k) == /\ job'[k].state = job[k].state /\ job'[k].by = job[k].by
           /\ job[k].delivered => job'[k].delivered

\* Out of the queue, or to its end, by anybody but a partner.
Ended(k) == /\ job[k].by # "partner" /\ job'[k].by # "partner"
            /\ job'[k].state \in {"running"} \cup Terminal
            /\ job[k].delivered => job'[k].delivered

Inserted(k) == job[k].state = "absent" /\ job'[k].state = "queued" /\ job'[k].by = "nobody"

Withdrawn(k) == /\ k \in ActionJobs /\ job[k].state = "queued" /\ ~job[k].delivered
                /\ job'[k].state = "cancelled" /\ job'[k].by = "partner"

Moved(k) == Kept(k) \/ Ended(k) \/ Inserted(k) \/ Withdrawn(k)

\* What a step may make of a call: nothing, the end of it, its next statement,
\* or a new one about a job that was handed out or taken out of the queue.
CallMoved(g) ==
    \/ calls'[g].pc \in {"idle", "done"}
    \/ calls[g].pc \notin {"idle", "done"} /\ calls'[g].job = calls[g].job
    \/ calls'[g].job \in handed
    \/ /\ job'[calls'[g].job].state = "running"
       /\ job'[calls'[g].job].by # "partner"

\* What was cancelled by a partner in one state still is in the next.
CancelKept == \A j \in Jobs : job[j].by = "partner" => job'[j].by = "partner"

LEMMA MovesKeepOwner ==
    ASSUME IInv, OwnerOK, handed' = handed,
           \A k \in Jobs : Moved(k),
           \A g \in Calls : CallMoved(g)
    PROVE  OwnerOK' /\ CancelKept
<1>1. \A k \in handed : k \in Jobs /\ job[k].state # "absent"
  BY DEF IInv, PresentOK, Present
<1>2. \A k \in Jobs : job'[k].by = "partner" => k \in ActionJobs /\ job'[k].state = "cancelled"
  BY DEF OwnerOK, Moved, Kept, Ended, Inserted, Withdrawn
<1>3. CancelKept
  BY DEF CancelKept, OwnerOK, Moved, Kept, Ended, Inserted, Withdrawn
<1>4. \A k \in handed' : /\ job'[k].by # "partner"
                         /\ k \in ActionJobs => job'[k].delivered
  BY <1>1 DEF OwnerOK, Moved, Kept, Ended, Inserted, Withdrawn
<1>5. ASSUME NEW g \in Calls, calls'[g].pc \notin {"idle", "done"}
      PROVE  \/ calls'[g].job \in handed'
             \/ /\ job'[calls'[g].job].state \notin {"absent", "queued"}
                /\ job'[calls'[g].job].by # "partner"
  <2>1. CASE calls[g].pc \notin {"idle", "done"} /\ calls'[g].job = calls[g].job
    <3> DEFINE n == calls[g].job
    <3>1. n \in Jobs
      BY <2>1 DEF IInv, PresentOK, Present
    <3>2. \/ n \in handed
          \/ job[n].state \notin {"absent", "queued"} /\ job[n].by # "partner"
      BY <2>1 DEF OwnerOK
    <3>3. Moved(n) /\ calls'[g].job = n
      BY <2>1, <3>1
    <3> HIDE DEF n
    <3> QED
      BY <3>2, <3>3 DEF Moved, Kept, Ended, Inserted, Withdrawn, Terminal
  <2>2. CASE calls'[g].job \in handed
    BY <2>2
  <2>3. CASE /\ job'[calls'[g].job].state = "running"
             /\ job'[calls'[g].job].by # "partner"
    BY <2>3
  <2> QED
    BY <1>5, <2>1, <2>2, <2>3 DEF CallMoved
<1>6. QED
  BY <1>2, <1>3, <1>4, <1>5 DEF OwnerOK

\* The rows stay as they are.
LEMMA SameRowsKept ==
    ASSUME job' = job
    PROVE  \A k \in Jobs : Moved(k)
BY DEF Moved, Kept

\* The calls stay as they are.
LEMMA SameCallsMoved ==
    ASSUME calls' = calls
    PROVE  \A g \in Calls : CallMoved(g)
BY DEF CallMoved

\* One call changes, to its end or to its next statement.
LEMMA OneCallMoved ==
    ASSUME IInv, NEW h \in Calls, NEW d, calls' = [calls EXCEPT ![h] = d],
           \/ d.pc \in {"idle", "done"}
           \/ calls[h].pc \notin {"idle", "done"} /\ d.job = calls[h].job
           \/ d.job \in handed
           \/ job'[d.job].state = "running" /\ job'[d.job].by # "partner"
    PROVE  \A g \in Calls : CallMoved(g)
<1>1. calls \in [Calls -> Call]
  BY DEF IInv, TypeOK
<1>2. /\ calls'[h] = d
      /\ \A g \in Calls \ {h} : calls'[g] = calls[g]
  BY <1>1
<1>3. CallMoved(h)
  BY <1>2 DEF CallMoved
<1>4. \A g \in Calls \ {h} : CallMoved(g)
  BY <1>2 DEF CallMoved
<1>5. QED
  BY <1>3, <1>4

-----------------------------------------------------------------------------
(***************************************************************************)
(* The steps.                                                              *)
(***************************************************************************)
LEMMA InsertOwner ==
    ASSUME IInv, OwnerOK, NEW j \in Jobs,
           QueueApply(j) \/ QueueAction(j) \/ QueueOther(j) \/ Claim(j)
    PROVE  OwnerOK' /\ CancelKept
<1>1. Insert(j) /\ UNCHANGED <<calls, handed>>
  BY DEF QueueApply, QueueAction, QueueOther, Claim
<1>2. job \in [Jobs -> Row]
  BY DEF IInv, TypeOK
<1>3. /\ Inserted(j)
      /\ \A k \in Jobs \ {j} : Kept(k)
  BY <1>1, <1>2 DEF Insert, NewRow, Inserted, Kept
<1>4. QED
  BY <1>1, <1>3, SameCallsMoved, MovesKeepOwner DEF Moved

\* The delivery: of a batch with owners' actions only those go out that are
\* still queued, so that no partner has cancelled them, and they are stamped.
LEMMA DeliverOwner ==
    ASSUME IInv, OwnerOK, CheckInDeliver
    PROVE  OwnerOK' /\ CancelKept
<1> DEFINE sent == StillDeliverable(checkin.batch)
<1>1. /\ sent \subseteq Jobs
      /\ \A k \in sent : k \in ActionJobs => job[k].state = "queued"
  BY DEF StillDeliverable, IInv, PresentOK, Present
<1>2. /\ handed' = handed \cup sent
      /\ job' = [j \in Jobs |-> IF j \in sent \cap ActionJobs
                                THEN [job[j] EXCEPT !.delivered = TRUE] ELSE job[j]]
      /\ calls' = calls
  BY DEF CheckInDeliver
<1> HIDE DEF sent
<1>3. job \in [Jobs -> Row] /\ handed \subseteq Jobs
  BY DEF IInv, TypeOK
<1>4. \A k \in Jobs : Kept(k) /\ (k \in sent \cap ActionJobs => job'[k].delivered)
  BY <1>2, <1>3 DEF Row, Kept
<1>5. \A k \in Jobs : job'[k].by = "partner" => k \in ActionJobs /\ job'[k].state = "cancelled"
  BY <1>4 DEF OwnerOK, Kept
<1>6. \A k \in sent : job[k].by # "partner"
  BY <1>1 DEF OwnerOK
<1>7. \A k \in handed' : /\ job'[k].by # "partner"
                         /\ k \in ActionJobs => job'[k].delivered
  BY <1>1, <1>2, <1>3, <1>4, <1>6 DEF OwnerOK, Kept
<1>8. ASSUME NEW g \in Calls, calls'[g].pc \notin {"idle", "done"}
      PROVE  \/ calls'[g].job \in handed'
             \/ /\ job'[calls'[g].job].state \notin {"absent", "queued"}
                /\ job'[calls'[g].job].by # "partner"
  <2>1. calls[g].job \in Jobs
    BY <1>2, <1>8 DEF IInv, PresentOK, Present
  <2> QED
    BY <1>2, <1>4, <1>8, <2>1 DEF OwnerOK, Kept
<1>9. CancelKept
  BY <1>4 DEF CancelKept, Kept
<1>10. QED
  BY <1>5, <1>7, <1>8, <1>9 DEF OwnerOK

LEMMA FailUndeliverableOwner ==
    ASSUME IInv, OwnerOK, NEW j \in Jobs, NEW h \in Calls, FailUndeliverable(j, h)
    PROVE  OwnerOK' /\ CancelKept
<1> DEFINE d == NewCall("received", j, "failure", NoRev, TRUE)
<1>1. handed' = handed /\ job \in [Jobs -> Row]
  BY DEF FailUndeliverable, IInv, TypeOK
<1>2. CASE job[j].state = "queued"
  <2>1. /\ job' = [job EXCEPT ![j].state = "running"]
        /\ calls' = [calls EXCEPT ![h] = d]
    BY <1>2 DEF FailUndeliverable
  <2>2. d.job = j
    BY DEF NewCall
  <2> HIDE DEF d
  <2>3. job[j].by # "partner"
    BY <1>2 DEF OwnerOK
  <2>4. /\ job'[j].state = "running" /\ job'[j].by = job[j].by
        /\ job'[j].delivered = job[j].delivered
        /\ \A k \in Jobs \ {j} : job'[k] = job[k]
    BY <1>1, <2>1 DEF Row
  <2>5. \A k \in Jobs : Moved(k)
    BY <2>3, <2>4 DEF Moved, Kept, Ended
  <2>6. \A g \in Calls : CallMoved(g)
    BY <2>1, <2>2, <2>3, <2>4, OneCallMoved
  <2> QED
    BY <1>1, <2>5, <2>6, MovesKeepOwner
<1>3. CASE job[j].state # "queued"
  <2>1. UNCHANGED <<job, calls>>
    BY <1>3 DEF FailUndeliverable
  <2> QED
    BY <1>1, <2>1, SameRowsKept, SameCallsMoved, MovesKeepOwner
<1>4. QED
  BY <1>2, <1>3

LEMMA ReceiveOwner ==
    ASSUME IInv, OwnerOK, RouterReports
    PROVE  OwnerOK' /\ CancelKept
<1>1. PICK h \in Calls, j \in handed, status \in Statuses, r \in HandedRevs \cup {NoRev} :
          Receive(h, j, status, r)
  BY DEF RouterReports
<1> DEFINE taken == IF j \in ConnectJobs THEN NoRev ELSE r
           d == NewCall("received", j, status, taken, FALSE)
<1>2. calls' = [calls EXCEPT ![h] = d] /\ job' = job /\ handed' = handed
  BY <1>1 DEF Receive
<1>3. d.job = j
  BY DEF NewCall
<1> HIDE DEF d
<1>4. \A g \in Calls : CallMoved(g)
  BY <1>2, <1>3, OneCallMoved
<1>5. QED
  BY <1>2, <1>4, SameRowsKept, MovesKeepOwner

\* The statements of a handler that leave the job row alone.
LEMMA HandlerOwner ==
    ASSUME IInv, OwnerOK, NEW h \in Calls,
           \/ HandlerRead(h) \/ HandlerRevision(h) \/ HandlerRouter(h)
           \/ HandlerNotify(h) \/ Respond(h)
    PROVE  OwnerOK' /\ CancelKept
<1>1. job' = job /\ handed' = handed
  BY DEF HandlerRead, HandlerRevision, HandlerRouter, HandlerNotify, Respond
<1>2. PICK d : /\ calls' = [calls EXCEPT ![h] = d]
               /\ \/ d.pc \in {"idle", "done"}
                  \/ /\ calls[h].pc \notin {"idle", "done"}
                     /\ d.job = calls[h].job
  <2>1. CASE HandlerRead(h)
    <3>1. calls[h].pc = "received"
      BY <2>1 DEF HandlerRead
    <3> QED
      BY <2>1, <3>1, ReadCall
  <2>2. CASE HandlerRevision(h) \/ HandlerRouter(h) \/ HandlerNotify(h) \/ Respond(h)
    BY <2>2, FinishCall
  <2> QED
    BY <2>1, <2>2
<1>3. \A g \in Calls : CallMoved(g)
  BY <1>2, OneCallMoved
<1>4. QED
  BY <1>1, <1>3, SameRowsKept, MovesKeepOwner

LEMMA HandlerReportOwner ==
    ASSUME IInv, OwnerOK, NEW h \in Calls, HandlerReport(h)
    PROVE  OwnerOK' /\ CancelKept
<1> DEFINE n == calls[h].job
<1>1. /\ handed' = handed /\ job \in [Jobs -> Row]
      /\ calls' = [calls EXCEPT ![h] = Answered(calls[h])]
      /\ job' = [job EXCEPT ![n].reported = TRUE] \/ job' = job
  BY DEF HandlerReport, IInv, TypeOK
<1>2. Answered(calls[h]).pc = "done"
  BY DEF Answered, NewCall
<1> HIDE DEF n
<1>3. \A k \in Jobs : Moved(k)
  BY <1>1 DEF Row, Moved, Kept
<1>4. \A g \in Calls : CallMoved(g)
  BY <1>1, <1>2, OneCallMoved
<1>5. QED
  BY <1>1, <1>3, <1>4, MovesKeepOwner

\* A result is written over whatever the row is by now - but never over a
\* partner's cancel, because that job was not handed out.
LEMMA HandlerWriteOwner ==
    ASSUME IInv, OwnerOK, NEW h \in Calls, HandlerWrite(h)
    PROVE  OwnerOK' /\ CancelKept
<1> DEFINE c == calls[h]
           n == c.job
           over == job[n].over \/ job[n].state \in Terminal
<1>1. /\ job \in [Jobs -> Row] /\ c \in Call /\ n \in Jobs
      /\ c.pc = "write" /\ handed' = handed
  BY DEF HandlerWrite, IInv, TypeOK, PresentOK, Present
<1>2. job' = [job EXCEPT ![n] = [@ EXCEPT !.state = Recorded(c.status), !.key = c.key,
                                          !.delivered = TRUE, !.over = over]]
  BY <1>1 DEF HandlerWrite
<1>3. job[n].by # "partner"
  BY <1>1 DEF OwnerOK
<1>4. PICK d : calls' = [calls EXCEPT ![h] = d] /\ (d.pc = "done" \/ d.job = n)
  BY WriteCall
<1>5. Recorded(c.status) \in {"running"} \cup Terminal
  BY DEF Recorded, Terminal
<1> HIDE DEF n, over
<1>6. /\ job'[n].state = Recorded(c.status) /\ job'[n].by = job[n].by
      /\ job'[n].delivered
      /\ \A k \in Jobs \ {n} : job'[k] = job[k]
  BY <1>1, <1>2 DEF Row
<1>7. \A k \in Jobs : Moved(k)
  BY <1>3, <1>5, <1>6 DEF Moved, Kept, Ended
<1>8. \A g \in Calls : CallMoved(g)
  BY <1>1, <1>4, OneCallMoved DEF n
<1>9. QED
  BY <1>1, <1>7, <1>8, MovesKeepOwner

LEMMA HandlerErrorOwner ==
    ASSUME IInv, OwnerOK, NEW h \in Calls, HandlerError(h)
    PROVE  OwnerOK' /\ CancelKept
<1> DEFINE n == calls[h].job
           key == KeyAfterResult(n, job[n].key, "failure")
<1>1. /\ handed' = handed /\ job \in [Jobs -> Row] /\ n \in Jobs
      /\ calls' = [calls EXCEPT ![h] = NoCall]
  BY DEF HandlerError, IInv, TypeOK, PresentOK, Present
<1>2. \/ /\ job[n].state = "running"
         /\ job' = [job EXCEPT ![n] = [@ EXCEPT !.state = "failed", !.key = key]]
      \/ job' = job
  BY <1>1 DEF HandlerError
<1> HIDE DEF n, key
<1>3. \A k \in Jobs : Moved(k)
  <2>1. CASE /\ job[n].state = "running"
             /\ job' = [job EXCEPT ![n] = [@ EXCEPT !.state = "failed", !.key = key]]
    <3>1. job[n].by # "partner"
      BY <1>1, <2>1 DEF OwnerOK
    <3>2. /\ job'[n].state = "failed" /\ job'[n].by = job[n].by
          /\ job'[n].delivered = job[n].delivered
          /\ \A k \in Jobs \ {n} : job'[k] = job[k]
      BY <1>1, <2>1 DEF Row
    <3> QED
      BY <3>1, <3>2 DEF Moved, Kept, Ended, Terminal
  <2>2. CASE job' = job
    BY <2>2, SameRowsKept
  <2> QED
    BY <1>2, <2>1, <2>2
<1>4. \A g \in Calls : CallMoved(g)
  BY <1>1, OneCallMoved DEF NoCall, NewCall
<1>5. QED
  BY <1>1, <1>3, <1>4, MovesKeepOwner

LEMMA CrashOwner ==
    ASSUME IInv, OwnerOK, CheckInCrash \/ \E h \in Calls : HandlerCrash(h)
    PROVE  OwnerOK' /\ CancelKept
<1>1. job' = job /\ handed' = handed /\ calls \in [Calls -> Call]
  BY DEF CheckInCrash, HandlerCrash, IInv, TypeOK
<1>2. \A g \in Calls : calls'[g] = calls[g] \/ calls'[g] = NoCall
  BY <1>1 DEF CheckInCrash, HandlerCrash
<1>3. \A g \in Calls : CallMoved(g)
  BY <1>2 DEF CallMoved, NoCall, NewCall
<1>4. QED
  BY <1>1, <1>3, SameRowsKept, MovesKeepOwner

LEMMA JanitorCancelOwner ==
    ASSUME IInv, OwnerOK, NEW j \in Jobs, JanitorCancel(j)
    PROVE  OwnerOK' /\ CancelKept
<1> DEFINE key == job[j].key /\ j \in ActionJobs
<1>1. job \in [Jobs -> Row] /\ handed' = handed /\ calls' = calls
  BY DEF JanitorCancel, IInv, TypeOK
<1>2. \/ /\ job[j].state = "running"
         /\ job' = [job EXCEPT ![j] = [@ EXCEPT !.state = "cancelled", !.by = "janitor",
                                                 !.key = key]]
      \/ job' = job
  BY <1>1 DEF JanitorCancel
<1> HIDE DEF key
<1>3. \A k \in Jobs : Moved(k)
  <2>1. CASE /\ job[j].state = "running"
             /\ job' = [job EXCEPT ![j] = [@ EXCEPT !.state = "cancelled",
                                                    !.by = "janitor", !.key = key]]
    <3>1. job[j].by # "partner"
      BY <2>1 DEF OwnerOK
    <3>2. /\ job'[j].state = "cancelled" /\ job'[j].by = "janitor"
          /\ job'[j].delivered = job[j].delivered
          /\ \A k \in Jobs \ {j} : job'[k] = job[k]
      BY <1>1, <2>1 DEF Row
    <3> QED
      BY <3>1, <3>2 DEF Moved, Kept, Ended, Terminal
  <2>2. CASE job' = job
    BY <2>2, SameRowsKept
  <2> QED
    BY <1>2, <2>1, <2>2
<1>4. QED
  BY <1>1, <1>3, SameCallsMoved, MovesKeepOwner

LEMMA PartnerCancelOwner ==
    ASSUME IInv, OwnerOK, NEW j \in Jobs, PartnerCancel(j)
    PROVE  OwnerOK' /\ CancelKept
<1>1. /\ job \in [Jobs -> Row] /\ handed' = handed /\ calls' = calls
      /\ j \in ActionJobs /\ job[j].state = "queued" /\ ~job[j].delivered
      /\ job' = [job EXCEPT ![j] = [@ EXCEPT !.state = "cancelled", !.by = "partner"]]
  BY DEF PartnerCancel, IInv, TypeOK
<1>2. /\ job'[j].state = "cancelled" /\ job'[j].by = "partner"
      /\ \A k \in Jobs \ {j} : job'[k] = job[k]
  BY <1>1 DEF Row
<1>3. \A k \in Jobs : Moved(k)
  BY <1>1, <1>2 DEF Moved, Kept, Withdrawn
<1>4. QED
  BY <1>1, <1>3, SameCallsMoved, MovesKeepOwner

LEMMA UnbindOwner ==
    ASSUME IInv, OwnerOK, Unbind
    PROVE  OwnerOK' /\ CancelKept
<1>1. /\ job \in [Jobs -> Row] /\ handed' = handed /\ calls' = calls
      /\ job' = [j \in Jobs |->
            IF j \in ApplyJobs \cup ActionJobs /\ job[j].state \in Active
            THEN [job[j] EXCEPT !.state = "cancelled", !.key = FALSE, !.by = "unbind"]
            ELSE job[j]]
  BY DEF Unbind, IInv, TypeOK
<1>2. ASSUME NEW k \in Jobs PROVE Moved(k)
  <2>1. CASE k \in ApplyJobs \cup ActionJobs /\ job[k].state \in Active
    <3>1. job[k].by # "partner"
      BY <2>1 DEF OwnerOK, Active
    <3>2. /\ job'[k].state = "cancelled" /\ job'[k].by = "unbind"
          /\ job'[k].delivered = job[k].delivered
      BY <1>1, <2>1 DEF Row
    <3> QED
      BY <3>1, <3>2 DEF Moved, Ended, Terminal
  <2>2. CASE ~(k \in ApplyJobs \cup ActionJobs /\ job[k].state \in Active)
    BY <1>1, <2>2 DEF Moved, Kept
  <2> QED
    BY <2>1, <2>2
<1>3. QED
  BY <1>1, <1>2, SameCallsMoved, MovesKeepOwner

\* Steps that touch neither the rows nor the calls nor what was handed out.
LEMMA OtherOwner ==
    ASSUME IInv, OwnerOK, UNCHANGED <<job, calls, handed>>
    PROVE  OwnerOK' /\ CancelKept
BY SameRowsKept, SameCallsMoved, MovesKeepOwner

-----------------------------------------------------------------------------
(***************************************************************************)
(* The theorems.                                                           *)
(***************************************************************************)
LEMMA InitOwner == Init => OwnerOK
BY DEF Init, OwnerOK, NewRow, NoCall, NewCall

LEMMA NextOwner == IInv /\ OwnerOK /\ [Next]_vars => OwnerOK' /\ CancelKept
<1> SUFFICES ASSUME IInv, OwnerOK, [Next]_vars PROVE OwnerOK' /\ CancelKept
  OBVIOUS
<1>1. CASE UNCHANGED vars
  BY <1>1, OtherOwner DEF vars
<1>2. ASSUME NEW j \in Jobs, JobStep(j) PROVE OwnerOK' /\ CancelKept
  <2>1. CASE JanitorFails(j)
    BY <2>1, OtherOwner DEF JanitorFails
  <2> QED
    BY <1>2, <2>1, InsertOwner, JanitorCancelOwner, PartnerCancelOwner DEF JobStep
<1>3. ASSUME NEW r \in Revs, Author(r) PROVE OwnerOK' /\ CancelKept
  BY <1>3, OtherOwner DEF Author
<1>4. ASSUME NEW h \in Calls, CallStep(h) \/ HandlerError(h) \/ HandlerCrash(h)
      PROVE  OwnerOK' /\ CancelKept
  BY <1>4, HandlerOwner, HandlerReportOwner, HandlerWriteOwner, HandlerErrorOwner,
     CrashOwner DEF CallStep
<1>5. ASSUME NEW j \in Jobs, NEW h \in Calls, FailUndeliverable(j, h)
      PROVE  OwnerOK' /\ CancelKept
  BY <1>5, FailUndeliverableOwner
<1>6. CASE CheckInRead \/ CheckInAnswer \/ JanitorScan
  BY <1>6, OtherOwner DEF CheckInRead, CheckInAnswer, JanitorScan
<1>7. CASE CheckInDeliver \/ CheckInCrash \/ Unbind \/ RouterReports
  BY <1>7, DeliverOwner, CrashOwner, UnbindOwner, ReceiveOwner
<1>8. CASE \E h \in Calls : Respond(h)
  BY <1>8, HandlerOwner
<1>9. QED
  BY <1>1, <1>2, <1>3, <1>4, <1>5, <1>6, <1>7, <1>8 DEF Next, PanelStep

\* What OwnerOK says of rows, deliveries and requests holds throughout.
THEOREM OwnerInvariance == Spec => []OwnerOK
BY Invariance, InitOwner, NextOwner, PTL DEF Spec

\* No action a partner was told is cancelled was ever, or is later, handed to
\* the router, whatever the order of cancels, check-ins and requests.
THEOREM CancelledIsNeverHanded == Spec => []CancelledNeverHanded
<1>1. OwnerOK => CancelledNeverHanded
  BY DEF OwnerOK, CancelledNeverHanded
<1>2. QED
  BY <1>1, OwnerInvariance, PTL

\* What a partner cancelled stays cancelled in every later step.
THEOREM PartnerCancelIsFinal == Spec => PartnerCancelSticks
<1> DEFINE Sticks == \A j \in Jobs : job[j].by = "partner" => job'[j].state = "cancelled"
<1>1. OwnerOK' /\ CancelKept => Sticks
  BY DEF OwnerOK, CancelKept
<1>2. IInv /\ OwnerOK /\ [Next]_vars => [Sticks]_vars
  BY <1>1, NextOwner
<1>3. QED
  BY <1>2, Invariance, OwnerInvariance, PTL DEF Spec, PartnerCancelSticks

-----------------------------------------------------------------------------
(***************************************************************************)
(* Idempotency keys.                                                       *)
(***************************************************************************)
\* How a step may treat the key of an action: keep it, give it (back), or take
\* it as the unbind does.
KeyMoved(k) ==
    \/ job'[k].key
    \/ job'[k].by = "unbind"
    \/ /\ job'[k].key = job[k].key /\ job'[k].by = job[k].by
       /\ job'[k].state = "absent" <=> job[k].state = "absent"

CallKeyed(d) == d.pc = "write" /\ d.job \in ActionJobs => d.key

LEMMA KeyMovesKeep ==
    ASSUME ActionKeysOK,
           \A k \in ActionJobs : KeyMoved(k),
           \A g \in Calls : calls'[g] = calls[g] \/ CallKeyed(calls'[g])
    PROVE  ActionKeysOK'
BY DEF ActionKeysOK, KeyMoved, CallKeyed

\* One call changes, to one that writes nothing or has the key.
LEMMA OneCallKeyed ==
    ASSUME IInv, NEW h \in Calls, NEW d, calls' = [calls EXCEPT ![h] = d], CallKeyed(d)
    PROVE  \A g \in Calls : calls'[g] = calls[g] \/ CallKeyed(calls'[g])
<1>1. calls \in [Calls -> Call]
  BY DEF IInv, TypeOK
<1>2. QED
  BY <1>1

LEMMA InsertKeyed ==
    ASSUME IInv, ActionKeysOK, NEW j \in Jobs,
           QueueApply(j) \/ QueueAction(j) \/ QueueOther(j) \/ Claim(j)
    PROVE  ActionKeysOK'
<1>1. Insert(j) /\ calls' = calls
  BY DEF QueueApply, QueueAction, QueueOther, Claim
<1>2. job \in [Jobs -> Row] /\ ActionJobs \subseteq Jobs
  BY JobKinds DEF IInv, TypeOK
<1>3. job'[j].key /\ \A k \in Jobs \ {j} : job'[k] = job[k]
  BY <1>1, <1>2 DEF Insert, NewRow
<1>4. \A k \in ActionJobs : KeyMoved(k)
  BY <1>2, <1>3 DEF KeyMoved
<1>5. QED
  BY <1>1, <1>4, KeyMovesKeep

\* The steps that leave every key and every cancel alone.
LEMMA UnkeyedSteps ==
    ASSUME IInv, ActionKeysOK,
           \A k \in ActionJobs : /\ job'[k].key = job[k].key /\ job'[k].by = job[k].by
                                 /\ job'[k].state = "absent" <=> job[k].state = "absent",
           \A g \in Calls : calls'[g] = calls[g] \/ CallKeyed(calls'[g])
    PROVE  ActionKeysOK'
<1>1. ASSUME NEW k \in ActionJobs PROVE KeyMoved(k)
  BY DEF KeyMoved
<1>2. QED
  BY <1>1, KeyMovesKeep

LEMMA DeliverKeyed ==
    ASSUME IInv, ActionKeysOK, CheckInDeliver
    PROVE  ActionKeysOK'
<1>1. job \in [Jobs -> Row] /\ ActionJobs \subseteq Jobs
  BY JobKinds DEF IInv, TypeOK
<1>2. /\ \A k \in Jobs : \/ job'[k] = job[k]
                         \/ job'[k] = [job[k] EXCEPT !.delivered = TRUE]
      /\ calls' = calls
  BY DEF CheckInDeliver
<1>3. \A k \in Jobs : /\ job'[k].key = job[k].key /\ job'[k].by = job[k].by
                      /\ job'[k].state = job[k].state
  BY ZenonT(60), <1>1, <1>2 DEF Row
<1>4. QED
  BY <1>1, <1>2, <1>3, UnkeyedSteps

LEMMA FailUndeliverableKeyed ==
    ASSUME IInv, ActionKeysOK, NEW j \in Jobs, NEW h \in Calls, FailUndeliverable(j, h)
    PROVE  ActionKeysOK'
<1> DEFINE d == NewCall("received", j, "failure", NoRev, TRUE)
<1>1. job \in [Jobs -> Row] /\ ActionJobs \subseteq Jobs /\ CallKeyed(d)
  BY JobKinds DEF IInv, TypeOK, CallKeyed, NewCall
<1>2. \/ /\ job[j].state = "queued"
         /\ job' = [job EXCEPT ![j].state = "running"]
         /\ calls' = [calls EXCEPT ![h] = d]
      \/ UNCHANGED <<job, calls>>
  BY DEF FailUndeliverable
<1> HIDE DEF d
<1>3. \A k \in Jobs : /\ job'[k].key = job[k].key /\ job'[k].by = job[k].by
                      /\ job'[k].state = "absent" <=> job[k].state = "absent"
  BY <1>1, <1>2 DEF Row
<1>4. \A g \in Calls : calls'[g] = calls[g] \/ CallKeyed(calls'[g])
  BY <1>1, <1>2, OneCallKeyed
<1>5. QED
  BY <1>1, <1>3, <1>4, UnkeyedSteps

\* A handler decides to write only on an unfinished row, and that has its key.
LEMMA HandlerReadKeyed ==
    ASSUME IInv, ActionKeysOK, NEW h \in Calls, HandlerRead(h)
    PROVE  ActionKeysOK'
<1>1. /\ job' = job /\ calls[h].job \in Jobs
      /\ job \in [Jobs -> Row] /\ job[calls[h].job].state # "absent"
  BY DEF HandlerRead, IInv, TypeOK, PresentOK, Present
<1>2. PICK d \in Call :
         /\ calls' = [calls EXCEPT ![h] = d]
         /\ d.pc \in {"report", "done", "write"}
         /\ d.pc # "done" => d.job = calls[h].job /\ d.status = calls[h].status
         /\ d.pc = "write" =>
               /\ ~AlreadyRecorded(job[d.job].state, d.status)
               /\ d.key = KeyAfterResult(d.job, job[d.job].key, d.status)
  BY ReadCall
<1>3. CallKeyed(d)
  <2> SUFFICES ASSUME d.pc = "write", d.job \in ActionJobs PROVE d.key
    BY DEF CallKeyed
  <2>1. job[d.job].state \in Active => job[d.job].key
    BY <1>1, <1>2 DEF IInv, KeysOK
  <2>2. job[d.job].state \in States /\ job[d.job].state # "absent"
    BY <1>1, <1>2 DEF Row
  <2>3. job[d.job].key
    BY <1>2, <2>1, <2>2 DEF AlreadyRecorded, States
  <2> QED
    BY <1>2, <2>3 DEF KeyAfterResult
<1>4. QED
  BY <1>1, <1>2, <1>3, OneCallKeyed, UnkeyedSteps

LEMMA HandlerReportKeyed ==
    ASSUME IInv, ActionKeysOK, NEW h \in Calls, HandlerReport(h)
    PROVE  ActionKeysOK'
<1> DEFINE n == calls[h].job
<1>1. /\ job \in [Jobs -> Row] /\ ActionJobs \subseteq Jobs
      /\ calls' = [calls EXCEPT ![h] = Answered(calls[h])]
      /\ job' = [job EXCEPT ![n].reported = TRUE] \/ job' = job
  BY JobKinds DEF HandlerReport, IInv, TypeOK
<1>2. CallKeyed(Answered(calls[h]))
  BY DEF CallKeyed, Answered, NewCall
<1> HIDE DEF n
<1>3. \A k \in Jobs : /\ job'[k].key = job[k].key /\ job'[k].by = job[k].by
                      /\ job'[k].state = job[k].state
  BY <1>1 DEF Row
<1>4. QED
  BY <1>1, <1>2, <1>3, OneCallKeyed, UnkeyedSteps

LEMMA HandlerWriteKeyed ==
    ASSUME IInv, ActionKeysOK, NEW h \in Calls, HandlerWrite(h)
    PROVE  ActionKeysOK'
<1> DEFINE c == calls[h]
           n == c.job
           over == job[n].over \/ job[n].state \in Terminal
<1>1. /\ job \in [Jobs -> Row] /\ n \in Jobs /\ ActionJobs \subseteq Jobs
      /\ c.pc = "write"
  BY JobKinds DEF HandlerWrite, IInv, TypeOK, PresentOK, Present
<1>2. job' = [job EXCEPT ![n] = [@ EXCEPT !.state = Recorded(c.status), !.key = c.key,
                                          !.delivered = TRUE, !.over = over]]
  BY <1>1 DEF HandlerWrite
<1>3. n \in ActionJobs => c.key
  BY <1>1 DEF ActionKeysOK
<1>4. \E d : calls' = [calls EXCEPT ![h] = d] /\ CallKeyed(d)
  BY WriteCall DEF CallKeyed
<1> HIDE DEF n, over
<1>5. job'[n].key = c.key /\ \A k \in Jobs \ {n} : job'[k] = job[k]
  BY <1>1, <1>2 DEF Row
<1>6. \A k \in ActionJobs : KeyMoved(k)
  BY <1>1, <1>3, <1>5 DEF KeyMoved
<1>7. QED
  BY <1>4, <1>6, OneCallKeyed, KeyMovesKeep

LEMMA HandlerEndsKeyed ==
    ASSUME IInv, ActionKeysOK, NEW h \in Calls,
           HandlerRevision(h) \/ HandlerRouter(h) \/ HandlerNotify(h) \/ Respond(h)
    PROVE  ActionKeysOK'
<1>1. job' = job
  BY DEF HandlerRevision, HandlerRouter, HandlerNotify, Respond
<1>2. \E d : calls' = [calls EXCEPT ![h] = d] /\ CallKeyed(d)
  BY FinishCall DEF CallKeyed
<1>3. QED
  BY <1>1, <1>2, OneCallKeyed, UnkeyedSteps

LEMMA HandlerErrorKeyed ==
    ASSUME IInv, ActionKeysOK, NEW h \in Calls, HandlerError(h)
    PROVE  ActionKeysOK'
<1> DEFINE n == calls[h].job
           key == KeyAfterResult(n, job[n].key, "failure")
<1>1. /\ job \in [Jobs -> Row] /\ n \in Jobs /\ ActionJobs \subseteq Jobs
      /\ calls' = [calls EXCEPT ![h] = NoCall]
  BY JobKinds DEF HandlerError, IInv, TypeOK, PresentOK, Present
<1>2. \/ /\ job[n].state = "running"
         /\ job' = [job EXCEPT ![n] = [@ EXCEPT !.state = "failed", !.key = key]]
      \/ job' = job
  BY <1>1 DEF HandlerError
<1>3. n \in ActionJobs => key = job[n].key
  BY <1>1 DEF KeyAfterResult, Row
<1>4. CallKeyed(NoCall)
  BY DEF CallKeyed, NoCall, NewCall
<1> HIDE DEF n, key
<1>5. \A k \in ActionJobs : /\ job'[k].key = job[k].key /\ job'[k].by = job[k].by
                            /\ job'[k].state = "absent" <=> job[k].state = "absent"
  <2>1. CASE job' = job
    BY <2>1
  <2>2. CASE /\ job[n].state = "running"
             /\ job' = [job EXCEPT ![n] = [@ EXCEPT !.state = "failed", !.key = key]]
    <3>1. /\ job'[n].key = key /\ job'[n].by = job[n].by /\ job'[n].state = "failed"
          /\ \A k \in Jobs \ {n} : job'[k] = job[k]
      BY <1>1, <2>2 DEF Row
    <3> QED
      BY <1>1, <1>3, <2>2, <3>1
  <2> QED
    BY <1>2, <2>1, <2>2
<1>6. QED
  BY <1>1, <1>4, <1>5, OneCallKeyed, UnkeyedSteps

\* The janitor and the partner cancel what is unfinished, and leave an action's key.
LEMMA CancelKeyed ==
    ASSUME IInv, ActionKeysOK, NEW j \in Jobs, JanitorCancel(j) \/ PartnerCancel(j)
    PROVE  ActionKeysOK'
<1>1. /\ job \in [Jobs -> Row] /\ ActionJobs \subseteq Jobs /\ calls' = calls
      /\ \A k \in Jobs \ {j} : job'[k] = job[k]
  BY JobKinds DEF JanitorCancel, PartnerCancel, IInv, TypeOK
<1>2. \/ job'[j] = job[j]
      \/ job[j].state \in Active /\ (j \in ActionJobs => job'[j].key = job[j].key)
  BY <1>1 DEF JanitorCancel, PartnerCancel, Row, Active
<1>3. job[j].state \in Active => job[j].key
  BY DEF IInv, KeysOK
<1>4. \A k \in ActionJobs : KeyMoved(k)
  BY <1>1, <1>2, <1>3 DEF KeyMoved
<1>5. QED
  BY <1>1, <1>4, KeyMovesKeep

LEMMA UnbindKeyed ==
    ASSUME IInv, ActionKeysOK, Unbind
    PROVE  ActionKeysOK'
<1>1. /\ job \in [Jobs -> Row] /\ ActionJobs \subseteq Jobs /\ calls' = calls
      /\ \A k \in Jobs :
            \/ job'[k] = job[k]
            \/ job'[k] = [job[k] EXCEPT !.state = "cancelled", !.key = FALSE, !.by = "unbind"]
  BY JobKinds DEF Unbind, IInv, TypeOK
<1>2. \A k \in ActionJobs : KeyMoved(k)
  BY ZenonT(60), <1>1 DEF KeyMoved, Row
<1>3. QED
  BY <1>1, <1>2, KeyMovesKeep

LEMMA OtherKeyed ==
    ASSUME IInv, ActionKeysOK, job' = job,
           \A g \in Calls : calls'[g] = calls[g] \/ CallKeyed(calls'[g])
    PROVE  ActionKeysOK'
BY UnkeyedSteps

LEMMA ReceiveAndCrashKeyed ==
    ASSUME IInv, ActionKeysOK,
           RouterReports \/ CheckInCrash \/ \E h \in Calls : HandlerCrash(h)
    PROVE  ActionKeysOK'
<1>1. job' = job /\ calls \in [Calls -> Call]
  BY DEF RouterReports, Receive, CheckInCrash, HandlerCrash, IInv, TypeOK
<1>2. \A g \in Calls : calls'[g] = calls[g] \/ calls'[g].pc \in {"received", "idle"}
  <2>1. CASE RouterReports
    <3>1. PICK h \in Calls, j \in handed, status \in Statuses,
               r \in HandedRevs \cup {NoRev} : Receive(h, j, status, r)
      BY <2>1 DEF RouterReports
    <3> DEFINE taken == IF j \in ConnectJobs THEN NoRev ELSE r
               d == NewCall("received", j, status, taken, FALSE)
    <3>2. calls' = [calls EXCEPT ![h] = d] /\ d.pc = "received"
      BY <3>1 DEF Receive, NewCall
    <3> HIDE DEF d
    <3> QED
      BY <1>1, <3>2
  <2>2. CASE CheckInCrash \/ \E h \in Calls : HandlerCrash(h)
    <3>1. \A g \in Calls : calls'[g] = calls[g] \/ calls'[g] = NoCall
      BY <1>1, <2>2 DEF CheckInCrash, HandlerCrash
    <3> QED
      BY <3>1 DEF NoCall, NewCall
  <2> QED
    BY <2>1, <2>2
<1>3. QED
  BY <1>1, <1>2, OtherKeyed DEF CallKeyed

LEMMA InitKeyed == Init => ActionKeysOK
BY JobKinds DEF Init, ActionKeysOK, NewRow, NoCall, NewCall

LEMMA NextKeyed == IInv /\ ActionKeysOK /\ [Next]_vars => ActionKeysOK'
<1> SUFFICES ASSUME IInv, ActionKeysOK, [Next]_vars PROVE ActionKeysOK'
  OBVIOUS
<1>1. CASE UNCHANGED vars
  BY <1>1, OtherKeyed DEF vars
<1>2. ASSUME NEW j \in Jobs, JobStep(j) PROVE ActionKeysOK'
  <2>1. CASE JanitorFails(j)
    BY <2>1, OtherKeyed DEF JanitorFails
  <2> QED
    BY <1>2, <2>1, InsertKeyed, CancelKeyed DEF JobStep
<1>3. ASSUME NEW r \in Revs, Author(r) PROVE ActionKeysOK'
  BY <1>3, OtherKeyed DEF Author
<1>4. ASSUME NEW h \in Calls, CallStep(h) \/ HandlerError(h) \/ HandlerCrash(h)
      PROVE  ActionKeysOK'
  BY <1>4, HandlerReadKeyed, HandlerReportKeyed, HandlerWriteKeyed, HandlerEndsKeyed,
     HandlerErrorKeyed, ReceiveAndCrashKeyed DEF CallStep
<1>5. ASSUME NEW j \in Jobs, NEW h \in Calls, FailUndeliverable(j, h)
      PROVE  ActionKeysOK'
  BY <1>5, FailUndeliverableKeyed
<1>6. CASE CheckInRead \/ CheckInAnswer \/ JanitorScan
  BY <1>6, OtherKeyed DEF CheckInRead, CheckInAnswer, JanitorScan
<1>7. CASE CheckInDeliver \/ CheckInCrash \/ Unbind \/ RouterReports
  BY <1>7, DeliverKeyed, UnbindKeyed, ReceiveAndCrashKeyed
<1>8. CASE \E h \in Calls : Respond(h)
  BY <1>8, HandlerEndsKeyed
<1>9. QED
  BY <1>1, <1>2, <1>3, <1>4, <1>5, <1>6, <1>7, <1>8 DEF Next, PanelStep

\* A partner's idempotency key names one action for good, whatever became of
\* it, unless the unbind of the owner withdrew it.
THEOREM OneActionPerKey == Spec => []IdempotentActions
<1>1. IInv /\ ActionKeysOK => IdempotentActions
  BY JobKinds DEF IInv, KeysOK, ActionKeysOK, IdempotentActions
<1>2. Spec => []ActionKeysOK
  BY Invariance, InitKeyed, NextKeyed, PTL DEF Spec
<1>3. QED
  BY <1>1, <1>2, Invariance, PTL

-----------------------------------------------------------------------------
(***************************************************************************)
(* The owner hears of an action once.                                      *)
(*                                                                         *)
(* Two statements tell: the report of a cancelled action that ran, which   *)
(* finds the row unclaimed and claims it, and the last one of a handler    *)
(* that has ended the row.  The others only have to keep what HeardOK says *)
(* of a row that has ended (RowHeard) and start no telling (CallHeard).    *)
(***************************************************************************)
RowHeard(k) ==
    /\ job'[k].over = job[k].over
    /\ \/ job'[k].state = job[k].state /\ job'[k].reported = job[k].reported
       \/ job[k].state \notin Terminal /\ job'[k].state # "absent"

CallHeard(g) ==
    calls'[g].pc \in {"revision", "router", "notify"} =>
        Telling(g) /\ calls'[g].job = calls[g].job

\* Nobody was told of a row that has not ended, and nobody is about to be.
LEMMA NotEnded ==
    ASSUME IInv, HeardOK, NEW k \in Jobs, job[k].state \notin Terminal, ~job[k].over
    PROVE  told[k] = 0 /\ \A g \in Calls : Telling(g) => calls[g].job # k
<1>1. told[k] \in 0..2
  BY DEF IInv, TypeOK
<1>2. QED
  BY <1>1 DEF HeardOK, HeardOf, Terminal

\* A handler that is about to tell, tells of a row that is there.
LEMMA TellsOfJobs ==
    ASSUME IInv, NEW g \in Calls, Telling(g)
    PROVE  calls[g].job \in Jobs
BY DEF Telling, IInv, PresentOK, Present

LEMMA HeardKeeps ==
    ASSUME IInv, HeardOK, told' = told,
           \A k \in Jobs : RowHeard(k),
           \A g \in Calls : CallHeard(g)
    PROVE  HeardOK'
<1>1. \A k \in Jobs : job'[k].over => job'[k].state # "absent"
  BY DEF HeardOK, RowHeard
<1>2. ASSUME NEW k \in Jobs, ~job'[k].over
      PROVE  told'[k] <= 1 /\ (told'[k] = 1 => HeardOf(k)')
  <2>1. ~job[k].over
    BY <1>2 DEF RowHeard
  <2>2. CASE job'[k].state = job[k].state /\ job'[k].reported = job[k].reported
    BY <2>1, <2>2 DEF HeardOK, HeardOf
  <2>3. CASE job[k].state \notin Terminal
    BY <2>1, <2>3, NotEnded
  <2> QED
    BY <2>2, <2>3 DEF RowHeard
<1>3. ASSUME NEW g \in Calls, Telling(g)', ~job'[calls'[g].job].over
      PROVE  /\ job'[calls'[g].job].state \in {"succeeded", "failed"}
             /\ told'[calls'[g].job] = 0
             /\ \A f \in Calls \ {g} : Telling(f)' => calls'[f].job # calls'[g].job
  <2> DEFINE n == calls[g].job
  <2>1. Telling(g) /\ calls'[g].job = n
    BY <1>3 DEF CallHeard, Telling
  <2>2. n \in Jobs
    BY <2>1, TellsOfJobs
  <2> HIDE DEF n
  <2>3. ~job[n].over
    BY <1>3, <2>1, <2>2 DEF RowHeard
  <2>4. /\ job[n].state \in {"succeeded", "failed"} /\ told[n] = 0
        /\ \A f \in Calls \ {g} : Telling(f) => calls[f].job # n
    BY <2>1, <2>3 DEF HeardOK, n
  <2>5. job'[n].state = job[n].state
    BY <2>2, <2>4 DEF RowHeard, Terminal
  <2> QED
    BY <2>1, <2>4, <2>5 DEF CallHeard, Telling
<1>4. QED
  BY <1>1, <1>2, <1>3 DEF HeardOK

\* One call changes, and tells only if it was about to.
LEMMA OneCallHeard ==
    ASSUME IInv, NEW h \in Calls, NEW d, calls' = [calls EXCEPT ![h] = d],
           d.pc \in {"revision", "router", "notify"} =>
               Telling(h) /\ d.job = calls[h].job
    PROVE  \A g \in Calls : CallHeard(g)
<1>1. calls \in [Calls -> Call]
  BY DEF IInv, TypeOK
<1>2. calls'[h] = d /\ \A g \in Calls \ {h} : calls'[g] = calls[g]
  BY <1>1
<1>3. QED
  BY <1>2 DEF CallHeard, Telling

LEMMA InsertHeard ==
    ASSUME IInv, HeardOK, NEW j \in Jobs,
           QueueApply(j) \/ QueueAction(j) \/ QueueOther(j) \/ Claim(j)
    PROVE  HeardOK'
<1>1. Insert(j) /\ told' = told /\ calls' = calls
  BY DEF QueueApply, QueueAction, QueueOther, Claim
<1>2. job[j].state = "absent" /\ job[j].over = FALSE
  BY <1>1 DEF Insert, IInv, TypeOK, Row, HeardOK
<1>3. /\ job'[j].state = "queued" /\ job'[j].over = FALSE
      /\ \A k \in Jobs \ {j} : job'[k] = job[k]
  BY <1>1 DEF Insert, NewRow, IInv, TypeOK
<1>4. \A k \in Jobs : RowHeard(k)
  BY <1>2, <1>3 DEF RowHeard, Terminal
<1>5. QED
  BY <1>1, <1>4, HeardKeeps DEF CallHeard, Telling

\* A cancel, by the janitor, the partner or the unbind, is of what has not ended.
LEMMA CancelHeard ==
    ASSUME IInv, HeardOK,
           Unbind \/ \E j \in Jobs : JanitorCancel(j) \/ PartnerCancel(j)
    PROVE  HeardOK'
<1>1. job \in [Jobs -> Row] /\ told' = told /\ calls' = calls
  BY DEF Unbind, JanitorCancel, PartnerCancel, IInv, TypeOK
<1>2. CASE Unbind
  <2>1. \A k \in Jobs : RowHeard(k)
    BY <1>1, <1>2 DEF Unbind, Row, RowHeard, Active, Terminal
  <2> QED
    BY <1>1, <2>1, HeardKeeps DEF CallHeard, Telling
<1>3. ASSUME NEW j \in Jobs, JanitorCancel(j) \/ PartnerCancel(j)
      PROVE  HeardOK'
  <2> DEFINE key == job[j].key /\ j \in ActionJobs
  <2>1. \/ /\ job[j].state \in Active
           /\ \/ job' = [job EXCEPT ![j] = [@ EXCEPT !.state = "cancelled",
                                                     !.by = "janitor", !.key = key]]
              \/ job' = [job EXCEPT ![j] = [@ EXCEPT !.state = "cancelled",
                                                     !.by = "partner"]]
        \/ job' = job
    BY <1>3 DEF JanitorCancel, PartnerCancel, Active
  <2> HIDE DEF key
  <2>2. \/ job' = job
        \/ /\ job[j].state \notin Terminal /\ job'[j].state = "cancelled"
           /\ job'[j].over = job[j].over
           /\ \A k \in Jobs \ {j} : job'[k] = job[k]
    BY <1>1, <2>1 DEF Row, Active, Terminal
  <2>3. \A k \in Jobs : RowHeard(k)
    BY <2>2 DEF RowHeard
  <2> QED
    BY <1>1, <2>3, HeardKeeps DEF CallHeard, Telling
<1>4. QED
  BY <1>2, <1>3

\* The delivery stamps rows; a job that cannot be delivered, and a handler of
\* the panel's own that throws, move rows that have not ended.
LEMMA DeliverHeard ==
    ASSUME IInv, HeardOK, CheckInDeliver
    PROVE  HeardOK'
<1>1. /\ told' = told /\ calls' = calls /\ job \in [Jobs -> Row]
      /\ \A k \in Jobs : \/ job'[k] = job[k]
                         \/ job'[k] = [job[k] EXCEPT !.delivered = TRUE]
  BY DEF CheckInDeliver, IInv, TypeOK
<1>2. \A k \in Jobs : RowHeard(k)
  BY ZenonT(60), <1>1 DEF RowHeard, Row
<1>3. QED
  BY <1>1, <1>2, HeardKeeps DEF CallHeard, Telling

LEMMA FailUndeliverableHeard ==
    ASSUME IInv, HeardOK, NEW j \in Jobs, NEW h \in Calls, FailUndeliverable(j, h)
    PROVE  HeardOK'
<1> DEFINE d == NewCall("received", j, "failure", NoRev, TRUE)
<1>1. job \in [Jobs -> Row] /\ told' = told
  BY DEF FailUndeliverable, IInv, TypeOK
<1>2. \/ /\ job[j].state = "queued" /\ job' = [job EXCEPT ![j].state = "running"]
         /\ calls' = [calls EXCEPT ![h] = d]
      \/ UNCHANGED <<job, calls>>
  BY DEF FailUndeliverable
<1>3. d.pc = "received"
  BY DEF NewCall
<1> HIDE DEF d
<1>4. \A k \in Jobs : RowHeard(k)
  BY <1>1, <1>2 DEF RowHeard, Row, Terminal
<1>5. \A g \in Calls : CallHeard(g)
  BY <1>2, <1>3, OneCallHeard DEF CallHeard, Telling
<1>6. QED
  BY <1>1, <1>4, <1>5, HeardKeeps

LEMMA HandlerErrorHeard ==
    ASSUME IInv, HeardOK, NEW h \in Calls, HandlerError(h)
    PROVE  HeardOK'
<1> DEFINE n == calls[h].job
           key == KeyAfterResult(n, job[n].key, "failure")
<1>1. /\ job \in [Jobs -> Row] /\ told' = told
      /\ calls' = [calls EXCEPT ![h] = NoCall]
  BY DEF HandlerError, IInv, TypeOK
<1>2. \/ /\ job[n].state = "running"
         /\ job' = [job EXCEPT ![n] = [@ EXCEPT !.state = "failed", !.key = key]]
      \/ job' = job
  BY DEF HandlerError
<1> HIDE DEF n, key
<1>3. \A k \in Jobs : RowHeard(k)
  <2>1. \A k \in Jobs : \/ job'[k] = job[k]
                        \/ /\ job[k].state = "running"
                           /\ job'[k] = [job[k] EXCEPT !.state = "failed", !.key = key]
    BY <1>1, <1>2
  <2>2. \A k \in Jobs : \/ job'[k] = job[k]
                        \/ /\ job[k].state = "running" /\ job'[k].state = "failed"
                           /\ job'[k].over = job[k].over
    <3> SUFFICES ASSUME NEW k \in Jobs, job'[k] # job[k]
                 PROVE  /\ job[k].state = "running" /\ job'[k].state = "failed"
                        /\ job'[k].over = job[k].over
      OBVIOUS
    <3>1. job[k] \in Row
      BY <1>1
    <3>2. /\ job[k].state = "running"
          /\ job'[k] = [job[k] EXCEPT !.state = "failed", !.key = key]
      BY <2>1
    <3> QED
      BY Zenon, <3>1, <3>2 DEF Row
  <2> QED
    BY <2>2 DEF RowHeard, Terminal
<1>4. \A g \in Calls : CallHeard(g)
  BY <1>1, OneCallHeard DEF NoCall, NewCall
<1>5. QED
  BY <1>1, <1>3, <1>4, HeardKeeps

\* The steps that leave the rows alone, and tell nobody.
LEMMA OtherHeard ==
    ASSUME IInv, HeardOK, UNCHANGED <<job, told>>, \A g \in Calls : CallHeard(g)
    PROVE  HeardOK'
BY HeardKeeps DEF RowHeard

LEMMA HandlerHeard ==
    ASSUME IInv, HeardOK, NEW h \in Calls,
           HandlerRead(h) \/ HandlerRevision(h) \/ HandlerRouter(h) \/ Respond(h)
    PROVE  HeardOK'
<1>1. UNCHANGED <<job, told>>
  BY DEF HandlerRead, HandlerRevision, HandlerRouter, Respond
<1>2. \A g \in Calls : CallHeard(g)
  <2>1. CASE HandlerRead(h)
    BY <2>1, ReadCall, OneCallHeard
  <2>2. CASE HandlerRevision(h) \/ HandlerRouter(h) \/ Respond(h)
    BY <2>2, FinishCall, OneCallHeard DEF Telling
  <2> QED
    BY <2>1, <2>2
<1>3. QED
  BY <1>1, <1>2, OtherHeard

LEMMA ReceiveAndCrashHeard ==
    ASSUME IInv, HeardOK,
           RouterReports \/ CheckInCrash \/ \E h \in Calls : HandlerCrash(h)
    PROVE  HeardOK'
<1>1. UNCHANGED <<job, told>> /\ calls \in [Calls -> Call]
  BY DEF RouterReports, Receive, CheckInCrash, HandlerCrash, IInv, TypeOK
<1>2. \A g \in Calls : calls'[g] = calls[g] \/ calls'[g].pc \in {"received", "idle"}
  <2>1. CASE RouterReports
    <3>1. PICK h \in Calls, j \in handed, status \in Statuses,
               r \in HandedRevs \cup {NoRev} : Receive(h, j, status, r)
      BY <2>1 DEF RouterReports
    <3> DEFINE taken == IF j \in ConnectJobs THEN NoRev ELSE r
               d == NewCall("received", j, status, taken, FALSE)
    <3>2. calls' = [calls EXCEPT ![h] = d] /\ d.pc = "received"
      BY <3>1 DEF Receive, NewCall
    <3> HIDE DEF d
    <3> QED
      BY <1>1, <3>2
  <2>2. CASE CheckInCrash \/ \E h \in Calls : HandlerCrash(h)
    BY <1>1, <2>2 DEF CheckInCrash, HandlerCrash, NoCall, NewCall
  <2> QED
    BY <2>1, <2>2
<1>3. QED
  BY <1>1, <1>2, OtherHeard DEF CallHeard, Telling

\* The first step that tells: it finds the row unclaimed, and claims it.
LEMMA ReportHeard ==
    ASSUME IInv, HeardOK, NEW h \in Calls, HandlerReport(h)
    PROVE  HeardOK'
<1> DEFINE n == calls[h].job
           more == IF Tells(calls[h]) /\ told[n] < 2 THEN told[n] + 1 ELSE told[n]
<1>1. /\ job \in [Jobs -> Row] /\ told \in [Jobs -> 0..2] /\ n \in Jobs
      /\ calls' = [calls EXCEPT ![h] = Answered(calls[h])]
      /\ \/ /\ job[n].state = "cancelled" /\ ~job[n].reported
            /\ job' = [job EXCEPT ![n].reported = TRUE]
            /\ told' = [told EXCEPT ![n] = more]
         \/ UNCHANGED <<job, told>>
  BY DEF HandlerReport, ToldBy, IInv, TypeOK, PresentOK, Present
<1>2. told[n] = 0 => more <= 1
  OBVIOUS
<1>3. \A g \in Calls : CallHeard(g)
  BY <1>1, OneCallHeard DEF Answered, NewCall
<1> HIDE DEF n, more
<1>4. CASE UNCHANGED <<job, told>>
  BY <1>3, <1>4, OtherHeard
<1>5. CASE /\ job[n].state = "cancelled" /\ ~job[n].reported
           /\ job' = [job EXCEPT ![n].reported = TRUE]
           /\ told' = [told EXCEPT ![n] = more]
  <2>1. \A k \in Jobs \ {n} : told'[k] = told[k] /\ job'[k] = job[k]
    BY <1>1, <1>5
  <2>2. /\ job'[n].state = "cancelled" /\ job'[n].reported
        /\ job'[n].over = job[n].over /\ told'[n] = more
    BY <1>1, <1>5 DEF Row
  <2>3. ~job[n].over => told[n] = 0
    BY <1>1, <1>5 DEF HeardOK, HeardOf
  <2>4. \A k \in Jobs : job'[k].over => job'[k].state # "absent"
    BY <2>1, <2>2 DEF HeardOK
  <2>5. \A k \in Jobs : ~job'[k].over => told'[k] <= 1 /\ (told'[k] = 1 => HeardOf(k)')
    BY <1>2, <2>1, <2>2, <2>3 DEF HeardOK, HeardOf
  <2>6. ASSUME NEW g \in Calls, Telling(g)', ~job'[calls'[g].job].over
        PROVE  /\ job'[calls'[g].job].state \in {"succeeded", "failed"}
               /\ told'[calls'[g].job] = 0
               /\ \A f \in Calls \ {g} : Telling(f)' => calls'[f].job # calls'[g].job
    <3> DEFINE m == calls[g].job
    <3>1. Telling(g) /\ calls'[g].job = m
      BY <1>3, <2>6 DEF CallHeard, Telling
    <3>2. m \in Jobs
      BY <3>1, TellsOfJobs
    <3> HIDE DEF m
    <3>3. ~job[m].over
      BY <2>1, <2>2, <2>6, <3>1, <3>2
    <3>4. /\ job[m].state \in {"succeeded", "failed"} /\ told[m] = 0
          /\ \A f \in Calls \ {g} : Telling(f) => calls[f].job # m
      BY <3>1, <3>3 DEF HeardOK, m
    <3>5. m # n
      BY <1>5, <3>4
    <3> QED
      BY <1>3, <2>1, <3>1, <3>2, <3>4, <3>5 DEF CallHeard, Telling
  <2> QED
    BY <2>4, <2>5, <2>6 DEF HeardOK
<1>6. QED
  BY <1>1, <1>4, <1>5

\* The second: it has ended the row, is alone with it, and has told nobody yet.
LEMMA NotifyHeard ==
    ASSUME IInv, HeardOK, NEW h \in Calls, HandlerNotify(h)
    PROVE  HeardOK'
<1> DEFINE n == calls[h].job
           more == IF Tells(calls[h]) /\ told[n] < 2 THEN told[n] + 1 ELSE told[n]
<1>1. /\ told \in [Jobs -> 0..2] /\ job' = job
      /\ calls' = [calls EXCEPT ![h] = Answered(calls[h])]
      /\ calls \in [Calls -> Call]
      /\ told' = [told EXCEPT ![n] = more] \/ told' = told
      /\ Telling(h)
  BY DEF HandlerNotify, Telling, ToldBy, IInv, TypeOK
<1>2. told[n] = 0 => more <= 1
  OBVIOUS
<1>3. \A g \in Calls : CallHeard(g)
  BY <1>1, OneCallHeard DEF Answered, NewCall
<1>4. calls'[h].pc = "done" /\ n \in Jobs
  BY <1>1, TellsOfJobs DEF Answered, NewCall
<1>5. ~job[n].over => /\ told[n] = 0 /\ job[n].state \in {"succeeded", "failed"}
                      /\ \A g \in Calls \ {h} : Telling(g) => calls[g].job # n
  BY <1>1 DEF HeardOK
<1> HIDE DEF n, more
<1>6. CASE told' = told
  BY <1>1, <1>3, <1>6, OtherHeard
<1>7. CASE told' = [told EXCEPT ![n] = more]
  <2>1. told'[n] = more /\ \A k \in Jobs \ {n} : told'[k] = told[k]
    BY <1>1, <1>4, <1>7
  <2>2. \A k \in Jobs : ~job'[k].over => told'[k] <= 1 /\ (told'[k] = 1 => HeardOf(k)')
    BY <1>1, <1>2, <1>5, <2>1 DEF HeardOK, HeardOf
  <2>3. ASSUME NEW g \in Calls, Telling(g)', ~job'[calls'[g].job].over
        PROVE  /\ job'[calls'[g].job].state \in {"succeeded", "failed"}
               /\ told'[calls'[g].job] = 0
               /\ \A f \in Calls \ {g} : Telling(f)' => calls'[f].job # calls'[g].job
    <3> DEFINE m == calls[g].job
    <3>1. g # h /\ Telling(g) /\ calls'[g].job = m
      BY <1>3, <1>4, <2>3 DEF CallHeard, Telling
    <3>2. m \in Jobs
      BY <3>1, TellsOfJobs
    <3> HIDE DEF m
    <3>3. ~job[m].over
      BY <1>1, <2>3, <3>1
    <3>4. /\ job[m].state \in {"succeeded", "failed"} /\ told[m] = 0
          /\ \A f \in Calls \ {g} : Telling(f) => calls[f].job # m
      BY <3>1, <3>3 DEF HeardOK, m
    <3>5. m # n
      BY <1>1, <3>1, <3>4 DEF n
    <3> QED
      BY <1>1, <1>3, <2>1, <3>1, <3>2, <3>4, <3>5 DEF CallHeard, Telling
  <2> QED
    BY <1>1, <2>2, <2>3 DEF HeardOK
<1>8. QED
  BY <1>1, <1>6, <1>7

\* The write ends a row nobody was told of - or it is a write over an ended one.
LEMMA WriteHeard ==
    ASSUME IInv, HeardOK, NEW h \in Calls, HandlerWrite(h)
    PROVE  HeardOK'
<1> DEFINE c == calls[h]
           n == c.job
           over == job[n].over \/ job[n].state \in Terminal
<1>1. /\ job \in [Jobs -> Row] /\ told' = told /\ n \in Jobs
      /\ calls \in [Calls -> Call] /\ c \in Call /\ c.pc = "write"
  BY DEF HandlerWrite, IInv, TypeOK, PresentOK, Present
<1>2. job' = [job EXCEPT ![n] = [@ EXCEPT !.state = Recorded(c.status), !.key = c.key,
                                          !.delivered = TRUE, !.over = over]]
  BY <1>1 DEF HandlerWrite
<1>3. PICK d : /\ calls' = [calls EXCEPT ![h] = d]
               /\ d.pc \in {"revision", "notify", "done"}
               /\ d.pc # "done" => d.job = n
  BY WriteCall
<1>4. d.pc # "done" => c.status # "accepted"
  BY <1>1, <1>3 DEF HandlerWrite, Answered, NewCall
<1>5. /\ Recorded(c.status) # "absent"
      /\ c.status # "accepted" => Recorded(c.status) \in {"succeeded", "failed"}
  BY DEF Recorded
<1>6. calls'[h] = d /\ \A g \in Calls \ {h} : calls'[g] = calls[g]
  BY <1>1, <1>3
<1>7. ~over => ~job[n].over /\ told[n] = 0 /\ \A g \in Calls : Telling(g) => calls[g].job # n
  BY <1>1, NotEnded
<1>8. ~Telling(h)
  BY <1>1 DEF Telling
<1> HIDE DEF over, n
<1>9. /\ job'[n].state = Recorded(c.status) /\ job'[n].over = over
      /\ \A k \in Jobs \ {n} : job'[k] = job[k]
  BY <1>1, <1>2 DEF Row
<1>10. \A k \in Jobs : job'[k].over => job'[k].state # "absent"
  BY <1>5, <1>9 DEF HeardOK
<1>11. \A k \in Jobs : ~job'[k].over => told'[k] <= 1 /\ (told'[k] = 1 => HeardOf(k)')
  BY <1>1, <1>7, <1>9 DEF HeardOK, HeardOf
<1>12. ASSUME NEW g \in Calls, Telling(g)', ~job'[calls'[g].job].over
       PROVE  /\ job'[calls'[g].job].state \in {"succeeded", "failed"}
              /\ told'[calls'[g].job] = 0
              /\ \A f \in Calls \ {g} : Telling(f)' => calls'[f].job # calls'[g].job
  <2>1. \A f \in Calls \ {h} : Telling(f)' => Telling(f) /\ calls'[f].job = calls[f].job
    BY <1>6 DEF Telling
  <2>2. Telling(h)' => calls'[h].job = n /\ c.status # "accepted"
    BY <1>3, <1>4, <1>6 DEF Telling
  <2>3. CASE g = h
    <3>1. calls'[g].job = n /\ ~over
      BY <1>9, <1>12, <2>2, <2>3
    <3> QED
      BY <1>1, <1>5, <1>7, <1>9, <1>12, <2>1, <2>2, <2>3, <3>1
  <2>4. CASE g # h
    <3> DEFINE m == calls[g].job
    <3>1. Telling(g) /\ calls'[g].job = m
      BY <1>12, <2>1, <2>4
    <3>2. m \in Jobs
      BY <3>1, TellsOfJobs
    <3>3. m # n
      BY <1>7, <1>9, <1>12, <3>1
    <3> HIDE DEF m
    <3>4. ~job[m].over
      BY <1>9, <1>12, <3>1, <3>2, <3>3
    <3>5. /\ job[m].state \in {"succeeded", "failed"} /\ told[m] = 0
          /\ \A f \in Calls \ {g} : Telling(f) => calls[f].job # m
      BY <3>1, <3>4 DEF HeardOK, m
    <3> QED
      BY <1>1, <1>9, <2>1, <2>2, <3>1, <3>2, <3>3, <3>5
  <2> QED
    BY <2>3, <2>4
<1>13. QED
  BY <1>10, <1>11, <1>12 DEF HeardOK

LEMMA InitHeard == Init => HeardOK
BY DEF Init, HeardOK, NewRow, Telling, NoCall, NewCall

LEMMA NextHeard == IInv /\ HeardOK /\ [Next]_vars => HeardOK'
<1> SUFFICES ASSUME IInv, HeardOK, [Next]_vars PROVE HeardOK'
  OBVIOUS
<1>1. ASSUME UNCHANGED <<job, told, calls>> PROVE HeardOK'
  BY <1>1, OtherHeard DEF CallHeard, Telling
<1>2. CASE UNCHANGED vars
  BY <1>1, <1>2 DEF vars
<1>3. ASSUME NEW j \in Jobs, JobStep(j) PROVE HeardOK'
  <2>1. CASE JanitorFails(j)
    BY <1>1, <2>1 DEF JanitorFails
  <2> QED
    BY <1>3, <2>1, InsertHeard, CancelHeard DEF JobStep
<1>4. ASSUME NEW h \in Calls, CallStep(h) \/ HandlerError(h) \/ HandlerCrash(h) \/ Respond(h)
      PROVE  HeardOK'
  BY <1>4, HandlerHeard, ReportHeard, WriteHeard, NotifyHeard, HandlerErrorHeard,
     ReceiveAndCrashHeard DEF CallStep
<1>5. CASE \/ CheckInDeliver \/ Unbind \/ CheckInCrash \/ RouterReports
           \/ \E j \in Jobs, h \in Calls : FailUndeliverable(j, h)
  BY <1>5, DeliverHeard, CancelHeard, ReceiveAndCrashHeard, FailUndeliverableHeard
<1>6. CASE CheckInRead \/ CheckInAnswer \/ JanitorScan \/ \E r \in Revs : Author(r)
  BY <1>1, <1>6 DEF CheckInRead, CheckInAnswer, JanitorScan, Author
<1>7. QED
  BY <1>2, <1>3, <1>4, <1>5, <1>6 DEF Next, PanelStep

\* However many requests report an action at once, are repeated, fail or die, and
\* whoever cancels it, its owner hears of it at most once, unless a result was
\* written over its row after the row had ended.
THEOREM ToldOnce == Spec => []ToldOnceUnlessOverwritten
<1>1. HeardOK => ToldOnceUnlessOverwritten
  BY DEF HeardOK, ToldOnceUnlessOverwritten
<1>2. Spec => []HeardOK
  BY Invariance, InitHeard, NextHeard, PTL DEF Spec
<1>3. QED
  BY <1>1, <1>2, PTL
=============================================================================
