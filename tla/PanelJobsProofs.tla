-------------------------- MODULE PanelJobsProofs --------------------------
(***************************************************************************)
(* Theorems about PanelJobs for any set of jobs, targets and concurrent    *)
(* requests: its types, and that no two unfinished jobs share a key.       *)
(***************************************************************************)
EXTENDS PanelJobs, FiniteSetTheorems, WellFoundedInduction, TLAPS

(***************************************************************************)
(* The order of delivery.                                                  *)
(***************************************************************************)
\* Some of the rows there are is the least by any measure in Nat.
LEMMA LeastExists ==
    ASSUME NEW S, S # {}, NEW f, \A j \in S : f[j] \in Nat
    PROVE  \E j \in S : \A k \in S : f[j] <= f[k]
<1> DEFINE T == {f[j] : j \in S}
<1>1. T \subseteq Nat /\ T # {}
  OBVIOUS
<1>2. PICK x \in T : \A y \in T : ~(<<y, x>> \in OpToRel(<, Nat))
  <2> HIDE DEF T
  <2> QED BY <1>1, WFMin, NatLessThanWellFounded
<1>3. \A y \in T : ~(y < x)
  BY <1>1, <1>2 DEF OpToRel
<1>4. QED
  BY <1>1, <1>3

\* The rows of the table are finitely many.
LEMMA PresentFinite ==
    IsFiniteSet(Present) /\ Cardinality(Present) \in Nat
BY Finite, FS_Subset, FS_CardinalityType DEF Present

\* FirstOf names the row of S that comes first in the order of delivery.
LEMMA FirstIsFirst ==
    ASSUME BirthsOK, NEW S \in SUBSET Present, S # {}
    PROVE  FirstOf(S) \in S /\ \A k \in S \ {FirstOf(S)} : Precedes(FirstOf(S), k)
<1> DEFINE n == Cardinality(Present)
           up == [j \in S |-> job[j].born]
           down == [j \in S |-> n - job[j].born]
<1>1. /\ \A j \in S : job[j].born \in Nat /\ n - job[j].born \in Nat
      /\ \A j, k \in S : j # k => job[j].born # job[k].born
  BY PresentFinite DEF BirthsOK
<1>2. \E j \in S : \A k \in S \ {j} : Precedes(j, k)
  <2>1. CASE PassWall
    <3>1. PICK j \in S : \A k \in S : down[j] <= down[k]
      <4> HIDE DEF n
      <4>1. \A j \in S : down[j] \in Nat
        BY <1>1 DEF n
      <4> HIDE DEF down
      <4> QED BY <4>1, LeastExists
    <3>2. \A k \in S \ {j} : job[j].born > job[k].born
      BY <1>1, <3>1, PresentFinite
    <3> QED BY <2>1, <3>2 DEF Precedes
  <2>2. CASE ~PassWall
    <3>1. PICK j \in S : \A k \in S : up[j] <= up[k]
      <4>1. \A j \in S : up[j] \in Nat
        BY <1>1
      <4> HIDE DEF up
      <4> QED BY <4>1, LeastExists
    <3>2. \A k \in S \ {j} : job[j].born < job[k].born
      BY <1>1, <3>1
    <3> QED BY <2>2, <3>2 DEF Precedes
  <2> QED BY <2>1, <2>2
<1>3. QED
  BY <1>2 DEF FirstOf

\* What a check-in hands out is queued, whatever the engine and the approval.
LEMMA DeliverableQueued ==
    ASSUME BirthsOK
    PROVE  Deliverable(Candidates) \subseteq Queued
<1> DEFINE allowed == IF router.approved THEN Candidates \ Unrunnable
                      ELSE Candidates \ (Unrunnable \cup ApplyJobs \cup ConnectJobs)
           exclusive == allowed \cap ExclusiveJobs
<1>1. allowed \subseteq Queued /\ Queued \subseteq Present
  BY DEF Candidates, Queued, Present
<1>2. exclusive # {} => FirstOf(exclusive) \in exclusive
  BY <1>1, FirstIsFirst
<1>3. Deliverable(Candidates) = IF exclusive # {} THEN {FirstOf(exclusive)} ELSE allowed
  BY DEF Deliverable
<1>4. QED
  BY <1>1, <1>2, <1>3

\* The revision of an answer is one of the revisions there are.
LEMMA DesiredRevisionType ==
    ASSUME TypeOK, BirthsOK, NEW batch \in SUBSET Present, NEW last \in Revs \cup {NoRev}
    PROVE  DesiredRevision(batch, last) \in Revs \cup {NoRev}
<1> DEFINE applies == batch \cap ApplyJobs
<1>1. applies # {} => FirstOf(applies) \in applies
  BY FirstIsFirst
<1>2. router.active \in Revs \cup {NoRev} /\ router.approved \in BOOLEAN
  BY DEF TypeOK, RouterRow
<1>3. applies # {} => Target[FirstOf(applies)] \in Revs
  BY <1>1 DEF Revs
<1>4. QED
  BY <1>2, <1>3 DEF DesiredRevision

-----------------------------------------------------------------------------
(***************************************************************************)
(* Parts of the invariant that a step leaves alone.                        *)
(***************************************************************************)
\* A step that inserts no row and renumbers none keeps the order.
LEMMA BirthsKept ==
    ASSUME BirthsOK,
           \A j \in Jobs : /\ job'[j].born = job[j].born
                           /\ (job'[j].state = "absent") <=> (job[j].state = "absent")
    PROVE  BirthsOK' /\ Present' = Present
<1>1. Present' = Present
  BY DEF Present
<1>2. \A j \in Present : job'[j].born = job[j].born
  BY DEF Present
<1>3. QED
  BY <1>1, <1>2 DEF BirthsOK

\* A new row gets the number after the last one.
LEMMA InsertKeepsBirths ==
    ASSUME TypeOK, BirthsOK, NEW j \in Jobs, Insert(j)
    PROVE  /\ BirthsOK'
           /\ Present' = Present \cup {j}
           /\ job' \in [Jobs -> Row]
<1> DEFINE owner == IF j \in ActionJobs THEN router.owner ELSE NoOwner
<1>1. /\ job \in [Jobs -> Row] /\ j \notin Present
      /\ job' = [job EXCEPT
                    ![j] = NewRow("queued", TRUE, owner, 1 + Cardinality(Present))]
      /\ owner \in Owners \cup {NoOwner}
  BY DEF TypeOK, RouterRow, Insert, Present
<1> HIDE DEF owner
<1>2. /\ \A k \in Jobs \ {j} : job'[k] = job[k]
      /\ job'[j].state = "queued" /\ job'[j].born = 1 + Cardinality(Present)
  BY <1>1 DEF NewRow
<1>3. Present' = Present \cup {j}
  BY <1>2 DEF Present
<1>4. Cardinality(Present') = Cardinality(Present) + 1
  BY <1>1, <1>3, PresentFinite, FS_AddElement
<1>5. \A k \in Present : k # j /\ job'[k].born = job[k].born
  BY <1>1, <1>2 DEF Present
<1>6. BirthsOK'
  <2>1. \A k \in Present' : job'[k].born \in 1..Cardinality(Present')
    BY <1>2, <1>3, <1>4, <1>5, PresentFinite DEF BirthsOK
  <2>2. \A k \in Present : job'[k].born # job'[j].born
    BY <1>2, <1>5, PresentFinite DEF BirthsOK
  <2>3. \A k, l \in Present' : k # l => job'[k].born # job'[l].born
    BY <1>3, <1>5, <2>2 DEF BirthsOK
  <2> QED BY <2>1, <2>3 DEF BirthsOK
<1>7. job' \in [Jobs -> Row]
  BY <1>1, PresentFinite DEF Row, NewRow, States, Active, Terminal, Cancellers
<1>8. QED
  BY <1>3, <1>6, <1>7

\* Its key was free, and it takes it.
LEMMA InsertKeepsKeys ==
    ASSUME TypeOK, KeysOK, NEW j \in Jobs, Insert(j), UNCHANGED calls
    PROVE  KeysOK'
<1>1. /\ \A k \in Jobs \ {j} : job'[k] = job[k]
      /\ job'[j].key
      /\ \A k \in Jobs \ {j} : Target[k] = Target[j] => ~job[k].key
  BY DEF TypeOK, Insert, KeyFree, NewRow
<1>2. QED
  BY <1>1 DEF KeysOK

\* The calls that are over, or were never there.
LEMMA BlankCalls ==
    ASSUME NEW c \in Call
    PROVE  /\ NoCall \in Call /\ NoCall.pc = "idle"
           /\ Answered(c) \in Call /\ Answered(c).pc = "done"
BY DEF Call, NoCall, Answered, NewCall, Steps, Statuses

LEMMA OnwardCall ==
    ASSUME NEW c \in Call
    PROVE  /\ Onward(c) \in Call /\ Onward(c).pc \in {"notify", "done"}
           /\ Onward(c).pc = "notify" => Onward(c).job = c.job
<1>1. CASE c.job \in ActionJobs
  <2> DEFINE d == [c EXCEPT !.pc = "notify", !.key = FALSE]
  <2>1. d \in Call /\ d.pc = "notify" /\ d.job = c.job
    BY DEF Call, Steps
  <2> QED BY <1>1, <2>1 DEF Onward
<1>2. CASE c.job \notin ActionJobs
  BY <1>2, BlankCalls DEF Onward
<1>3. QED
  BY <1>1, <1>2

\* One call changes, and what it becomes satisfies its part of the invariant.
LEMMA OneCallKeeps ==
    ASSUME IInv, NEW h \in Calls, NEW d \in Call, calls' = [calls EXCEPT ![h] = d],
           UNCHANGED <<job, checkin, handed>>,
           d.pc \notin {"idle", "done"} => d.job \in Present,
           d.pc \in {"revision", "router"} => AppliedRevision(d) \in Revs,
           d.pc = "write" /\ d.status = "accepted" => d.key
    PROVE  /\ calls' \in [Calls -> Call] /\ BirthsOK' /\ PresentOK' /\ KeysOK'
<1>1. /\ calls' \in [Calls -> Call]
      /\ \A g \in Calls : calls'[g] = IF g = h THEN d ELSE calls[g]
  BY DEF IInv, TypeOK
<1>2. BirthsOK' /\ Present' = Present
  BY BirthsKept DEF IInv
<1>3. PresentOK'
  <2>1. \A g \in Calls :
          /\ calls'[g].pc \notin {"idle", "done"} => calls'[g].job \in Present
          /\ calls'[g].pc \in {"revision", "router"} => AppliedRevision(calls'[g]) \in Revs
    BY <1>1 DEF IInv, PresentOK
  <2>2. \A g \in Calls : AppliedRevision(calls[g])' = AppliedRevision(calls'[g])
    BY DEF AppliedRevision
  <2> QED BY <1>2, <2>1, <2>2 DEF IInv, PresentOK
<1>4. KeysOK'
  BY <1>1 DEF IInv, KeysOK
<1>5. QED
  BY <1>1, <1>2, <1>3, <1>4

\* An owner is told once more, or not.
LEMMA ToldType ==
    ASSUME TypeOK, NEW c
    PROVE  ToldBy(c) \in [Jobs -> 0..2]
<1> DEFINE n == c.job
           m == IF Tells(c) /\ told[n] < 2 THEN told[n] + 1 ELSE told[n]
<1>1. told \in [Jobs -> 0..2] /\ ToldBy(c) = [told EXCEPT ![n] = m]
  BY DEF TypeOK, ToldBy
<1>2. n \in Jobs => m \in 0..2
  <2> HIDE DEF n
  <2> QED BY <1>1
<1> HIDE DEF n, m
<1>3. QED
  BY <1>1, <1>2

-----------------------------------------------------------------------------
(***************************************************************************)
(* Queueing.                                                               *)
(***************************************************************************)
\* What an insert leaves to show is the type of the revisions and the router.
LEMMA InsertKeeps ==
    ASSUME IInv, NEW j \in Jobs, Insert(j),
           UNCHANGED <<calls, checkin, handed, sweep, told>>,
           router' \in RouterRow,
           rev' \in [Revs -> RevStates]
    PROVE  IInv'
<1>1. BirthsOK' /\ Present' = Present \cup {j} /\ job' \in [Jobs -> Row]
  BY InsertKeepsBirths DEF IInv
<1>2. TypeOK'
  BY <1>1 DEF IInv, TypeOK
<1>3. PresentOK'
  BY <1>1 DEF IInv, PresentOK, AppliedRevision
<1>4. KeysOK'
  BY InsertKeepsKeys DEF IInv
<1>5. QED
  BY <1>1, <1>2, <1>3, <1>4 DEF IInv

LEMMA QueueKeeps ==
    ASSUME IInv, NEW j \in Jobs, QueueApply(j) \/ QueueAction(j) \/ QueueOther(j)
    PROVE  IInv'
<1>1. Insert(j) /\ UNCHANGED <<calls, checkin, handed, sweep, told>>
  BY DEF QueueApply, QueueAction, QueueOther
<1>2. router' \in RouterRow
  BY DEF QueueApply, QueueAction, QueueOther, IInv, TypeOK, RouterRow
<1>3. rev' \in [Revs -> RevStates]
  BY DEF QueueApply, QueueAction, QueueOther, IInv, TypeOK, RevStates
<1>4. QED
  BY <1>1, <1>2, <1>3, InsertKeeps

LEMMA ClaimKeeps ==
    ASSUME IInv, NEW j \in Jobs, Claim(j)
    PROVE  IInv'
<1>1. router' \in RouterRow
  BY DEF Claim, IInv, TypeOK, RouterRow
<1>2. rev' \in [Revs -> RevStates]
  BY DEF Claim, IInv, TypeOK, RevStates
<1>3. QED
  BY <1>1, <1>2, InsertKeeps DEF Claim

-----------------------------------------------------------------------------
(***************************************************************************)
(* Steps that leave the job rows alone.                                    *)
(***************************************************************************)
LEMMA CheckInReadKeeps ==
    ASSUME IInv, CheckInRead
    PROVE  IInv'
<1> DEFINE batch == Deliverable(Candidates)
           left == IF PassWall THEN {} ELSE Candidates \cap Unrunnable
<1>1. batch \subseteq Present /\ left \subseteq Present
  BY DeliverableQueued DEF IInv, Queued, Candidates, Present
<1>2. PICK reported \in HandedRevs \cup {NoRev} :
        LET last == IF reported # NoRev THEN reported ELSE router.last
            desired == DesiredRevision(batch, last)
        IN  /\ router' = [router EXCEPT !.last = last]
            /\ checkin' = [pc |-> "read", batch |-> batch,
                           rev |-> IF AlreadyHolds(batch, reported, desired)
                                   THEN NoRev ELSE desired,
                           todo |-> left]
  BY DEF CheckInRead
<1> DEFINE last == IF reported # NoRev THEN reported ELSE router.last
<1>3. last \in Revs \cup {NoRev}
  BY DEF HandedRevs, IInv, TypeOK, RouterRow, Revs
<1>4. DesiredRevision(batch, last) \in Revs \cup {NoRev}
  <2> HIDE DEF batch, last
  <2> QED BY <1>1, <1>3, DesiredRevisionType DEF IInv, batch
<1>5. UNCHANGED <<job, rev, calls, handed, sweep, told>>
  BY DEF CheckInRead
<1> DEFINE sentRev == IF AlreadyHolds(batch, reported, DesiredRevision(batch, last))
                      THEN NoRev ELSE DesiredRevision(batch, last)
<1>6. /\ router' = [router EXCEPT !.last = last]
       /\ checkin' = [pc |-> "read", batch |-> batch, rev |-> sentRev,
                      todo |-> left]
  BY <1>2
<1>7. sentRev \in Revs \cup {NoRev}
  BY <1>4
<1> HIDE DEF batch, left, last, sentRev
<1>8. router' \in RouterRow
  BY <1>6, <1>3 DEF IInv, TypeOK, RouterRow
<1>9. BirthsOK' /\ Present' = Present
  BY <1>5, BirthsKept DEF IInv
<1>10. TypeOK'
  <2>1. checkin' \in [pc: {"idle", "read", "answer"}, batch: SUBSET Jobs,
                      rev: Revs \cup {NoRev}, todo: SUBSET Jobs]
    BY <1>1, <1>6, <1>7 DEF Present
  <2> QED BY <1>5, <1>8, <2>1 DEF IInv, TypeOK
<1>11. PresentOK'
  BY <1>1, <1>6, <1>5, <1>9 DEF IInv, PresentOK, AppliedRevision
<1>12. KeysOK'
  BY <1>5 DEF IInv, KeysOK
<1>13. QED
  BY <1>9, <1>10, <1>11, <1>12 DEF IInv

LEMMA CheckInEndsKeeps ==
    ASSUME IInv, CheckInAnswer \/ CheckInCrash
    PROVE  IInv'
<1>1. /\ UNCHANGED <<job, router, rev, handed, sweep, told>>
      /\ checkin' = NoCheckIn
      /\ calls' \in [Calls -> Call]
      /\ \A h \in Calls : calls'[h] = calls[h] \/ calls'[h] = NoCall
  <2>1. CASE CheckInAnswer
    BY <2>1 DEF CheckInAnswer, IInv, TypeOK
  <2>2. CASE CheckInCrash
    BY <2>2, BlankCalls DEF CheckInCrash, IInv, TypeOK
  <2> QED BY <2>1, <2>2
<1>2. BirthsOK' /\ Present' = Present
  BY <1>1, BirthsKept DEF IInv
<1>3. TypeOK'
  BY <1>1 DEF IInv, TypeOK, NoCheckIn
<1>4. PresentOK'
  BY <1>1, <1>2 DEF IInv, PresentOK, AppliedRevision, NoCheckIn, NoCall, NewCall
<1>5. KeysOK'
  BY <1>1 DEF IInv, KeysOK, NoCall, NewCall
<1>6. QED
  BY <1>2, <1>3, <1>4, <1>5 DEF IInv

LEMMA ReceiveKeeps ==
    ASSUME IInv, NEW h \in Calls, NEW j \in handed, NEW status \in Statuses,
           NEW r \in Revs \cup {NoRev}, Receive(h, j, status, r)
    PROVE  IInv'
<1> DEFINE taken == IF j \in ConnectJobs THEN NoRev ELSE r
           d == NewCall("received", j, status, taken, FALSE)
<1>1. j \in Present /\ j \in Jobs
  BY DEF IInv, PresentOK, Present
<1>2. d \in Call /\ d.pc = "received" /\ d.job = j
  BY <1>1 DEF Call, NewCall, Steps
<1>3. /\ UNCHANGED <<job, router, rev, checkin, handed, sweep, told>>
      /\ calls' = [calls EXCEPT ![h] = d]
  BY DEF Receive
<1> HIDE DEF d
<1>4. calls' \in [Calls -> Call] /\ BirthsOK' /\ PresentOK' /\ KeysOK'
  BY <1>1, <1>2, <1>3, OneCallKeeps
<1>5. QED
  BY <1>3, <1>4 DEF IInv, TypeOK

\* What the read makes of a call: the report of a cancelled action that ran, an
\* early answer, or the write of a result with the key the row has now.
LEMMA ReadCall ==
    ASSUME IInv, NEW h \in Calls, HandlerRead(h)
    PROVE  \E d \in Call :
              /\ calls' = [calls EXCEPT ![h] = d]
              /\ d.pc \in {"report", "done", "write"}
              /\ d.pc # "done" => d.job = calls[h].job /\ d.status = calls[h].status
              /\ d.pc = "write" =>
                    /\ ~AlreadyRecorded(job[d.job].state, d.status)
                    /\ d.key = KeyAfterResult(d.job, job[d.job].key, d.status)
<1> DEFINE c == calls[h]
           key == KeyAfterResult(c.job, job[c.job].key, c.status)
           hears == Hears(c.job) /\ c.status # "accepted"
<1>1. c \in Call /\ hears \in BOOLEAN /\ key \in BOOLEAN
  BY DEF HandlerRead, IInv, TypeOK, Hears, PresentOK, Present, KeyAfterResult, Row
<1>2. PICK d : /\ calls' = [calls EXCEPT ![h] = d]
               /\ \/ d = [c EXCEPT !.hears = hears, !.pc = "report"]
                  \/ d = Answered(c)
                  \/ /\ d = [c EXCEPT !.hears = hears, !.pc = "write", !.key = key]
                     /\ ~AlreadyRecorded(job[c.job].state, c.status)
  BY <1>1 DEF HandlerRead, Answered, Call
<1> HIDE DEF key, hears, c
<1>3. CASE d = [c EXCEPT !.hears = hears, !.pc = "report"]
  <2>1. d \in Call /\ d.pc = "report" /\ d.job = c.job /\ d.status = c.status
    BY <1>1, <1>3 DEF Call, Steps
  <2> QED BY <1>2, <2>1 DEF c
<1>4. CASE d = Answered(c)
  BY <1>1, <1>2, <1>4, BlankCalls
<1>5. CASE /\ d = [c EXCEPT !.hears = hears, !.pc = "write", !.key = key]
           /\ ~AlreadyRecorded(job[c.job].state, c.status)
  <2>1. d \in Call /\ d.pc = "write" /\ d.job = c.job /\ d.status = c.status
    BY <1>1, <1>5 DEF Call, Steps
  <2>2. d.key = key
    BY <1>1, <1>5 DEF Call
  <2> QED BY <1>2, <1>5, <2>1, <2>2 DEF c, key
<1>6. QED
  BY <1>2, <1>3, <1>4, <1>5

\* What the write makes of a call: the statement after it, or the answer.
LEMMA WriteCall ==
    ASSUME IInv, NEW h \in Calls, HandlerWrite(h)
    PROVE  \E d \in Call :
              /\ calls' = [calls EXCEPT ![h] = d]
              /\ d.pc \in {"revision", "notify", "done"}
              /\ d.pc # "done" => d.job = calls[h].job
              /\ d.pc = "revision" => AppliedRevision(d) \in Revs
<1> DEFINE c == calls[h]
           e == [c EXCEPT !.pc = "revision", !.key = FALSE]
<1>1. c \in Call
  BY DEF IInv, TypeOK
<1>2. PICK d : /\ calls' = [calls EXCEPT ![h] = d]
               /\ \/ d = Answered(c) \/ d = Onward(c)
                  \/ d = e /\ AppliedRevision(c) # NoRev
  BY DEF HandlerWrite
<1>3. AppliedRevision(c) \in Revs \cup {NoRev}
  BY <1>1 DEF AppliedRevision, Call, Revs
<1>4. e \in Call /\ e.pc = "revision" /\ e.job = c.job /\ e.rev = c.rev
  BY <1>1 DEF Call, Steps
<1> HIDE DEF c, e
<1>5. CASE d = e /\ AppliedRevision(c) # NoRev
  BY <1>2, <1>3, <1>4, <1>5 DEF AppliedRevision, c
<1>6. CASE d = Answered(c) \/ d = Onward(c)
  BY <1>1, <1>2, <1>6, BlankCalls, OnwardCall DEF c
<1>7. QED
  BY <1>2, <1>5, <1>6

\* What the statements after the write make of a call.
LEMMA FinishCall ==
    ASSUME IInv, NEW h \in Calls,
           HandlerRevision(h) \/ HandlerRouter(h) \/ HandlerNotify(h) \/ Respond(h)
    PROVE  \E d \in Call :
              /\ calls' = [calls EXCEPT ![h] = d]
              /\ d.pc \in {"router", "notify", "idle", "done"}
              /\ d.pc \in {"router", "notify"} =>
                    calls[h].pc \in {"revision", "router"} /\ d.job = calls[h].job
              /\ d.pc = "router" =>
                    AppliedRevision(d) = AppliedRevision(calls[h])
<1> DEFINE c == calls[h]
           e == [c EXCEPT !.pc = "router"]
           heard == [c EXCEPT !.hears = Hears(c.job)]
<1>1. c \in Call
  BY DEF IInv, TypeOK
<1>2. PICK d : /\ calls' = [calls EXCEPT ![h] = d]
               /\ \/ d = Answered(c) \/ d = NoCall
                  \/ /\ c.pc \in {"revision", "router"}
                     /\ d = e \/ d = Onward(c) \/ d = Onward(heard)
  BY DEF HandlerRevision, HandlerRouter, HandlerNotify, Respond
<1>3. /\ e \in Call /\ e.pc = "router" /\ e.job = c.job /\ e.rev = c.rev
      /\ heard \in Call /\ heard.job = c.job
  BY <1>1 DEF Call, Steps, Hears
<1> HIDE DEF c, e, heard
<1>4. CASE c.pc \in {"revision", "router"} /\ d = e
  BY <1>2, <1>3, <1>4 DEF AppliedRevision, c
<1>5. CASE c.pc \in {"revision", "router"} /\ (d = Onward(c) \/ d = Onward(heard))
  BY <1>1, <1>2, <1>3, <1>5, OnwardCall DEF c
<1>6. CASE d = Answered(c) \/ d = NoCall
  BY <1>1, <1>2, <1>6, BlankCalls
<1>7. QED
  BY <1>2, <1>4, <1>5, <1>6

LEMMA HandlerReadKeeps ==
    ASSUME IInv, NEW h \in Calls, HandlerRead(h)
    PROVE  IInv'
<1>1. /\ UNCHANGED <<job, router, rev, checkin, handed, sweep, told>>
      /\ calls[h].pc = "received"
      /\ calls[h].job \in Present /\ job[calls[h].job] \in Row
  BY DEF HandlerRead, IInv, TypeOK, PresentOK, Present
<1>2. PICK d \in Call :
         /\ calls' = [calls EXCEPT ![h] = d]
         /\ d.pc \in {"report", "done", "write"}
         /\ d.pc # "done" => d.job = calls[h].job /\ d.status = calls[h].status
         /\ d.pc = "write" =>
               /\ ~AlreadyRecorded(job[d.job].state, d.status)
               /\ d.key = KeyAfterResult(d.job, job[d.job].key, d.status)
  BY ReadCall
<1>3. d.pc = "write" /\ d.status = "accepted" => d.key
  BY <1>1, <1>2 DEF IInv, KeysOK, AlreadyRecorded, KeyAfterResult, Present, Row, States,
                    Terminal, Active
<1>4. calls' \in [Calls -> Call] /\ BirthsOK' /\ PresentOK' /\ KeysOK'
  BY <1>1, <1>2, <1>3, OneCallKeeps
<1>5. QED
  BY <1>1, <1>4 DEF IInv, TypeOK

\* The statements of the handler after the row: the revision, the router and
\* the owner's event, and its answer.
LEMMA HandlerFinishKeeps ==
    ASSUME IInv, NEW h \in Calls,
           HandlerRevision(h) \/ HandlerRouter(h) \/ HandlerNotify(h) \/ Respond(h)
    PROVE  IInv'
<1> DEFINE c == calls[h]
<1>1. /\ UNCHANGED <<job, checkin, handed, sweep>>
      /\ c \in Call
      /\ c.pc \in {"revision", "router"} =>
            c.job \in Present /\ AppliedRevision(c) \in Revs
  BY DEF HandlerRevision, HandlerRouter, HandlerNotify, Respond, IInv, TypeOK, PresentOK
<1>2. PICK d \in Call :
         /\ calls' = [calls EXCEPT ![h] = d]
         /\ d.pc \in {"router", "notify", "idle", "done"}
         /\ d.pc \in {"router", "notify"} =>
               c.pc \in {"revision", "router"} /\ d.job = c.job
         /\ d.pc = "router" => AppliedRevision(d) = AppliedRevision(c)
  BY FinishCall
<1>3. calls' \in [Calls -> Call] /\ BirthsOK' /\ PresentOK' /\ KeysOK'
  BY <1>1, <1>2, OneCallKeeps
<1>4. router' \in RouterRow
  BY <1>1 DEF HandlerRevision, HandlerRouter, HandlerNotify, Respond, IInv, TypeOK, RouterRow
<1>5. rev' \in [Revs -> RevStates]
  BY <1>1 DEF HandlerRevision, HandlerRouter, HandlerNotify, Respond, IInv, TypeOK, RevStates
<1>6. told' \in [Jobs -> 0..2]
  BY ToldType DEF HandlerRevision, HandlerRouter, HandlerNotify, Respond, IInv, TypeOK
<1>7. sweep' \subseteq Jobs /\ handed' \subseteq Jobs
  BY <1>1 DEF IInv, TypeOK
<1>8. QED
  BY <1>1, <1>3, <1>4, <1>5, <1>6, <1>7 DEF IInv, TypeOK

\* A draft is saved: only a revision changes.
LEMMA AuthorKeeps ==
    ASSUME IInv, NEW r \in Revs, Author(r)
    PROVE  IInv'
<1>1. /\ UNCHANGED <<job, router, calls, checkin, handed, sweep, told>>
      /\ rev' \in [Revs -> RevStates]
  BY DEF Author, IInv, TypeOK, RevStates
<1>2. BirthsOK' /\ Present' = Present
  BY <1>1, BirthsKept DEF IInv
<1>3. TypeOK'
  BY <1>1 DEF IInv, TypeOK
<1>4. PresentOK'
  BY <1>1, <1>2 DEF IInv, PresentOK, AppliedRevision
<1>5. KeysOK'
  BY <1>1 DEF IInv, KeysOK
<1>6. QED
  BY <1>2, <1>3, <1>4, <1>5 DEF IInv

LEMMA SweepKeeps ==
    ASSUME IInv, JanitorScan \/ \E j \in Jobs : JanitorFails(j)
    PROVE  IInv'
<1>1. /\ UNCHANGED <<job, router, rev, calls, checkin, handed, told>>
      /\ sweep' \subseteq Jobs
  BY DEF JanitorScan, JanitorFails, Stuck, IInv, TypeOK
<1>2. BirthsOK' /\ Present' = Present
  BY <1>1, BirthsKept DEF IInv
<1>3. TypeOK'
  BY <1>1 DEF IInv, TypeOK
<1>4. PresentOK'
  BY <1>1, <1>2 DEF IInv, PresentOK, AppliedRevision
<1>5. KeysOK'
  BY <1>1 DEF IInv, KeysOK
<1>6. QED
  BY <1>2, <1>3, <1>4, <1>5 DEF IInv

-----------------------------------------------------------------------------
(***************************************************************************)
(* Steps that change job rows and insert none.                             *)
(***************************************************************************)
\* What a call in flight must satisfy for the invariant.
CallOK(d) ==
    /\ d.pc \notin {"idle", "done"} => d.job \in Present
    /\ d.pc \in {"revision", "router"} => AppliedRevision(d) \in Revs
    /\ d.pc = "write" /\ d.status = "accepted" => d.key

\* A call that is over satisfies it.
LEMMA OverOK == ASSUME NEW d, d.pc \in {"idle", "done"} PROVE CallOK(d)
BY DEF CallOK

\* The rows keep their numbers and are all still there: everything that is
\* remembered about a row still names one.
LEMMA RowsKeep ==
    ASSUME IInv,
           \A j \in Jobs : /\ job'[j].born = job[j].born
                           /\ (job'[j].state = "absent") <=> (job[j].state = "absent"),
           \A h \in Calls : calls'[h] = calls[h] \/ CallOK(calls'[h]),
           checkin'.batch \subseteq Present, checkin'.todo \subseteq Present,
           handed' \subseteq Present
    PROVE  BirthsOK' /\ PresentOK'
<1>1. BirthsOK' /\ Present' = Present
  BY BirthsKept DEF IInv
<1>2. \A h \in Calls :
        /\ calls'[h].pc \notin {"idle", "done"} => calls'[h].job \in Present
        /\ calls'[h].pc \in {"revision", "router"} => AppliedRevision(calls'[h]) \in Revs
  BY DEF IInv, PresentOK, CallOK
<1>3. \A h \in Calls : AppliedRevision(calls[h])' = AppliedRevision(calls'[h])
  BY DEF AppliedRevision
<1>4. QED
  BY <1>1, <1>2, <1>3 DEF PresentOK

\* No job takes a key, and every unfinished one still has its own.
LEMMA KeysKeep ==
    ASSUME KeysOK,
           \A j \in Jobs : /\ job'[j].key => job[j].key
                           /\ job'[j].state \in Active =>
                                  job[j].state \in Active /\ (job[j].key => job'[j].key),
           \A h \in Calls : calls'[h] = calls[h] \/ CallOK(calls'[h])
    PROVE  KeysOK'
BY DEF KeysOK, CallOK

LEMMA CheckInDeliverKeeps ==
    ASSUME IInv, CheckInDeliver
    PROVE  IInv'
<1> DEFINE sent == StillDeliverable(checkin.batch)
<1>1. sent \subseteq checkin.batch /\ checkin.batch \subseteq Present
  BY DEF StillDeliverable, IInv, PresentOK
<1>2. /\ checkin' = [checkin EXCEPT !.pc = "answer", !.batch = sent]
      /\ handed' = handed \cup sent
      /\ job' = [j \in Jobs |-> IF j \in sent \cap ActionJobs
                                THEN [job[j] EXCEPT !.delivered = TRUE] ELSE job[j]]
      /\ UNCHANGED <<router, rev, calls, sweep, told>>
  BY DEF CheckInDeliver
<1> HIDE DEF sent
<1>3. job \in [Jobs -> Row]
  BY DEF IInv, TypeOK
<1>4. /\ job' \in [Jobs -> Row]
      /\ \A j \in Jobs : /\ job'[j].born = job[j].born /\ job'[j].state = job[j].state
                         /\ job'[j].key = job[j].key
  BY <1>2, <1>3 DEF Row
<1>5. /\ checkin' \in [pc: {"idle", "read", "answer"}, batch: SUBSET Jobs,
                       rev: Revs \cup {NoRev}, todo: SUBSET Jobs]
      /\ checkin'.batch = sent /\ checkin'.todo = checkin.todo
  BY <1>1, <1>2 DEF IInv, TypeOK, Present
<1>6. BirthsOK' /\ PresentOK' /\ KeysOK'
  BY <1>1, <1>2, <1>4, <1>5, RowsKeep, KeysKeep DEF IInv, PresentOK
<1>7. QED
  BY <1>1, <1>2, <1>4, <1>5, <1>6 DEF IInv, TypeOK, Present

LEMMA FailUndeliverableKeeps ==
    ASSUME IInv, NEW j \in Jobs, NEW h \in Calls, FailUndeliverable(j, h)
    PROVE  IInv'
<1> DEFINE d == NewCall("received", j, "failure", NoRev, TRUE)
<1>1. /\ checkin' = [checkin EXCEPT !.todo = @ \ {j}]
      /\ j \in Present
      /\ UNCHANGED <<router, rev, handed, sweep, told>>
  BY DEF FailUndeliverable, IInv, PresentOK
<1>2. d \in Call /\ d.pc = "received" /\ d.job = j /\ d.status = "failure"
  BY DEF Call, NewCall, Steps, Statuses
<1>3. \/ /\ job[j].state = "queued"
         /\ job' = [job EXCEPT ![j].state = "running"]
         /\ calls' = [calls EXCEPT ![h] = d]
      \/ UNCHANGED <<job, calls>>
  BY DEF FailUndeliverable
<1> HIDE DEF d
<1>4. job \in [Jobs -> Row] /\ calls \in [Calls -> Call]
  BY DEF IInv, TypeOK
<1>5. /\ job' \in [Jobs -> Row]
      /\ \A k \in Jobs : /\ job'[k].born = job[k].born /\ job'[k].key = job[k].key
                         /\ (job'[k].state = "absent") <=> (job[k].state = "absent")
                         /\ job'[k].state \in Active => job[k].state \in Active
  BY <1>3, <1>4 DEF Row, States, Active
<1>6. /\ calls' \in [Calls -> Call]
      /\ \A g \in Calls : calls'[g] = calls[g] \/ calls'[g] = d
  BY <1>2, <1>3, <1>4
<1>7. /\ checkin' \in [pc: {"idle", "read", "answer"}, batch: SUBSET Jobs,
                       rev: Revs \cup {NoRev}, todo: SUBSET Jobs]
      /\ checkin'.batch = checkin.batch /\ checkin'.todo \subseteq checkin.todo
  BY <1>1 DEF IInv, TypeOK
<1>8. \A g \in Calls : calls'[g] = calls[g] \/ CallOK(calls'[g])
  BY <1>1, <1>2, <1>6 DEF CallOK
<1>9. BirthsOK' /\ PresentOK'
  BY <1>1, <1>5, <1>7, <1>8, RowsKeep DEF IInv, PresentOK
<1>10. KeysOK'
  BY <1>5, <1>8, KeysKeep DEF IInv
<1>11. QED
  BY <1>1, <1>5, <1>6, <1>7, <1>9, <1>10 DEF IInv, TypeOK

LEMMA HandlerReportKeeps ==
    ASSUME IInv, NEW h \in Calls, HandlerReport(h)
    PROVE  IInv'
<1> DEFINE c == calls[h]
           n == c.job
<1>1. /\ job \in [Jobs -> Row] /\ c \in Call /\ n \in Jobs
      /\ calls \in [Calls -> Call]
      /\ calls' = [calls EXCEPT ![h] = Answered(c)]
      /\ UNCHANGED <<router, rev, checkin, handed, sweep>>
  BY DEF HandlerReport, IInv, TypeOK, PresentOK, Present
<1>2. job' = [job EXCEPT ![n].reported = TRUE] \/ job' = job
  BY DEF HandlerReport
<1>3. told' \in [Jobs -> 0..2]
  BY ToldType DEF HandlerReport, IInv, TypeOK
<1>4. Answered(c) \in Call /\ CallOK(Answered(c))
  BY <1>1, BlankCalls, OverOK
<1> HIDE DEF n, c
<1>5. /\ job' \in [Jobs -> Row]
      /\ \A k \in Jobs : /\ job'[k].born = job[k].born /\ job'[k].state = job[k].state
                         /\ job'[k].key = job[k].key
  <2>1. CASE job' = [job EXCEPT ![n].reported = TRUE]
    BY <1>1, <2>1 DEF Row
  <2>2. CASE job' = job
    BY <1>1, <2>2
  <2> QED BY <1>2, <2>1, <2>2
<1>6. /\ calls' \in [Calls -> Call]
      /\ \A g \in Calls : calls'[g] = calls[g] \/ CallOK(calls'[g])
  BY <1>1, <1>4
<1>7. BirthsOK' /\ PresentOK'
  BY <1>1, <1>5, <1>6, RowsKeep DEF IInv, PresentOK
<1>8. KeysOK'
  BY <1>5, <1>6, KeysKeep DEF IInv
<1>9. QED
  BY <1>1, <1>3, <1>5, <1>6, <1>7, <1>8 DEF IInv, TypeOK

\* The one step that may give a job its key back: it finds the key free.
LEMMA HandlerWriteKeeps ==
    ASSUME IInv, NEW h \in Calls, HandlerWrite(h)
    PROVE  IInv'
<1> DEFINE c == calls[h]
           n == c.job
           over == job[n].over \/ job[n].state \in Terminal
<1>1. /\ job \in [Jobs -> Row] /\ c \in Call /\ n \in Jobs /\ n \in Present
      /\ calls \in [Calls -> Call]
      /\ c.pc = "write" /\ (c.key => KeyFree(n))
      /\ UNCHANGED <<router, rev, checkin, handed, sweep, told>>
  BY DEF HandlerWrite, IInv, TypeOK, PresentOK, Present
<1>2. /\ \A k \in Jobs \ {n} : job'[k] = job[k]
      /\ job' = [job EXCEPT ![n] = [@ EXCEPT !.state = Recorded(c.status), !.key = c.key,
                                              !.delivered = TRUE, !.over = over]]
  BY <1>1 DEF HandlerWrite
<1>3. PICK d \in Call :
         /\ calls' = [calls EXCEPT ![h] = d]
         /\ d.pc \in {"revision", "notify", "done"}
         /\ d.pc # "done" => d.job = n
         /\ d.pc = "revision" => AppliedRevision(d) \in Revs
  BY WriteCall
<1>4. c.status = "accepted" => c.key
  BY <1>1 DEF IInv, KeysOK
<1> HIDE DEF n, c, over
<1>5. /\ job' \in [Jobs -> Row]
      /\ job'[n].born = job[n].born /\ job'[n].state = Recorded(c.status)
      /\ job'[n].key = c.key
  <2>1. c.key \in BOOLEAN /\ over \in BOOLEAN /\ Recorded(c.status) \in States
    BY <1>1 DEF Call, Row, Recorded, States, Active, Terminal, over
  <2> QED BY ZenonT(60), <1>1, <1>2, <2>1 DEF Row
<1>6. Recorded(c.status) # "absent" /\ (Recorded(c.status) \in Active => c.status = "accepted")
  BY <1>1 DEF Recorded, Active
<1>7. /\ calls' \in [Calls -> Call]
      /\ \A g \in Calls : calls'[g] = calls[g] \/ CallOK(calls'[g])
  BY <1>1, <1>3 DEF CallOK
<1>8. BirthsOK' /\ PresentOK'
  BY <1>1, <1>2, <1>5, <1>6, <1>7, RowsKeep DEF IInv, PresentOK, Present
<1>9. KeysOK'
  BY <1>1, <1>2, <1>4, <1>5, <1>6, <1>7 DEF IInv, KeysOK, KeyFree, CallOK
<1>10. QED
  BY <1>1, <1>5, <1>7, <1>8, <1>9 DEF IInv, TypeOK

LEMMA HandlerErrorKeeps ==
    ASSUME IInv, NEW h \in Calls, HandlerError(h)
    PROVE  IInv'
<1> DEFINE c == calls[h]
           n == c.job
           key == KeyAfterResult(n, job[n].key, "failure")
<1>1. /\ job \in [Jobs -> Row] /\ c \in Call /\ n \in Jobs
      /\ calls \in [Calls -> Call]
      /\ calls' = [calls EXCEPT ![h] = NoCall]
      /\ UNCHANGED <<router, rev, checkin, handed, sweep, told>>
  BY DEF HandlerError, IInv, TypeOK, PresentOK, Present
<1>2. \/ /\ job[n].state = "running"
         /\ job' = [job EXCEPT ![n] = [@ EXCEPT !.state = "failed", !.key = key]]
      \/ job' = job
  BY <1>1 DEF HandlerError
<1>3. key \in BOOLEAN /\ (key => job[n].key)
  BY <1>1 DEF KeyAfterResult, Row
<1> HIDE DEF n, c, key
<1>4. /\ job' \in [Jobs -> Row]
      /\ \A k \in Jobs : /\ job'[k].born = job[k].born
                         /\ job'[k].key => job[k].key
                         /\ \/ job'[k] = job[k]
                            \/ job[k].state = "running" /\ job'[k].state = "failed"
  <2>1. CASE /\ job[n].state = "running"
             /\ job' = [job EXCEPT ![n] = [@ EXCEPT !.state = "failed", !.key = key]]
    BY <1>1, <1>3, <2>1 DEF Row, States, Terminal
  <2>2. CASE job' = job
    BY <1>1, <2>2
  <2> QED BY <1>2, <2>1, <2>2
<1>5. /\ calls' \in [Calls -> Call]
      /\ \A g \in Calls : calls'[g] = calls[g] \/ CallOK(calls'[g])
  BY <1>1, BlankCalls, OverOK
<1>6. BirthsOK' /\ PresentOK'
  BY <1>1, <1>4, <1>5, RowsKeep DEF IInv, PresentOK
<1>7. KeysOK'
  BY <1>4, <1>5, KeysKeep DEF IInv, Active
<1>8. QED
  BY <1>1, <1>4, <1>5, <1>6, <1>7 DEF IInv, TypeOK

LEMMA HandlerCrashKeeps ==
    ASSUME IInv, NEW h \in Calls, HandlerCrash(h)
    PROVE  IInv'
<1>1. /\ UNCHANGED <<job, router, rev, handed, sweep, told>>
      /\ calls \in [Calls -> Call]
      /\ calls' = [calls EXCEPT ![h] = NoCall]
      /\ checkin' = NoCheckIn \/ checkin' = checkin
  BY DEF HandlerCrash, IInv, TypeOK
<1>2. /\ calls' \in [Calls -> Call]
      /\ \A g \in Calls : calls'[g] = calls[g] \/ CallOK(calls'[g])
  BY <1>1, BlankCalls, OverOK
<1>3. BirthsOK' /\ PresentOK'
  BY <1>1, <1>2, RowsKeep DEF IInv, PresentOK, NoCheckIn
<1>4. KeysOK'
  BY <1>1, <1>2, KeysKeep DEF IInv
<1>5. QED
  BY <1>1, <1>2, <1>3, <1>4 DEF IInv, TypeOK, NoCheckIn

-----------------------------------------------------------------------------
(***************************************************************************)
(* Cancels.                                                                *)
(***************************************************************************)
\* A cancel takes unfinished jobs to "cancelled", with or without their key.
LEMMA CancelKeeps ==
    ASSUME IInv, job' \in [Jobs -> Row],
           \A k \in Jobs : \/ job'[k] = job[k]
                           \/ /\ job[k].state \in Active /\ job'[k].state = "cancelled"
                              /\ job'[k].born = job[k].born
                              /\ job'[k].key => job[k].key,
           UNCHANGED <<calls, checkin, handed, told>>,
           sweep' \subseteq Jobs,
           router' \in RouterRow,
           rev' \in [Revs -> RevStates]
    PROVE  IInv'
<1>1. BirthsOK' /\ PresentOK'
  BY RowsKeep DEF IInv, PresentOK, Active
<1>2. KeysOK'
  BY KeysKeep DEF IInv, Active
<1>3. QED
  BY <1>1, <1>2 DEF IInv, TypeOK

LEMMA JanitorCancelKeeps ==
    ASSUME IInv, NEW j \in Jobs, JanitorCancel(j)
    PROVE  IInv'
<1> DEFINE key == job[j].key /\ j \in ActionJobs
<1>1. /\ job \in [Jobs -> Row]
      /\ sweep' \subseteq Jobs
      /\ UNCHANGED <<router, rev, calls, checkin, handed, told>>
  BY DEF JanitorCancel, IInv, TypeOK
<1>2. \/ /\ job[j].state = "running"
         /\ job' = [job EXCEPT ![j] = [@ EXCEPT !.state = "cancelled", !.by = "janitor",
                                                 !.key = key]]
      \/ job' = job
  BY <1>1 DEF JanitorCancel
<1>3. key \in BOOLEAN /\ (key => job[j].key)
  BY <1>1 DEF Row
<1> HIDE DEF key
<1>4. /\ job' \in [Jobs -> Row]
      /\ \A k \in Jobs : \/ job'[k] = job[k]
                         \/ /\ job[k].state \in Active /\ job'[k].state = "cancelled"
                            /\ job'[k].born = job[k].born
                            /\ job'[k].key => job[k].key
  <2>1. CASE /\ job[j].state = "running"
             /\ job' = [job EXCEPT ![j] = [@ EXCEPT !.state = "cancelled",
                                                    !.by = "janitor", !.key = key]]
    BY ZenonT(60), <1>1, <1>3, <2>1 DEF Row, States, Terminal, Active, Cancellers
  <2>2. CASE job' = job
    BY <1>1, <2>2
  <2> QED BY <1>2, <2>1, <2>2
<1>5. QED
  BY <1>1, <1>4, CancelKeeps DEF IInv, TypeOK

LEMMA PartnerCancelKeeps ==
    ASSUME IInv, NEW j \in Jobs, PartnerCancel(j)
    PROVE  IInv'
<1>1. /\ job \in [Jobs -> Row]
      /\ job[j].state = "queued"
      /\ job' = [job EXCEPT ![j] = [@ EXCEPT !.state = "cancelled", !.by = "partner"]]
      /\ UNCHANGED <<router, rev, calls, checkin, handed, sweep, told>>
  BY DEF PartnerCancel, IInv, TypeOK
<1>2. /\ job' \in [Jobs -> Row]
      /\ \A k \in Jobs : \/ job'[k] = job[k]
                         \/ /\ job[k].state \in Active /\ job'[k].state = "cancelled"
                            /\ job'[k].born = job[k].born
                            /\ job'[k].key => job[k].key
  BY <1>1 DEF Row, States, Terminal, Active, Cancellers
<1>3. QED
  BY <1>1, <1>2, CancelKeeps DEF IInv, TypeOK

LEMMA UnbindKeeps ==
    ASSUME IInv, Unbind
    PROVE  IInv'
<1>1. /\ job \in [Jobs -> Row] /\ rev \in [Revs -> RevStates]
      /\ router' = [owner |-> NoOwner, released |-> TRUE, approved |-> FALSE,
                    active |-> NoRev, last |-> router.last]
      /\ router \in RouterRow
      /\ job' = [j \in Jobs |->
            IF j \in ApplyJobs \cup ActionJobs /\ job[j].state \in Active
            THEN [job[j] EXCEPT !.state = "cancelled", !.key = FALSE, !.by = "unbind"]
            ELSE job[j]]
      /\ rev' = [r \in Revs |-> IF rev[r] \in {"draft", "queued"} THEN "discarded"
                                ELSE rev[r]]
      /\ UNCHANGED <<calls, checkin, handed, sweep, told>>
  BY DEF Unbind, IInv, TypeOK
<1>2. /\ job' \in [Jobs -> Row]
      /\ \A k \in Jobs : \/ job'[k] = job[k]
                         \/ /\ job[k].state \in Active /\ job'[k].state = "cancelled"
                            /\ job'[k].born = job[k].born
                            /\ job'[k].key => job[k].key
  BY ZenonT(60), <1>1 DEF Row, States, Terminal, Active, Cancellers
<1>3. rev' \in [Revs -> RevStates]
  BY <1>1 DEF RevStates
<1>4. router' \in RouterRow
  BY <1>1 DEF RouterRow
<1>5. QED
  BY <1>1, <1>2, <1>3, <1>4, CancelKeeps DEF IInv, TypeOK

-----------------------------------------------------------------------------
(***************************************************************************)
(* The invariant, and what follows from it.                                *)
(***************************************************************************)
LEMMA InitIInv == Init => IInv
<1> SUFFICES ASSUME Init PROVE IInv
  OBVIOUS
<1>1. Present = {}
  BY DEF Init, Present, NewRow
<1>2. TypeOK
  <2>1. job \in [Jobs -> Row]
    BY DEF Init, NewRow, Row, States, Active, Terminal, Cancellers
  <2>2. calls \in [Calls -> Call]
    BY DEF Init, NoCall, NewCall, Call, Steps, Statuses
  <2>3. router \in RouterRow
    BY EngineAndLimit DEF Init, RouterRow
  <2>4. checkin \in [pc: {"idle", "read", "answer"}, batch: SUBSET Jobs,
                     rev: Revs \cup {NoRev}, todo: SUBSET Jobs]
    BY DEF Init, NoCheckIn
  <2>5. /\ rev \in [Revs -> RevStates]
        /\ handed \subseteq Jobs /\ sweep \subseteq Jobs
    BY DEF Init, RevStates
  <2>6. told \in [Jobs -> 0..2]
    BY DEF Init
  <2> QED BY <2>1, <2>2, <2>3, <2>4, <2>5, <2>6 DEF TypeOK
<1>3. BirthsOK
  BY <1>1 DEF BirthsOK
<1>4. PresentOK
  BY <1>1 DEF Init, PresentOK, NoCheckIn, NoCall, NewCall
<1>5. KeysOK
  BY DEF Init, KeysOK, NewRow, NoCall, NewCall, Active
<1>6. QED
  BY <1>2, <1>3, <1>4, <1>5 DEF IInv

LEMMA StutterKeeps == ASSUME IInv, UNCHANGED vars PROVE IInv'
<1>1. UNCHANGED <<job, router, rev, calls, checkin, handed, sweep, told>>
  BY DEF vars
<1>2. Present' = Present
  BY <1>1 DEF Present
<1>3. TypeOK' /\ KeysOK'
  BY <1>1 DEF IInv, TypeOK, KeysOK
<1>4. BirthsOK'
  BY <1>1, <1>2 DEF IInv, BirthsOK
<1>5. PresentOK'
  BY <1>1, <1>2 DEF IInv, PresentOK, AppliedRevision
<1>6. QED
  BY <1>3, <1>4, <1>5 DEF IInv

LEMMA NextKeeps == IInv /\ [Next]_vars => IInv'
<1> SUFFICES ASSUME IInv, [Next]_vars PROVE IInv'
  OBVIOUS
<1>1. CASE UNCHANGED vars
  BY <1>1, StutterKeeps
<1>2. ASSUME NEW j \in Jobs, JobStep(j) PROVE IInv'
  BY <1>2, QueueKeeps, JanitorCancelKeeps, SweepKeeps, PartnerCancelKeeps, ClaimKeeps
     DEF JobStep
<1>3. ASSUME NEW r \in Revs, Author(r) PROVE IInv'
  BY <1>3, AuthorKeeps
<1>4. ASSUME NEW h \in Calls, CallStep(h) \/ HandlerError(h) \/ HandlerCrash(h)
      PROVE  IInv'
  BY <1>4, HandlerReadKeeps, HandlerReportKeeps, HandlerWriteKeeps, HandlerFinishKeeps,
     HandlerErrorKeeps, HandlerCrashKeeps DEF CallStep
<1>5. ASSUME NEW j \in Jobs, NEW h \in Calls, FailUndeliverable(j, h) PROVE IInv'
  BY <1>5, FailUndeliverableKeeps
<1>6. CASE CheckInRead \/ CheckInDeliver \/ CheckInCrash \/ CheckInAnswer
  BY <1>6, CheckInReadKeeps, CheckInDeliverKeeps, CheckInEndsKeeps
<1>7. CASE JanitorScan \/ Unbind
  BY <1>7, SweepKeeps, UnbindKeeps
<1>8. CASE RouterReports
  BY <1>8, ReceiveKeeps DEF RouterReports, HandedRevs, Revs
<1>9. CASE \E h \in Calls : Respond(h)
  BY <1>9, HandlerFinishKeeps
<1>10. QED
  BY <1>1, <1>2, <1>3, <1>4, <1>5, <1>6, <1>7, <1>8, <1>9 DEF Next, PanelStep

\* The inductive invariant holds throughout: numbered rows, no dangling
\* reference, and a key held by every unfinished job and by no two jobs.
THEOREM Invariance == Spec => []IInv
BY InitIInv, NextKeeps, PTL DEF Spec

\* Whatever the jobs, targets and concurrent requests, every variable keeps
\* its type: in particular no handler marks a revision that does not exist.
THEOREM TypeCorrect == Spec => []TypeOK
<1>1. IInv => TypeOK
  BY DEF IInv
<1>2. QED
  BY <1>1, Invariance, PTL

\* No two unfinished jobs share a dedupe key, however the statements of the
\* concurrent result handlers, the cancels and the check-ins interleave.
THEOREM OneActive == Spec => []OneActivePerTarget
<1>1. IInv => OneActivePerTarget
  BY DEF IInv, KeysOK, OneActivePerTarget
<1>2. QED
  BY <1>1, Invariance, PTL
=============================================================================
