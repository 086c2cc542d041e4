------------------------- MODULE VctlJournalProofs -------------------------
(***************************************************************************)
(* VctlIInv is an invariant of VctlJournal, and with it what the journals  *)
(* are for: an action happens at most once, a success is true, a reboot    *)
(* comes after the delivery of its result, nothing of a former owner is    *)
(* sent.                                                                   *)
(*                                                                         *)
(* What makes the safety properties inductive: a record is written before  *)
(* an action runs and says "succeeded" only of one that did (RecordOK); a  *)
(* receipt is "dispatched" before the command and "acked" after a delivery *)
(* (ReceiptOK); a success that is still to be sent, in state.json or in    *)
(* hand, is true and of the present owner (StateOK, AtOK).  Each action    *)
(* has a lemma; it moves one file or the cycle, and Frame, StatesStay and  *)
(* ReceiptStays say that the rest goes on holding.                         *)
(***************************************************************************)
EXTENDS VctlJournal, TLAPS

\* Faults are counted up to their bound.
LEMMA FaultCount ==
    ASSUME VctlTypeOK, Fault \/ UNCHANGED faults
    PROVE  faults' \in 0..MaxFaults
  BY VctlConstants DEF VctlTypeOK, Fault

\* What the cycle may become: a new place, or the same job at another place.
LEMMA Cursors ==
    ASSUME VctlTypeOK, NEW p \in Places, NEW t \in Tasks \cup {NoTask},
           NEW s \in Results \cup {"none"}, NEW f \in Purposes
    PROVE  /\ At(p, t, s, f) \in Cursor
           /\ [at EXCEPT !.place = p] \in Cursor
           /\ [at EXCEPT !.place = p, !.out = s] \in Cursor
  BY DEF VctlTypeOK, Cursor, At

\* Between jobs the cycle claims nothing.
LEMMA IdlePlaces ==
    ASSUME NEW p \in {"poll", "checkIn", "maintain", "jobs", "restarting"}, at' = Idle(p)
    PROVE  at' \in Cursor /\ AtOK'
  BY VctlConstants DEF Idle, At, AtOK, Cursor, Places, Purposes, Results

\* The state with a result in it.
LEMMA ResultStates ==
    ASSUME NEW m \in State, NEW t \in Tasks, NEW s \in Results
    PROVE  /\ WithResult(m, t, s) \in State
           /\ WithResult(m, t, s).owner = m.owner
           /\ WithResult(m, t, s).cur = NoTask
           /\ WithResult(m, t, s).pend = s
           /\ WithResult(m, t, s).pendFor = t
  BY DEF State, WithResult

\* The state without its result.
LEMMA NoResultStates ==
    ASSUME NEW m \in State
    PROVE  /\ WithoutResult(m) \in State
           /\ WithoutResult(m).owner = m.owner
           /\ WithoutResult(m).cur = m.cur
           /\ WithoutResult(m).pend = "none"
  BY DEF State, WithoutResult

\* A step that leaves the records, the receipt, the panel and the history alone
\* keeps what is said of them.
LEMMA Frame ==
    ASSUME VctlIInv, UNCHANGED <<record, receipt, boot, told, history>>
    PROVE  ReceiptOK' /\ RecordOK' /\ SuccessIsTrue' /\ RebootAfterDelivery'
  BY DEF VctlIInv, history, ReceiptOK, RecordOK, SuccessIsTrue, RebootAfterDelivery, Heard, Happened

\* Every receipt connectMaintenance writes is a receipt.
LEMMA Receipts ==
    ASSUME NEW r \in Receipt, NEW o \in Owners \cup {NoOwner}, NEW s \in {"success", "failure"}
    PROVE  /\ NoReceipt(o) \in Receipt
           /\ [r EXCEPT !.acked = TRUE] \in Receipt
           /\ [r EXCEPT !.dispatched = TRUE] \in Receipt
           /\ [r EXCEPT !.terminal = s] \in Receipt
  <1>1. NoReceipt(o) \in Receipt
    BY DEF Receipt, NoReceipt
  <1>2. [r EXCEPT !.acked = TRUE] \in Receipt
    BY DEF Receipt
  <1>3. [r EXCEPT !.dispatched = TRUE] \in Receipt
    BY DEF Receipt
  <1>4. [r EXCEPT !.terminal = s] \in Receipt
    BY DEF Receipt
  <1> QED
    BY <1>1, <1>2, <1>3, <1>4

\* A receipt stays true while records are only added.
LEMMA ReceiptStays ==
    ASSUME VctlIInv, UNCHANGED <<receipt, boot, told>>, UNCHANGED history,
           \A t \in Connect : record[t] # "none" => record'[t] # "none"
    PROVE  ReceiptOK'
  <1>1. receipt.job # NoTask => receipt.job \in Connect
    BY DEF VctlIInv, VctlTypeOK, Receipt, Connect
  <1> QED
    BY <1>1 DEF VctlIInv, ReceiptOK, Heard, history

\* Giving a result up leads to no new claim.
LEMMA GivenUp ==
    ASSUME VctlIInv, GiveUp, at.job \in Tasks,
           at.for = "refuse" => UNCHANGED <<worked, seen>> /\ mem'.owner = mem.owner
    PROVE  at' \in Cursor /\ AtOK'
  <1>1. CASE at.for = "refuse"
    <2>1. at' = [at EXCEPT !.place = "refuse"]
      BY <1>1 DEF GiveUp
    <2>2. at' \in Cursor
      BY <2>1 DEF VctlIInv, VctlTypeOK, Cursor, Places
    <2>3. at'.place = "refuse" /\ at'.job = at.job /\ at'.out = at.out /\ at'.for = at.for
      BY <2>1 DEF VctlIInv, VctlTypeOK, Cursor
    <2>4. AtOK'
      BY <1>1, <2>3 DEF VctlIInv, AtOK, Happened, OfOwner
    <2> QED
      BY <2>2, <2>4
  <1>2. CASE at.for # "refuse"
    <2>1. at' = Idle("checkIn") \/ at' = Idle("jobs")
      BY <1>2 DEF GiveUp, VctlIInv, VctlTypeOK, Cursor, Purposes
    <2> QED
      BY <2>1, IdlePlaces
  <1> QED
    BY <1>1, <1>2

\* Going on after a delivery: the panel has the result.
LEMMA MovesOn ==
    ASSUME VctlIInv, UNCHANGED <<record, receipt, history>>, mem'.owner = mem.owner,
           at.place \in {"report", "submit"},
           told \subseteq told', GoOn, \E s \in Results : <<at.job, s>> \in told'
    PROVE  at' \in Cursor /\ AtOK'
  <1>1. at.job \in Tasks /\ at.out \in Results
    BY DEF VctlIInv, AtOK
  <1>2. CASE \E p \in {"deliver", "receipt", "refuse"} :
                at' = [at EXCEPT !.place = p] /\ (p = "refuse" => at.for = "refuse")
    <2>1. PICK p \in {"deliver", "receipt", "refuse"} :
                at' = [at EXCEPT !.place = p] /\ (p = "refuse" => at.for = "refuse")
      BY <1>2
    <2>2. at' \in Cursor
      BY <2>1 DEF VctlIInv, VctlTypeOK, Cursor, Places
    <2>3. at'.place = p /\ at'.job = at.job /\ at'.out = at.out /\ at'.for = at.for
      BY <2>1 DEF VctlIInv, VctlTypeOK, Cursor
    <2>4. AtOK'
      BY <1>1, <2>1, <2>3 DEF VctlIInv, AtOK, Heard, Happened, OfOwner, history
    <2> QED
      BY <2>2, <2>4
  <1>3. CASE at' = Idle("checkIn") \/ at' = Idle("jobs")
    BY <1>3, IdlePlaces
  <1> QED
    BY <1>2, <1>3 DEF GoOn, VctlIInv, VctlTypeOK, Cursor, Purposes

\* Saving a result.
LEMMA ReportKeeps ==
    ASSUME VctlIInv, Report
    PROVE  VctlIInv'
  <1> DEFINE m == WithResult(mem, at.job, at.out)
  <1>0. at.job \in Tasks /\ at.out \in Results /\ mem' = m
    BY DEF Report, VctlIInv, AtOK, Saved, Unsaved
  <1>1. m \in State /\ m.owner = mem.owner /\ m.cur = NoTask /\ m.pend = at.out /\ m.pendFor = at.job
    BY <1>0, ResultStates DEF VctlIInv, VctlTypeOK
  <1>2. at' \in Cursor /\ AtOK'
    <2>1. CASE GiveUp
      BY <1>0, <1>1, <2>1, GivenUp DEF Report, history
    <2>2. CASE at' = [at EXCEPT !.place = "submit"]
      <3>1. at' \in Cursor
        BY <2>2 DEF VctlIInv, VctlTypeOK, Cursor, Places
      <3>2. at'.place = "submit" /\ at'.job = at.job /\ at'.out = at.out /\ at'.for = at.for
        BY <2>2 DEF VctlIInv, VctlTypeOK, Cursor
      <3> QED
        BY <1>0, <1>1, <3>1, <3>2 DEF VctlIInv, AtOK, Happened, OfOwner, history, Report
    <2> QED
      BY <2>1, <2>2 DEF Report
  <1>3. VctlTypeOK'
    <2>1. faults' \in 0..MaxFaults
      BY FaultCount DEF VctlIInv, Report, Saved, Unsaved
    <2> QED
      BY <1>0, <1>1, <1>2, <2>1
         DEF VctlIInv, VctlTypeOK, Report, Saved, Unsaved, system, history
  <1>4. StateOK(mem)' /\ StateOK(disk)'
    BY <1>0, <1>1, VctlConstants
       DEF VctlIInv, StateOK, AtOK, Happened, OfOwner, Report, Saved, Unsaved, history, Tasks
  <1> QED
    BY <1>2, <1>3, <1>4, Frame DEF VctlIInv, Report, history, system

\* The panel has the result: it was true of its job when it was saved.
LEMMA SubmittedKeeps ==
    ASSUME VctlIInv, Submitted
    PROVE  VctlIInv'
  <1>0. at.job \in Tasks /\ at.out \in Results
    BY DEF Submitted, VctlIInv, AtOK
  <1>1. /\ WithoutResult(mem) \in State
        /\ WithoutResult(mem).owner = mem.owner
        /\ WithoutResult(mem).cur = mem.cur
        /\ WithoutResult(mem).pend = "none"
    BY NoResultStates DEF VctlIInv, VctlTypeOK
  <1>2. mem' \in {mem, WithoutResult(mem)} /\ disk' \in {disk, mem'}
    BY DEF Submitted, Persist, Saved, Unsaved
  <1>3. (\E s \in Results : <<at.job, s>> \in told') /\ told \subseteq told'
    BY <1>0 DEF Submitted
  <1>4. at' \in Cursor /\ AtOK'
    <2>1. CASE GiveUp
      BY <1>0, <1>1, <1>2, <2>1, GivenUp DEF Submitted, history
    <2>2. CASE GoOn
      BY <1>1, <1>2, <1>3, <2>2, MovesOn DEF Submitted, history
    <2> QED
      BY <2>1, <2>2 DEF Submitted
  <1>5. VctlTypeOK'
    <2>1. told' \subseteq Tasks \X Results
      BY <1>0 DEF Submitted, VctlIInv, VctlTypeOK
    <2>2. faults' \in 0..MaxFaults
      BY FaultCount DEF VctlIInv, Submitted, Persist, Saved, Unsaved
    <2> QED
      BY <1>1, <1>2, <1>4, <2>1, <2>2 DEF VctlIInv, VctlTypeOK, Submitted, system, history
  <1>6. StateOK(mem)' /\ StateOK(disk)'
    BY <1>1, <1>2 DEF VctlIInv, StateOK, Happened, OfOwner, Submitted, history
  <1>7. ReceiptOK' /\ RecordOK'
    BY <1>3 DEF VctlIInv, ReceiptOK, RecordOK, Heard, Happened, Submitted, history, system
  <1>8. SuccessIsTrue' /\ RebootAfterDelivery'
    BY <1>0, <1>3
       DEF VctlIInv, SuccessIsTrue, RebootAfterDelivery, AtOK, Heard, Happened, Submitted, history
  <1> QED
    BY <1>4, <1>5, <1>6, <1>7, <1>8 DEF VctlIInv

\* The panel may have the result.
LEMMA SubmitFailedKeeps ==
    ASSUME VctlIInv, SubmitFailed
    PROVE  VctlIInv'
  <1>0. at.job \in Tasks /\ at.out \in Results
    BY DEF SubmitFailed, VctlIInv, AtOK
  <1>1. told \subseteq told' /\ told' \subseteq told \cup {<<at.job, at.out>>}
    BY DEF SubmitFailed
  <1>2. at' \in Cursor /\ AtOK'
    BY <1>0, GivenUp DEF SubmitFailed, history
  <1>3. VctlTypeOK'
    BY <1>0, <1>1, <1>2, FaultCount DEF VctlIInv, VctlTypeOK, SubmitFailed, system, history
  <1>4. StateOK(mem)' /\ StateOK(disk)'
    BY DEF VctlIInv, StateOK, Happened, OfOwner, SubmitFailed, history
  <1>5. ReceiptOK' /\ RecordOK'
    BY <1>1 DEF VctlIInv, ReceiptOK, RecordOK, Heard, Happened, SubmitFailed, history, system
  <1>6. SuccessIsTrue' /\ RebootAfterDelivery'
    BY <1>0, <1>1
       DEF VctlIInv, SuccessIsTrue, RebootAfterDelivery, AtOK, Heard, Happened, SubmitFailed, history
  <1> QED
    BY <1>2, <1>3, <1>4, <1>5, <1>6 DEF VctlIInv

\* A delivered result that could not be marked is the job's own result again.
LEMMA UndeliveredKeeps ==
    ASSUME VctlIInv, Undelivered, at.place \in {"deliver", "receipt"}, UNCHANGED history
    PROVE  /\ mem' \in State /\ disk' \in State /\ StateOK(mem)' /\ StateOK(disk)'
           /\ at' \in Cursor /\ AtOK'
  <1>0. at.job \in Tasks /\ at.out \in Results
    BY DEF VctlIInv, AtOK
  <1> DEFINE m == [mem EXCEPT !.pend = at.out, !.pendFor = at.job]
  <1>1. /\ m \in State /\ m.pend = at.out /\ m.pendFor = at.job
        /\ m.cur = mem.cur /\ m.owner = mem.owner
    BY <1>0 DEF VctlIInv, VctlTypeOK, State
  <1>2. mem' \in {mem, m} /\ disk' \in {disk, mem'}
    BY DEF Undelivered
  <1>3. StateOK(mem)' /\ StateOK(disk)'
    BY ZenonT(60), <1>0, <1>1, <1>2 DEF VctlIInv, AtOK, StateOK, Happened, OfOwner, history
  <1>4. at' \in Cursor /\ AtOK'
    BY <1>0, <1>1, <1>2, GivenUp DEF Undelivered, history
  <1> QED
    BY <1>1, <1>2, <1>3, <1>4 DEF VctlIInv, VctlTypeOK

\* The record of a delivered result: succeeded only if it was a success.
LEMMA DeliverKeeps ==
    ASSUME VctlIInv, Deliver
    PROVE  VctlIInv'
  <1>0. at.job \in Tasks /\ at.out \in Results /\ UNCHANGED <<receipt, told, boot>> /\ UNCHANGED history
    BY DEF Deliver, VctlIInv, AtOK, system
  <1> DEFINE s == IF at.out = "success" THEN "succeeded" ELSE "failed"
  <1>1. \/ UNCHANGED record
        \/ at.job \in Connect /\ record[at.job] # "none" /\ record' = [record EXCEPT ![at.job] = s]
    BY DEF Deliver, Completed
  <1>2. mem' \in State /\ disk' \in State /\ StateOK(mem)' /\ StateOK(disk)' /\ at' \in Cursor /\ AtOK'
    <2>1. CASE Undelivered
      BY <1>0, <2>1, UndeliveredKeeps DEF Deliver
    <2>2. CASE at' = [at EXCEPT !.place = "receipt"] /\ UNCHANGED <<disk, mem>>
      <3>1. at' \in Cursor
        BY <2>2 DEF VctlIInv, VctlTypeOK, Cursor, Places
      <3>2. at'.place = "receipt" /\ at'.job = at.job /\ at'.out = at.out /\ at'.for = at.for
        BY <2>2 DEF VctlIInv, VctlTypeOK, Cursor
      <3>3. AtOK'
        BY <1>0, <2>2, <3>2 DEF VctlIInv, AtOK, Heard, Happened, OfOwner, history, Deliver
      <3> QED
        BY <1>0, <2>2, <3>1, <3>3 DEF VctlIInv, VctlTypeOK, StateOK, Happened, OfOwner, history
    <2> QED
      BY <2>1, <2>2 DEF Deliver
  <1>3. VctlTypeOK'
    <2>1. faults' \in 0..MaxFaults
      BY FaultCount DEF VctlIInv, Deliver
    <2>2. record' \in [Connect -> {"none", "started", "interrupted", "succeeded", "failed"}]
      BY <1>1 DEF VctlIInv, VctlTypeOK
    <2> QED
      BY <1>0, <1>2, <2>1, <2>2 DEF VctlIInv, VctlTypeOK, Deliver, system, history
  <1>4. /\ \A t \in Connect : record'[t] = "none" <=> record[t] = "none"
        /\ \A t \in Connect : record'[t] = "succeeded" =>
                record[t] = "succeeded" \/ (at.out = "success" /\ t = at.job)
    BY <1>1 DEF VctlIInv, VctlTypeOK
  <1>5. ReceiptOK'
    BY <1>0, <1>4, ReceiptStays DEF history
  <1>6. RecordOK'
    BY <1>0, <1>4 DEF VctlIInv, AtOK, RecordOK, Happened, history
  <1>7. SuccessIsTrue' /\ RebootAfterDelivery'
    BY <1>0 DEF VctlIInv, SuccessIsTrue, RebootAfterDelivery, Heard, Happened, history
  <1> QED
    BY <1>2, <1>3, <1>5, <1>6, <1>7 DEF VctlIInv

\* The receipt is acknowledged for the job whose result the panel has.
LEMMA DeliverReceiptKeeps ==
    ASSUME VctlIInv, DeliverReceipt
    PROVE  VctlIInv'
  <1>0. at.job \in Tasks /\ Heard(at.job) /\ UNCHANGED <<record, told, boot>> /\ UNCHANGED history
    BY DEF DeliverReceipt, VctlIInv, AtOK, system
  <1>1. \/ UNCHANGED receipt
        \/ receipt' = NoReceipt(receipt.owner)
        \/ /\ receipt.job = at.job /\ receipt.terminal = "none"
           /\ receipt' = [receipt EXCEPT !.acked = TRUE]
    BY <1>0, VctlConstants DEF DeliverReceipt, ReceiptAfterDelivery, PendingReboot, Scheduled, NoReceipt
  <1>2. mem' \in State /\ disk' \in State /\ StateOK(mem)' /\ StateOK(disk)' /\ at' \in Cursor /\ AtOK'
    <2>1. CASE Undelivered
      BY <1>0, <2>1, UndeliveredKeeps DEF DeliverReceipt
    <2>2. CASE ~Undelivered
      <3>0. at' = Idle("checkIn") \/ at' = Idle("jobs")
        BY <2>2 DEF DeliverReceipt
      <3> DEFINE m == [WithoutResult(mem) EXCEPT !.cur = NoTask, !.exp = NoVersion]
      <3>1. m \in State /\ m.cur = NoTask /\ m.pend = "none" /\ m.owner = mem.owner
        BY NoResultStates DEF VctlIInv, VctlTypeOK, State, WithoutResult
      <3>2. CASE mem' = m /\ disk' \in {disk, m}
        BY <1>0, <3>0, <3>1, <3>2, IdlePlaces, VctlConstants
           DEF VctlIInv, VctlTypeOK, StateOK, Happened, OfOwner, history, Tasks
      <3>3. CASE UNCHANGED <<disk, mem>>
        BY <1>0, <3>0, <3>3, IdlePlaces DEF VctlIInv, VctlTypeOK, StateOK, Happened, OfOwner, history
      <3> QED
        BY <2>2, <3>2, <3>3 DEF DeliverReceipt, Persist, Saved, Unsaved
    <2> QED
      BY <2>1, <2>2
  <1>3. VctlTypeOK'
    <2>1. faults' \in 0..MaxFaults
      BY FaultCount DEF VctlIInv, DeliverReceipt, Persist, Saved, Unsaved
    <2>2. receipt' \in Receipt
      <3>1. receipt \in Receipt /\ receipt.owner \in Owners \cup {NoOwner}
        BY DEF VctlIInv, VctlTypeOK, Receipt
      <3> QED
        BY <1>1, <3>1, Receipts
    <2>3. UNCHANGED <<batch, runtime, staged, boot, halting, handed>>
      BY DEF DeliverReceipt, system
    <2> QED
      BY <1>0, <1>2, <2>1, <2>2, <2>3 DEF VctlIInv, VctlTypeOK, history
  <1>4. ReceiptOK'
    <2>1. CASE UNCHANGED receipt
      BY <1>0, <2>1, ReceiptStays
    <2>2. CASE receipt' = NoReceipt(receipt.owner)
      <3>1. receipt'.job = NoTask /\ receipt'.terminal = "none"
        BY <2>2 DEF NoReceipt
      <3> QED
        BY <3>1 DEF ReceiptOK
    <2>3. CASE /\ receipt.job = at.job /\ receipt.terminal = "none"
               /\ receipt' = [receipt EXCEPT !.acked = TRUE]
      <3>1. /\ receipt'.job = receipt.job /\ receipt'.owner = receipt.owner
            /\ receipt'.boot = receipt.boot
            /\ receipt'.terminal = receipt.terminal /\ receipt'.dispatched = receipt.dispatched
        BY <2>3 DEF VctlIInv, VctlTypeOK, Receipt
      <3> QED
        BY <1>0, <2>3, <3>1 DEF VctlIInv, ReceiptOK, Heard, history
    <2> QED
      BY <1>1, <2>1, <2>2, <2>3
  <1>5. RecordOK' /\ SuccessIsTrue' /\ RebootAfterDelivery'
    BY <1>0 DEF VctlIInv, RecordOK, SuccessIsTrue, RebootAfterDelivery, Heard, Happened, history
  <1> QED
    BY <1>2, <1>3, <1>4, <1>5 DEF VctlIInv

\* state.json and its copy are untouched.
LEMMA StatesStay ==
    ASSUME VctlIInv, UNCHANGED <<disk, mem>>, UNCHANGED history
    PROVE  mem' \in State /\ disk' \in State /\ StateOK(mem)' /\ StateOK(disk)'
  BY DEF VctlIInv, VctlTypeOK, StateOK, Happened, OfOwner, history

\* A good state was saved, or not.
LEMMA StatesSaved ==
    ASSUME VctlIInv, mem' \in State, StateOK(mem'), disk' \in {disk, mem'}, UNCHANGED history
    PROVE  mem' \in State /\ disk' \in State /\ StateOK(mem)' /\ StateOK(disk)'
  BY DEF VctlIInv, VctlTypeOK, StateOK, Happened, OfOwner, history

\* A pending result is sent as it is, or as a failure.
LEMMA FlushPendingKeeps ==
    ASSUME VctlIInv, FlushPending
    PROVE  VctlIInv'
  <1> DEFINE m == IF Unconfirmed /\ ~Confirmed THEN [mem EXCEPT !.pend = "failure"] ELSE mem
  <1>0. mem.pendFor \in Tasks /\ mem.pend \in Results
    BY DEF FlushPending, VctlIInv, VctlTypeOK, StateOK, State
  <1>1. /\ m \in State /\ m.owner = mem.owner /\ m.cur = mem.cur /\ m.pendFor = mem.pendFor
        /\ m.pend \in {mem.pend, "failure"}
    BY DEF VctlIInv, VctlTypeOK, State, Results
  <1>2. StateOK(m)
    BY <1>0, <1>1 DEF VctlIInv, StateOK, OfOwner
  <1>3. mem' \in State /\ disk' \in State /\ StateOK(mem)' /\ StateOK(disk)'
    <2>1. mem' \in {mem, m} /\ disk' \in {disk, mem'}
      BY DEF FlushPending, Saved, Unsaved
    <2>2. UNCHANGED history /\ mem' \in State
      BY <1>1, <2>1 DEF VctlIInv, VctlTypeOK, FlushPending
    <2>3. StateOK(mem')
      BY <1>2, <2>1 DEF VctlIInv
    <2> QED
      BY <2>1, <2>2, <2>3, StatesSaved
  <1>4. at' \in Cursor /\ AtOK'
    <2>1. CASE at' = Idle("checkIn")
      BY <2>1, IdlePlaces
    <2>2. CASE Saved(m) /\ at' = At("submit", m.pendFor, m.pend, "flush")
      <3>1. at' \in Cursor
        BY <1>0, <1>1, <2>2, Cursors DEF VctlIInv, Places, Purposes, Results
      <3>2. at'.place = "submit" /\ at'.job = m.pendFor /\ at'.out = m.pend /\ at'.for = "flush"
        BY <2>2 DEF At
      <3>3. mem' = m
        BY <2>2 DEF Saved
      <3> QED
        BY <1>0, <1>1, <1>2, <3>1, <3>2, <3>3
           DEF AtOK, StateOK, Happened, OfOwner, FlushPending, history, Results
    <2> QED
      BY <2>1, <2>2 DEF FlushPending, Saved
  <1>5. VctlTypeOK'
    <2>1. faults' \in 0..MaxFaults
      BY FaultCount DEF VctlIInv, FlushPending, Saved, Unsaved
    <2> QED
      BY <1>3, <1>4, <2>1 DEF VctlIInv, VctlTypeOK, FlushPending, system, history
  <1> QED
    BY <1>3, <1>4, <1>5, Frame DEF VctlIInv, FlushPending, system

\* The job a crash left is a success only if its record says so.
LEMMA RecoverCurrentKeeps ==
    ASSUME VctlIInv, RecoverCurrent
    PROVE  VctlIInv'
  <1>0. mem.cur \in Tasks /\ UNCHANGED <<disk, mem>> /\ UNCHANGED history
    BY DEF RecoverCurrent, VctlIInv, VctlTypeOK, State
  <1>1. /\ Truth(mem.cur) \in Results
        /\ Truth(mem.cur) = "success" => mem.cur \in Connect /\ record[mem.cur] = "succeeded"
    BY DEF Truth, Results
  <1>2. Truth(mem.cur) = "success" => Happened(mem.cur) /\ OfOwner(mem.cur, mem)
    BY <1>1 DEF VctlIInv, RecordOK, StateOK, OfOwner
  <1>3. at' \in Cursor
    BY <1>0, <1>1, Cursors DEF RecoverCurrent, VctlIInv, Places, Purposes
  <1>4. /\ at'.place = "report" /\ at'.job = mem.cur
        /\ at'.out = Truth(mem.cur) /\ at'.for = "recover"
    BY DEF RecoverCurrent, At
  <1>5. AtOK'
    BY <1>0, <1>1, <1>2, <1>4 DEF AtOK, Happened, OfOwner, history
  <1>6. VctlTypeOK'
    BY <1>3 DEF VctlIInv, VctlTypeOK, RecoverCurrent, system, history
  <1> QED
    BY <1>0, <1>5, <1>6, Frame, StatesStay DEF VctlIInv, RecoverCurrent, system

\* Nothing to recover.
LEMMA RecoverNothingKeeps ==
    ASSUME VctlIInv, RecoverNothing
    PROVE  VctlIInv'
  <1>1. at' \in Cursor /\ AtOK'
    BY IdlePlaces DEF RecoverNothing
  <1>2. VctlTypeOK'
    BY <1>1 DEF VctlIInv, VctlTypeOK, RecoverNothing, system, history
  <1> QED
    BY <1>1, <1>2, Frame, StatesStay DEF VctlIInv, RecoverNothing, system

\* No check-in.
LEMMA CheckInFailedKeeps ==
    ASSUME VctlIInv, CheckInFailed
    PROVE  VctlIInv'
  <1>1. at' \in Cursor /\ AtOK'
    BY IdlePlaces DEF CheckInFailed
  <1>2. VctlTypeOK'
    BY <1>1, FaultCount DEF VctlIInv, VctlTypeOK, CheckInFailed, system, history
  <1> QED
    BY <1>1, <1>2, Frame, StatesStay DEF VctlIInv, CheckInFailed, system

\* Every action has an owner.
LEMMA OwnersOfActions == \A t \in Connect : OwnerOf[t] # NoOwner
  BY VctlConstants

\* A new owner finds nothing of the former one; none is bound while a router
\* still has an action of another.
LEMMA CheckedInKeeps ==
    ASSUME VctlIInv, NEW o \in Answers, NEW jobs \in SUBSET Tasks, CheckedIn(o, jobs)
    PROVE  VctlIInv'
  <1>0. o \in Owners \cup {NoOwner} /\ disk' \in {disk, mem'} /\ UNCHANGED history
    BY VctlConstants DEF CheckedIn, Persist, Saved, Unsaved
  <1>1. mem' \in State /\ StateOK(mem')
    <2>1. CASE mem' = Released(o)
      <3>1. NewState \in State
        BY DEF NewState, State
      <3>2. mem' \in State /\ mem'.cur = NoTask /\ mem'.pend = "none"
        BY <1>0, <2>1, <3>1 DEF Released, NewState, State
      <3> QED
        BY <3>2, VctlConstants DEF StateOK, Tasks
    <2>2. CASE mem.owner \in {o, NoOwner} /\ mem' = [mem EXCEPT !.owner = o]
      <3>1. mem' \in State
        BY <1>0, <2>2 DEF VctlIInv, VctlTypeOK, State
      <3>2. /\ mem'.owner = o /\ mem'.cur = mem.cur /\ mem'.pend = mem.pend
            /\ mem'.pendFor = mem.pendFor
        BY <2>2 DEF VctlIInv, VctlTypeOK, State
      <3>3. \A t \in Connect : mem.owner = OwnerOf[t] => mem'.owner = OwnerOf[t]
        BY <2>2, <3>2, OwnersOfActions
      <3> QED
        BY <3>1, <3>2, <3>3 DEF VctlIInv, StateOK, OfOwner
    <2> QED
      BY <2>1, <2>2 DEF CheckedIn, Persist, Saved, Unsaved
  <1>2. mem' \in State /\ disk' \in State /\ StateOK(mem)' /\ StateOK(disk)'
    BY <1>0, <1>1, StatesSaved
  <1>3. at' \in Cursor /\ AtOK'
    BY IdlePlaces DEF CheckedIn
  <1>4. VctlTypeOK'
    <2>1. faults' \in 0..MaxFaults
      BY FaultCount DEF VctlIInv, CheckedIn, Persist, Saved, Unsaved
    <2>2. handed' \in [Tasks -> 0..MaxHanded]
      BY VctlConstants DEF VctlIInv, VctlTypeOK, CheckedIn
    <2>3. batch' \subseteq Tasks
      BY DEF CheckedIn
    <2> QED
      BY <1>0, <1>2, <1>3, <2>1, <2>2, <2>3
         DEF VctlIInv, VctlTypeOK, CheckedIn, system, history
  <1> QED
    BY <1>2, <1>3, <1>4, Frame DEF VctlIInv, CheckedIn, system

\* The end of a reboot: a success only after another boot.
LEMMA MaintainTerminalKeeps ==
    ASSUME VctlIInv, MaintainTerminal
    PROVE  VctlIInv'
  <1>0. /\ UNCHANGED <<disk, mem, record, told, boot>> /\ UNCHANGED history
        /\ receipt.owner = mem.owner /\ receipt.job \in Reboots
    BY DEF MaintainTerminal, Scheduled, NoReceipt, VctlIInv, VctlTypeOK, Receipt, system
  <1>1. /\ receipt.job \in Connect /\ receipt.job \in Tasks
        /\ receipt.job \notin Plain \cup Actions
    BY <1>0, VctlConstants DEF Connect, Tasks
  <1>2. boot # receipt.boot \/ receipt.terminal = "success" =>
            Happened(receipt.job) /\ OfOwner(receipt.job, mem)
    BY <1>0, <1>1, VctlConstants DEF VctlIInv, ReceiptOK, Happened, OfOwner, Tasks, Connect
  <1>3. CASE UNCHANGED receipt /\ at' = Idle("jobs") /\ Fault
    <2>1. VctlTypeOK'
      BY <1>0, <1>3, IdlePlaces, FaultCount
         DEF VctlIInv, VctlTypeOK, MaintainTerminal, system, history
    <2> QED
      BY <1>0, <1>3, <2>1, IdlePlaces, Frame, StatesStay DEF VctlIInv
  <1>4. CASE \E s \in {"success", "failure"} :
               /\ at' = At("report", receipt.job, s, "terminal")
               /\ s = "success" => boot # receipt.boot \/ receipt.terminal = "success"
               /\ receipt' \in {receipt, [receipt EXCEPT !.terminal = s]}
               /\ UNCHANGED faults
    <2>1. PICK s \in {"success", "failure"} :
               /\ at' = At("report", receipt.job, s, "terminal")
               /\ s = "success" => boot # receipt.boot \/ receipt.terminal = "success"
               /\ receipt' \in {receipt, [receipt EXCEPT !.terminal = s]}
               /\ UNCHANGED faults
      BY <1>4
    <2>2. at' \in Cursor
      BY <1>1, <2>1, Cursors DEF VctlIInv, Places, Purposes, Results
    <2>3. at'.place = "report" /\ at'.job = receipt.job /\ at'.out = s /\ at'.for = "terminal"
      BY <2>1 DEF At
    <2>4. AtOK'
      BY <1>0, <1>1, <1>2, <2>1, <2>3 DEF AtOK, Happened, OfOwner, history, Results
    <2>5. receipt' \in Receipt
      BY <1>0, <2>1, Receipts DEF VctlIInv, VctlTypeOK, Receipt
    <2>6. VctlTypeOK'
      BY <1>0, <2>1, <2>2, <2>5 DEF VctlIInv, VctlTypeOK, MaintainTerminal, system, history
    <2>7. ReceiptOK'
      <3>1. /\ receipt'.job = receipt.job /\ receipt'.owner = receipt.owner
            /\ receipt'.boot = receipt.boot /\ receipt'.dispatched = receipt.dispatched
            /\ receipt'.acked = receipt.acked /\ receipt'.terminal \in {receipt.terminal, s}
        BY <2>1 DEF VctlIInv, VctlTypeOK, Receipt
      <3> QED
        BY <1>0, <1>1, <2>1, <3>1, VctlConstants DEF VctlIInv, ReceiptOK, Heard, history
    <2>8. RecordOK' /\ SuccessIsTrue' /\ RebootAfterDelivery'
      BY <1>0 DEF VctlIInv, RecordOK, SuccessIsTrue, RebootAfterDelivery, Heard, Happened, history
    <2> QED
      BY <1>0, <2>4, <2>6, <2>7, <2>8, StatesStay DEF VctlIInv
  <1>5. receipt.terminal # "none" => receipt.terminal \in {"success", "failure"}
    BY DEF VctlIInv, VctlTypeOK, Receipt
  <1> QED
    BY <1>3, <1>4, <1>5 DEF MaintainTerminal, RebootProven

\* The kinds of jobs are disjoint.
LEMMA KindsOfJobs ==
    /\ \A t \in Reboots : t \in Connect /\ t \in Tasks /\ t \notin Plain \cup Actions \cup Updates
    /\ \A t \in Actions : t \in Connect /\ t \in Tasks /\ t \notin Plain \cup Reboots \cup Updates
    /\ \A t \in Plain : t \notin Connect /\ t \in Tasks
    /\ \A t \in Updates : t \notin Connect /\ t \notin Plain /\ t \in Tasks
    /\ \A t \in Connect : t \in Tasks /\ t \notin Plain
    /\ NoTask \notin Tasks
  BY VctlConstants DEF Connect, Tasks

\* The dispatch: the panel has a result, and the command was never given.
LEMMA MaintainDispatchKeeps ==
    ASSUME VctlIInv, MaintainDispatch
    PROVE  VctlIInv'
  <1>0. /\ UNCHANGED <<disk, mem, record, told, boot>> /\ UNCHANGED history
        /\ receipt.job \in Reboots /\ receipt.acked /\ ~receipt.dispatched
    BY DEF MaintainDispatch, MayReboot, Scheduled, NoReceipt, VctlIInv, VctlTypeOK, Receipt, system
  <1>1. CASE UNCHANGED receipt /\ at' = Idle("jobs") /\ Fault
    <2>1. VctlTypeOK'
      BY <1>0, <1>1, IdlePlaces, FaultCount
         DEF VctlIInv, VctlTypeOK, MaintainDispatch, system, history
    <2> QED
      BY <1>0, <1>1, <2>1, IdlePlaces, Frame, StatesStay DEF VctlIInv
  <1>2. CASE /\ receipt' = [receipt EXCEPT !.dispatched = TRUE]
             /\ at' = At("command", receipt.job, "none", "terminal")
             /\ UNCHANGED faults
    <2>1. at' \in Cursor
      BY <1>0, <1>2, KindsOfJobs, Cursors DEF VctlIInv, Places, Purposes
    <2>2. at'.place = "command" /\ at'.job = receipt.job /\ at'.out = "none" /\ at'.for = "terminal"
      BY <1>2 DEF At
    <2>3. /\ receipt'.job = receipt.job /\ receipt'.owner = receipt.owner
          /\ receipt'.boot = receipt.boot /\ receipt'.dispatched
          /\ receipt'.acked = receipt.acked /\ receipt'.terminal = receipt.terminal
      BY <1>2 DEF VctlIInv, VctlTypeOK, Receipt
    <2>4. Heard(receipt.job) /\ ran[receipt.job] = 0
      BY <1>0, KindsOfJobs DEF VctlIInv, VctlTypeOK, ReceiptOK
    <2>5. AtOK'
      BY <1>0, <2>2, <2>3, <2>4, KindsOfJobs DEF AtOK, Heard, history
    <2>6. receipt' \in Receipt
      BY <1>2, Receipts DEF VctlIInv, VctlTypeOK, Receipt
    <2>7. VctlTypeOK'
      BY <1>0, <1>2, <2>1, <2>6 DEF VctlIInv, VctlTypeOK, MaintainDispatch, system, history
    <2>8. ReceiptOK'
      BY <1>0, <2>3 DEF VctlIInv, ReceiptOK, Heard, history
    <2>9. RecordOK' /\ SuccessIsTrue' /\ RebootAfterDelivery'
      BY <1>0 DEF VctlIInv, RecordOK, SuccessIsTrue, RebootAfterDelivery, Heard, Happened, history
    <2> QED
      BY <1>0, <2>5, <2>7, <2>8, <2>9, StatesStay DEF VctlIInv
  <1> QED
    BY <1>1, <1>2 DEF MaintainDispatch

\* No reboot to act on; the receipt stays or is emptied.
LEMMA MaintainNothingKeeps ==
    ASSUME VctlIInv, MaintainNothing
    PROVE  VctlIInv'
  <1>0. /\ UNCHANGED <<disk, mem, record, told, boot>> /\ UNCHANGED history
        /\ at' = Idle("jobs")
        /\ receipt' \in {receipt, NoReceipt(mem.owner)}
    BY DEF MaintainNothing, system
  <1>1. receipt' \in Receipt
    BY ZenonT(60), <1>0, Receipts DEF VctlIInv, VctlTypeOK, State
  <1>2. VctlTypeOK'
    BY <1>0, <1>1, IdlePlaces DEF VctlIInv, VctlTypeOK, MaintainNothing, system, history
  <1>3. ReceiptOK'
    <2>1. CASE UNCHANGED receipt
      BY <1>0, <2>1, ReceiptStays
    <2>2. CASE receipt' = NoReceipt(mem.owner)
      <3>1. receipt'.job = NoTask /\ receipt'.terminal = "none"
        BY <2>2 DEF NoReceipt
      <3> QED
        BY <3>1 DEF ReceiptOK
    <2> QED
      BY <1>0, <2>1, <2>2
  <1>4. RecordOK' /\ SuccessIsTrue' /\ RebootAfterDelivery'
    BY <1>0 DEF VctlIInv, RecordOK, SuccessIsTrue, RebootAfterDelivery, Heard, Happened, history
  <1> QED
    BY <1>0, <1>2, <1>3, <1>4, IdlePlaces, StatesStay DEF VctlIInv

\* The command, given for the first time.
LEMMA RebootCommandKeeps ==
    ASSUME VctlIInv, RebootCommand
    PROVE  VctlIInv'
  <1>0. /\ at.job \in Reboots /\ receipt.job = at.job /\ receipt.dispatched
        /\ Heard(at.job) /\ ran[at.job] = 0 /\ record[at.job] # "none"
    BY KindsOfJobs DEF RebootCommand, VctlIInv, AtOK, ReceiptOK
  <1>1. /\ ran' \in [Tasks -> Nat] /\ ran'[at.job] = 1
        /\ \A t \in Tasks \ {at.job} : ran'[t] = ran[t]
    BY <1>0, KindsOfJobs DEF RebootCommand, VctlIInv, VctlTypeOK
  <1>2. UNCHANGED <<disk, mem, record, receipt, batch, runtime, staged, boot, told,
                    worked, seen, handed>>
    BY DEF RebootCommand
  <1>3. at' \in Cursor /\ AtOK'
    <2>1. CASE at' = Idle("jobs")
      BY <2>1, IdlePlaces
    <2>2. CASE at' = [at EXCEPT !.place = "commandFailed"]
      <3>1. at' \in Cursor
        BY <2>2 DEF VctlIInv, VctlTypeOK, Cursor, Places
      <3>2. at'.place = "commandFailed" /\ at'.job = at.job /\ at'.out = at.out /\ at'.for = at.for
        BY <2>2 DEF VctlIInv, VctlTypeOK, Cursor
      <3> QED
        BY <1>0, <1>2, <3>1, <3>2, KindsOfJobs DEF VctlIInv, AtOK, Heard, Happened, OfOwner
    <2> QED
      BY <2>1, <2>2 DEF RebootCommand
  <1>4. VctlTypeOK'
    <2>1. faults' \in 0..MaxFaults /\ halting' \in BOOLEAN
      BY FaultCount DEF VctlIInv, RebootCommand
    <2> QED
      BY <1>1, <1>2, <1>3, <2>1 DEF VctlIInv, VctlTypeOK
  <1>5. StateOK(mem)' /\ StateOK(disk)'
    BY <1>2 DEF VctlIInv, StateOK, Happened, OfOwner
  <1>6. ReceiptOK'
    BY <1>0, <1>2 DEF VctlIInv, ReceiptOK, Heard
  <1>7. RecordOK'
    BY <1>0, <1>1, <1>2, KindsOfJobs DEF VctlIInv, RecordOK, Happened
  <1>8. SuccessIsTrue' /\ RebootAfterDelivery'
    BY <1>0, <1>1, <1>2, KindsOfJobs DEF VctlIInv, SuccessIsTrue, RebootAfterDelivery, Heard, Happened
  <1> QED
    BY <1>3, <1>4, <1>5, <1>6, <1>7, <1>8 DEF VctlIInv

\* The command failed.
LEMMA RebootCommandFailedKeeps ==
    ASSUME VctlIInv, RebootCommandFailed
    PROVE  VctlIInv'
  <1>0. /\ UNCHANGED <<disk, mem, record, told, boot>> /\ UNCHANGED history
        /\ at.job \in Reboots /\ receipt.job = at.job
    BY DEF RebootCommandFailed, VctlIInv, AtOK, system
  <1>1. CASE UNCHANGED receipt /\ at' = Idle("jobs") /\ Fault
    <2>1. VctlTypeOK'
      BY <1>0, <1>1, IdlePlaces, FaultCount
         DEF VctlIInv, VctlTypeOK, RebootCommandFailed, system, history
    <2> QED
      BY <1>0, <1>1, <2>1, IdlePlaces, Frame, StatesStay DEF VctlIInv
  <1>2. CASE /\ receipt' = [receipt EXCEPT !.terminal = "failure"]
             /\ at' = At("report", at.job, "failure", "terminal")
             /\ UNCHANGED faults
    <2>1. at' \in Cursor
      BY <1>0, <1>2, KindsOfJobs, Cursors DEF VctlIInv, Places, Purposes, Results
    <2>2. at'.place = "report" /\ at'.job = at.job /\ at'.out = "failure" /\ at'.for = "terminal"
      BY <1>2 DEF At
    <2>3. AtOK'
      BY <1>0, <2>2, KindsOfJobs DEF AtOK, Results
    <2>4. receipt' \in Receipt
      BY <1>2, Receipts DEF VctlIInv, VctlTypeOK, Receipt
    <2>5. VctlTypeOK'
      BY <1>0, <1>2, <2>1, <2>4 DEF VctlIInv, VctlTypeOK, RebootCommandFailed, system, history
    <2>6. /\ receipt'.job = receipt.job /\ receipt'.owner = receipt.owner
          /\ receipt'.boot = receipt.boot /\ receipt'.dispatched = receipt.dispatched
          /\ receipt'.acked = receipt.acked /\ receipt'.terminal = "failure"
      BY <1>2 DEF VctlIInv, VctlTypeOK, Receipt
    <2>7. ReceiptOK'
      BY <1>0, <2>6, KindsOfJobs DEF VctlIInv, ReceiptOK, Heard, history
    <2>8. RecordOK' /\ SuccessIsTrue' /\ RebootAfterDelivery'
      BY <1>0 DEF VctlIInv, RecordOK, SuccessIsTrue, RebootAfterDelivery, Heard, Happened, history
    <2> QED
      BY <1>0, <2>3, <2>5, <2>7, <2>8, StatesStay DEF VctlIInv
  <1> QED
    BY <1>1, <1>2 DEF RebootCommandFailed

\* A plain job or an update is started.
LEMMA StartJobKeeps ==
    ASSUME VctlIInv, NEW t \in Tasks, StartJob(t)
    PROVE  VctlIInv'
  <1> DEFINE m == [mem EXCEPT !.cur = t, !.exp = NoVersion]
  <1>0. /\ UNCHANGED history /\ t \notin Connect
        /\ mem' = m /\ disk' \in {disk, mem'}
    BY KindsOfJobs DEF StartJob, Persist, Saved, Unsaved
  <1>1. /\ m \in State /\ m.cur = t /\ m.owner = mem.owner
        /\ m.pend = mem.pend /\ m.pendFor = mem.pendFor
    BY DEF VctlIInv, VctlTypeOK, State
  <1>2. mem' \in State /\ disk' \in State /\ StateOK(mem)' /\ StateOK(disk)'
    <2>1. StateOK(m)
      BY <1>0, <1>1 DEF VctlIInv, StateOK, OfOwner
    <2> QED
      BY <1>0, <1>1, <2>1, StatesSaved
  <1>3. at' \in Cursor
    BY Cursors DEF StartJob, VctlIInv, Places, Purposes
  <1>4. AtOK'
    <2>1. at'.place = "execute" /\ at'.job = t /\ at'.out = "none" /\ at'.for = "job"
      BY DEF StartJob, At
    <2> QED
      BY <1>0, <2>1 DEF AtOK
  <1>5. VctlTypeOK'
    <2>1. faults' \in 0..MaxFaults
      BY FaultCount DEF VctlIInv, StartJob, Persist, Saved, Unsaved
    <2>2. batch' \subseteq Tasks
      BY DEF VctlIInv, VctlTypeOK, StartJob, Take
    <2> QED
      BY <1>0, <1>2, <1>3, <2>1, <2>2 DEF VctlIInv, VctlTypeOK, StartJob, system, history
  <1> QED
    BY <1>0, <1>2, <1>4, <1>5, Frame DEF VctlIInv, StartJob, system

\* Begin: only an action without a record, which never ran, is started.
LEMMA StartActionKeeps ==
    ASSUME VctlIInv, NEW t \in Connect, StartAction(t)
    PROVE  VctlIInv'
  <1>0. /\ UNCHANGED <<disk, mem, receipt, told, boot>> /\ UNCHANGED history
        /\ t \in Tasks
    BY KindsOfJobs DEF StartAction, system
  <1>1. /\ record' \in [Connect -> {"none", "started", "interrupted", "succeeded", "failed"}]
        /\ \A u \in Connect : record[u] # "none" => record'[u] # "none"
        /\ \A u \in Connect : record'[u] = "succeeded" => record[u] = "succeeded"
    BY DEF VctlIInv, VctlTypeOK, StartAction, Completed
  <1>2. at' \in Cursor /\ AtOK'
    <2>1. CASE at' = Idle("jobs")
      BY <2>1, IdlePlaces
    <2>2. CASE BeginsNew(t) /\ Completed(t, "started") /\ at' = At("begun", t, "none", "job")
                 /\ mem.owner = OwnerOf[t]
      <3>1. at' \in Cursor
        BY <1>0, <2>2, Cursors DEF VctlIInv, Places, Purposes
      <3>2. at'.place = "begun" /\ at'.job = t /\ at'.out = "none" /\ at'.for = "job"
        BY <2>2 DEF At
      <3>3. ran'[t] = 0 /\ record'[t] = "started"
        BY <1>0, <2>2 DEF BeginsNew, Completed, VctlIInv, VctlTypeOK, RecordOK, history
      <3> QED
        BY <1>0, <2>2, <3>1, <3>2, <3>3 DEF AtOK
    <2>3. CASE \E s \in {"success", "failure"} :
                 /\ at' = At("report", t, s, "job")
                 /\ s = "success" => record[t] = "succeeded" /\ mem.owner = OwnerOf[t]
      <3>1. PICK s \in {"success", "failure"} :
                 /\ at' = At("report", t, s, "job")
                 /\ s = "success" => record[t] = "succeeded" /\ mem.owner = OwnerOf[t]
        BY <2>3
      <3>2. at' \in Cursor
        BY <1>0, <3>1, Cursors DEF VctlIInv, Places, Purposes, Results
      <3>3. at'.place = "report" /\ at'.job = t /\ at'.out = s /\ at'.for = "job"
        BY <3>1 DEF At
      <3>4. s = "success" => Happened(t)' /\ OfOwner(t, mem)'
        BY <1>0, <3>1 DEF VctlIInv, RecordOK, Happened, OfOwner, history
      <3> QED
        BY <1>0, <3>2, <3>3, <3>4 DEF AtOK, Results, Happened, OfOwner
    <2> QED
      BY <2>1, <2>2, <2>3 DEF StartAction
  <1>3. VctlTypeOK'
    <2>1. faults' \in 0..MaxFaults
      BY FaultCount DEF VctlIInv, StartAction
    <2>2. batch' \subseteq Tasks
      BY DEF VctlIInv, VctlTypeOK, StartAction, Take
    <2> QED
      BY <1>0, <1>1, <1>2, <2>1, <2>2 DEF VctlIInv, VctlTypeOK, StartAction, system, history
  <1>4. ReceiptOK'
    BY <1>0, <1>1, ReceiptStays
  <1>5. RecordOK'
    BY <1>0, <1>1 DEF VctlIInv, RecordOK, Happened, history
  <1>6. SuccessIsTrue' /\ RebootAfterDelivery'
    BY <1>0 DEF VctlIInv, SuccessIsTrue, RebootAfterDelivery, Heard, Happened, history
  <1> QED
    BY <1>0, <1>2, <1>3, <1>4, <1>5, <1>6, StatesStay DEF VctlIInv

\* CurrentJob of an action that is started.
LEMMA SaveActionKeeps ==
    ASSUME VctlIInv, SaveAction
    PROVE  VctlIInv'
  <1> DEFINE m == [mem EXCEPT !.cur = at.job, !.exp = NoVersion]
  <1>0. /\ UNCHANGED history /\ UNCHANGED record
        /\ at.job \in Connect /\ at.job \in Tasks /\ mem.owner = OwnerOf[at.job]
        /\ ran[at.job] = 0 /\ record[at.job] = "started"
        /\ at.out = "success" => Happened(at.job)
        /\ mem' = m /\ disk' \in {disk, mem'}
    BY DEF SaveAction, Saved, Unsaved, VctlIInv, AtOK
  <1>1. /\ m \in State /\ m.cur = at.job /\ m.owner = mem.owner
        /\ m.pend = mem.pend /\ m.pendFor = mem.pendFor
    BY <1>0 DEF VctlIInv, VctlTypeOK, State
  <1>2. mem' \in State /\ disk' \in State /\ StateOK(mem)' /\ StateOK(disk)'
    <2>1. StateOK(m)
      BY <1>0, <1>1 DEF VctlIInv, StateOK, OfOwner
    <2> QED
      BY <1>0, <1>1, <2>1, StatesSaved
  <1>3. at' \in Cursor /\ AtOK'
    <2>1. CASE at' = [at EXCEPT !.place = "execute"]
      <3>1. at' \in Cursor
        BY <2>1 DEF VctlIInv, VctlTypeOK, Cursor, Places
      <3>2. at'.place = "execute" /\ at'.job = at.job /\ at'.out = at.out /\ at'.for = at.for
        BY <2>1 DEF VctlIInv, VctlTypeOK, Cursor
      <3> QED
        BY <1>0, <1>1, <3>1, <3>2 DEF AtOK, Happened, OfOwner, history
    <2>2. CASE at' = [at EXCEPT !.place = "complete", !.out = "failure"]
      <3>1. at' \in Cursor
        BY <2>2 DEF VctlIInv, VctlTypeOK, Cursor, Places, Results
      <3>2. at'.place = "complete" /\ at'.job = at.job /\ at'.out = "failure" /\ at'.for = at.for
        BY <2>2 DEF VctlIInv, VctlTypeOK, Cursor
      <3> QED
        BY <1>0, <3>1, <3>2 DEF AtOK, Results
    <2> QED
      BY <2>1, <2>2 DEF SaveAction
  <1>4. VctlTypeOK'
    <2>1. faults' \in 0..MaxFaults
      BY FaultCount DEF VctlIInv, SaveAction, Saved, Unsaved
    <2> QED
      BY <1>2, <1>3, <2>1 DEF VctlIInv, VctlTypeOK, SaveAction, system, history
  <1> QED
    BY <1>0, <1>2, <1>3, <1>4, Frame DEF VctlIInv, SaveAction, system

\* A job that is refused has a failure.
LEMMA BlockedKeeps ==
    ASSUME VctlIInv, Blocked
    PROVE  VctlIInv'
  <1> DEFINE p == IF at.job \in Actions THEN "complete" ELSE "report"
  <1>0. at.job \in Tasks
    BY DEF Blocked, VctlIInv, AtOK
  <1>1. at' = [at EXCEPT !.place = p, !.out = "failure"] /\ p \in Places
    BY DEF Blocked, Places
  <1>2. at' \in Cursor
    BY <1>1 DEF VctlIInv, VctlTypeOK, Cursor, Results
  <1>3. at'.place = p /\ at'.job = at.job /\ at'.out = "failure" /\ at'.for = at.for
    BY <1>1 DEF VctlIInv, VctlTypeOK, Cursor
  <1>4. AtOK'
    BY <1>0, <1>3, KindsOfJobs DEF VctlIInv, AtOK, Results
  <1>5. VctlTypeOK'
    BY <1>2 DEF VctlIInv, VctlTypeOK, Blocked, system, history
  <1> QED
    BY <1>4, <1>5, Frame, StatesStay DEF VctlIInv, Blocked, system

\* The effect of a job, and its outcome.
LEMMA ExecuteKeeps ==
    ASSUME VctlIInv, NEW outcome \in {"success", "failure"}, Execute(outcome)
    PROVE  VctlIInv'
  <1> DEFINE p == IF at.job \in Actions THEN "complete" ELSE "report"
  <1>0. /\ at.place = "execute" /\ at.job \in Tasks /\ at.job \notin Reboots
        /\ at.job \in Connect => ran[at.job] = 0 /\ record[at.job] = "started"
                                 /\ mem.owner = OwnerOf[at.job]
    BY KindsOfJobs DEF Execute, VctlIInv, AtOK
  <1>1. UNCHANGED <<disk, mem, record, receipt, batch, runtime, staged, boot, halting,
                    told, seen, handed, faults>>
    BY DEF Execute, system
  <1>2. /\ ran' \in [Tasks -> Nat] /\ ran'[at.job] = ran[at.job] + 1
        /\ \A t \in Tasks \ {at.job} : ran'[t] = ran[t]
    BY <1>0 DEF Execute, VctlIInv, VctlTypeOK
  <1>3. /\ worked' \in [Tasks -> SUBSET {"success", "failure"}]
        /\ outcome \in worked'[at.job]
        /\ \A t \in Tasks : worked[t] \subseteq worked'[t]
    BY <1>0 DEF Execute, VctlIInv, VctlTypeOK
  <1>4. \A t \in Tasks : Happened(t) => Happened(t)'
    BY <1>1, <1>3 DEF Happened
  <1>5. at' = [at EXCEPT !.place = p, !.out = outcome] /\ p \in Places /\ outcome \in Results
    BY DEF Execute, Places, Results
  <1>6. at' \in Cursor
    BY <1>5 DEF VctlIInv, VctlTypeOK, Cursor
  <1>7. at'.place = p /\ at'.job = at.job /\ at'.out = outcome /\ at'.for = at.for
    BY <1>5 DEF VctlIInv, VctlTypeOK, Cursor
  <1>8. outcome = "success" => Happened(at.job)' /\ OfOwner(at.job, mem)'
    BY <1>0, <1>1, <1>3, <1>7 DEF Happened, OfOwner
  <1>9. AtOK'
    BY <1>0, <1>1, <1>5, <1>7, <1>8, KindsOfJobs DEF VctlIInv, AtOK, Happened, OfOwner
  <1>10. VctlTypeOK'
    BY <1>1, <1>2, <1>3, <1>6 DEF VctlIInv, VctlTypeOK
  <1>11. StateOK(mem)' /\ StateOK(disk)'
    BY <1>1, <1>4 DEF VctlIInv, StateOK, OfOwner
  <1>12. ReceiptOK'
    <2>1. receipt.job # NoTask => receipt.job \in Reboots /\ receipt.job \in Tasks \ {at.job}
      BY <1>0, KindsOfJobs DEF VctlIInv, VctlTypeOK, Receipt
    <2> QED
      BY <1>1, <1>2, <2>1 DEF VctlIInv, ReceiptOK, Heard
  <1>13. RecordOK'
    BY <1>0, <1>1, <1>2, <1>4, KindsOfJobs DEF VctlIInv, VctlTypeOK, RecordOK
  <1>14. SuccessIsTrue' /\ RebootAfterDelivery'
    BY <1>0, <1>1, <1>2, <1>4, KindsOfJobs DEF VctlIInv, SuccessIsTrue, RebootAfterDelivery, Heard
  <1> QED
    BY <1>9, <1>10, <1>11, <1>12, <1>13, <1>14 DEF VctlIInv

\* The record of an action is its outcome.
LEMMA CompleteActionKeeps ==
    ASSUME VctlIInv, CompleteAction
    PROVE  VctlIInv'
  <1>0. /\ UNCHANGED <<disk, mem, receipt, told, boot>> /\ UNCHANGED history
        /\ at.job \in Connect /\ at.job \in Tasks
        /\ at.out = "success" => Happened(at.job)
    BY KindsOfJobs DEF CompleteAction, VctlIInv, AtOK, system
  <1> DEFINE s == IF at.out = "success" THEN "succeeded" ELSE "failed"
  <1>1. record' = record \/ record' = [record EXCEPT ![at.job] = s]
    BY DEF CompleteAction, Completed
  <1>2. /\ record' \in [Connect -> {"none", "started", "interrupted", "succeeded", "failed"}]
        /\ \A u \in Connect : record[u] # "none" => record'[u] # "none"
        /\ \A u \in Connect : record'[u] = "succeeded" =>
                record[u] = "succeeded" \/ (u = at.job /\ at.out = "success")
    BY <1>1 DEF VctlIInv, VctlTypeOK
  <1>3. at' \in Cursor /\ AtOK'
    <2>1. CASE at' = [at EXCEPT !.place = "report"]
      <3>1. at' \in Cursor
        BY <2>1 DEF VctlIInv, VctlTypeOK, Cursor, Places
      <3>2. at'.place = "report" /\ at'.job = at.job /\ at'.out = at.out /\ at'.for = at.for
        BY <2>1 DEF VctlIInv, VctlTypeOK, Cursor
      <3> QED
        BY <1>0, <3>1, <3>2 DEF CompleteAction, VctlIInv, AtOK, Happened, OfOwner, history
    <2>2. CASE at' = [at EXCEPT !.place = "report", !.out = "failure"]
      <3>1. at' \in Cursor
        BY <2>2 DEF VctlIInv, VctlTypeOK, Cursor, Places, Results
      <3>2. at'.place = "report" /\ at'.job = at.job /\ at'.out = "failure" /\ at'.for = at.for
        BY <2>2 DEF VctlIInv, VctlTypeOK, Cursor
      <3> QED
        BY <1>0, <3>1, <3>2 DEF AtOK, Results
    <2> QED
      BY <2>1, <2>2 DEF CompleteAction
  <1>4. VctlTypeOK'
    BY <1>0, <1>2, <1>3, FaultCount DEF VctlIInv, VctlTypeOK, CompleteAction, system, history
  <1>5. ReceiptOK'
    BY <1>0, <1>2, ReceiptStays
  <1>6. RecordOK'
    BY <1>0, <1>2 DEF VctlIInv, RecordOK, Happened, history
  <1>7. SuccessIsTrue' /\ RebootAfterDelivery'
    BY <1>0 DEF VctlIInv, SuccessIsTrue, RebootAfterDelivery, Heard, Happened, history
  <1> QED
    BY <1>0, <1>3, <1>4, <1>5, <1>6, <1>7, StatesStay DEF VctlIInv

\* The package.
LEMMA InstallKeeps ==
    ASSUME VctlIInv, Install
    PROVE  VctlIInv'
  <1>0. /\ UNCHANGED <<disk, mem, record, receipt, batch, runtime, boot, halting, told,
                       worked, seen, handed, faults>>
        /\ at.job \in Updates /\ at.job \in Tasks /\ at.job \notin Connect
    BY KindsOfJobs DEF Install
  <1>1. /\ ran' \in [Tasks -> Nat]
        /\ \A t \in Tasks : ran'[t] # ran[t] => t = at.job
    BY <1>0 DEF Install, VctlIInv, VctlTypeOK
  <1>2. staged' \in Versions
    BY <1>0 DEF Install, VctlIInv, VctlTypeOK, Versions
  <1>3. \A t \in Tasks : Happened(t)' <=> Happened(t)
    BY <1>0 DEF Happened
  <1>4. at' \in Cursor /\ AtOK'
    <2>1. CASE at' = [at EXCEPT !.place = "installed"]
      <3>1. at' \in Cursor
        BY <2>1 DEF VctlIInv, VctlTypeOK, Cursor, Places
      <3>2. at'.place = "installed" /\ at'.job = at.job /\ at'.out = at.out /\ at'.for = at.for
        BY <2>1 DEF VctlIInv, VctlTypeOK, Cursor
      <3> QED
        BY <1>0, <3>1, <3>2 DEF VctlIInv, AtOK, Happened, OfOwner
    <2>2. CASE at' = [at EXCEPT !.place = "report", !.out = "upToDate"]
      <3>1. at' \in Cursor
        BY <2>2 DEF VctlIInv, VctlTypeOK, Cursor, Places, Results
      <3>2. at'.place = "report" /\ at'.job = at.job /\ at'.out = "upToDate" /\ at'.for = at.for
        BY <2>2 DEF VctlIInv, VctlTypeOK, Cursor
      <3> QED
        BY <1>0, <3>1, <3>2 DEF VctlIInv, AtOK, Results
    <2> QED
      BY <2>1, <2>2 DEF Install
  <1>5. VctlTypeOK'
    BY <1>0, <1>1, <1>2, <1>4 DEF VctlIInv, VctlTypeOK
  <1>6. StateOK(mem)' /\ StateOK(disk)'
    BY <1>0, <1>3 DEF VctlIInv, StateOK, OfOwner
  <1>7. ReceiptOK'
    <2>1. receipt.job # NoTask => receipt.job \in Tasks \ {at.job}
      BY <1>0, KindsOfJobs DEF VctlIInv, VctlTypeOK, Receipt
    <2> QED
      BY <1>0, <1>1, <2>1 DEF VctlIInv, ReceiptOK, Heard
  <1>8. RecordOK'
    BY <1>0, <1>1, <1>3, KindsOfJobs DEF VctlIInv, RecordOK
  <1>9. SuccessIsTrue' /\ RebootAfterDelivery'
    BY <1>0, <1>1, <1>3, KindsOfJobs DEF VctlIInv, SuccessIsTrue, RebootAfterDelivery, Heard
  <1> QED
    BY <1>4, <1>5, <1>6, <1>7, <1>8, <1>9 DEF VctlIInv

\* The success of an update is pending.
LEMMA SaveInstalledKeeps ==
    ASSUME VctlIInv, SaveInstalled
    PROVE  VctlIInv'
  <1> DEFINE m == [mem EXCEPT !.exp = Version[at.job], !.pend = "success", !.pendFor = at.job]
  <1>0. /\ UNCHANGED history
        /\ at.job \in Updates /\ at.job \in Tasks /\ at.job \notin Connect \cup Plain
        /\ mem' = m /\ disk' \in {disk, mem'}
    BY KindsOfJobs DEF SaveInstalled, Saved, Unsaved, VctlIInv, AtOK
  <1>1. /\ m \in State /\ m.cur = mem.cur /\ m.owner = mem.owner
        /\ m.pend = "success" /\ m.pendFor = at.job
    BY <1>0 DEF VctlIInv, VctlTypeOK, State, Results, Versions
  <1>2. mem' \in State /\ disk' \in State /\ StateOK(mem)' /\ StateOK(disk)'
    <2>1. StateOK(m)
      BY <1>0, <1>1 DEF VctlIInv, StateOK, Happened, OfOwner, Connect
    <2> QED
      BY <1>0, <1>1, <2>1, StatesSaved
  <1>3. at' \in Cursor /\ AtOK'
    BY IdlePlaces DEF SaveInstalled
  <1>4. VctlTypeOK'
    <2>1. faults' \in 0..MaxFaults
      BY FaultCount DEF VctlIInv, SaveInstalled, Saved, Unsaved
    <2> QED
      BY <1>2, <1>3, <2>1 DEF VctlIInv, VctlTypeOK, SaveInstalled, system, history
  <1> QED
    BY <1>2, <1>3, <1>4, Frame DEF VctlIInv, SaveInstalled, system

\* The receipt of a reboot that was not commanded.
LEMMA ScheduleRebootKeeps ==
    ASSUME VctlIInv, ScheduleReboot
    PROVE  VctlIInv'
  <1>0. /\ UNCHANGED <<disk, mem, record, told, boot>> /\ UNCHANGED history
        /\ at.job \in Reboots /\ at.job \in Tasks /\ at.job \in Connect
        /\ ran[at.job] = 0 /\ record[at.job] = "started" /\ mem.owner = OwnerOf[at.job]
    BY KindsOfJobs DEF ScheduleReboot, VctlIInv, AtOK, system
  <1>1. CASE UNCHANGED receipt /\ at' = At("report", at.job, "failure", "refuse")
    <2>1. at' \in Cursor
      BY <1>0, <1>1, Cursors DEF VctlIInv, Places, Purposes, Results
    <2>2. at'.place = "report" /\ at'.job = at.job /\ at'.out = "failure" /\ at'.for = "refuse"
      BY <1>1 DEF At
    <2>3. AtOK'
      BY <1>0, <2>2 DEF AtOK, Results
    <2>4. VctlTypeOK'
      BY <1>0, <1>1, <2>1, FaultCount
         DEF VctlIInv, VctlTypeOK, ScheduleReboot, system, history
    <2> QED
      BY <1>0, <1>1, <2>3, <2>4, Frame, StatesStay DEF VctlIInv
  <1>2. CASE /\ receipt' = [NoReceipt(mem.owner) EXCEPT !.job = at.job, !.boot = boot]
             /\ at' = At("report", at.job, "accepted", "schedule")
             /\ UNCHANGED faults
    <2>1. at' \in Cursor
      BY <1>0, <1>2, Cursors DEF VctlIInv, Places, Purposes, Results
    <2>2. at'.place = "report" /\ at'.job = at.job /\ at'.out = "accepted" /\ at'.for = "schedule"
      BY <1>2 DEF At
    <2>3. AtOK'
      BY <1>0, <2>2 DEF AtOK, Results
    <2>4. NoReceipt(mem.owner) \in Receipt /\ boot \in Nat
      BY Receipts DEF VctlIInv, VctlTypeOK, State
    <2>5. receipt' \in Receipt
      BY <1>0, <1>2, <2>4 DEF Receipt
    <2>6. /\ receipt'.owner = mem.owner /\ receipt'.job = at.job /\ receipt'.boot = boot
          /\ ~receipt'.dispatched /\ ~receipt'.acked /\ receipt'.terminal = "none"
      BY <1>2 DEF NoReceipt
    <2>7. VctlTypeOK'
      BY <1>0, <1>2, <2>1, <2>5 DEF VctlIInv, VctlTypeOK, ScheduleReboot, system, history
    <2>8. ReceiptOK'
      BY <1>0, <2>6 DEF ReceiptOK, history
    <2>9. RecordOK' /\ SuccessIsTrue' /\ RebootAfterDelivery'
      BY <1>0 DEF VctlIInv, RecordOK, SuccessIsTrue, RebootAfterDelivery, Heard, Happened, history
    <2> QED
      BY <1>0, <2>3, <2>7, <2>8, <2>9, StatesStay DEF VctlIInv
  <1> QED
    BY <1>1, <1>2 DEF ScheduleReboot

\* The record of a refused reboot.
LEMMA RefuseRebootKeeps ==
    ASSUME VctlIInv, RefuseReboot
    PROVE  VctlIInv'
  <1>0. /\ UNCHANGED <<disk, mem, receipt, told, boot>> /\ UNCHANGED history
        /\ at' = Idle("jobs")
    BY DEF RefuseReboot, system
  <1>1. /\ record' \in [Connect -> {"none", "started", "interrupted", "succeeded", "failed"}]
        /\ \A u \in Connect : record[u] # "none" => record'[u] # "none"
        /\ \A u \in Connect : record'[u] = "succeeded" => record[u] = "succeeded"
    BY DEF VctlIInv, VctlTypeOK, RefuseReboot, Completed
  <1>2. VctlTypeOK'
    BY <1>0, <1>1, IdlePlaces, FaultCount DEF VctlIInv, VctlTypeOK, RefuseReboot, system, history
  <1>3. ReceiptOK'
    BY <1>0, <1>1, ReceiptStays
  <1>4. RecordOK'
    <2>1. \A u \in Connect : record'[u] = "none" => record[u] = "none"
      BY <1>1
    <2> QED
      BY <1>0, <1>1, <2>1 DEF VctlIInv, RecordOK, Happened, history
  <1>5. SuccessIsTrue' /\ RebootAfterDelivery'
    BY <1>0 DEF VctlIInv, SuccessIsTrue, RebootAfterDelivery, Heard, Happened, history
  <1> QED
    BY <1>0, <1>2, <1>3, <1>4, <1>5, IdlePlaces, StatesStay DEF VctlIInv

\* The end of the cycle.
LEMMA JobsDoneKeeps ==
    ASSUME VctlIInv, JobsDone
    PROVE  VctlIInv'
  <1>0. /\ UNCHANGED history
        /\ mem' = mem /\ disk' \in {disk, mem'}
    BY DEF JobsDone, Persist, Saved, Unsaved
  <1>1. mem' \in State /\ disk' \in State /\ StateOK(mem)' /\ StateOK(disk)'
    BY <1>0, StatesSaved DEF VctlIInv, VctlTypeOK
  <1>2. at' \in Cursor /\ AtOK'
    BY IdlePlaces DEF JobsDone
  <1>3. VctlTypeOK'
    <2>1. faults' \in 0..MaxFaults
      BY FaultCount DEF VctlIInv, JobsDone, Persist, Saved, Unsaved
    <2> QED
      BY <1>1, <1>2, <2>1 DEF VctlIInv, VctlTypeOK, JobsDone, system, history
  <1> QED
    BY <1>1, <1>2, <1>3, Frame DEF VctlIInv, JobsDone, system

\* The state is saved as it is.
LEMMA SaveBetweenKeeps ==
    ASSUME VctlIInv, SaveBetween
    PROVE  VctlIInv'
  <1>0. UNCHANGED <<mem, record, receipt, at, told, boot>> /\ UNCHANGED history /\ disk' = mem
    BY DEF SaveBetween, system
  <1>1. mem' \in State /\ disk' \in State /\ StateOK(mem)' /\ StateOK(disk)'
    BY <1>0, StatesSaved DEF VctlIInv, VctlTypeOK
  <1>2. AtOK'
    BY <1>0 DEF VctlIInv, AtOK, Happened, OfOwner, Heard, history
  <1>3. VctlTypeOK'
    BY <1>0, <1>1 DEF VctlIInv, VctlTypeOK, SaveBetween, system, history
  <1> QED
    BY <1>0, <1>1, <1>2, <1>3, Frame DEF VctlIInv

\* The next process claims what is on disk, and nothing else.
LEMMA BeginsOK ==
    ASSUME VctlIInv, Begins, UNCHANGED <<disk, worked>>, seen \subseteq seen'
    PROVE  /\ mem' \in State /\ disk' \in State /\ StateOK(mem)' /\ StateOK(disk)'
           /\ at' \in Cursor /\ AtOK' /\ batch' = {}
  BY IdlePlaces DEF Begins, VctlIInv, VctlTypeOK, StateOK, Happened, OfOwner

\* A crash or a restart.
LEMMA RestartKeeps ==
    ASSUME VctlIInv, Restart
    PROVE  VctlIInv'
  <1>0. /\ UNCHANGED <<disk, record, receipt, staged, boot, halting, told, ran, worked, handed>>
        /\ seen \subseteq seen' /\ Begins
    BY DEF Restart
  <1>1. \A t \in Tasks : Happened(t) => Happened(t)'
    BY <1>0 DEF Happened
  <1>2. VctlTypeOK'
    <2>1. runtime' \in Versions /\ seen' \subseteq Versions \cup Reboots
      BY DEF Restart, Begins, VctlIInv, VctlTypeOK
    <2>2. faults' \in 0..MaxFaults
      BY FaultCount DEF Restart, VctlIInv
    <2> QED
      BY <1>0, <2>1, <2>2, BeginsOK DEF VctlIInv, VctlTypeOK
  <1>3. ReceiptOK'
    BY <1>0 DEF VctlIInv, ReceiptOK, Heard
  <1>4. RecordOK'
    BY <1>0, <1>1, KindsOfJobs DEF VctlIInv, RecordOK
  <1>5. SuccessIsTrue' /\ RebootAfterDelivery'
    BY <1>0, <1>1 DEF VctlIInv, SuccessIsTrue, RebootAfterDelivery, Heard
  <1> QED
    BY <1>0, <1>2, <1>3, <1>4, <1>5, BeginsOK DEF VctlIInv

\* A boot makes the scheduled reboot one that happened.
LEMMA BootKeeps ==
    ASSUME VctlIInv, Boot
    PROVE  VctlIInv'
  <1>0. /\ UNCHANGED <<disk, record, receipt, staged, told, ran, worked, handed>>
        /\ seen \subseteq seen' /\ Begins /\ boot' = boot + 1 /\ halting' = FALSE
        /\ receipt.job # NoTask => receipt.job \in seen'
    BY DEF Boot
  <1>1. \A t \in Tasks : Happened(t) => Happened(t)'
    BY <1>0 DEF Happened
  <1>2. VctlTypeOK'
    <2>1. runtime' \in Versions
      BY DEF Boot, Begins, VctlIInv, VctlTypeOK
    <2>2. seen' \subseteq Versions \cup Reboots
      BY <2>1 DEF Boot, VctlIInv, VctlTypeOK, Receipt
    <2>3. faults' \in 0..MaxFaults /\ boot' \in Nat
      BY <1>0, FaultCount DEF Boot, VctlIInv, VctlTypeOK
    <2> QED
      BY <1>0, <2>1, <2>2, <2>3, BeginsOK DEF VctlIInv, VctlTypeOK
  <1>3. ReceiptOK'
    BY <1>0 DEF VctlIInv, ReceiptOK, Heard
  <1>4. RecordOK'
    BY <1>0, <1>1, KindsOfJobs DEF VctlIInv, RecordOK
  <1>5. SuccessIsTrue' /\ RebootAfterDelivery'
    BY <1>0, <1>1 DEF VctlIInv, SuccessIsTrue, RebootAfterDelivery, Heard
  <1> QED
    BY <1>0, <1>2, <1>3, <1>4, <1>5, BeginsOK DEF VctlIInv

\* Nothing was done.
LEMMA InitOK == Init => VctlIInv
  <1> SUFFICES ASSUME Init PROVE VctlIInv
    OBVIOUS
  <1>1. NewState \in State /\ NewState.cur = NoTask /\ NewState.pend = "none"
    BY DEF NewState, State
  <1>2. /\ NoReceipt(NoOwner) \in Receipt /\ NoReceipt(NoOwner).job = NoTask
        /\ NoReceipt(NoOwner).terminal = "none"
    BY Receipts DEF NoReceipt, Receipt
  <1>3. Idle("poll") \in Cursor /\ AtOK
    BY DEF Init, Idle, At, AtOK, Cursor, Places, Purposes, Results
  <1>4. VctlTypeOK
    <2>1. handed \in [Tasks -> 0..MaxHanded] /\ faults \in 0..MaxFaults
      BY VctlConstants DEF Init
    <2>2. /\ record \in [Connect -> {"none", "started", "interrupted", "succeeded", "failed"}]
          /\ ran \in [Tasks -> Nat] /\ worked \in [Tasks -> SUBSET {"success", "failure"}]
      BY DEF Init
    <2>3. OldVersion \in Versions
      BY DEF Versions
    <2> QED
      BY <1>1, <1>2, <1>3, <2>1, <2>2, <2>3 DEF Init, VctlTypeOK
  <1>5. StateOK(mem) /\ StateOK(disk)
    BY <1>1, KindsOfJobs DEF Init, StateOK
  <1>6. ReceiptOK /\ RecordOK /\ SuccessIsTrue /\ RebootAfterDelivery
    <2>1. \A t \in Tasks : ran[t] = 0
      BY DEF Init
    <2>2. \A t \in Connect : record[t] = "none" /\ ran[t] = 0
      BY <2>1, KindsOfJobs DEF Init
    <2>3. RecordOK
      BY <2>2 DEF RecordOK
    <2>4. ReceiptOK
      BY <1>2 DEF Init, ReceiptOK
    <2>5. SuccessIsTrue /\ RebootAfterDelivery
      BY <2>1, KindsOfJobs DEF Init, SuccessIsTrue, RebootAfterDelivery
    <2> QED
      BY <2>3, <2>4, <2>5
  <1> QED
    BY <1>3, <1>4, <1>5, <1>6 DEF VctlIInv

\* Every step keeps the invariant.
LEMMA NextKeeps ==
    ASSUME VctlIInv, [Next]_vars
    PROVE  VctlIInv'
  <1>1. CASE Cycle
    BY <1>1, FlushPendingKeeps, RecoverCurrentKeeps, RecoverNothingKeeps, ReportKeeps,
       SubmittedKeeps, SubmitFailedKeeps, DeliverKeeps, DeliverReceiptKeeps,
       CheckInFailedKeeps, CheckedInKeeps, MaintainTerminalKeeps, MaintainDispatchKeeps,
       MaintainNothingKeeps, RebootCommandKeeps, RebootCommandFailedKeeps, StartJobKeeps,
       StartActionKeeps, SaveActionKeeps, BlockedKeeps, CompleteActionKeeps, ExecuteKeeps,
       InstallKeeps, SaveInstalledKeeps, ScheduleRebootKeeps, RefuseRebootKeeps,
       JobsDoneKeeps, SaveBetweenKeeps DEF Cycle
  <1>2. CASE Restart
    BY <1>2, RestartKeeps
  <1>3. CASE Boot
    BY <1>3, BootKeeps
  <1>4. CASE UNCHANGED vars
    <2>1. UNCHANGED <<disk, mem, record, receipt, at, batch, runtime, staged, boot, halting,
                      told, ran, worked, seen, handed, faults>>
      BY <1>4 DEF vars
    <2>2. VctlTypeOK'
      BY <2>1 DEF VctlIInv, VctlTypeOK
    <2>3. AtOK'
      BY <2>1 DEF VctlIInv, AtOK, Happened, OfOwner, Heard
    <2> QED
      BY <2>1, <2>2, <2>3, Frame, StatesStay DEF VctlIInv, history
  <1> QED
    BY <1>1, <1>2, <1>3, <1>4 DEF Next

\* The inductive invariant of vctl's journal holds in every behaviour, for any
\* jobs, owners, bounds and faults.
THEOREM VctlInvariance == Spec => []VctlIInv
  <1>1. VctlIInv /\ [Next]_vars => VctlIInv'
    BY NextKeeps
  <1> QED
    BY <1>1, InitOK, PTL DEF Spec

\* The journal of actions and the receipt let an owner's action happen, and a
\* reboot be commanded, at most once (internal/connectactions Begin, "At-most-once dispatch").
THEOREM RunsAtMostOnce == Spec => []ConnectRunsAtMostOnce
  <1>1. VctlIInv => ConnectRunsAtMostOnce
    BY DEF VctlIInv, RecordOK, ConnectRunsAtMostOnce
  <1> QED
    BY <1>1, VctlInvariance, PTL

\* Whatever success the panel receives happened: recoverJournal,
\* connectFinish and the receipt never turn a crash into a success.
THEOREM SuccessesAreTrue == Spec => []SuccessIsTrue
  <1>1. VctlIInv => SuccessIsTrue
    BY DEF VctlIInv
  <1> QED
    BY <1>1, VctlInvariance, PTL

\* connectMaintenanceAfterCheckin reboots no router whose panel has no result of
\* that reboot.
THEOREM RebootsAfterDelivery == Spec => []RebootAfterDelivery
  <1>1. VctlIInv => RebootAfterDelivery
    BY DEF VctlIInv
  <1> QED
    BY <1>1, VctlInvariance, PTL

\* release and adoptClaimInfo leave no success of a former owner's action to send.
THEOREM FormerOwnersKeptOut == Spec => NothingOfFormerOwnerSent
  <1>1. VctlIInv /\ [Next]_vars =>
            \A t \in Connect : <<t, "success">> \in told' \ told => mem.owner = OwnerOf[t]
    <2> SUFFICES ASSUME VctlIInv, [Next]_vars, NEW t \in Connect,
                        <<t, "success">> \in told' \ told
                 PROVE  mem.owner = OwnerOf[t]
      OBVIOUS
    <2>1. told' # told
      OBVIOUS
    <2>2. Submitted \/ SubmitFailed
      BY <2>1 DEF Next, Cycle, vars, history, system, FlushPending, RecoverCurrent,
         RecoverNothing, Report, Deliver, DeliverReceipt, CheckInFailed, CheckedIn,
         MaintainTerminal, MaintainDispatch, MaintainNothing, RebootCommand,
         RebootCommandFailed, StartJob, StartAction, SaveAction, Blocked, CompleteAction,
         Execute, Install, SaveInstalled, ScheduleReboot, RefuseReboot, JobsDone,
         SaveBetween, Restart, Boot
    <2>3. at.job = t /\ at.out = "success"
      BY <2>2 DEF Submitted, SubmitFailed
    <2> QED
      BY <2>3 DEF VctlIInv, AtOK, OfOwner
  <1> QED
    BY <1>1, VctlInvariance, PTL DEF Spec, NothingOfFormerOwnerSent
=============================================================================
