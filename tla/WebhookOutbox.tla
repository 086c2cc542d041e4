---------------------------- MODULE WebhookOutbox ----------------------------
(***************************************************************************)
(* The outbox of the partners' webhooks (partner-webhooks.ts).  Every      *)
(* process of the panel delivers: each runs one loop (flight) per partner, *)
(* started by a pass over the rows that are due.  Loops of different       *)
(* processes share nothing but the rows: a row is leased by comparing and  *)
(* raising its attempt counter.                                            *)
(*                                                                         *)
(* Time is not counted.  nextAttemptAt is a class, and a flight is late    *)
(* once an await of it has outlasted everything the code bounds: the 10 s  *)
(* of a send, the 60 s of a lease, the 5 min after which a pass replaces   *)
(* the loop.                                                               *)
(***************************************************************************)
EXTENDS Naturals

CONSTANTS
  Procs,        \* processes of the panel that deliver (web, worker)
  Partners,
  Webhooks,     \* rows that may be queued
  PartnerOf,    \* the partner a row belongs to
  Queueing,     \* those that queue webhooks
  Sweeping,     \* those whose timer sweeps, under the lock of the loop
  Registries,   \* the partners' addresses, as the processes may have read them
  MaxAttempts,  \* PARTNER_WEBHOOK_MAX_ATTEMPTS
  MaxFaults     \* bound: crashes, awaits that hang, errors, lost answers, outages

ASSUME PartnersAssumption == PartnerOf \in [Webhooks -> Partners] /\ Webhooks # {}
ASSUME RegistriesAssumption ==
  Registries \subseteq [Procs -> [Partners -> {"address", "none", "unknown"}]]
ASSUME RolesAssumption == Queueing \subseteq Procs /\ Sweeping \subseteq Procs
ASSUME AttemptsAssumption == MaxAttempts \in Nat \ {0} /\ MaxFaults \in Nat
VARIABLES
  row,     \* the table: one row per webhook
  book,    \* each process's registry of partners
  flight,  \* the delivery loops
  slot,    \* each process's map of the partners' running loops
  up,      \* external: the partner's endpoint answers
  faults

vars == <<row, book, flight, slot, up, faults>>

\* A loop of a process for a partner; those it replaced may still be there.
Gens == 0..MaxFaults
Flights == Procs \X Partners \X Gens
None == MaxFaults + 1
Proc(f) == f[1]
Partner(f) == f[2]

\* next: nextAttemptAt, "never" is null; addressless: lastError is
\* NO_TARGET_ERROR.
Row == [next: {"absent", "due", "leased", "later", "never"}, attempts: Nat,
        delivered: BOOLEAN, addressless: BOOLEAN]
NewRow == [next |-> "due", attempts |-> 0, delivered |-> FALSE,
           addressless |-> FALSE]
Absent == [NewRow EXCEPT !.next = "absent"]

\* batch: the rows still to be handled, with the attempts that were read;
\* w, attempts: the row in hand, and the attempts it was read or leased with.
Flight ==
  [place: {"free", "rows", "writing", "sending"},
   batch: SUBSET (Webhooks \X Nat), w: Webhooks, attempts: Nat,
   rerun: BOOLEAN, late: BOOLEAN]
AnyRow == CHOOSE w \in Webhooks : TRUE
Nobody == [place |-> "free", batch |-> {}, w |-> AnyRow, attempts |-> 0,
           rerun |-> FALSE, late |-> FALSE]

Running == {f \in Flights : flight[f].place # "free"}

TypeOK ==
  /\ row \in [Webhooks -> Row]
  /\ book \in Registries
  /\ flight \in [Flights -> Flight]
  /\ slot \in [Procs -> [Partners -> Gens \cup {None}]]
  /\ \A p \in Procs, a \in Partners :
       slot[p][a] # None => <<p, a, slot[p][a]>> \in Running
  /\ up \in [Partners -> BOOLEAN]
  /\ faults \in 0..MaxFaults

Init ==
  /\ row = [w \in Webhooks |-> Absent]
  /\ book \in Registries
  /\ flight = [f \in Flights |-> Nobody]
  /\ slot = [p \in Procs |-> [a \in Partners |-> None]]
  /\ up = [a \in Partners |-> TRUE]
  /\ faults = 0

Fault == faults < MaxFaults /\ faults' = faults + 1

-----------------------------------------------------------------------------
(* Queueing *)

AnyAddress(p) == \E a \in Partners : book[p][a] = "address"

\* A partner known without an address gets no rows; an unknown one does.
Enqueue(p, w) ==
  /\ row[w].next = "absent"
  /\ AnyAddress(p) /\ book[p][PartnerOf[w]] # "none"
  /\ row' = [row EXCEPT ![w] = NewRow]
  /\ UNCHANGED <<book, flight, slot, up, faults>>

-----------------------------------------------------------------------------
(* A pass, and the life of a loop *)

Due(a) == {w \in Webhooks : PartnerOf[w] = a /\ row[w].next = "due"}
Batch(a) == {<<w, row[w].attempts>> : w \in Due(a)}

NewFlight(a) == [Nobody EXCEPT !.place = "rows", !.batch = Batch(a)]

InFlight(p, a) == slot[p][a] # None
Current(p, a) == flight[<<p, a, slot[p][a]>>]
Unused(p, a) ==
  CHOOSE g \in Gens :
    /\ <<p, a, g>> \notin Running
    /\ \A h \in Gens : <<p, a, h>> \notin Running => g <= h

\* Mutant: a loop that made no progress is waited for.
BusyForEver(p, a) == InFlight(p, a)

Busy(p, a) == InFlight(p, a) /\ ~Current(p, a).late

\* dispatchDuePartnerWebhooksWithDb: the rows of a partner whose loop runs are
\* left to it; a loop without progress for 5 min is replaced.
Pass(p) ==
  /\ AnyAddress(p)
  /\ \E stale \in SUBSET {a \in Partners : InFlight(p, a) /\ ~Busy(p, a)} :
       LET served == {a \in Partners : Due(a) # {}}
           started == {a \in served : ~InFlight(p, a) \/ a \in stale}
           starts == [a \in Partners |->
                        IF a \in started THEN Unused(p, a) ELSE slot[p][a]]
       IN /\ slot' = [slot EXCEPT ![p] = starts]
          /\ flight' = [f \in Flights |->
               IF Proc(f) # p \/ Partner(f) \notin served
                    \/ f[3] # starts[Partner(f)]
               THEN flight[f]
               ELSE IF Partner(f) \in started THEN NewFlight(Partner(f))
               ELSE [flight[f] EXCEPT !.rerun = TRUE]]
  /\ UNCHANGED <<row, book, up, faults>>

Replaced(f) == slot[Proc(f)][Partner(f)] # f[3]

\* Mutant: the successor's place is given up, the loop's own is kept.
GoneKept(f) ==
  /\ flight' = [flight EXCEPT ![f] = Nobody]
  /\ slot' = IF Replaced(f) THEN [slot EXCEPT ![Proc(f)][Partner(f)] = None]
             ELSE slot

\* flyPartner's finally: a loop that was replaced leaves its successor alone.
Gone(f) ==
  /\ flight' = [flight EXCEPT ![f] = Nobody]
  /\ slot' = IF Replaced(f) THEN slot
             ELSE [slot EXCEPT ![Proc(f)][Partner(f)] = None]

At(f, place) == flight[f].place = place

\* One row is done: progressAt.
RowDone(f) ==
  flight' = [flight EXCEPT ![f].place = "rows", ![f].late = FALSE,
                           ![f].w = AnyRow, ![f].attempts = 0]

FlightEnds(f) ==
  /\ At(f, "rows")
  /\ \/ Replaced(f)
     \/ flight[f].batch = {} /\ ~(flight[f].rerun /\ AnyAddress(Proc(f)))
  /\ Gone(f)
  /\ UNCHANGED <<row, book, up, faults>>

\* A pass found the loop busy: it looks again.
FlightAgain(f) ==
  /\ At(f, "rows") /\ ~Replaced(f)
  /\ flight[f].batch = {} /\ flight[f].rerun /\ AnyAddress(Proc(f))
  /\ flight' = [flight EXCEPT ![f].rerun = FALSE,
                              ![f].batch = Batch(Partner(f))]
  /\ UNCHANGED <<row, book, slot, up, faults>>

-----------------------------------------------------------------------------
(* deliverPartnerRow *)

Undelivered(w) == row[w].next # "absent" /\ ~row[w].delivered
Addressed(f) == book[Proc(f)][Partner(f)] = "address"

\* Mutant: the lease looks only at the delivery.
LeaseableUncompared(w, attempts) == Undelivered(w)

\* The compare-and-swap: whoever leased since has raised the attempts.
Leaseable(w, attempts) == Undelivered(w) /\ row[w].attempts = attempts

\* The row, read with attempts, is leased for 60 s and then sent.
Lease(f, rest, w, attempts) ==
  IF Leaseable(w, attempts)
  THEN /\ row' = [row EXCEPT ![w].attempts = @ + 1, ![w].next = "leased"]
       /\ flight' = [flight EXCEPT ![f] =
            [rest EXCEPT !.place = "sending", !.w = w, !.attempts = attempts + 1]]
  ELSE flight' = [flight EXCEPT ![f] = rest] /\ UNCHANGED row

\* waitForPartnerAddress: nothing is sent and no attempt is counted; a row
\* that is a week old is given up.
WaitForPartnerAddress(f, rest, w, next) ==
  /\ row' = IF Undelivered(w)
            THEN [row EXCEPT ![w].next = next, ![w].addressless = TRUE] ELSE row
  /\ flight' = [flight EXCEPT ![f] = rest]

\* Every wait takes an hour: once somebody has seen the week be over, or long
\* before a row has had many more attempts than MaxAttempts, it is over.
WeekIsOver(w) ==
  (row[w].next = "never" /\ row[w].addressless) \/ row[w].attempts > MaxAttempts
Patience(w) == IF WeekIsOver(w) THEN {"never"} ELSE {"later", "never"}

\* The next row of the batch.  The write may hang, and happen later.
NextRow(f) ==
  /\ At(f, "rows") /\ ~Replaced(f)
  /\ \E read \in flight[f].batch :
       LET rest == [flight[f] EXCEPT !.batch = @ \ {read}]
       IN \/ /\ Addressed(f) /\ Lease(f, rest, read[1], read[2])
             /\ UNCHANGED faults
          \/ /\ ~Addressed(f)
             /\ \E next \in Patience(read[1]) :
                  WaitForPartnerAddress(f, rest, read[1], next)
             /\ UNCHANGED faults
          \/ /\ Fault
             /\ flight' = [flight EXCEPT ![f] =
                  [rest EXCEPT !.place = "writing", !.w = read[1],
                               !.attempts = read[2], !.late = TRUE]]
             /\ UNCHANGED row
  /\ UNCHANGED <<book, slot, up>>

\* The write that hung is done; its lease, counted from the clock the row was
\* begun at, may be over already.
LateWrite(f) ==
  /\ At(f, "writing")
  /\ LET w == flight[f].w
         rest == [flight[f] EXCEPT !.place = "rows", !.w = AnyRow, !.attempts = 0,
                                   !.late = FALSE]
     IN IF Addressed(f)
        THEN Lease(f, [rest EXCEPT !.late = Leaseable(w, flight[f].attempts)], w,
                   flight[f].attempts)
        ELSE \E next \in {"later", "never"} :
               WaitForPartnerAddress(f, rest, w, next)
  /\ UNCHANGED <<book, slot, up, faults>>

\* A 2xx or 409 is written whichever lease sent it; the row is delivered.
Mark(w) ==
  row' = IF Undelivered(w)
         THEN [row EXCEPT ![w].delivered = TRUE, ![w].next = "never",
                          ![w].addressless = FALSE]
         ELSE row

\* Mutant: what a send learned is written whatever became of the row.
UnderAnyLease(w, attempts) == Undelivered(w)

UnderThisLease(w, attempts) == Undelivered(w) /\ row[w].attempts = attempts

\* Mutant: the last attempt is never made.
FailOneEarly(w, attempts) ==
  row' = IF UnderThisLease(w, attempts)
         THEN [row EXCEPT ![w].addressless = FALSE,
                 ![w].next = IF attempts + 1 >= MaxAttempts THEN "never" ELSE "later"]
         ELSE row

\* A failure is written only under the lease it was sent under.
Fail(w, attempts) ==
  row' = IF UnderThisLease(w, attempts)
         THEN [row EXCEPT ![w].addressless = FALSE,
                 ![w].next = IF attempts >= MaxAttempts THEN "never" ELSE "later"]
         ELSE row

\* The partner accepts the event, or has it already (409); or refuses it, or its
\* answer is lost.
Send(f) ==
  /\ At(f, "sending")
  /\ LET w == flight[f].w
         n == flight[f].attempts
     IN \/ up[PartnerOf[w]] /\ Mark(w) /\ UNCHANGED faults
        \/ up[PartnerOf[w]] /\ Fail(w, n) /\ Fault
        \/ ~up[PartnerOf[w]] /\ Fail(w, n) /\ UNCHANGED faults
  /\ RowDone(f)
  /\ UNCHANGED <<book, slot, up>>

FlightStep(f) ==
  \/ FlightEnds(f) \/ FlightAgain(f) \/ NextRow(f) \/ LateWrite(f)
  \/ Send(f)

-----------------------------------------------------------------------------
(* Time *)

\* Somebody is within the time the code gives a row.
InHand(w) ==
  \E f \in Running :
    At(f, "sending") /\ flight[f].w = w /\ ~flight[f].late

\* A lease runs out, a backoff or an hour's wait is over.
ComesDue(w) ==
  /\ row[w].next \in {"leased", "later"} /\ ~InHand(w)
  /\ row' = [row EXCEPT ![w].next = "due"]
  /\ UNCHANGED <<book, flight, slot, up, faults>>

-----------------------------------------------------------------------------
(* Faults *)

\* An await of the loop does not settle, or only much later.
Hangs(f) ==
  /\ f \in Running /\ At(f, "sending") /\ ~flight[f].late
  /\ Fault
  /\ flight' = [flight EXCEPT ![f].late = TRUE]
  /\ UNCHANGED <<row, book, slot, up>>

\* A statement throws: the loop ends.
Throws(f) ==
  /\ At(f, "rows")
  /\ Fault
  /\ Gone(f)
  /\ UNCHANGED <<row, book, up>>

\* The process dies and starts again, perhaps with another registry.
Crash(p) ==
  /\ Fault
  /\ flight' = [f \in Flights |-> IF f \in Running /\ Proc(f) = p
                                  THEN Nobody ELSE flight[f]]
  /\ slot' = [slot EXCEPT ![p] = [a \in Partners |-> None]]
  /\ book' \in {b \in Registries : \A q \in Procs \ {p} : b[q] = book[q]}
  /\ UNCHANGED <<row, up>>

\* The partner's endpoint goes down, or comes back.
Outage(a) ==
  /\ up[a] /\ Fault
  /\ up' = [up EXCEPT ![a] = FALSE]
  /\ UNCHANGED <<row, book, flight, slot>>

Returns(a) ==
  /\ ~up[a]
  /\ up' = [up EXCEPT ![a] = TRUE]
  /\ UNCHANGED <<row, book, flight, slot, faults>>

Next ==
  \/ \E p \in Procs : Pass(p) \/ Crash(p)
  \/ \E p \in Queueing, w \in Webhooks : Enqueue(p, w)
  \/ \E f \in Flights : FlightStep(f) \/ Hangs(f) \/ Throws(f)
  \/ \E w \in Webhooks : ComesDue(w)
  \/ \E a \in Partners : Outage(a) \/ Returns(a)

Spec == Init /\ [][Next]_vars

InTime(p) == {f \in Running : Proc(f) = p /\ ~flight[f].late}

\* A week passes while a row waits for an address.
GivesUpWaiting(f) ==
  /\ NextRow(f) /\ ~Addressed(f)
  /\ \E w \in Webhooks : row[w].next # "never" /\ row'[w].next = "never"

\* The timer of the sweep fires, what does not hang goes on, and time passes.
\* Nothing is promised of an await that hangs, of the partner, or of the pass a
\* process starts for what it has just queued.
FairSpec ==
  /\ Spec
  /\ \A p \in Sweeping : WF_vars(Pass(p))
  /\ \A p \in Procs : WF_vars(\E f \in InTime(p) : FlightStep(f))
  /\ WF_vars(\E w \in Webhooks : ComesDue(w))
  /\ SF_vars(\E f \in Running : GivesUpWaiting(f))

-----------------------------------------------------------------------------
(* Properties *)

\* The loops that are sending w within the time of their lease.
Senders(w) ==
  {f \in Running : At(f, "sending") /\ flight[f].w = w /\ ~flight[f].late}

\* However many processes deliver, and whatever hung before, one loop at a time
\* sends a webhook ("a concurrent sweep cannot send it at the same time").
OneSenderInTime == \A w \in Webhooks : \A f, g \in Senders(w) : f = g

\* While a loop sends within its lease, the failure of a loop whose lease is gone
\* neither reschedules the row nor gives it up.
LeaseHolds ==
  \A w \in Webhooks : \A f \in Senders(w) :
    /\ row[w].attempts = flight[f].attempts
    /\ row[w].next = "leased" \/ row[w].delivered \/ row[w].addressless

\* Every queued webhook is delivered or given up, whatever hangs or dies: no
\* partner's loop parks its own rows or another partner's.
EverySettles ==
  \A w \in Webhooks : row[w].next = "due" ~> row[w].next = "never"

\* With an address in every process and an endpoint that answers, a webhook is
\* delivered, not given up, as long as it has more attempts than misfortunes.
ReachesPartner ==
  \A w \in Webhooks :
    LET a == PartnerOf[w]
    IN [](/\ up[a] /\ faults < MaxAttempts
          /\ \A p \in Procs : book[p][a] = "address")
         => (row[w].next = "due" ~> row[w].delivered)
=============================================================================
