------------------------- MODULE WebhookOutboxProofs -------------------------
(***************************************************************************)
(* However many processes deliver, one loop at a time sends a webhook      *)
(* within its lease.  The compare-and-swap alone does not say so: it also  *)
(* takes that nobody can have read the attempts of a row that is being     *)
(* sent (NotRead), since the lease keeps it from being due.                *)
(* The last section is the type of the state.  Its hard part is the room   *)
(* for loops: a pass always finds a place for the loop it starts, because  *)
(* a place is lost only to an await that hung, which takes a fault.        *)
(***************************************************************************)
EXTENDS WebhookOutbox, FiniteSetTheorems, WellFoundedInduction, TLAPS

RowsOK ==
  /\ row \in [Webhooks -> Row]
  /\ flight \in [Flights -> Flight]
  /\ faults \in Nat
  /\ \A w \in Webhooks : row[w].next = "absent" => row[w].attempts = 0

Sends(e) == e.place = "sending"
SendsInTime(e) == Sends(e) /\ ~e.late

\* The attempts a loop has read and not yet compared.
Reads(e, w, n) ==
  \/ <<w, n>> \in e.batch
  \/ e.place = "writing" /\ e.w = w /\ e.attempts = n

\* A row nobody may lease, and that no failure has touched.
Held(r) ==
  /\ r.next \notin {"due", "absent"}
  /\ r.next = "leased" \/ r.delivered \/ r.addressless

\* Nobody has read, or leased, more attempts than were made.
ReadsOK ==
  \A f \in Flights :
    /\ \A w \in Webhooks, n \in Nat : Reads(flight[f], w, n) => n <= row[w].attempts
    /\ Sends(flight[f]) => flight[f].attempts <= row[flight[f].w].attempts

\* An attempt is leased once.
LeasedOnce ==
  \A f, g \in Flights :
    /\ Sends(flight[f]) /\ Sends(flight[g])
    /\ flight[f].w = flight[g].w /\ flight[f].attempts = flight[g].attempts
    => f = g

\* The row of a loop that sends in time is held at that loop's attempts.
SendersOK ==
  \A f \in Flights : SendsInTime(flight[f]) =>
    /\ row[flight[f].w].attempts = flight[f].attempts
    /\ Held(row[flight[f].w])

\* Nobody has read those attempts.
NotRead ==
  \A f, g \in Flights :
    SendsInTime(flight[f]) => ~Reads(flight[g], flight[f].w, flight[f].attempts)

OutboxIInv == RowsOK /\ ReadsOK /\ LeasedOnce /\ SendersOK /\ NotRead

-----------------------------------------------------------------------------
(* Records *)

LEMMA AtMost == \A a, b, c \in Nat : a <= b /\ b <= c => a <= c
OBVIOUS

LEMMA AnyRowIsARow == AnyRow \in Webhooks
BY PartnersAssumption DEF AnyRow

LEMMA NobodyIsAFlight ==
  /\ Nobody \in Flight
  /\ ~Sends(Nobody)
  /\ \A w, n : ~Reads(Nobody, w, n)
BY AnyRowIsARow DEF Nobody, Flight, Sends, Reads

LEMMA BatchReads ==
  ASSUME RowsOK, NEW a \in Partners
  PROVE  /\ Batch(a) \in SUBSET (Webhooks \X Nat)
         /\ \A w \in Webhooks, n \in Nat :
              <<w, n>> \in Batch(a) => row[w].next = "due" /\ n = row[w].attempts
BY DEF Batch, Due, RowsOK, Row

LEMMA NewFlightReads ==
  ASSUME RowsOK, NEW a \in Partners
  PROVE  /\ NewFlight(a) \in Flight
         /\ ~Sends(NewFlight(a))
         /\ \A w \in Webhooks, n \in Nat :
              Reads(NewFlight(a), w, n) => row[w].next = "due" /\ n = row[w].attempts
<1>1. NewFlight(a).batch = Batch(a) /\ NewFlight(a).place = "rows"
  BY DEF NewFlight, Nobody
<1>2. NewFlight(a) \in Flight
  BY BatchReads, AnyRowIsARow DEF NewFlight, Nobody, Flight
<1> QED  BY <1>1, <1>2, BatchReads DEF Sends, Reads

LEMMA PartnerOfFlight == \A f \in Flights : Partner(f) \in Partners
BY DEF Flights, Partner

LEMMA FaultIsNat == RowsOK /\ Fault => faults' \in Nat
BY DEF RowsOK, Fault

-----------------------------------------------------------------------------
(* A step that leases nothing *)

\* Loops read only what is due, send only what they sent, and every row that is
\* sent in time is still held.
LEMMA NoLease ==
  ASSUME OutboxIInv,
         row' \in [Webhooks -> Row], flight' \in [Flights -> Flight],
         faults' \in Nat,
         \A w \in Webhooks : /\ row'[w].attempts = row[w].attempts
                             /\ row'[w].next = "absent" => row[w].next = "absent",
         \A f \in Flights, w \in Webhooks, n \in Nat : Reads(flight'[f], w, n) =>
           Reads(flight[f], w, n) \/ (row[w].next = "due" /\ n = row[w].attempts),
         \A f \in Flights : Sends(flight'[f]) =>
           /\ Sends(flight[f])
           /\ flight'[f].w = flight[f].w /\ flight'[f].attempts = flight[f].attempts,
         \A f \in Flights : SendsInTime(flight'[f]) =>
           SendsInTime(flight[f]) /\ Held(row'[flight'[f].w])
  PROVE  OutboxIInv'
<1>1. RowsOK'
  BY DEF OutboxIInv, RowsOK
<1>t. /\ \A w \in Webhooks : row[w].attempts \in Nat
      /\ \A f \in Flights : flight[f].w \in Webhooks /\ flight[f].attempts \in Nat
  BY DEF OutboxIInv, RowsOK, Row, Flight
<1>2. ReadsOK'
  BY <1>t DEF OutboxIInv, ReadsOK
<1>3. LeasedOnce'
  BY DEF OutboxIInv, LeasedOnce
<1>4. SendersOK'
  BY <1>t DEF OutboxIInv, SendersOK, SendsInTime
<1>5. NotRead'
  <2> SUFFICES ASSUME NEW f \in Flights, NEW g \in Flights, SendsInTime(flight'[f]),
                      Reads(flight'[g], flight'[f].w, flight'[f].attempts)
               PROVE  FALSE
    BY DEF NotRead
  <2>1. /\ SendsInTime(flight[f])
        /\ flight'[f].w = flight[f].w /\ flight'[f].attempts = flight[f].attempts
    BY DEF SendsInTime
  <2>2. ~Reads(flight[g], flight[f].w, flight[f].attempts)
    BY <2>1 DEF OutboxIInv, NotRead
  <2>3. row[flight[f].w].next # "due"
    BY <2>1 DEF OutboxIInv, SendersOK, Held
  <2> QED  BY <1>t, <2>1, <2>2, <2>3
<1> QED  BY <1>1, <1>2, <1>3, <1>4, <1>5 DEF OutboxIInv

\* The same, when the rows are left alone.
LEMMA RowsKept ==
  ASSUME OutboxIInv, row' = row,
         flight' \in [Flights -> Flight], faults' \in Nat,
         \A f \in Flights, w \in Webhooks, n \in Nat : Reads(flight'[f], w, n) =>
           Reads(flight[f], w, n) \/ (row[w].next = "due" /\ n = row[w].attempts),
         \A f \in Flights : Sends(flight'[f]) =>
           /\ Sends(flight[f])
           /\ flight'[f].w = flight[f].w /\ flight'[f].attempts = flight[f].attempts
           /\ flight[f].late => flight'[f].late
  PROVE  OutboxIInv'
<1>1. row' \in [Webhooks -> Row]
  BY DEF OutboxIInv, RowsOK
<1>2. \A f \in Flights : SendsInTime(flight'[f]) =>
        SendsInTime(flight[f]) /\ Held(row'[flight'[f].w])
  BY DEF OutboxIInv, SendersOK, SendsInTime
<1> QED  BY <1>1, <1>2, NoLease

\* One loop goes on to e, and the rest is left alone.
LEMMA OneLoop ==
  ASSUME OutboxIInv, row' = row, faults' \in Nat,
         NEW f \in Flights, NEW e \in Flight, flight' = [flight EXCEPT ![f] = e],
         ~Sends(e),
         \A w \in Webhooks, n \in Nat : Reads(e, w, n) =>
           Reads(flight[f], w, n) \/ (row[w].next = "due" /\ n = row[w].attempts)
  PROVE  OutboxIInv'
<1>1. /\ flight' \in [Flights -> Flight]
      /\ flight'[f] = e
      /\ \A g \in Flights : g # f => flight'[g] = flight[g]
  BY DEF OutboxIInv, RowsOK
<1> QED  BY <1>1, RowsKept

-----------------------------------------------------------------------------
(* The lease *)

LEMMA LeaseIsAlone ==
  ASSUME OutboxIInv, NEW f \in Flights, NEW w \in Webhooks, NEW n \in Nat,
         Reads(flight[f], w, n), Leaseable(w, n), ~Sends(flight[f]),
         NEW r \in Row, r.attempts = n + 1, r.next = "leased",
         row' = [row EXCEPT ![w] = r],
         NEW e \in Flight, flight' = [flight EXCEPT ![f] = e],
         Sends(e), e.w = w, e.attempts = n + 1, e.batch \subseteq flight[f].batch,
         faults' \in Nat
  PROVE  OutboxIInv'
<1>n. row[w].attempts = n /\ row[w].next # "absent"
  BY DEF Leaseable, Undelivered
<1>t. /\ \A v \in Webhooks : row[v] \in Row /\ row[v].attempts \in Nat
      /\ \A g \in Flights : flight[g].w \in Webhooks /\ flight[g].attempts \in Nat
  BY DEF OutboxIInv, RowsOK, Row, Flight
<1>r. /\ row' \in [Webhooks -> Row]
      /\ row'[w].attempts = n + 1 /\ row'[w].next = "leased"
      /\ \A v \in Webhooks : v # w => row'[v] = row[v]
  BY DEF OutboxIInv, RowsOK
<1>f. /\ flight' \in [Flights -> Flight]
      /\ flight'[f] = e
      /\ \A g \in Flights : g # f => flight'[g] = flight[g]
  BY DEF OutboxIInv, RowsOK
<1>e. \A v \in Webhooks, m \in Nat : Reads(e, v, m) => Reads(flight[f], v, m)
  BY DEF Reads, Sends
\* Nobody else is sending w in time: f has read its attempts.
<1>a. \A g \in Flights : SendsInTime(flight[g]) => flight[g].w # w
  BY <1>n DEF OutboxIInv, SendersOK, NotRead
<1>1. RowsOK'
  BY <1>r, <1>f DEF OutboxIInv, RowsOK
<1>2. ReadsOK'
  <2>1. ASSUME NEW g \in Flights, NEW v \in Webhooks, NEW m \in Nat,
               Reads(flight'[g], v, m)
        PROVE  m <= row[v].attempts
    BY <2>1, <1>e, <1>f DEF OutboxIInv, ReadsOK
  <2>2. \A v \in Webhooks : row[v].attempts <= row'[v].attempts /\ row'[v].attempts \in Nat
    BY <1>n, <1>r, <1>t
  <2>3. ASSUME NEW g \in Flights, Sends(flight'[g])
        PROVE  flight'[g].attempts <= row'[flight'[g].w].attempts
    <3>1. CASE g = f
      BY <3>1, <1>f, <1>r
    <3>2. CASE g # f
      <4>1. /\ flight'[g] = flight[g] /\ flight[g].w \in Webhooks
            /\ flight[g].attempts <= row[flight[g].w].attempts
        BY <3>2, <2>3, <1>f, <1>t DEF OutboxIInv, ReadsOK
      <4> DEFINE v == flight[g].w
      <4>2. flight[g].attempts \in Nat /\ row[v].attempts \in Nat /\ row'[v].attempts \in Nat
        BY <4>1, <2>2, <1>t
      <4>3. flight[g].attempts <= row[v].attempts /\ row[v].attempts <= row'[v].attempts
        BY <4>1, <2>2
      <4>4. flight[g].attempts <= row'[v].attempts
        BY <4>2, <4>3, AtMost
      <4> QED  BY <4>1, <4>4
    <3> QED  BY <3>1, <3>2
  <2>4. ASSUME NEW g \in Flights, NEW v \in Webhooks, NEW m \in Nat,
               Reads(flight'[g], v, m)
        PROVE  m <= row'[v].attempts
    <3>1. m <= row[v].attempts /\ row[v].attempts <= row'[v].attempts
      BY <2>1, <2>2, <2>4
    <3>2. row[v].attempts \in Nat /\ row'[v].attempts \in Nat
      BY <2>2, <1>t
    <3> QED  BY <3>1, <3>2, AtMost
  <2> QED  BY <2>3, <2>4 DEF ReadsOK
<1>3. LeasedOnce'
  <2>1. \A g \in Flights : Sends(flight[g]) /\ flight[g].w = w => flight[g].attempts <= n
    BY <1>n DEF OutboxIInv, ReadsOK
  <2>2. \A g \in Flights : Sends(flight[g]) /\ flight[g].w = w => flight[g].attempts # n + 1
    BY <2>1, <1>t
  <2> QED  BY <2>2, <1>f DEF OutboxIInv, LeasedOnce
<1>4. SendersOK'
  <2> SUFFICES ASSUME NEW g \in Flights, SendsInTime(flight'[g])
               PROVE  /\ row'[flight'[g].w].attempts = flight'[g].attempts
                      /\ Held(row'[flight'[g].w])
    BY DEF SendersOK
  <2>1. CASE g = f
    BY <2>1, <1>f, <1>r DEF Held
  <2>2. CASE g # f
    BY <2>2, <1>f, <1>r, <1>a, <1>t DEF OutboxIInv, SendersOK
  <2> QED  BY <2>1, <2>2
<1>5. NotRead'
  <2> SUFFICES ASSUME NEW g \in Flights, NEW h \in Flights, SendsInTime(flight'[g]),
                      Reads(flight'[h], flight'[g].w, flight'[g].attempts)
               PROVE  FALSE
    BY DEF NotRead
  <2>1. flight'[g].w \in Webhooks /\ flight'[g].attempts \in Nat
    BY <1>f DEF Flight
  <2>2. Reads(flight[h], flight'[g].w, flight'[g].attempts)
    BY <2>1, <1>e, <1>f
  <2>3. CASE g = f
    <3>1. Reads(flight[h], w, n + 1)
      BY <2>2, <2>3, <1>f
    <3>2. n + 1 <= row[w].attempts
      BY <3>1 DEF OutboxIInv, ReadsOK
    <3> QED  BY <3>2, <1>n
  <2>4. CASE g # f
    BY <2>2, <2>4, <1>f DEF OutboxIInv, NotRead
  <2> QED  BY <2>3, <2>4
<1> QED  BY <1>1, <1>2, <1>3, <1>4, <1>5 DEF OutboxIInv
-----------------------------------------------------------------------------
(* What a loop does with a row *)

\* A loop between two rows.
Idle(rest, f) ==
  /\ rest \in Flight /\ rest.place = "rows"
  /\ rest.batch \subseteq flight[f].batch

LEMMA IdleReads ==
  ASSUME NEW f, NEW rest, Idle(rest, f)
  PROVE  ~Sends(rest) /\ \A w, n : Reads(rest, w, n) => Reads(flight[f], w, n)
BY DEF Idle, Sends, Reads

Raised(w, m) == [row[w] EXCEPT !.attempts = m, !.next = "leased"]

LEMMA RaisedTable ==
  ASSUME NEW w \in Webhooks, row \in [Webhooks -> Row]
  PROVE  [row EXCEPT ![w].attempts = @ + 1, ![w].next = "leased"] =
         [row EXCEPT ![w] = Raised(w, row[w].attempts + 1)]
BY DEF Raised

LEMMA RaisedRow ==
  ASSUME NEW w \in Webhooks, row \in [Webhooks -> Row], NEW m \in Nat
  PROVE  Raised(w, m) \in Row /\ Raised(w, m).attempts = m /\ Raised(w, m).next = "leased"
BY DEF Raised, Row

LEMMA LeasePreserves ==
  ASSUME OutboxIInv, faults' \in Nat,
         NEW f \in Flights, NEW w \in Webhooks, NEW n \in Nat,
         Reads(flight[f], w, n), ~Sends(flight[f]),
         NEW rest, Idle(rest, f), Lease(f, rest, w, n)
  PROVE  OutboxIInv'
<1>1. CASE Leaseable(w, n)
  <2> DEFINE e(m) == [rest EXCEPT !.place = "sending", !.w = w, !.attempts = m]
  <2>1. flight' = [flight EXCEPT ![f] = e(n + 1)]
    BY <1>1 DEF Lease
  <2>2. \A m \in Nat : /\ e(m) \in Flight /\ Sends(e(m))
                       /\ e(m).w = w /\ e(m).attempts = m
                       /\ e(m).batch \subseteq flight[f].batch
    BY DEF Idle, Flight, Sends
  <2> HIDE DEF e
  <2>3. n + 1 \in Nat
    OBVIOUS
  <2>4. row[w].attempts = n
    BY <1>1 DEF Leaseable
  <2>5. row \in [Webhooks -> Row]
    BY DEF OutboxIInv, RowsOK
  <2>6. row' = [row EXCEPT ![w] = Raised(w, n + 1)]
    BY <1>1, <2>4, <2>5, RaisedTable DEF Lease
  <2>7. Raised(w, n + 1) \in Row /\ Raised(w, n + 1).attempts = n + 1
        /\ Raised(w, n + 1).next = "leased"
    BY <2>3, <2>5, RaisedRow
  <2>8. e(n + 1) \in Flight /\ Sends(e(n + 1)) /\ e(n + 1).w = w
        /\ e(n + 1).attempts = n + 1 /\ e(n + 1).batch \subseteq flight[f].batch
    BY <2>2, <2>3
  <2> QED  BY <1>1, <2>1, <2>6, <2>7, <2>8, LeaseIsAlone
<1>2. CASE ~Leaseable(w, n)
  BY <1>2, IdleReads, OneLoop DEF Lease, Idle
<1> QED  BY <1>1, <1>2

\* A loop is done with w, and has written r over it.
LEMMA RowWritten ==
  ASSUME OutboxIInv, faults' \in Nat,
         NEW f \in Flights, NEW e, Idle(e, f), flight' = [flight EXCEPT ![f] = e],
         NEW w \in Webhooks, NEW r \in Row, row' = [row EXCEPT ![w] = r],
         r.attempts = row[w].attempts, r.next # "absent",
         \A g \in Flights : SendsInTime(flight[g]) /\ flight[g].w = w /\ g # f => Held(r)
  PROVE  OutboxIInv'
<1>1. /\ row' \in [Webhooks -> Row] /\ row'[w] = r
      /\ \A v \in Webhooks : v # w => row'[v] = row[v]
  BY DEF OutboxIInv, RowsOK
<1>2. \A v \in Webhooks : /\ row'[v].attempts = row[v].attempts
                          /\ row'[v].next = "absent" => row[v].next = "absent"
  BY <1>1
<1>3. /\ flight' \in [Flights -> Flight] /\ flight'[f] = e
      /\ \A g \in Flights : g # f => flight'[g] = flight[g]
  BY DEF OutboxIInv, RowsOK, Idle
<1>4. \A g \in Flights : Sends(flight'[g]) => g # f /\ flight'[g] = flight[g]
  BY <1>3, IdleReads
<1>5. \A g \in Flights, v \in Webhooks, n \in Nat :
        Reads(flight'[g], v, n) => Reads(flight[g], v, n)
  BY <1>3, IdleReads
<1>6. ASSUME NEW g \in Flights, SendsInTime(flight'[g])
      PROVE  SendsInTime(flight[g]) /\ Held(row'[flight'[g].w])
  <2>1. SendsInTime(flight[g]) /\ g # f /\ flight'[g] = flight[g] /\ flight[g].w \in Webhooks
    BY <1>4, <1>6 DEF SendsInTime, OutboxIInv, RowsOK, Flight
  <2>2. CASE flight[g].w = w
    BY <2>1, <2>2, <1>1
  <2>3. CASE flight[g].w # w
    BY <2>1, <2>3, <1>1 DEF OutboxIInv, SendersOK
  <2> QED  BY <2>1, <2>2, <2>3
<1> QED  BY <1>1, <1>2, <1>3, <1>4, <1>5, <1>6, NoLease

LEMMA WaitPreserves ==
  ASSUME OutboxIInv, faults' \in Nat,
         NEW f \in Flights, NEW w \in Webhooks, NEW next \in {"later", "never"},
         NEW rest, Idle(rest, f), WaitForPartnerAddress(f, rest, w, next)
  PROVE  OutboxIInv'
<1>1. CASE Undelivered(w)
  <2> DEFINE r == [row[w] EXCEPT !.next = next, !.addressless = TRUE]
  <2>1. row' = [row EXCEPT ![w] = r]
    BY <1>1 DEF WaitForPartnerAddress
  <2>2. r \in Row /\ r.attempts = row[w].attempts /\ r.next # "absent" /\ Held(r)
    BY DEF OutboxIInv, RowsOK, Row, Held
  <2> HIDE DEF r
  <2> QED  BY <2>1, <2>2, RowWritten DEF WaitForPartnerAddress
<1>2. CASE ~Undelivered(w)
  BY <1>2, IdleReads, OneLoop DEF WaitForPartnerAddress, Idle
<1> QED  BY <1>1, <1>2

LEMMA MarkPreserves ==
  ASSUME OutboxIInv, faults' \in Nat, NEW f \in Flights, NEW w \in Webhooks, Mark(w),
         NEW e, Idle(e, f), flight' = [flight EXCEPT ![f] = e]
  PROVE  OutboxIInv'
<1>1. CASE Undelivered(w)
  <2> DEFINE r == [row[w] EXCEPT !.delivered = TRUE, !.next = "never",
                                 !.addressless = FALSE]
  <2>1. row' = [row EXCEPT ![w] = r]
    BY <1>1 DEF Mark
  <2>2. r \in Row /\ r.attempts = row[w].attempts /\ r.next # "absent" /\ Held(r)
    BY DEF OutboxIInv, RowsOK, Row, Held
  <2> HIDE DEF r
  <2> QED  BY <2>1, <2>2, RowWritten
<1>2. CASE ~Undelivered(w)
  BY <1>2, IdleReads, OneLoop DEF Mark, Idle
<1> QED  BY <1>1, <1>2

\* The failure of a lease that is gone changes nothing: LeasedOnce.
LEMMA FailPreserves ==
  ASSUME OutboxIInv, faults' \in Nat, NEW f \in Flights, Sends(flight[f]),
         NEW w \in Webhooks, NEW n \in Nat, flight[f].w = w, flight[f].attempts = n,
         Fail(w, n),
         NEW e, Idle(e, f), flight' = [flight EXCEPT ![f] = e]
  PROVE  OutboxIInv'
<1>1. CASE UnderThisLease(w, n)
  <2> DEFINE r(next) == [row[w] EXCEPT !.addressless = FALSE, !.next = next]
  <2>1. PICK next \in {"later", "never"} : row' = [row EXCEPT ![w] = r(next)]
    BY <1>1 DEF Fail
  <2>2. /\ r(next) \in Row /\ r(next).attempts = row[w].attempts
        /\ r(next).next # "absent"
    BY DEF OutboxIInv, RowsOK, Row
  <2> HIDE DEF r
  <2>3. \A g \in Flights : SendsInTime(flight[g]) /\ flight[g].w = w => g = f
    BY <1>1 DEF OutboxIInv, SendersOK, LeasedOnce, SendsInTime, UnderThisLease
  <2> QED  BY <2>1, <2>2, <2>3, RowWritten
<1>2. CASE ~UnderThisLease(w, n)
  BY <1>2, IdleReads, OneLoop DEF Fail, Idle
<1> QED  BY <1>1, <1>2

-----------------------------------------------------------------------------
(* The actions *)

LEMMA InitOK == Init => OutboxIInv
<1> SUFFICES ASSUME Init PROVE OutboxIInv
  OBVIOUS
<1>1. \A w \in Webhooks : row[w] \in Row /\ row[w].attempts = 0
  BY DEF Init, Absent, NewRow, Row
<1>2. \A f \in Flights : flight[f] = Nobody
  BY DEF Init
<1>3. RowsOK
  BY <1>1, <1>2, NobodyIsAFlight DEF RowsOK, Init
<1> QED
  BY <1>2, <1>3, NobodyIsAFlight
  DEF OutboxIInv, ReadsOK, LeasedOnce, SendersOK, NotRead, SendsInTime

\* One row changes to r, and no loop does.
LEMMA OneRow ==
  ASSUME OutboxIInv, faults' \in Nat, flight' = flight,
         NEW w \in Webhooks, NEW r \in Row, row' = [row EXCEPT ![w] = r],
         r.attempts = row[w].attempts, r.next # "absent",
         \A f \in Flights : SendsInTime(flight[f]) => flight[f].w # w
  PROVE  OutboxIInv'
<1>1. /\ row' \in [Webhooks -> Row] /\ row'[w] = r
      /\ \A v \in Webhooks : v # w => row'[v] = row[v]
  BY DEF OutboxIInv, RowsOK
<1>2. \A v \in Webhooks : /\ row'[v].attempts = row[v].attempts
                          /\ row'[v].next = "absent" => row[v].next = "absent"
  BY <1>1
<1>3. \A f \in Flights : SendsInTime(flight[f]) => Held(row'[flight[f].w])
  BY <1>1 DEF OutboxIInv, SendersOK, RowsOK, Flight
<1>4. flight' \in [Flights -> Flight]
  BY DEF OutboxIInv, RowsOK
<1> QED  BY <1>1, <1>2, <1>3, <1>4, NoLease

LEMMA EnqueueOK ==
  ASSUME OutboxIInv, NEW p \in Queueing, NEW w \in Webhooks, Enqueue(p, w)
  PROVE  OutboxIInv'
<1>1. row[w].next = "absent" /\ row[w].attempts = 0
  BY DEF Enqueue, OutboxIInv, RowsOK
<1>2. NewRow \in Row /\ NewRow.attempts = 0 /\ NewRow.next # "absent"
  BY DEF NewRow, Row
<1>3. \A f \in Flights : SendsInTime(flight[f]) => flight[f].w # w
  BY <1>1 DEF OutboxIInv, SendersOK, Held
<1> QED  BY <1>1, <1>2, <1>3, OneRow DEF Enqueue, OutboxIInv, RowsOK

LEMMA PassOK ==
  ASSUME OutboxIInv, NEW p \in Procs, Pass(p)
  PROVE  OutboxIInv'
<1>1. row' = row
  BY DEF Pass
<1>2. \A f \in Flights : \/ flight'[f] = flight[f]
                         \/ flight'[f] = NewFlight(Partner(f))
                         \/ flight'[f] = [flight[f] EXCEPT !.rerun = TRUE]
  BY DEF Pass
<1>3. DOMAIN flight' = Flights /\ flight' = [f \in Flights |-> flight'[f]]
  BY DEF Pass
<1>t. \A f \in Flights : flight[f] \in Flight
  BY DEF OutboxIInv, RowsOK
<1>4. \A f \in Flights : LET e == [flight[f] EXCEPT !.rerun = TRUE]
                         IN /\ e \in Flight
                            /\ e.place = flight[f].place /\ e.batch = flight[f].batch
                            /\ e.w = flight[f].w /\ e.attempts = flight[f].attempts
                            /\ e.late = flight[f].late
  BY <1>t DEF Flight
<1>5. \A f \in Flights : /\ NewFlight(Partner(f)) \in Flight
                         /\ ~Sends(NewFlight(Partner(f)))
                         /\ \A w \in Webhooks, n \in Nat :
                              Reads(NewFlight(Partner(f)), w, n) =>
                                row[w].next = "due" /\ n = row[w].attempts
  BY PartnerOfFlight, NewFlightReads DEF OutboxIInv
<1>6. flight' \in [Flights -> Flight]
  BY <1>t, <1>2, <1>3, <1>4, <1>5
<1>7. \A f \in Flights, w \in Webhooks, n \in Nat : Reads(flight'[f], w, n) =>
        Reads(flight[f], w, n) \/ (row[w].next = "due" /\ n = row[w].attempts)
  <2> SUFFICES ASSUME NEW f \in Flights, NEW w \in Webhooks, NEW n \in Nat,
                      Reads(flight'[f], w, n)
               PROVE  Reads(flight[f], w, n) \/ (row[w].next = "due" /\ n = row[w].attempts)
    OBVIOUS
  <2>1. CASE flight'[f] = NewFlight(Partner(f))
    BY <2>1, <1>5
  <2>2. CASE flight'[f] = [flight[f] EXCEPT !.rerun = TRUE]
    BY <2>2, <1>4 DEF Reads
  <2> QED  BY <2>1, <2>2, <1>2
<1>8. \A f \in Flights : Sends(flight'[f]) =>
        /\ Sends(flight[f])
        /\ flight'[f].w = flight[f].w /\ flight'[f].attempts = flight[f].attempts
        /\ flight[f].late => flight'[f].late
  BY <1>2, <1>4, <1>5 DEF Sends
<1>9. faults' \in Nat
  BY DEF Pass, OutboxIInv, RowsOK
<1> QED  BY <1>1, <1>6, <1>7, <1>8, <1>9, RowsKept

LEMMA GoneOK ==
  ASSUME OutboxIInv, NEW f \in Flights, Gone(f), row' = row, faults' \in Nat
  PROVE  OutboxIInv'
BY NobodyIsAFlight, OneLoop DEF Gone

LEMMA FlightAgainOK ==
  ASSUME OutboxIInv, NEW f \in Flights, FlightAgain(f)
  PROVE  OutboxIInv'
<1> DEFINE e == [flight[f] EXCEPT !.rerun = FALSE, !.batch = Batch(Partner(f))]
<1>1. flight[f] \in Flight /\ flight[f].place = "rows" /\ RowsOK
  BY DEF FlightAgain, At, OutboxIInv, RowsOK
<1>2. e \in Flight /\ e.place = "rows" /\ e.batch = Batch(Partner(f))
  BY <1>1, PartnerOfFlight, BatchReads DEF Flight
<1>3. flight' = [flight EXCEPT ![f] = e]
  BY DEF FlightAgain
<1> HIDE DEF e
<1>4. ~Sends(e) /\ \A w \in Webhooks, n \in Nat : Reads(e, w, n) =>
        row[w].next = "due" /\ n = row[w].attempts
  BY <1>1, <1>2, PartnerOfFlight, BatchReads DEF Sends, Reads
<1>5. row' = row /\ faults' \in Nat
  BY <1>1 DEF FlightAgain, RowsOK
<1> QED  BY <1>2, <1>3, <1>4, <1>5, OneLoop

LEMMA NextRowOK ==
  ASSUME OutboxIInv, NEW f \in Flights, NextRow(f)
  PROVE  OutboxIInv'
<1>t. flight[f] \in Flight /\ flight[f].place = "rows" /\ RowsOK
  BY DEF NextRow, At, OutboxIInv, RowsOK
<1> DEFINE rest(b) == [flight[f] EXCEPT !.batch = @ \ {b}]
<1>1. PICK b \in flight[f].batch :
        \/ Addressed(f) /\ Lease(f, rest(b), b[1], b[2]) /\ UNCHANGED faults
        \/ /\ \E next \in Patience(b[1]) : WaitForPartnerAddress(f, rest(b), b[1], next)
           /\ UNCHANGED faults
        \/ /\ Fault
           /\ flight' = [flight EXCEPT ![f] =
                [rest(b) EXCEPT !.place = "writing", !.w = b[1],
                                !.attempts = b[2], !.late = TRUE]]
           /\ UNCHANGED row
  BY DEF NextRow
<1>2. /\ b[1] \in Webhooks /\ b[2] \in Nat /\ b = <<b[1], b[2]>>
      /\ Reads(flight[f], b[1], b[2]) /\ ~Sends(flight[f])
  BY <1>t DEF Flight, Reads, Sends
<1>3. Idle(rest(b), f)
  BY <1>t DEF Idle, Flight
<1>4. CASE Lease(f, rest(b), b[1], b[2]) /\ UNCHANGED faults
  <2> HIDE DEF rest
  <2> QED  BY <1>2, <1>3, <1>4, LeasePreserves DEF OutboxIInv, RowsOK
<1>5. CASE /\ \E next \in Patience(b[1]) : WaitForPartnerAddress(f, rest(b), b[1], next)
           /\ UNCHANGED faults
  <2> HIDE DEF rest
  <2>1. Patience(b[1]) \subseteq {"later", "never"}
    BY DEF Patience
  <2> QED  BY <1>2, <1>3, <1>5, <2>1, WaitPreserves DEF OutboxIInv, RowsOK
<1>6. CASE /\ Fault
           /\ flight' = [flight EXCEPT ![f] =
                [rest(b) EXCEPT !.place = "writing", !.w = b[1],
                                !.attempts = b[2], !.late = TRUE]]
           /\ UNCHANGED row
  <2> DEFINE e == [rest(b) EXCEPT !.place = "writing", !.w = b[1],
                                  !.attempts = b[2], !.late = TRUE]
  <2>1. /\ e \in Flight /\ e.place = "writing" /\ e.w = b[1] /\ e.attempts = b[2]
        /\ e.batch \subseteq flight[f].batch
    BY <1>2, <1>3 DEF Idle, Flight
  <2>2. flight' = [flight EXCEPT ![f] = e] /\ row' = row /\ faults' \in Nat
    BY <1>6, <1>t, FaultIsNat
  <2> HIDE DEF e
  <2>3. ~Sends(e) /\ \A w \in Webhooks, n \in Nat :
                       Reads(e, w, n) => Reads(flight[f], w, n)
    BY <2>1, <1>2 DEF Sends, Reads
  <2> QED  BY <2>1, <2>2, <2>3, OneLoop
<1> QED  BY <1>1, <1>4, <1>5, <1>6
LEMMA LateWriteOK ==
  ASSUME OutboxIInv, NEW f \in Flights, LateWrite(f)
  PROVE  OutboxIInv'
<1> DEFINE w == flight[f].w
           n == flight[f].attempts
           rest(l) == [flight[f] EXCEPT !.place = "rows", !.w = AnyRow,
                                        !.attempts = 0, !.late = l]
<1>t. /\ flight[f] \in Flight /\ flight[f].place = "writing" /\ RowsOK
      /\ w \in Webhooks /\ n \in Nat /\ faults' \in Nat
      /\ Reads(flight[f], w, n) /\ ~Sends(flight[f])
  BY DEF LateWrite, At, OutboxIInv, RowsOK, Flight, Reads, Sends
<1>1. \/ Lease(f, [rest(FALSE) EXCEPT !.late = Leaseable(w, n)], w, n)
      \/ \E next \in {"later", "never"} : WaitForPartnerAddress(f, rest(FALSE), w, next)
  BY DEF LateWrite
<1>2. Leaseable(w, n) \in BOOLEAN
  BY <1>t DEF Leaseable, Undelivered, RowsOK, Row
<1>3. \A l \in BOOLEAN : Idle([rest(FALSE) EXCEPT !.late = l], f)
  BY <1>t, AnyRowIsARow DEF Idle, Flight
<1>4. Idle(rest(FALSE), f)
  BY <1>t, AnyRowIsARow DEF Idle, Flight
<1>5. CASE Lease(f, [rest(FALSE) EXCEPT !.late = Leaseable(w, n)], w, n)
  <2> DEFINE e == [rest(FALSE) EXCEPT !.late = Leaseable(w, n)]
  <2>1. Idle(e, f)
    BY <1>2, <1>3
  <2>2. Lease(f, e, w, n)
    BY <1>5
  <2> HIDE DEF e, w, n
  <2> QED  BY <1>t, <2>1, <2>2, LeasePreserves
<1>6. CASE \E next \in {"later", "never"} : WaitForPartnerAddress(f, rest(FALSE), w, next)
  <2> HIDE DEF rest, w
  <2> QED  BY <1>t, <1>4, <1>6, WaitPreserves
<1> QED  BY <1>1, <1>5, <1>6

LEMMA SendOK ==
  ASSUME OutboxIInv, NEW f \in Flights, Send(f)
  PROVE  OutboxIInv'
<1> DEFINE e == [flight[f] EXCEPT !.place = "rows", !.late = FALSE,
                                  !.w = AnyRow, !.attempts = 0]
<1>1. flight' = [flight EXCEPT ![f] = e] /\ Sends(flight[f])
  BY DEF Send, RowDone, At, Sends
<1>2. /\ flight[f] \in Flight /\ RowsOK
      /\ flight[f].w \in Webhooks /\ flight[f].attempts \in Nat
  BY DEF OutboxIInv, RowsOK, Flight
<1>3. Idle(e, f)
  BY <1>2, AnyRowIsARow DEF Idle, Flight
<1>4. faults' \in Nat
  BY <1>2, FaultIsNat DEF Send, RowsOK
<1>5. Mark(flight[f].w) \/ Fail(flight[f].w, flight[f].attempts)
  BY DEF Send
<1> HIDE DEF e
<1> QED  BY <1>1, <1>2, <1>3, <1>4, <1>5, MarkPreserves, FailPreserves

LEMMA HangsOK ==
  ASSUME OutboxIInv, NEW f \in Flights, Hangs(f)
  PROVE  OutboxIInv'
<1> DEFINE e == [flight[f] EXCEPT !.late = TRUE]
<1>1. /\ e \in Flight /\ e.place = flight[f].place /\ e.batch = flight[f].batch
      /\ e.w = flight[f].w /\ e.attempts = flight[f].attempts /\ e.late = TRUE
  BY DEF OutboxIInv, RowsOK, Flight
<1>2. flight' = [flight EXCEPT ![f] = e] /\ row' = row /\ faults' \in Nat
  BY FaultIsNat DEF Hangs, OutboxIInv
<1> HIDE DEF e
<1>3. /\ flight' \in [Flights -> Flight] /\ flight'[f] = e
      /\ \A g \in Flights : g # f => flight'[g] = flight[g]
  BY <1>1, <1>2 DEF OutboxIInv, RowsOK
<1>4. \A g \in Flights, w \in Webhooks, n \in Nat :
        Reads(flight'[g], w, n) => Reads(flight[g], w, n)
  BY <1>1, <1>3 DEF Reads
<1>5. \A g \in Flights : Sends(flight'[g]) =>
        /\ Sends(flight[g])
        /\ flight'[g].w = flight[g].w /\ flight'[g].attempts = flight[g].attempts
        /\ flight[g].late => flight'[g].late
  BY <1>1, <1>3 DEF Sends
<1> QED  BY <1>2, <1>3, <1>4, <1>5, RowsKept

LEMMA CrashOK ==
  ASSUME OutboxIInv, NEW p \in Procs, Crash(p)
  PROVE  OutboxIInv'
<1>1. row' = row /\ faults' \in Nat
  BY FaultIsNat DEF Crash, OutboxIInv
<1>2. \A f \in Flights : flight'[f] = flight[f] \/ flight'[f] = Nobody
  BY DEF Crash
<1>3. flight' \in [Flights -> Flight]
  BY <1>2, NobodyIsAFlight DEF Crash, OutboxIInv, RowsOK
<1> QED  BY <1>1, <1>2, <1>3, NobodyIsAFlight, RowsKept

\* What is being sent in time does not come due.
LEMMA ComesDueOK ==
  ASSUME OutboxIInv, NEW w \in Webhooks, ComesDue(w)
  PROVE  OutboxIInv'
<1> DEFINE r == [row[w] EXCEPT !.next = "due"]
<1>1. r \in Row /\ r.attempts = row[w].attempts /\ r.next # "absent"
  BY DEF OutboxIInv, RowsOK, Row
<1>2. row' = [row EXCEPT ![w] = r] /\ flight' = flight /\ faults' \in Nat
  BY DEF ComesDue, OutboxIInv, RowsOK
<1> HIDE DEF r
<1>3. \A f \in Flights : SendsInTime(flight[f]) => flight[f].w # w
  BY DEF ComesDue, InHand, Running, At, SendsInTime, Sends
<1> QED  BY <1>1, <1>2, <1>3, OneRow

LEMMA RowsAndLoopsKept ==
  ASSUME OutboxIInv, row' = row, flight' = flight, faults' \in Nat
  PROVE  OutboxIInv'
BY DEF OutboxIInv, RowsOK, ReadsOK, LeasedOnce, SendersOK, NotRead

LEMMA StepOK == OutboxIInv /\ [Next]_vars => OutboxIInv'
<1> SUFFICES ASSUME OutboxIInv, [Next]_vars PROVE OutboxIInv'
  OBVIOUS
<1>t. faults \in Nat /\ RowsOK
  BY DEF OutboxIInv, RowsOK
<1>1. CASE \E p \in Procs : Pass(p) \/ Crash(p)
  BY <1>1, PassOK, CrashOK
<1>2. CASE \E p \in Queueing, w \in Webhooks : Enqueue(p, w)
  BY <1>2, EnqueueOK
<1>3. CASE \E f \in Flights : FlightStep(f) \/ Hangs(f) \/ Throws(f)
  <2> PICK f \in Flights : FlightStep(f) \/ Hangs(f) \/ Throws(f)
    BY <1>3
  <2>1. CASE FlightEnds(f)
    BY <2>1, <1>t, GoneOK DEF FlightEnds
  <2>2. CASE Throws(f)
    BY <2>2, <1>t, GoneOK, FaultIsNat DEF Throws
  <2> QED
    BY <2>1, <2>2, FlightAgainOK, NextRowOK, LateWriteOK, SendOK, HangsOK DEF FlightStep
<1>4. CASE \E w \in Webhooks : ComesDue(w)
  BY <1>4, ComesDueOK
<1>5. CASE \E a \in Partners : Outage(a) \/ Returns(a)
  BY <1>5, <1>t, RowsAndLoopsKept, FaultIsNat DEF Outage, Returns
<1>6. CASE UNCHANGED vars
  BY <1>6, <1>t, RowsAndLoopsKept DEF vars
<1> QED  BY <1>1, <1>2, <1>3, <1>4, <1>5, <1>6 DEF Next

-----------------------------------------------------------------------------
(* Theorems *)

\* Every read of a row's attempts is of the past, every attempt is leased once,
\* and the row of whoever sends in time is held for it.
THEOREM OutboxInvariance == Spec => []OutboxIInv
BY InitOK, StepOK, PTL DEF Spec

\* One loop at a time sends a webhook, whatever the number of processes,
\* partners, attempts, crashes and awaits that hang.
THEOREM OneSender == Spec => []OneSenderInTime
<1>1. OutboxIInv => OneSenderInTime
  <2> SUFFICES ASSUME OutboxIInv, NEW w \in Webhooks,
                      NEW f \in Senders(w), NEW g \in Senders(w)
               PROVE  f = g
    BY DEF OneSenderInTime
  <2>1. /\ f \in Flights /\ SendsInTime(flight[f]) /\ flight[f].w = w
        /\ g \in Flights /\ SendsInTime(flight[g]) /\ flight[g].w = w
    BY DEF Senders, Running, At, SendsInTime, Sends
  <2> QED  BY <2>1 DEF OutboxIInv, SendersOK, LeasedOnce, SendsInTime
<1> QED  BY <1>1, OutboxInvariance, PTL

\* The lease of whoever sends in time holds: no late answer of another loop
\* reschedules its row or gives it up.
THEOREM LeaseHoldsAlways == Spec => []LeaseHolds
<1>1. OutboxIInv => LeaseHolds
  <2> SUFFICES ASSUME OutboxIInv, NEW w \in Webhooks, NEW f \in Senders(w)
               PROVE  /\ row[w].attempts = flight[f].attempts
                      /\ row[w].next = "leased" \/ row[w].delivered
                                               \/ row[w].addressless
    BY DEF LeaseHolds
  <2>1. f \in Flights /\ SendsInTime(flight[f]) /\ flight[f].w = w
    BY DEF Senders, Running, At, SendsInTime, Sends
  <2> QED  BY <2>1 DEF OutboxIInv, SendersOK, Held
<1> QED  BY <1>1, OutboxInvariance, PTL

-----------------------------------------------------------------------------
(***************************************************************************)
(* Types.  A process keeps one slot per partner and a pass replaces a loop *)
(* that hangs: the map names a loop that runs, and there is always another *)
(* one to start, because a loop is only ever replaced after a fault.       *)
(***************************************************************************)
\* A running loop of p for a that is late or was replaced.
IsLost(f) == f \in Running /\ (Replaced(f) \/ flight[f].late)
Lost(p, a) == {g \in Gens : IsLost(<<p, a, g>>)}

SlotsOK ==
  /\ slot \in [Procs -> [Partners -> Gens \cup {None}]]
  /\ \A p \in Procs, a \in Partners :
       slot[p][a] # None => <<p, a, slot[p][a]>> \in Running
\* A write that hung was begun a while ago.
HungOK == \A f \in Flights : flight[f].place = "writing" => flight[f].late
LostOK ==
  /\ faults \in 0..MaxFaults
  /\ \A p \in Procs, a \in Partners : Cardinality(Lost(p, a)) <= faults
WorldOK == book \in Registries /\ up \in [Partners -> BOOLEAN]

TypeIInv == OutboxIInv /\ SlotsOK /\ HungOK /\ LostOK /\ WorldOK

LEMMA GensFinite ==
  /\ IsFiniteSet(Gens) /\ Cardinality(Gens) = MaxFaults + 1
  /\ Gens \subseteq Nat /\ None \notin Gens
<1>1. MaxFaults \in Nat
  BY AttemptsAssumption
<1>2. IsFiniteSet(0..MaxFaults) /\ Cardinality(0..MaxFaults) = MaxFaults + 1
  BY <1>1, FS_Interval
<1> QED  BY <1>1, <1>2 DEF Gens, None

LEMMA LoopParts ==
  ASSUME NEW f \in Flights
  PROVE  /\ Proc(f) \in Procs /\ Partner(f) \in Partners /\ f[3] \in Gens
         /\ f = <<Proc(f), Partner(f), f[3]>>
BY DEF Flights, Proc, Partner

LEMMA LoopOf ==
  ASSUME NEW p \in Procs, NEW a \in Partners, NEW g \in Gens
  PROVE  /\ <<p, a, g>> \in Flights
         /\ Proc(<<p, a, g>>) = p /\ Partner(<<p, a, g>>) = a /\ <<p, a, g>>[3] = g
BY DEF Flights, Proc, Partner

LEMMA LostFinite ==
  ASSUME NEW p, NEW a
  PROVE  IsFiniteSet(Lost(p, a)) /\ Cardinality(Lost(p, a)) \in Nat
<1>1. Lost(p, a) \in SUBSET Gens
  BY DEF Lost
<1>2. IsFiniteSet(Lost(p, a))
  BY <1>1, GensFinite, FS_Subset
<1> QED  BY <1>2, FS_CardinalityType

\* Who is lost after a step was lost before, or is the one the fault hit.
LEMMA LostKept ==
  ASSUME LostOK,
         \/ /\ faults' = faults
            /\ \A p \in Procs, a \in Partners : Lost(p, a)' \subseteq Lost(p, a)
         \/ /\ Fault
            /\ \A p \in Procs, a \in Partners :
                 \E g \in Gens : Lost(p, a)' \subseteq Lost(p, a) \cup {g}
  PROVE  LostOK'
<1>1. faults' \in 0..MaxFaults
  BY AttemptsAssumption DEF LostOK, Fault
<1>2. ASSUME NEW p \in Procs, NEW a \in Partners
      PROVE  Cardinality(Lost(p, a)') <= faults'
  <2> DEFINE L == Lost(p, a)
  <2>1. IsFiniteSet(L) /\ Cardinality(L) \in Nat /\ Cardinality(L) <= faults
    BY LostFinite DEF LostOK
  <2>2. CASE faults' = faults /\ L' \subseteq L
    <3>1. Cardinality(L') <= Cardinality(L)
      BY <2>1, <2>2, FS_Subset
    <3>2. IsFiniteSet(L') /\ Cardinality(L') \in Nat
      BY <2>1, <2>2, FS_Subset, FS_CardinalityType
    <3> QED  BY <2>1, <2>2, <3>1, <3>2 DEF LostOK
  <2>3. ASSUME NEW g \in Gens, Fault, L' \subseteq L \cup {g}
        PROVE  Cardinality(L') <= faults'
    <3> DEFINE M == L \cup {g}
    <3>1. IsFiniteSet(M) /\ Cardinality(M) <= Cardinality(L) + 1 /\ Cardinality(M) \in Nat
      BY <2>1, FS_AddElement, FS_CardinalityType
    <3>2. IsFiniteSet(L') /\ Cardinality(L') <= Cardinality(M)
      BY <2>3, <3>1, FS_Subset
    <3>3. Cardinality(L') \in Nat
      BY <3>2, FS_CardinalityType
    <3>4. faults \in Nat /\ faults' = faults + 1
      BY <2>3 DEF LostOK, Fault
    <3> HIDE DEF L, M
    <3> QED  BY <2>1, <3>1, <3>2, <3>3, <3>4
  <2> QED  BY <2>2, <2>3
<1> QED  BY <1>1, <1>2 DEF LostOK

\* Nothing changes of the loops and the slots.
LEMMA LoopsAlone ==
  ASSUME TypeIInv, flight' = flight, slot' = slot, faults' = faults \/ Fault
  PROVE  SlotsOK' /\ HungOK' /\ LostOK'
<1>1. Running' = Running
  BY DEF Running
<1>2. \A p \in Procs, a \in Partners : Lost(p, a)' = Lost(p, a)
  BY <1>1 DEF Lost, IsLost, Replaced
<1>3. SlotsOK'
  BY <1>1 DEF TypeIInv, SlotsOK
<1>4. 0 \in Gens
  BY AttemptsAssumption DEF Gens
<1>5. LostOK'
  BY <1>2, <1>4, LostKept DEF TypeIInv
<1>6. HungOK'
  BY DEF TypeIInv, HungOK
<1> QED  BY <1>3, <1>5, <1>6

\* A loop goes on as e; only a fault makes it late.
LEMMA LoopGoesOn ==
  ASSUME TypeIInv, NEW f \in Flights, flight[f].place # "free",
         NEW e \in Flight, e.place # "free", e.place = "writing" => e.late,
         flight' = [flight EXCEPT ![f] = e], slot' = slot,
         \/ faults' = faults /\ (e.late => flight[f].late)
         \/ Fault
  PROVE  SlotsOK' /\ HungOK' /\ LostOK'
<1>1. /\ flight'[f] = e
      /\ \A g \in Flights : g # f => flight'[g] = flight[g]
  BY DEF TypeIInv, OutboxIInv, RowsOK
<1>2. Running' = Running
  BY <1>1 DEF Running
<1>3. SlotsOK'
  BY <1>2 DEF TypeIInv, SlotsOK
<1>4. \A g \in Flights : IsLost(g)' => IsLost(g) \/ g = f
  BY <1>1, <1>2 DEF IsLost, Replaced
<1>5. (e.late => flight[f].late) => \A g \in Flights : IsLost(g)' => IsLost(g)
  BY <1>1, <1>2 DEF IsLost, Replaced
<1>6. ASSUME NEW p \in Procs, NEW a \in Partners
      PROVE  /\ Lost(p, a)' \subseteq Lost(p, a) \cup {f[3]}
             /\ (e.late => flight[f].late) => Lost(p, a)' \subseteq Lost(p, a)
  <2>1. \A g \in Gens : <<p, a, g>> \in Flights /\ <<p, a, g>>[3] = g
    BY LoopOf
  <2>2. \A g \in Gens : IsLost(<<p, a, g>>)' => IsLost(<<p, a, g>>) \/ g = f[3]
    BY <1>4, <2>1
  <2>3. (e.late => flight[f].late) =>
          \A g \in Gens : IsLost(<<p, a, g>>)' => IsLost(<<p, a, g>>)
    BY <1>5, <2>1
  <2> QED  BY <2>2, <2>3 DEF Lost
<1>7. f[3] \in Gens
  BY LoopParts
<1>8. LostOK'
  BY <1>6, <1>7, LostKept DEF TypeIInv
<1>9. HungOK'
  BY <1>1 DEF TypeIInv, HungOK
<1> QED  BY <1>3, <1>8, <1>9

\* A loop ends; the slot is given up unless a successor has it.
LEMMA LoopGoes ==
  ASSUME TypeIInv, NEW f \in Flights, Gone(f), faults' = faults \/ Fault
  PROVE  SlotsOK' /\ HungOK' /\ LostOK'
<1>1. /\ flight'[f] = Nobody /\ Nobody.place = "free"
      /\ \A g \in Flights : g # f => flight'[g] = flight[g]
  BY DEF Gone, Nobody, TypeIInv, OutboxIInv, RowsOK
<1>2. Running' = Running \ {f}
  BY <1>1 DEF Running
<1>3. Proc(f) \in Procs /\ Partner(f) \in Partners /\ f[3] \in Gens
      /\ f = <<Proc(f), Partner(f), f[3]>>
  BY LoopParts
<1> DEFINE P == Proc(f)
           A == Partner(f)
<1> HIDE DEF P, A
<1>4. /\ slot' \in [Procs -> [Partners -> Gens \cup {None}]]
      /\ \A p \in Procs, a \in Partners : (p # P \/ a # A) => slot'[p][a] = slot[p][a]
      /\ IF slot[P][A] # f[3] THEN slot'[P][A] = slot[P][A] ELSE slot'[P][A] = None
  <2>1. slot \in [Procs -> [Partners -> Gens \cup {None}]]
    BY DEF TypeIInv, SlotsOK
  <2>2. slot' = IF slot[P][A] # f[3] THEN slot ELSE [slot EXCEPT ![P][A] = None]
    BY DEF Gone, Replaced, P, A
  <2>3. P \in Procs /\ A \in Partners
    BY <1>3 DEF P, A
  <2> QED  BY <2>1, <2>2, <2>3
<1>5. SlotsOK'
  <2> SUFFICES ASSUME NEW p \in Procs, NEW a \in Partners, slot'[p][a] # None
               PROVE  <<p, a, slot'[p][a]>> \in Running'
    BY <1>4 DEF SlotsOK
  <2>1. slot'[p][a] = slot[p][a] /\ (p = P /\ a = A => slot[p][a] # f[3])
    BY <1>4
  <2>2. <<p, a, slot[p][a]>> \in Running
    BY <2>1 DEF TypeIInv, SlotsOK
  <2>3. <<p, a, slot[p][a]>> # f
    BY <1>3, <2>1 DEF P, A
  <2> QED  BY <1>2, <2>1, <2>2, <2>3
<1>6. ASSUME NEW p \in Procs, NEW a \in Partners, NEW g \in Gens, IsLost(<<p, a, g>>)'
      PROVE  IsLost(<<p, a, g>>)
  <2> DEFINE h == <<p, a, g>>
  <2>1. h \in Flights /\ Proc(h) = p /\ Partner(h) = a /\ h[3] = g
    BY LoopOf
  <2>2. h \in Running /\ h # f /\ flight'[h] = flight[h]
    BY <1>1, <1>2, <1>6, <2>1 DEF IsLost
  <2>3. slot'[p][a] # g \/ flight[h].late
    BY <1>6, <2>1, <2>2 DEF IsLost, Replaced
  <2>4. CASE flight[h].late
    BY <2>2, <2>4 DEF IsLost
  <2>5. CASE slot'[p][a] # g /\ slot[p][a] = g
    <3>1. p = P /\ a = A /\ g = f[3]
      BY <1>4, <2>5
    <3> QED  BY <1>3, <2>2, <3>1 DEF P, A
  <2>6. CASE slot[p][a] # g
    BY <2>1, <2>2, <2>6 DEF IsLost, Replaced
  <2> QED  BY <2>3, <2>4, <2>5, <2>6
<1>7. \A p \in Procs, a \in Partners : Lost(p, a)' \subseteq Lost(p, a)
  BY <1>6 DEF Lost
<1>8. LostOK'
  BY <1>3, <1>7, LostKept DEF TypeIInv
<1>9. HungOK'
  BY <1>1 DEF TypeIInv, HungOK
<1> QED  BY <1>5, <1>8, <1>9

LEMMA CrashKeepsSlots ==
  ASSUME TypeIInv, NEW p \in Procs, Crash(p)
  PROVE  SlotsOK' /\ HungOK' /\ LostOK'
<1>1. /\ Fault
      /\ slot' = [slot EXCEPT ![p] = [a \in Partners |-> None]]
      /\ \A f \in Flights : flight'[f] = IF f \in Running /\ Proc(f) = p
                                         THEN Nobody ELSE flight[f]
  BY DEF Crash
<1>2. slot \in [Procs -> [Partners -> Gens \cup {None}]]
  BY DEF TypeIInv, SlotsOK
<1>3. /\ slot' \in [Procs -> [Partners -> Gens \cup {None}]]
      /\ \A a \in Partners : slot'[p][a] = None
      /\ \A q \in Procs : q # p => slot'[q] = slot[q]
  BY <1>1, <1>2
<1>4. Running' = {f \in Running : Proc(f) # p}
  <2>1. Nobody.place = "free"
    BY DEF Nobody
  <2> QED  BY <1>1, <2>1 DEF Running
<1>5. SlotsOK'
  <2> SUFFICES ASSUME NEW q \in Procs, NEW a \in Partners, slot'[q][a] # None
               PROVE  <<q, a, slot'[q][a]>> \in Running'
    BY <1>3 DEF SlotsOK
  <2>1. q # p /\ slot'[q][a] = slot[q][a]
    BY <1>3
  <2>2. <<q, a, slot[q][a]>> \in Running
    BY <2>1 DEF TypeIInv, SlotsOK
  <2> QED  BY <1>4, <2>1, <2>2 DEF Proc
<1>6. ASSUME NEW q \in Procs, NEW a \in Partners, NEW g \in Gens, IsLost(<<q, a, g>>)'
      PROVE  IsLost(<<q, a, g>>)
  <2> DEFINE h == <<q, a, g>>
  <2>1. h \in Flights /\ Proc(h) = q /\ Partner(h) = a /\ h[3] = g
    BY LoopOf
  <2>2. h \in Running /\ q # p
    BY <1>4, <1>6, <2>1 DEF IsLost
  <2>3. flight'[h] = flight[h] /\ slot'[q] = slot[q]
    BY <1>1, <1>3, <2>1, <2>2
  <2> QED  BY <1>6, <2>1, <2>2, <2>3 DEF IsLost, Replaced
<1>7. \A q \in Procs, a \in Partners : Lost(q, a)' \subseteq Lost(q, a)
  BY <1>6 DEF Lost
<1>8. 0 \in Gens
  BY AttemptsAssumption DEF Gens
<1>9. LostOK'
  BY <1>1, <1>7, <1>8, LostKept DEF TypeIInv
<1>10. HungOK'
  BY <1>1 DEF TypeIInv, HungOK, Nobody
<1> QED  BY <1>5, <1>9, <1>10

LEMMA LeastNumber ==
  ASSUME NEW T, T \subseteq Nat, T # {}
  PROVE  \E g \in T : \A h \in T : g <= h
<1>1. PICK g \in T : \A h \in T : ~(<<h, g>> \in OpToRel(<, Nat))
  BY WFMin, NatLessThanWellFounded
<1>2. \A h \in T : ~(h < g)
  BY <1>1 DEF OpToRel
<1> QED  BY <1>2

\* A pass that may start a loop has one to start: all that run are lost, and
\* there are fewer of those than loops.
LEMMA UnusedExists ==
  ASSUME TypeIInv, NEW p \in Procs, NEW a \in Partners, ~Busy(p, a)
  PROVE  Unused(p, a) \in Gens /\ <<p, a, Unused(p, a)>> \notin Running
<1> DEFINE T == {g \in Gens : <<p, a, g>> \notin Running}
<1>1. T # {}
  <2> SUFFICES ASSUME \A g \in Gens : <<p, a, g>> \in Running PROVE FALSE
    OBVIOUS
  <2>1. ASSUME NEW g \in Gens PROVE IsLost(<<p, a, g>>)
    <3>1. <<p, a, g>> \in Running
      OBVIOUS
    <3>2. CASE slot[p][a] # g
      BY <3>1, <3>2, LoopOf DEF IsLost, Replaced
    <3>3. CASE slot[p][a] = g
      <4>1. g # None
        BY GensFinite
      <4>2. flight[<<p, a, g>>].late
        BY <3>3, <4>1 DEF Busy, InFlight, Current
      <4> QED  BY <3>1, <4>2 DEF IsLost
    <3> QED  BY <3>2, <3>3
  <2>2. Lost(p, a) = Gens
    BY <2>1 DEF Lost
  <2>3. MaxFaults + 1 <= faults /\ faults \in 0..MaxFaults
    BY <2>2, GensFinite DEF TypeIInv, LostOK
  <2> QED  BY <2>3, AttemptsAssumption
<1>2. T \subseteq Nat
  BY GensFinite
<1>3. PICK g \in T : \A h \in T : g <= h
  <2> HIDE DEF T
  <2> QED  BY <1>1, <1>2, LeastNumber
<1>4. \E x \in Gens : /\ <<p, a, x>> \notin Running
                      /\ \A h \in Gens : <<p, a, h>> \notin Running => x <= h
  BY <1>3
<1> QED  BY <1>4, Zenon DEF Unused

LEMMA PassKeepsSlots ==
  ASSUME TypeIInv, NEW p \in Procs, Pass(p)
  PROVE  SlotsOK' /\ HungOK' /\ LostOK'
<1>1. PICK stale \in SUBSET {a \in Partners : InFlight(p, a) /\ ~Busy(p, a)} :
        LET served == {a \in Partners : Due(a) # {}}
            started == {a \in served : ~InFlight(p, a) \/ a \in stale}
            starts == [a \in Partners |->
                         IF a \in started THEN Unused(p, a) ELSE slot[p][a]]
        IN /\ slot' = [slot EXCEPT ![p] = starts]
           /\ flight' = [f \in Flights |->
                IF Proc(f) # p \/ Partner(f) \notin served
                     \/ f[3] # starts[Partner(f)]
                THEN flight[f]
                ELSE IF Partner(f) \in started THEN NewFlight(Partner(f))
                ELSE [flight[f] EXCEPT !.rerun = TRUE]]
  BY DEF Pass
<1> DEFINE started == {a \in Partners : Due(a) # {} /\ (~InFlight(p, a) \/ a \in stale)}
<1>2. \A a \in started : /\ Unused(p, a) \in Gens
                        /\ <<p, a, Unused(p, a)>> \notin Running
                        /\ ~Busy(p, a)
  <2>1. \A a \in started : a \in Partners /\ ~Busy(p, a)
    BY DEF Busy
  <2> QED  BY <2>1, UnusedExists
<1>3. /\ \A a \in Partners :
           slot'[p][a] = IF a \in started THEN Unused(p, a) ELSE slot[p][a]
      /\ \A q \in Procs : q # p => slot'[q] = slot[q]
      /\ slot' \in [Procs -> [Partners -> Gens \cup {None}]]
  <2>1. slot \in [Procs -> [Partners -> Gens \cup {None}]]
    BY DEF TypeIInv, SlotsOK
  <2> DEFINE starts == [a \in Partners |->
                          IF a \in started THEN Unused(p, a) ELSE slot[p][a]]
  <2>2. starts \in [Partners -> Gens \cup {None}]
    BY <1>2, <2>1
  <2>3. slot' = [slot EXCEPT ![p] = starts]
    BY <1>1
  <2>4. \A a \in Partners :
          starts[a] = IF a \in started THEN Unused(p, a) ELSE slot[p][a]
    OBVIOUS
  <2> HIDE DEF starts, started
  <2> QED  BY <2>1, <2>2, <2>3, <2>4
<1>4. \A f \in Flights :
        IF Proc(f) = p /\ Partner(f) \in started /\ f[3] = Unused(p, Partner(f))
        THEN flight'[f] = NewFlight(Partner(f))
        ELSE flight'[f] \in {flight[f], [flight[f] EXCEPT !.rerun = TRUE]}
  BY <1>1, LoopParts
<1> HIDE DEF started
<1>5. \A f \in Flights :
        IF Proc(f) = p /\ Partner(f) \in started /\ f[3] = Unused(p, Partner(f))
        THEN flight'[f].place = "rows" /\ ~flight'[f].late
        ELSE flight'[f].place = flight[f].place /\ flight'[f].late = flight[f].late
  <2>1. \A f \in Flights : flight[f] \in Flight
    BY DEF TypeIInv, OutboxIInv, RowsOK
  <2>2. \A a : NewFlight(a).place = "rows" /\ ~NewFlight(a).late
    BY DEF NewFlight, Nobody
  <2>3. \A f \in Flights : LET e == [flight[f] EXCEPT !.rerun = TRUE]
                           IN e.place = flight[f].place /\ e.late = flight[f].late
    BY <2>1 DEF Flight
  <2> SUFFICES ASSUME NEW f \in Flights
               PROVE  IF Proc(f) = p /\ Partner(f) \in started /\ f[3] = Unused(p, Partner(f))
                      THEN flight'[f].place = "rows" /\ ~flight'[f].late
                      ELSE /\ flight'[f].place = flight[f].place
                           /\ flight'[f].late = flight[f].late
    OBVIOUS
  <2> DEFINE young == Proc(f) = p /\ Partner(f) \in started /\ f[3] = Unused(p, Partner(f))
  <2>4. CASE young
    <3>1. flight'[f] = NewFlight(Partner(f))
      BY <1>4, <2>4
    <3> QED  BY <2>2, <2>4, <3>1
  <2>5. CASE ~young
    <3>1. flight'[f] \in {flight[f], [flight[f] EXCEPT !.rerun = TRUE]}
      BY <1>4, <2>5
    <3>2. /\ flight'[f].place = flight[f].place
          /\ flight'[f].late = flight[f].late
      BY <2>3, <3>1
    <3> QED  BY <2>5, <3>2
  <2> QED  BY <2>4, <2>5
<1>6. HungOK'
  BY <1>5 DEF TypeIInv, HungOK
<1>7. SlotsOK'
  <2> SUFFICES ASSUME NEW q \in Procs, NEW a \in Partners, slot'[q][a] # None
               PROVE  <<q, a, slot'[q][a]>> \in Running'
    BY <1>3 DEF SlotsOK
  <2> DEFINE f == <<q, a, slot'[q][a]>>
  <2>1. slot'[q][a] \in Gens
    BY <1>3
  <2>2. f \in Flights /\ Proc(f) = q /\ Partner(f) = a /\ f[3] = slot'[q][a]
    BY <2>1, LoopOf
  <2>3. CASE q = p /\ a \in started
    <3>1. flight'[f].place = "rows"
      BY <1>3, <1>5, <2>2, <2>3
    <3> QED  BY <2>2, <3>1 DEF Running
  <2>4. CASE ~(q = p /\ a \in started)
    <3>1. slot'[q][a] = slot[q][a]
      BY <1>3, <2>4
    <3>2. f \in Running
      BY <3>1 DEF TypeIInv, SlotsOK
    <3>3. flight'[f].place = flight[f].place
      BY <1>5, <2>2, <2>4
    <3> QED  BY <2>2, <3>2, <3>3 DEF Running
  <2> QED  BY <2>3, <2>4
<1>8. ASSUME NEW q \in Procs, NEW a \in Partners, NEW g \in Gens, IsLost(<<q, a, g>>)'
      PROVE  IsLost(<<q, a, g>>)
  <2> DEFINE f == <<q, a, g>>
  <2>1. f \in Flights /\ Proc(f) = q /\ Partner(f) = a /\ f[3] = g
    BY LoopOf
  <2>2. flight'[f].place # "free" /\ (slot'[q][a] # g \/ flight'[f].late)
    BY <1>8, <2>1 DEF IsLost, Replaced, Running
  <2>3. CASE q = p /\ a \in started
    <3>1. g # Unused(p, a)
      BY <1>3, <1>5, <2>1, <2>2, <2>3
    <3>2. flight'[f].place = flight[f].place /\ flight'[f].late = flight[f].late
      BY <1>5, <2>1, <3>1
    <3>3. f \in Running
      BY <2>1, <2>2, <3>2 DEF Running
    <3>4. CASE slot[p][a] = g
      <4>1. g # None
        BY GensFinite
      <4>2. flight[f].late
        BY <1>2, <2>3, <3>4, <4>1 DEF Busy, InFlight, Current
      <4> QED  BY <3>3, <4>2 DEF IsLost
    <3>5. CASE slot[p][a] # g
      BY <2>1, <2>3, <3>3, <3>5 DEF IsLost, Replaced
    <3> QED  BY <3>4, <3>5
  <2>4. CASE ~(q = p /\ a \in started)
    <3>1. slot'[q][a] = slot[q][a]
      BY <1>3, <2>4
    <3>2. flight'[f].place = flight[f].place /\ flight'[f].late = flight[f].late
      BY <1>5, <2>1, <2>4
    <3> QED  BY <2>1, <2>2, <3>1, <3>2 DEF IsLost, Replaced, Running
  <2> QED  BY <2>3, <2>4
<1>9. \A q \in Procs, a \in Partners : Lost(q, a)' \subseteq Lost(q, a)
  BY <1>8 DEF Lost
<1>10. LostOK'
  BY <1>9, LostKept DEF TypeIInv, Pass
<1> QED  BY <1>6, <1>7, <1>10

\* What a loop does with a row: only a write that hung makes it late.
LEMMA NextRowKeepsSlots ==
  ASSUME TypeIInv, NEW f \in Flights, NextRow(f)
  PROVE  SlotsOK' /\ HungOK' /\ LostOK'
<1> DEFINE rest(b) == [flight[f] EXCEPT !.batch = @ \ {b}]
<1>1. flight[f] \in Flight /\ flight[f].place = "rows" /\ slot' = slot
  BY DEF NextRow, At, TypeIInv, OutboxIInv, RowsOK
<1>2. PICK b \in flight[f].batch :
        \/ /\ flight' = [flight EXCEPT ![f] =
                [rest(b) EXCEPT !.place = "sending", !.w = b[1], !.attempts = b[2] + 1]]
           /\ faults' = faults
        \/ flight' = [flight EXCEPT ![f] = rest(b)] /\ faults' = faults
        \/ /\ flight' = [flight EXCEPT ![f] =
                [rest(b) EXCEPT !.place = "writing", !.w = b[1],
                                !.attempts = b[2], !.late = TRUE]]
           /\ Fault
  BY DEF NextRow, Lease, WaitForPartnerAddress
<1>3. b[1] \in Webhooks /\ b[2] \in Nat
  BY <1>1 DEF Flight
<1>4. rest(b) \in Flight /\ rest(b).place = "rows" /\ rest(b).late = flight[f].late
  BY <1>1 DEF Flight
<1>5. ASSUME NEW e \in Flight, e.place # "free", flight' = [flight EXCEPT ![f] = e],
             e.place = "writing" => e.late,
             (faults' = faults /\ (e.late => flight[f].late)) \/ Fault
      PROVE  SlotsOK' /\ HungOK' /\ LostOK'
  BY <1>1, <1>5, LoopGoesOn
<1> HIDE DEF rest
<1>6. CASE flight' = [flight EXCEPT ![f] = rest(b)] /\ faults' = faults
  BY <1>4, <1>5, <1>6
<1>7. CASE /\ flight' = [flight EXCEPT ![f] =
                [rest(b) EXCEPT !.place = "sending", !.w = b[1], !.attempts = b[2] + 1]]
           /\ faults' = faults
  <2>1. PICK k \in Nat : k = b[2] + 1
    BY <1>3
  <2> DEFINE e == [rest(b) EXCEPT !.place = "sending", !.w = b[1], !.attempts = k]
  <2>2. flight' = [flight EXCEPT ![f] = e]
    BY <1>7, <2>1
  <2>3. e \in Flight /\ e.place = "sending" /\ e.late = flight[f].late
    BY <1>3, <1>4 DEF Flight
  <2> HIDE DEF e
  <2> QED  BY <1>5, <1>7, <2>2, <2>3
<1>8. CASE /\ flight' = [flight EXCEPT ![f] =
                [rest(b) EXCEPT !.place = "writing", !.w = b[1],
                                !.attempts = b[2], !.late = TRUE]]
           /\ Fault
  <2> DEFINE e == [rest(b) EXCEPT !.place = "writing", !.w = b[1],
                                  !.attempts = b[2], !.late = TRUE]
  <2>1. e \in Flight /\ e.place = "writing" /\ e.late
    BY <1>3, <1>4 DEF Flight
  <2> QED  BY <1>5, <1>8, <2>1
<1> QED  BY <1>2, <1>6, <1>7, <1>8

LEMMA LateWriteKeepsSlots ==
  ASSUME TypeIInv, NEW f \in Flights, LateWrite(f)
  PROVE  SlotsOK' /\ HungOK' /\ LostOK'
<1> DEFINE w == flight[f].w
           n == flight[f].attempts
           rest == [flight[f] EXCEPT !.place = "rows", !.w = AnyRow,
                                     !.attempts = 0, !.late = FALSE]
           held == [rest EXCEPT !.late = Leaseable(w, n)]
           sent == [held EXCEPT !.place = "sending", !.w = w, !.attempts = n + 1]
<1>1. /\ flight[f] \in Flight /\ flight[f].place = "writing" /\ flight[f].late
      /\ slot' = slot /\ faults' = faults
      /\ row \in [Webhooks -> Row]
  BY DEF LateWrite, At, TypeIInv, HungOK, OutboxIInv, RowsOK
<1>2. w \in Webhooks /\ n \in Nat /\ n + 1 \in Nat
  BY <1>1 DEF Flight
<1>3. Leaseable(w, n) \in BOOLEAN
  BY <1>1, <1>2 DEF Leaseable, Undelivered, Row
<1>4. \/ flight' = [flight EXCEPT ![f] = sent]
      \/ flight' = [flight EXCEPT ![f] = held]
      \/ flight' = [flight EXCEPT ![f] = rest]
  BY DEF LateWrite, Lease, WaitForPartnerAddress
<1>5. rest \in Flight /\ rest.place = "rows"
  BY <1>1, AnyRowIsARow DEF Flight
<1>6. held \in Flight /\ held.place = "rows"
  <2> HIDE DEF rest
  <2> QED  BY <1>3, <1>5 DEF Flight
<1>7. sent \in Flight /\ sent.place = "sending"
  <2> HIDE DEF held
  <2> QED  BY <1>2, <1>6 DEF Flight
<1> HIDE DEF rest, held, sent
<1> QED  BY <1>1, <1>4, <1>5, <1>6, <1>7, LoopGoesOn

LEMMA LoopKeepsSlots ==
  ASSUME TypeIInv, NEW f \in Flights, FlightStep(f) \/ Hangs(f) \/ Throws(f)
  PROVE  SlotsOK' /\ HungOK' /\ LostOK'
<1>t. flight[f] \in Flight
  BY DEF TypeIInv, OutboxIInv, RowsOK
<1>1. CASE FlightEnds(f) \/ Throws(f)
  BY <1>1, LoopGoes DEF FlightEnds, Throws
<1>2. CASE FlightAgain(f)
  <2> DEFINE e == [flight[f] EXCEPT !.rerun = FALSE, !.batch = Batch(Partner(f))]
  <2>1. flight[f].place = "rows" /\ slot' = slot /\ faults' = faults
        /\ flight' = [flight EXCEPT ![f] = e]
    BY <1>2 DEF FlightAgain, At
  <2>2. Batch(Partner(f)) \in SUBSET (Webhooks \X Nat)
    BY LoopParts, BatchReads DEF TypeIInv, OutboxIInv
  <2>3. e \in Flight /\ e.place = "rows" /\ e.late = flight[f].late
    BY <1>t, <2>1, <2>2 DEF Flight
  <2> HIDE DEF e
  <2> QED  BY <2>1, <2>3, LoopGoesOn
<1>3. CASE Send(f)
  <2> DEFINE e == [flight[f] EXCEPT !.place = "rows", !.late = FALSE,
                                    !.w = AnyRow, !.attempts = 0]
  <2>1. flight[f].place = "sending" /\ slot' = slot /\ (faults' = faults \/ Fault)
        /\ flight' = [flight EXCEPT ![f] = e]
    BY <1>3 DEF Send, At, RowDone
  <2>2. e \in Flight /\ e.place = "rows" /\ ~e.late
    BY <1>t, AnyRowIsARow DEF Flight
  <2> HIDE DEF e
  <2> QED  BY <2>1, <2>2, LoopGoesOn
<1>4. CASE Hangs(f)
  <2> DEFINE e == [flight[f] EXCEPT !.late = TRUE]
  <2>1. flight[f].place = "sending" /\ slot' = slot /\ Fault
        /\ flight' = [flight EXCEPT ![f] = e]
    BY <1>4 DEF Hangs, At
  <2>2. e \in Flight /\ e.place = "sending"
    BY <1>t, <2>1 DEF Flight
  <2> HIDE DEF e
  <2> QED  BY <2>1, <2>2, LoopGoesOn
<1> QED  BY <1>1, <1>2, <1>3, <1>4, NextRowKeepsSlots, LateWriteKeepsSlots DEF FlightStep

LEMMA TypeInit == Init => TypeIInv
<1> SUFFICES ASSUME Init PROVE TypeIInv
  OBVIOUS
<1>1. OutboxIInv
  BY InitOK
<1>2. \A f \in Flights : flight[f].place = "free"
  BY DEF Init, Nobody
<1>3. SlotsOK /\ HungOK
  BY <1>2 DEF Init, SlotsOK, HungOK
<1>4. \A p, a : Lost(p, a) = {}
  <2> SUFFICES ASSUME NEW p, NEW a, NEW g \in Lost(p, a) PROVE FALSE
    OBVIOUS
  <2> QED  BY <1>2 DEF Lost, IsLost, Running
<1>5. LostOK
  BY <1>4, FS_EmptySet, AttemptsAssumption DEF Init, LostOK
<1>6. WorldOK
  BY DEF Init, WorldOK
<1> QED  BY <1>1, <1>3, <1>5, <1>6 DEF TypeIInv

LEMMA TypeNext == TypeIInv /\ [Next]_vars => TypeIInv'
<1> SUFFICES ASSUME TypeIInv, [Next]_vars PROVE TypeIInv'
  OBVIOUS
<1>1. OutboxIInv'
  BY StepOK DEF TypeIInv
<1>2. WorldOK'
  <2>1. WorldOK
    BY DEF TypeIInv
  <2>2. CASE \E a \in Partners : Outage(a) \/ Returns(a)
    BY <2>1, <2>2 DEF Outage, Returns, WorldOK
  <2>3. CASE \E p \in Procs : Crash(p)
    BY <2>1, <2>3 DEF Crash, WorldOK
  <2>4. CASE UNCHANGED <<book, up>>
    BY <2>1, <2>4 DEF WorldOK
  <2>5. (\E p \in Procs : Crash(p)) \/ (\E a \in Partners : Outage(a) \/ Returns(a))
          \/ UNCHANGED <<book, up>>
    BY DEF Next, vars, Pass, Enqueue, FlightStep, FlightEnds, FlightAgain, NextRow,
           LateWrite, Send, Hangs, Throws, ComesDue
  <2> QED  BY <2>2, <2>3, <2>4, <2>5
<1>3. SlotsOK' /\ HungOK' /\ LostOK'
  <2>1. CASE \E p \in Procs : Pass(p) \/ Crash(p)
    BY <2>1, PassKeepsSlots, CrashKeepsSlots
  <2>2. CASE \E f \in Flights : FlightStep(f) \/ Hangs(f) \/ Throws(f)
    BY <2>2, LoopKeepsSlots
  <2>3. CASE \/ \E p \in Queueing, w \in Webhooks : Enqueue(p, w)
             \/ \E w \in Webhooks : ComesDue(w)
             \/ \E a \in Partners : Outage(a) \/ Returns(a)
             \/ UNCHANGED vars
    BY <2>3, LoopsAlone DEF Enqueue, ComesDue, Outage, Returns, vars
  <2> QED  BY <2>1, <2>2, <2>3 DEF Next
<1> QED  BY <1>1, <1>2, <1>3 DEF TypeIInv

\* Every variable keeps its type: in particular the map of a process names a loop
\* that runs, and a pass that replaces one that hangs has a loop to start, since
\* at most as many are lost as there were faults.
THEOREM OutboxTypeCorrect == Spec => []TypeOK
<1>1. Spec => []TypeIInv
  BY TypeInit, TypeNext, PTL DEF Spec
<1>2. TypeIInv => TypeOK
  BY DEF TypeIInv, OutboxIInv, RowsOK, SlotsOK, LostOK, WorldOK, TypeOK
<1> QED  BY <1>1, <1>2, PTL
=============================================================================
