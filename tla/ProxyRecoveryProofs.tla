------------------------- MODULE ProxyRecoveryProofs -------------------------
(***************************************************************************)
(* What holds of the switch between proxy and direct mode for every        *)
(* threshold, every world and any number of failures and acts of people.   *)
(***************************************************************************)
EXTENDS ProxyRecovery, TLAPS

USE SelectionsAssumption, CountsAssumption, GapsAssumption, FaultsAssumption,
    WorldsAssumption
DEF SelectionsAssumption, CountsAssumption, GapsAssumption, FaultsAssumption,
    WorldsAssumption

\* A state that waits for an operator only in a park, or retrying out of one.
Waits(m) ==
  m.awaiting => m.phase \in {"operator_attention", "passwall_retry_wait"}

Coherent == {m \in State : Waits(m)}

\* What a step that the agent takes on its own leaves behind.
SwitchOK == /\ pw \in BOOLEAN /\ marker \in BOOLEAN /\ faults \in 0..MaxFaults
            /\ offBy \in {"nobody", "agent", "watchdog", "owner"}
CycleOK  == /\ mem \in Coherent /\ disk \in Coherent
            /\ pc \in {"sleep", "rescue", "advance", "report", "rebooting"}
RestOK   == /\ env \in Env /\ sel \in Selections
            /\ inv \in [pw: BOOLEAN, runtime: {"ok", "missing", "failing"}]
            /\ wd \in {"idle", "cut", "restore"}
            /\ wdRun \in 0..3 /\ contact \in 0..3
            /\ cause \in BOOLEAN

\* The inductive invariant: a crash takes the agent back to what is on disk, so
\* what is claimed of the memory has to hold of the disk.
RecoveryIInv == SwitchOK /\ CycleOK /\ RestOK /\ ram \in Ram

LEMMA IInvImplies == RecoveryIInv => TypeOK /\ AwaitingIsParked
  BY DEF RecoveryIInv, SwitchOK, CycleOK, RestOK, Coherent, Waits, TypeOK,
         AwaitingIsParked

-----------------------------------------------------------------------------
(* The fields of the state, one by one *)

\* Whether the agent waits, and where recovery is, is all that coherence reads.
LEMMA SameWait ==
  ASSUME NEW m \in Coherent, NEW n \in State,
         n.phase = m.phase, n.awaiting = m.awaiting
  PROVE  n \in Coherent
  BY DEF Coherent, Waits

LEMMA CoherentIsState == Coherent \subseteq State
  BY DEF Coherent

LEMMA SetPhase ==
  ASSUME NEW m \in State, NEW v \in Phases
  PROVE  /\ [m EXCEPT !.phase = v] \in State
         /\ [m EXCEPT !.phase = v].phase = v
         /\ [m EXCEPT !.phase = v].awaiting = m.awaiting
  BY DEF State

LEMMA SetAwaiting ==
  ASSUME NEW m \in State, NEW v \in BOOLEAN
  PROVE  /\ [m EXCEPT !.awaiting = v] \in State
         /\ [m EXCEPT !.awaiting = v].phase = m.phase
         /\ [m EXCEPT !.awaiting = v].awaiting = v
  BY DEF State

LEMMA SetOutage ==
  ASSUME NEW m \in State, NEW v \in 0..4 \cup {None}
  PROVE  /\ [m EXCEPT !.outage = v] \in State
         /\ [m EXCEPT !.outage = v].phase = m.phase
         /\ [m EXCEPT !.outage = v].awaiting = m.awaiting
  BY DEF State

LEMMA SetRetry ==
  ASSUME NEW m \in State, NEW v \in Ages
  PROVE  /\ [m EXCEPT !.retry = v] \in State
         /\ [m EXCEPT !.retry = v].phase = m.phase
         /\ [m EXCEPT !.retry = v].awaiting = m.awaiting
  BY DEF State

LEMMA SetRetried ==
  ASSUME NEW m \in State, NEW v \in BOOLEAN
  PROVE  /\ [m EXCEPT !.retried = v] \in State
         /\ [m EXCEPT !.retried = v].phase = m.phase
         /\ [m EXCEPT !.retried = v].awaiting = m.awaiting
  BY DEF State

LEMMA SetRestart ==
  ASSUME NEW m \in State, NEW v \in 0..1
  PROVE  /\ [m EXCEPT !.restart = v] \in State
         /\ [m EXCEPT !.restart = v].phase = m.phase
         /\ [m EXCEPT !.restart = v].awaiting = m.awaiting
  BY DEF State

LEMMA SetRestarted ==
  ASSUME NEW m \in State, NEW v \in BOOLEAN
  PROVE  /\ [m EXCEPT !.restarted = v] \in State
         /\ [m EXCEPT !.restarted = v].phase = m.phase
         /\ [m EXCEPT !.restarted = v].awaiting = m.awaiting
  BY DEF State

LEMMA SetRebootStamp ==
  ASSUME NEW m \in State, NEW v \in Ages
  PROVE  /\ [m EXCEPT !.reboot = v] \in State
         /\ [m EXCEPT !.reboot = v].phase = m.phase
         /\ [m EXCEPT !.reboot = v].awaiting = m.awaiting
  BY DEF State

LEMMA SetMode ==
  ASSUME NEW m \in State, NEW v \in {"proxy", "direct"}
  PROVE  /\ [m EXCEPT !.mode = v] \in State
         /\ [m EXCEPT !.mode = v].phase = m.phase
         /\ [m EXCEPT !.mode = v].awaiting = m.awaiting
  BY DEF State

LEMMA SetTrans ==
  ASSUME NEW m \in State, NEW v \in 0..2
  PROVE  /\ [m EXCEPT !.trans = v] \in State
         /\ [m EXCEPT !.trans = v].phase = m.phase
         /\ [m EXCEPT !.trans = v].awaiting = m.awaiting
  BY DEF State

LEMMA SetFailures ==
  ASSUME NEW m \in State, NEW v \in 0..Trigger
  PROVE  /\ [m EXCEPT !.failures = v] \in State
         /\ [m EXCEPT !.failures = v].phase = m.phase
         /\ [m EXCEPT !.failures = v].awaiting = m.awaiting
  BY DEF State

LEMMA SetSuccesses ==
  ASSUME NEW m \in State, NEW v \in 0..Recover
  PROVE  /\ [m EXCEPT !.successes = v] \in State
         /\ [m EXCEPT !.successes = v].phase = m.phase
         /\ [m EXCEPT !.successes = v].awaiting = m.awaiting
  BY DEF State

LEMMA SetKick ==
  ASSUME NEW m \in State, NEW v \in 0..2
  PROVE  /\ [m EXCEPT !.kick = v] \in State
         /\ [m EXCEPT !.kick = v].phase = m.phase
         /\ [m EXCEPT !.kick = v].awaiting = m.awaiting
  BY DEF State

-----------------------------------------------------------------------------
(* The operators keep a state coherent *)

LEMMA Zeros == 0 \in 0..Trigger /\ 0 \in 0..Recover /\ 0 \in 0..2 /\ 0 \in 0..1
                 /\ 0 \in Ages /\ 5 \in Ages /\ 1 \in 0..1
                 /\ None \in 0..4 \cup {None} /\ 0 \in 0..4 \cup {None}
  BY DEF Ages

\* A mode is entered with its counters reset.
LEMMA InModeCoherent ==
  ASSUME NEW m \in State, NEW mode \in {"proxy", "direct"}
  PROVE  /\ InMode(m, mode) \in State
         /\ InMode(m, mode).phase = m.phase
         /\ InMode(m, mode).awaiting = m.awaiting
<1> DEFINE m1 == [m EXCEPT !.mode = mode]
           m2 == [m1 EXCEPT !.trans = 0]
           m3 == [m2 EXCEPT !.failures = 0]
           m4 == [m3 EXCEPT !.successes = 0]
<1>1. m1 \in State /\ m1.phase = m.phase /\ m1.awaiting = m.awaiting
  BY SetMode
<1> HIDE DEF m1
<1>2. m2 \in State /\ m2.phase = m.phase /\ m2.awaiting = m.awaiting
  BY <1>1, SetTrans, Zeros
<1> HIDE DEF m2
<1>3. m3 \in State /\ m3.phase = m.phase /\ m3.awaiting = m.awaiting
  BY <1>2, SetFailures, Zeros
<1> HIDE DEF m3
<1>4. m4 \in State /\ m4.phase = m.phase /\ m4.awaiting = m.awaiting
  BY <1>3, SetSuccesses, Zeros
<1>5. InMode(m, mode) = m4
  BY DEF InMode, m4, m3, m2, m1
<1> QED
  BY <1>4, <1>5

\* A phase is entered with its flag.
LEMMA InPhaseCoherent ==
  ASSUME NEW m \in State, NEW phase \in Phases, NEW awaiting \in BOOLEAN,
         awaiting => phase \in {"operator_attention", "passwall_retry_wait"}
  PROVE  InPhase(m, phase, awaiting) \in Coherent
<1> DEFINE m1 == [m EXCEPT !.phase = phase]
           m2 == [m1 EXCEPT !.awaiting = awaiting]
<1>1. m1 \in State /\ m1.phase = phase
  BY SetPhase
<1> HIDE DEF m1
<1>2. m2 \in State /\ m2.phase = phase /\ m2.awaiting = awaiting
  BY <1>1, SetAwaiting
<1>3. InPhase(m, phase, awaiting) = m2
  BY DEF InPhase, m2, m1
<1> HIDE DEF m2
<1> QED
  BY <1>2, <1>3 DEF Coherent, Waits

LEMMA InPhasePhase ==
  ASSUME NEW m \in State, NEW phase \in Phases, NEW awaiting \in BOOLEAN
  PROVE  InPhase(m, phase, awaiting).phase = phase
<1> DEFINE m1 == [m EXCEPT !.phase = phase]
<1>1. m1 \in State /\ m1.phase = phase
  BY SetPhase
<1> HIDE DEF m1
<1>2. [m1 EXCEPT !.awaiting = awaiting].phase = phase
  BY <1>1, SetAwaiting
<1> QED
  BY <1>2 DEF InPhase, m1

LEMMA ReconciledCoherent ==
  ASSUME mem \in Coherent, inv \in [pw: BOOLEAN, runtime: {"ok", "missing", "failing"}]
  PROVE  Reconciled \in Coherent /\ Reconciled.phase = mem.phase
<1> DEFINE m1 == [mem EXCEPT !.mode = IF inv.pw THEN "proxy" ELSE "direct"]
           m2 == [m1 EXCEPT !.failures = 0]
           m3 == [m2 EXCEPT !.successes = 0]
<1>1. m1 \in State /\ m1.phase = mem.phase /\ m1.awaiting = mem.awaiting
  BY SetMode, CoherentIsState
<1> HIDE DEF m1
<1>2. m2 \in State /\ m2.phase = mem.phase /\ m2.awaiting = mem.awaiting
  BY <1>1, SetFailures, Zeros
<1> HIDE DEF m2
<1>3. m3 \in State /\ m3.phase = mem.phase /\ m3.awaiting = mem.awaiting
  BY <1>2, SetSuccesses, Zeros
<1>4. Reconciled = mem \/ Reconciled = m3
  BY DEF Reconciled, m3, m2, m1
<1> HIDE DEF m3
<1> QED
  BY <1>3, <1>4, SameWait

\* An outage begins where nobody waits for the operator, or keeps the phase.
LEMMA AnchoredCoherent ==
  ASSUME mem \in Coherent
  PROVE  /\ Anchored \in Coherent
         /\ Anchored.phase = mem.phase
              \/ (mem.phase = "idle" /\ Anchored.phase = "monitoring")
<1> DEFINE m1 == [mem EXCEPT !.outage = 0]
           m2 == [m1 EXCEPT !.retried = FALSE]
           m3 == [m2 EXCEPT !.restarted = FALSE]
           phase == IF m3.phase = "idle" THEN "monitoring" ELSE m3.phase
           m4 == [m3 EXCEPT !.phase = phase]
<1>1. m1 \in State /\ m1.phase = mem.phase /\ m1.awaiting = mem.awaiting
  BY SetOutage, CoherentIsState, Zeros
<1> HIDE DEF m1
<1>2. m2 \in State /\ m2.phase = mem.phase /\ m2.awaiting = mem.awaiting
  BY <1>1, SetRetried
<1> HIDE DEF m2
<1>3. m3 \in State /\ m3.phase = mem.phase /\ m3.awaiting = mem.awaiting
  BY <1>2, SetRestarted
<1> HIDE DEF m3
<1>4. mem.phase \in Phases /\ (mem.awaiting => mem.phase # "idle")
  BY DEF Coherent, Waits, State
<1>5. phase \in Phases
  BY <1>3, <1>4 DEF Phases
<1>6. m4 \in State /\ m4.phase = phase /\ m4.awaiting = mem.awaiting
  BY <1>3, <1>5, SetPhase
<1>7. m4 \in Coherent
  BY <1>3, <1>4, <1>6 DEF Coherent, Waits
<1>8. Anchored = mem \/ Anchored = m4
  BY DEF Anchored, m4, m3, m2, m1
<1>9. phase = mem.phase \/ (mem.phase = "idle" /\ phase = "monitoring")
  BY <1>3
<1> HIDE DEF m4, phase
<1> QED
  BY <1>6, <1>7, <1>8, <1>9

LEMMA GoneInRange ==
  ASSUME NEW cap \in 0..5, NEW a \in 0..cap, NEW d \in 0..5, NEW carry \in BOOLEAN
  PROVE  Gone(a, d, carry, cap) \in 0..cap
<1> DEFINE b == IF d = 0 THEN a ELSE IF a < d THEN d ELSE IF carry THEN a + 1 ELSE a
<1>1. b \in Nat
  OBVIOUS
<1>2. Gone(a, d, carry, cap) = IF b < cap THEN b ELSE cap
  BY Zenon DEF Gone
<1> HIDE DEF b
<1> QED
  BY <1>1, <1>2

\* Time does not move recovery.
LEMMA AgedCoherent ==
  ASSUME NEW m \in Coherent, NEW d \in 0..5, NEW carry \in BOOLEAN
  PROVE  Aged(m, d, carry) \in Coherent /\ Aged(m, d, carry).phase = m.phase
<1> DEFINE out == IF m.outage = None THEN None ELSE Gone(m.outage, d, carry, 4)
           m1 == [m EXCEPT !.outage = out]
           m2 == [m1 EXCEPT !.retry = Gone(m1.retry, d, carry, 5)]
           m3 == [m2 EXCEPT !.restart = Gone(m2.restart, d, carry, 1)]
           m4 == [m3 EXCEPT !.reboot = Gone(m3.reboot, d, carry, 5)]
           m5 == [m4 EXCEPT !.trans = Gone(m4.trans, d, carry, 2)]
           m6 == [m5 EXCEPT !.kick = Gone(m5.kick, d, carry, 2)]
<1>0. \A n \in State : /\ n.outage \in 0..4 \cup {None} /\ n.retry \in 0..5
                       /\ n.restart \in 0..1 /\ n.reboot \in 0..5
                       /\ n.trans \in 0..2 /\ n.kick \in 0..2
  BY DEF State, Ages
<1>1. m1 \in State /\ m1.phase = m.phase /\ m1.awaiting = m.awaiting
  <2>1. out \in 0..4 \cup {None}
    BY <1>0, CoherentIsState, GoneInRange
  <2> QED
    BY <2>1, SetOutage, CoherentIsState
<1> HIDE DEF m1
<1>2. m2 \in State /\ m2.phase = m.phase /\ m2.awaiting = m.awaiting
  <2>1. Gone(m1.retry, d, carry, 5) \in Ages
    BY <1>0, <1>1, GoneInRange DEF Ages
  <2> QED
    BY <1>1, <2>1, SetRetry
<1> HIDE DEF m2
<1>3. m3 \in State /\ m3.phase = m.phase /\ m3.awaiting = m.awaiting
  <2>1. Gone(m2.restart, d, carry, 1) \in 0..1
    BY <1>0, <1>2, GoneInRange
  <2> QED
    BY <1>2, <2>1, SetRestart
<1> HIDE DEF m3
<1>4. m4 \in State /\ m4.phase = m.phase /\ m4.awaiting = m.awaiting
  <2>1. Gone(m3.reboot, d, carry, 5) \in Ages
    BY <1>0, <1>3, GoneInRange DEF Ages
  <2> QED
    BY <1>3, <2>1, SetRebootStamp
<1> HIDE DEF m4
<1>5. m5 \in State /\ m5.phase = m.phase /\ m5.awaiting = m.awaiting
  <2>1. Gone(m4.trans, d, carry, 2) \in 0..2
    BY <1>0, <1>4, GoneInRange
  <2> QED
    BY <1>4, <2>1, SetTrans
<1> HIDE DEF m5
<1>6. m6 \in State /\ m6.phase = m.phase /\ m6.awaiting = m.awaiting
  <2>1. Gone(m5.kick, d, carry, 2) \in 0..2
    BY <1>0, <1>5, GoneInRange
  <2> QED
    BY <1>5, <2>1, SetKick
<1>7. Aged(m, d, carry) = m6
  BY DEF Aged, m6, m5, m4, m3, m2, m1
<1> HIDE DEF m6
<1> QED
  BY <1>6, <1>7, SameWait

\* A contact ends what only the silence of the panel has begun.
LEMMA ContactedCoherent ==
  ASSUME NEW m \in Coherent
  PROVE  Contacted(m) \in Coherent /\ Contacted(m).phase \in {m.phase, "idle"}
<1> DEFINE m1 == [m EXCEPT !.outage = None]
           m2 == [m1 EXCEPT !.retried = FALSE]
           m3 == [m2 EXCEPT !.restarted = FALSE]
<1>1. m1 \in State /\ m1.phase = m.phase /\ m1.awaiting = m.awaiting
  BY SetOutage, CoherentIsState, Zeros
<1> HIDE DEF m1
<1>2. m2 \in State /\ m2.phase = m.phase /\ m2.awaiting = m.awaiting
  BY <1>1, SetRetried
<1> HIDE DEF m2
<1>3. m3 \in State /\ m3.phase = m.phase /\ m3.awaiting = m.awaiting
  BY <1>2, SetRestarted
<1>4. Contacted(m) = m3 \/ Contacted(m) = InPhase(m3, "idle", FALSE)
  BY DEF Contacted, m3, m2, m1
<1> HIDE DEF m3
<1>5. "idle" \in Phases
  BY DEF Phases
<1> QED
  BY <1>3, <1>4, <1>5, SameWait, InPhaseCoherent, InPhasePhase

LEMMA UnownedCoherent ==
  ASSUME NEW m \in State
  PROVE  Unowned(m) \in Coherent /\ Unowned(m).phase = "idle"
<1> DEFINE m0 == InPhase(m, "idle", FALSE)
           m1 == [m0 EXCEPT !.outage = None]
           m2 == [m1 EXCEPT !.retry = 5]
           m3 == [m2 EXCEPT !.retried = FALSE]
           m4 == [m3 EXCEPT !.restart = 1]
           m5 == [m4 EXCEPT !.restarted = FALSE]
<1>0. m0 \in Coherent /\ m0 \in State /\ m0.phase = "idle"
  BY InPhaseCoherent, InPhasePhase, CoherentIsState DEF Phases
<1> HIDE DEF m0
<1>1. m1 \in State /\ m1.phase = "idle" /\ m1.awaiting = m0.awaiting
  BY <1>0, SetOutage, Zeros
<1> HIDE DEF m1
<1>2. m2 \in State /\ m2.phase = "idle" /\ m2.awaiting = m0.awaiting
  BY <1>1, SetRetry, Zeros
<1> HIDE DEF m2
<1>3. m3 \in State /\ m3.phase = "idle" /\ m3.awaiting = m0.awaiting
  BY <1>2, SetRetried
<1> HIDE DEF m3
<1>4. m4 \in State /\ m4.phase = "idle" /\ m4.awaiting = m0.awaiting
  BY <1>3, SetRestart, Zeros
<1> HIDE DEF m4
<1>5. m5 \in State /\ m5.phase = "idle" /\ m5.awaiting = m0.awaiting
  BY <1>4, SetRestarted
<1>6. Unowned(m) = m5
  BY DEF Unowned, m5, m4, m3, m2, m1, m0
<1> HIDE DEF m5
<1> QED
  BY <1>0, <1>5, <1>6, SameWait

LEMMA RamFields ==
  ASSUME NEW r \in Ram
  PROVE  /\ Uncached(r) \in Ram
         /\ \A g \in Groups \cup {NoGroups} : [r EXCEPT !.rcache = g] \in Ram
         /\ \A v \in {"alive", "dead"} : [r EXCEPT !.vcache = v] \in Ram
         /\ \A b \in BOOLEAN : [r EXCEPT !.due = b] \in Ram
         /\ EmptyRam \in Ram
<1>1. \A g \in Groups \cup {NoGroups} : [r EXCEPT !.rcache = g] \in Ram
  BY Zenon DEF Ram
<1>2. \A v \in {"alive", "dead"} : [r EXCEPT !.vcache = v] \in Ram
  BY Zenon DEF Ram
<1>3. \A b \in BOOLEAN : [r EXCEPT !.due = b] \in Ram
  BY Zenon DEF Ram
<1>4. EmptyRam \in Ram
  BY Zenon DEF EmptyRam, Ram
<1> QED
  BY <1>1, <1>2, <1>3, <1>4, Zenon DEF Uncached

\* A verdict is one of three, cached or not.
LEMMA VerdictsSeen ==
  /\ VerdictSeen \subseteq Verdicts
  /\ \A r \in Ram : CachedVerdict(r) \subseteq Verdicts
<1>1. VerdictSeen \subseteq Verdicts
  BY DEF VerdictSeen, Busy, Verdicts
<1>2. ASSUME NEW r \in Ram PROVE CachedVerdict(r) \subseteq Verdicts
  <2>1. r.vcache \in {"alive", "dead", "none"}
    BY DEF Ram
  <2> QED
    BY <1>1, <2>1 DEF CachedVerdict, Verdicts
<1> QED
  BY <1>1, <1>2

LEMMA JudgedRam ==
  ASSUME NEW r \in Ram, NEW v \in Verdicts
  PROVE  Judged(r, v) \in Ram
<1>1. v # "unjudged" => [r EXCEPT !.vcache = v] \in Ram
  BY RamFields, Zenon DEF Verdicts
<1> QED
  BY <1>1, Zenon DEF Judged

-----------------------------------------------------------------------------
(* What the ends of a step leave behind *)

Stepped == SwitchOK /\ CycleOK /\ ram \in Ram

LEMMA KeepSwitchOK ==
  ASSUME SwitchOK, KeepSwitch
  PROVE  SwitchOK'
  BY DEF SwitchOK, KeepSwitch

LEMMA SetSwitchOK ==
  ASSUME NEW on \in BOOLEAN, SetSwitch(on), faults' \in 0..MaxFaults
  PROVE  SwitchOK'
  BY DEF SwitchOK, SetSwitch

LEMMA FaultOK ==
  ASSUME faults \in 0..MaxFaults, Fault
  PROVE  faults' \in 0..MaxFaults
  BY DEF Fault

LEMMA EndCycleOK ==
  ASSUME NEW m \in Coherent, EndCycle(m)
  PROVE  CycleOK'
  BY DEF CycleOK, EndCycle

LEMMA SwitchFailsOK ==
  ASSUME SwitchOK, NEW on \in BOOLEAN, NEW m \in Coherent, SwitchFails(on, m)
  PROVE  SwitchOK' /\ CycleOK'
<1>1. faults' \in 0..MaxFaults
  BY FaultOK DEF SwitchFails, SwitchOK
<1>2. CycleOK'
  BY EndCycleOK DEF SwitchFails
<1>3. CASE SetSwitch(on)
  BY <1>1, <1>2, <1>3, SetSwitchOK
<1>4. CASE UNCHANGED <<pw, marker, offBy>>
  BY <1>1, <1>2, <1>4 DEF SwitchOK
<1> QED
  BY <1>3, <1>4 DEF SwitchFails

LEMMA ProceedOK ==
  ASSUME CycleOK, NEW m \in Coherent, NEW r \in Ram, NEW skip \in BOOLEAN,
         NEW hold \in BOOLEAN, Proceed(m, r, skip, hold)
  PROVE  CycleOK' /\ ram' \in Ram
<1>1. mem' = m /\ ram' = r
  BY DEF Proceed
<1>2. disk' \in {m, disk} /\ pc' \in {"sleep", "report"}
  BY Zenon DEF Proceed
<1> QED
  BY <1>1, <1>2 DEF CycleOK

LEMMA StayOK ==
  ASSUME SwitchOK, CycleOK, NEW m \in Coherent, NEW r \in Ram, NEW skip \in BOOLEAN,
         NEW hold \in BOOLEAN, Stay(m, r, skip, hold)
  PROVE  Stepped'
  BY ProceedOK, KeepSwitchOK DEF Stay, Stepped

LEMMA ParkOK ==
  ASSUME SwitchOK, CycleOK, NEW m \in State, NEW r \in Ram, NEW skip \in BOOLEAN,
         Park(m, r, skip)
  PROVE  Stepped'
<1>1. InPhase(m, "operator_attention", TRUE) \in Coherent
  BY InPhaseCoherent DEF Phases
<1> QED
  BY <1>1, StayOK DEF Park

LEMMA ResumeOK ==
  ASSUME SwitchOK, CycleOK, NEW m \in Coherent, NEW r \in Ram, NEW awaiting \in BOOLEAN,
         Resume(m, r, awaiting)
  PROVE  Stepped'
<1> DEFINE n0 == InPhase(Proxy(m), "passwall_retry_wait", awaiting)
           n1 == [n0 EXCEPT !.retry = 0]
           n2 == [n1 EXCEPT !.retried = m.outage # None]
<1>1. n0 \in Coherent /\ n0 \in State
  BY CoherentIsState, InModeCoherent, InPhaseCoherent DEF Proxy, Phases
<1> HIDE DEF n0
<1>2. n1 \in State /\ n1.phase = n0.phase /\ n1.awaiting = n0.awaiting
  BY <1>1, SetRetry, Zeros
<1> HIDE DEF n1
<1>3. n2 \in State /\ n2.phase = n0.phase /\ n2.awaiting = n0.awaiting
  BY <1>2, SetRetried
<1>4. n2 \in Coherent
  BY <1>1, <1>3, SameWait
<1>5. CASE SetSwitch(TRUE) /\ Proceed(n2, Uncached(r), TRUE, TRUE) /\ UNCHANGED faults
  <2>1. SwitchOK'
    BY <1>5, SetSwitchOK DEF SwitchOK
  <2> QED
    BY <1>4, <1>5, <2>1, ProceedOK, RamFields DEF Stepped
<1>6. CASE SwitchFails(TRUE, m) /\ ram' = r
  BY <1>6, SwitchFailsOK DEF Stepped
<1> QED
  BY <1>5, <1>6 DEF Resume, n2, n1, n0

LEMMA GoDirectOK ==
  ASSUME SwitchOK, CycleOK, NEW m \in Coherent, NEW r \in Ram,
         NEW phase \in Phases, NEW awaiting \in BOOLEAN, NEW skip \in BOOLEAN,
         awaiting => phase \in {"operator_attention", "passwall_retry_wait"},
         GoDirect(m, r, phase, awaiting, skip)
  PROVE  Stepped'
<1> DEFINE n == InPhase(Direct(m), phase, awaiting)
<1>1. n \in Coherent
  BY CoherentIsState, InModeCoherent, InPhaseCoherent DEF Direct
<1> HIDE DEF n
<1>2. CASE SetSwitch(FALSE) /\ Proceed(n, Uncached(r), skip, TRUE) /\ UNCHANGED faults
  <2>1. SwitchOK'
    BY <1>2, SetSwitchOK DEF SwitchOK
  <2> QED
    BY <1>1, <1>2, <2>1, ProceedOK, RamFields DEF Stepped
<1>3. CASE SwitchFails(FALSE, m) /\ ram' = r
  BY <1>3, SwitchFailsOK DEF Stepped
<1> QED
  BY <1>2, <1>3 DEF GoDirect, n

LEMMA ResumeOrParkOK ==
  ASSUME SwitchOK, CycleOK, NEW m \in Coherent, NEW r \in Ram, ResumeOrPark(m, r)
  PROVE  Stepped'
<1>1. PanelAnswers \in BOOLEAN
  BY DEF PanelAnswers
<1> QED
  BY <1>1, ParkOK, ResumeOK, CoherentIsState DEF ResumeOrPark

LEMMA GiveUpOK ==
  ASSUME SwitchOK, CycleOK, NEW m \in Coherent, NEW r \in Ram, GiveUp(m, r)
  PROVE  Stepped'
<1>1. (~PanelAnswers) \in BOOLEAN
  BY DEF PanelAnswers
<1>2. "operator_attention" \in Phases
  BY DEF Phases
<1> QED
  BY <1>1, <1>2, ParkOK, GoDirectOK, CoherentIsState DEF GiveUp

-----------------------------------------------------------------------------
(* Local rescue *)

LEMMA RescuedOK ==
  ASSUME CycleOK, NEW m \in Coherent, Rescued(m)
  PROVE  CycleOK'
  BY DEF CycleOK, Rescued

LEMMA CollectedOK ==
  ASSUME env \in Env, NEW on \in BOOLEAN
  PROVE  Collected(on) \in [pw: BOOLEAN, runtime: {"ok", "missing", "failing"}]
  BY Zenon DEF Collected, Env

InvOK == inv \in [pw: BOOLEAN, runtime: {"ok", "missing", "failing"}]

LEMMA NoInventoryOK ==
  NoInventory \in [pw: BOOLEAN, runtime: {"ok", "missing", "failing"}]
  BY Zenon DEF NoInventory

LEMMA RescueKeeps ==
  ASSUME RecoveryIInv, Rescue
  PROVE  RecoveryIInv'
<1> USE DEF InvOK
<1>1. SwitchOK /\ CycleOK /\ InvOK /\ ram \in Ram /\ mem \in Coherent /\ env \in Env
  BY DEF RecoveryIInv, CycleOK, RestOK
<1>2. Reconciled \in Coherent /\ Reconciled \in State
  BY <1>1, ReconciledCoherent, CoherentIsState
<1>3. /\ Direct(Reconciled) \in Coherent
      /\ \A m \in Coherent : Direct(m) \in Coherent /\ Proxy(m) \in Coherent
  BY <1>2, InModeCoherent, SameWait, CoherentIsState DEF Direct, Proxy
<1>4. SwitchOK' /\ CycleOK' /\ InvOK' /\ ram' \in Ram
  <2>1. CASE FailSafe
    <3>1. ram' \in Ram
      <4>1. ram' \in {Uncached(ram), ram}
        BY <2>1 DEF FailSafe, Uncached
      <4> QED
        BY <1>1, <4>1, RamFields
    <3>2. CASE /\ SetSwitch(FALSE) /\ Rescued(Direct(Reconciled))
               /\ inv' = Collected(FALSE) /\ UNCHANGED faults
      <4>1. faults' \in 0..MaxFaults
        BY <1>1, <3>2 DEF SwitchOK
      <4> QED
        BY <1>1, <1>3, <3>1, <3>2, <4>1, SetSwitchOK, RescuedOK, CollectedOK
    <3>3. CASE SwitchFails(FALSE, Reconciled)
      BY <1>1, <1>2, <3>1, <3>3, SwitchFailsOK, NoInventoryOK DEF SwitchFails, EndCycle
    <3> QED
      BY <2>1, <3>2, <3>3 DEF FailSafe
  <2>2. CASE RescueStandsBy
    BY <1>1, <1>2, <2>2, RescuedOK, KeepSwitchOK DEF RescueStandsBy
  <2>3. CASE RestartPasswall
    <3> DEFINE m == [Reconciled EXCEPT !.kick = 0]
    <3>1. m \in Coherent
      BY <1>2, SetKick, Zeros, SameWait
    <3>2. Rescued(m) /\ KeepSwitch /\ UNCHANGED inv
      BY <2>3 DEF RestartPasswall
    <3>3. ram' \in Ram
      BY <1>1, <2>3, RamFields, Zenon DEF RestartPasswall
    <3> HIDE DEF m
    <3> QED
      BY <1>1, <3>1, <3>2, <3>3, RescuedOK, KeepSwitchOK
  <2>4. CASE JudgeDirect
    <3>1. PICK blocked \in Blocks(inv.runtime), answer \in PathSeen :
            LET credit == IF blocked THEN 0
                          ELSE IF PublicAnswers /\ answer = "alive"
                               THEN IF Reconciled.successes < Recover
                                    THEN Reconciled.successes + 1 ELSE Recover
                               ELSE Reconciled.successes
                m == [Reconciled EXCEPT !.successes = credit]
            IN IF credit = Recover /\ m.trans = 2
               THEN \/ /\ SetSwitch(TRUE) /\ Rescued(Proxy(m))
                       /\ inv' = Collected(TRUE) /\ UNCHANGED faults
                    \/ SwitchFails(TRUE, Proxy(m))
               ELSE Rescued(m) /\ KeepSwitch /\ UNCHANGED inv
      BY <2>4 DEF JudgeDirect
    <3> DEFINE credit == IF blocked THEN 0
                         ELSE IF PublicAnswers /\ answer = "alive"
                              THEN IF Reconciled.successes < Recover
                                   THEN Reconciled.successes + 1 ELSE Recover
                              ELSE Reconciled.successes
               m == [Reconciled EXCEPT !.successes = credit]
    <3>2. credit \in 0..Recover
      <4>1. Reconciled.successes \in 0..Recover
        BY <1>2 DEF State
      <4> QED
        BY <4>1
    <3>3. m \in Coherent
      BY <1>2, <3>2, SetSuccesses, SameWait
    <3>4. Proxy(m) \in Coherent
      BY <1>3, <3>3
    <3>5. ram' \in Ram
      BY <1>1, <2>4 DEF JudgeDirect
    <3>6. \/ /\ SetSwitch(TRUE) /\ Rescued(Proxy(m))
             /\ inv' = Collected(TRUE) /\ UNCHANGED faults
          \/ SwitchFails(TRUE, Proxy(m))
          \/ Rescued(m) /\ KeepSwitch /\ UNCHANGED inv
      BY <3>1
    <3> HIDE DEF m
    <3>7. CASE /\ SetSwitch(TRUE) /\ Rescued(Proxy(m))
               /\ inv' = Collected(TRUE) /\ UNCHANGED faults
      <4>1. faults' \in 0..MaxFaults
        BY <1>1, <3>7 DEF SwitchOK
      <4> QED
        BY <1>1, <3>4, <3>5, <3>7, <4>1, SetSwitchOK, RescuedOK, CollectedOK
    <3>8. CASE SwitchFails(TRUE, Proxy(m))
      BY <1>1, <3>4, <3>5, <3>8, SwitchFailsOK, NoInventoryOK DEF SwitchFails, EndCycle
    <3>9. CASE Rescued(m) /\ KeepSwitch /\ UNCHANGED inv
      BY <1>1, <3>3, <3>5, <3>9, RescuedOK, KeepSwitchOK
    <3> QED
      BY <3>6, <3>7, <3>8, <3>9
  <2>5. CASE JudgeProxy
    <3>1. [Reconciled EXCEPT !.failures = 0] \in Coherent
      BY <1>2, SetFailures, Zeros, SameWait
    <3> QED
      BY <1>1, <1>2, <2>5, <3>1, RescuedOK, KeepSwitchOK DEF JudgeProxy
  <2>6. CASE CountFailure
    <3> DEFINE more == IF Reconciled.failures < Trigger
                       THEN Reconciled.failures + 1 ELSE Reconciled.failures
               m == [Reconciled EXCEPT !.failures = more]
    <3>1. more \in 0..Trigger
      <4>1. Reconciled.failures \in 0..Trigger
        BY <1>2 DEF State
      <4> QED
        BY <4>1
    <3>2. m \in Coherent
      BY <1>2, <3>1, SetFailures, SameWait
    <3>3. Direct(m) \in Coherent
      BY <1>3, <3>2
    <3>4. ram' \in Ram
      BY <1>1, <2>6 DEF CountFailure
    <3>5. \/ Rescued(m) /\ KeepSwitch /\ UNCHANGED inv
          \/ SetSwitch(FALSE) /\ Rescued(Direct(m)) /\ inv' = Collected(FALSE)
               /\ UNCHANGED faults
          \/ pw' = TRUE /\ offBy' = "nobody" /\ Rescued(m) /\ UNCHANGED <<marker, faults, inv>>
          \/ /\ Fault /\ EndCycle(Reconciled) /\ UNCHANGED marker
             /\ UNCHANGED <<pw, offBy>> \/ (pw' = FALSE /\ offBy' = "agent")
      BY <2>6 DEF CountFailure
    <3> HIDE DEF m
    <3>6. CASE Rescued(m) /\ KeepSwitch /\ UNCHANGED inv
      BY <1>1, <3>2, <3>4, <3>6, RescuedOK, KeepSwitchOK
    <3>7. CASE SetSwitch(FALSE) /\ Rescued(Direct(m)) /\ inv' = Collected(FALSE)
                 /\ UNCHANGED faults
      <4>1. faults' \in 0..MaxFaults
        BY <1>1, <3>7 DEF SwitchOK
      <4> QED
        BY <1>1, <3>3, <3>4, <3>7, <4>1, SetSwitchOK, RescuedOK, CollectedOK
    <3>8. CASE pw' = TRUE /\ offBy' = "nobody" /\ Rescued(m) /\ UNCHANGED <<marker, faults, inv>>
      BY <1>1, <3>2, <3>4, <3>8, RescuedOK DEF SwitchOK
    <3>9. CASE /\ Fault /\ EndCycle(Reconciled) /\ UNCHANGED marker
               /\ UNCHANGED <<pw, offBy>> \/ (pw' = FALSE /\ offBy' = "agent")
      <4>1. faults' \in 0..MaxFaults
        BY <1>1, <3>9, FaultOK DEF SwitchOK
      <4>2. SwitchOK'
        BY <1>1, <3>9, <4>1 DEF SwitchOK
      <4> QED
        BY <1>1, <1>2, <3>4, <3>9, <4>2, EndCycleOK, NoInventoryOK DEF EndCycle
    <3> QED
      BY <3>5, <3>6, <3>7, <3>8, <3>9
  <2> QED
    BY <2>1, <2>2, <2>3, <2>4, <2>5, <2>6 DEF Rescue
<1>5. UNCHANGED RescueVars
  BY DEF Rescue, FailSafe, RescueStandsBy, RestartPasswall, JudgeDirect, JudgeProxy,
         CountFailure
<1> QED
  BY <1>4, <1>5 DEF RecoveryIInv, RestOK, RescueVars

-----------------------------------------------------------------------------
(* Control-plane recovery *)

LEMMA JudgeOK ==
  ASSUME SwitchOK, CycleOK, NEW m \in Coherent, NEW r \in Ram, NEW g, Judge(m, r, g)
  PROVE  Stepped'
<1>1. InPhase(m, "idle", FALSE) \in Coherent
  BY InPhaseCoherent, CoherentIsState DEF Phases
<1>2. Stay(InPhase(m, "idle", FALSE), r, FALSE, FALSE) => Stepped'
  BY <1>1, StayOK
<1>3. Stay(m, r, TRUE, FALSE) => Stepped'
  BY StayOK
<1>4. GiveUp(m, r) => Stepped'
  BY GiveUpOK
<1> QED
  BY <1>2, <1>3, <1>4, VerdictsSeen, Zenon DEF Judge, Verdicts

LEMMA StartControlPlaneRecoveryOK ==
  ASSUME SwitchOK, CycleOK, NEW m \in Coherent, m.phase \in {"idle", "monitoring"},
         NEW r \in Ram, NEW g, StartControlPlaneRecovery(m, r, g)
  PROVE  Stepped'
<1> DEFINE n0 == InPhase(m, "controller_restart_wait", FALSE)
           n1 == [n0 EXCEPT !.restart = IF m.restarted THEN n0.restart ELSE 0]
           n2 == [n1 EXCEPT !.restarted = TRUE]
           w  == [m EXCEPT !.phase = "monitoring"]
<1>1. n0 \in Coherent /\ n0 \in State
  BY InPhaseCoherent, CoherentIsState DEF Phases
<1> HIDE DEF n0
<1>2. n1 \in State /\ n1.phase = n0.phase /\ n1.awaiting = n0.awaiting
  <2>1. n0.restart \in 0..1
    BY <1>1 DEF State
  <2> QED
    BY <1>1, <2>1, SetRestart, Zeros
<1> HIDE DEF n1
<1>3. n2 \in Coherent
  BY <1>1, <1>2, SetRestarted, SameWait
<1>4. w \in Coherent
  <2>1. ~m.awaiting
    BY DEF Coherent, Waits
  <2> QED
    BY <2>1, SetPhase, CoherentIsState DEF Coherent, Waits, Phases
<1>5. InPhase(m, "monitoring", FALSE) \in Coherent
  BY InPhaseCoherent, CoherentIsState DEF Phases
<1>6. Direct(m) \in Coherent
  BY InModeCoherent, CoherentIsState, SameWait DEF Direct
<1>7. ASSUME Stay(n2, IF m.restarted THEN r ELSE Uncached(r), TRUE, FALSE)
      PROVE  Stepped'
  <2>1. (IF m.restarted THEN r ELSE Uncached(r)) \in Ram
    BY RamFields
  <2> QED
    BY <1>3, <1>7, <2>1, StayOK
<1>8. ASSUME NEW v \in CachedVerdict(r), Stay(w, Judged(r, v), TRUE, FALSE)
      PROVE  Stepped'
  BY <1>4, <1>8, VerdictsSeen, JudgedRam, StayOK
<1>9. ASSUME NEW v \in CachedVerdict(r),
             GoDirect(Direct(m), Judged(r, v), "direct_settle", FALSE, TRUE)
      PROVE  Stepped'
  <2>1. Judged(r, v) \in Ram /\ "direct_settle" \in Phases
    BY VerdictsSeen, JudgedRam DEF Phases
  <2> QED
    BY <1>6, <1>9, <2>1, GoDirectOK
<1>10. ASSUME Stay(InPhase(m, "monitoring", FALSE), r, TRUE, FALSE) PROVE Stepped'
  BY <1>5, <1>10, StayOK
<1>11. ASSUME Stay(w, r, TRUE, FALSE) PROVE Stepped'
  BY <1>4, <1>11, StayOK
<1>12. \/ Stay(n2, IF m.restarted THEN r ELSE Uncached(r), TRUE, FALSE)
       \/ \E v \in CachedVerdict(r) :
            \/ Stay(w, Judged(r, v), TRUE, FALSE)
            \/ GoDirect(Direct(m), Judged(r, v), "direct_settle", FALSE, TRUE)
       \/ Stay(InPhase(m, "monitoring", FALSE), r, TRUE, FALSE)
       \/ Stay(w, r, TRUE, FALSE)
  BY Zenon DEF StartControlPlaneRecovery, n2, n1, n0
<1> HIDE DEF n2, w
<1> QED
  BY <1>7, <1>8, <1>9, <1>10, <1>11, <1>12, Zenon

LEMMA WatchingOK ==
  ASSUME SwitchOK, CycleOK, NEW m \in Coherent, NEW r \in Ram, NEW g, Watching(m, r, g)
  PROVE  Stepped'
<1>1. ~m.awaiting /\ m.phase \in {"idle", "monitoring"}
  BY DEF Watching, Coherent, Waits
<1>2. [m EXCEPT !.phase = "monitoring"] \in Coherent
  BY <1>1, SetPhase, CoherentIsState DEF Coherent, Waits, Phases
<1>3. StartControlPlaneRecovery(m, r, g) => Stepped'
  BY <1>1, StartControlPlaneRecoveryOK
<1>4. Stay([m EXCEPT !.phase = "monitoring"], r, TRUE, FALSE) => Stepped'
  BY <1>2, StayOK
<1>5. Resume(m, r, FALSE) => Stepped'
  BY ResumeOK
<1>6. Stay(m, r, FALSE, FALSE) => Stepped'
  BY StayOK
<1> QED
  BY <1>3, <1>4, <1>5, <1>6, Zenon DEF Watching

LEMMA RestartWaitOK ==
  ASSUME SwitchOK, CycleOK, NEW m \in Coherent, NEW r \in Ram, RestartWait(m, r)
  PROVE  Stepped'
<1> DEFINE phase == IF m.restart = 1 THEN "monitoring" ELSE m.phase
           n == [m EXCEPT !.phase = phase]
<1>1. ~m.awaiting /\ phase \in Phases
  BY DEF RestartWait, Coherent, Waits, State, Phases
<1>2. n \in Coherent
  BY <1>1, SetPhase, CoherentIsState DEF Coherent, Waits
<1>3. Stay(m, r, FALSE, FALSE) \/ Stay(n, r, TRUE, FALSE)
  BY Zenon DEF RestartWait
<1> HIDE DEF n
<1> QED
  BY <1>2, <1>3, StayOK

LEMMA RebootOrStayOK ==
  ASSUME SwitchOK, CycleOK, NEW m \in Coherent, NEW r \in Ram, NEW g, RebootOrStay(m, r, g)
  PROVE  Stepped'
<1> DEFINE n0 == InPhase(m, "reboot_wait", FALSE)
           n1 == [n0 EXCEPT !.reboot = 0]
<1>1. n0 \in Coherent
  BY InPhaseCoherent, CoherentIsState DEF Phases
<1> HIDE DEF n0
<1>2. n1 \in Coherent
  BY <1>1, SetRebootStamp, Zeros, SameWait, CoherentIsState
<1>3. \/ mem' = n1 /\ disk' = n1 /\ pc' = "rebooting" /\ ram' = Uncached(r) /\ KeepSwitch
      \/ Fault /\ UNCHANGED <<pw, marker, offBy>> /\ EndCycle(n1) /\ ram' = r
      \/ Stay(m, r, TRUE, FALSE)
  BY Zenon DEF RebootOrStay, n1, n0
<1> HIDE DEF n1
<1>4. CASE mem' = n1 /\ disk' = n1 /\ pc' = "rebooting" /\ ram' = Uncached(r) /\ KeepSwitch
  BY <1>2, <1>4, KeepSwitchOK, RamFields DEF Stepped, CycleOK
<1>5. CASE Fault /\ UNCHANGED <<pw, marker, offBy>> /\ EndCycle(n1) /\ ram' = r
  <2>1. faults' \in 0..MaxFaults
    BY <1>5, FaultOK DEF SwitchOK
  <2>2. SwitchOK'
    BY <1>5, <2>1 DEF SwitchOK
  <2> QED
    BY <1>2, <1>5, <2>2, EndCycleOK DEF Stepped
<1>6. CASE Stay(m, r, TRUE, FALSE)
  BY <1>6, StayOK
<1> QED
  BY <1>3, <1>4, <1>5, <1>6

LEMMA DirectSettleOK ==
  ASSUME SwitchOK, CycleOK, NEW m \in Coherent, NEW r \in Ram, NEW g, DirectSettle(m, r, g)
  PROVE  Stepped'
<1>1. Stay(m, r, TRUE, TRUE) => Stepped'
  BY StayOK
<1>2. ResumeOrPark(m, r) => Stepped'
  BY ResumeOrParkOK
<1>3. Park(m, r, FALSE) \/ Park(m, r, TRUE) => Stepped'
  BY ParkOK, CoherentIsState
<1>4. ASSUME NEW q \in Ram PROVE RebootOrStay(m, q, g) => Stepped'
  BY RebootOrStayOK
<1>5. ASSUME NEW q \in Ram PROVE Resume(m, q, FALSE) => Stepped'
  BY ResumeOK
<1>6. \A v \in CachedVerdict(r) : Judged(r, v) \in Ram
  BY VerdictsSeen, JudgedRam
<1>7. \/ Stay(m, r, TRUE, TRUE) \/ ResumeOrPark(m, r) \/ Park(m, r, FALSE)
      \/ RebootOrStay(m, r, g) \/ Park(m, r, TRUE)
      \/ \E v \in CachedVerdict(r) :
           Resume(m, Judged(r, v), FALSE) \/ RebootOrStay(m, Judged(r, v), g)
  BY DEF DirectSettle
<1> QED
  BY <1>1, <1>2, <1>3, <1>4, <1>5, <1>6, <1>7, Zenon

LEMMA RebootWaitOK ==
  ASSUME SwitchOK, CycleOK, NEW m \in Coherent, NEW r \in Ram, RebootWait(m, r)
  PROVE  Stepped'
<1>1. InPhase(m, "post_reboot_check", FALSE) \in Coherent
  BY InPhaseCoherent, CoherentIsState DEF Phases
<1> QED
  BY <1>1, StayOK DEF RebootWait

LEMMA PostRebootCheckOK ==
  ASSUME SwitchOK, CycleOK, NEW m \in Coherent, NEW r \in Ram, NEW g,
         PostRebootCheck(m, r, g)
  PROVE  Stepped'
<1>1. Stay(m, r, TRUE, TRUE) => Stepped'
  BY StayOK
<1>2. \/ Stay(m, r, TRUE, TRUE) \/ GiveUp(m, r) \/ ResumeOrPark(m, r) \/ Judge(m, r, g)
  BY Zenon DEF PostRebootCheck
<1> QED
  BY <1>1, <1>2, GiveUpOK, ResumeOrParkOK, JudgeOK

LEMMA PasswallRetryWaitOK ==
  ASSUME SwitchOK, CycleOK, NEW m \in Coherent, NEW r \in Ram, NEW g,
         PasswallRetryWait(m, r, g)
  PROVE  Stepped'
<1>1. Stay(m, r, TRUE, TRUE) => Stepped'
  BY StayOK
<1>2. Stay(m, r, TRUE, TRUE) \/ Judge(m, r, g)
  BY Zenon DEF PasswallRetryWait
<1> QED
  BY <1>1, <1>2, JudgeOK

LEMMA OperatorAttentionOK ==
  ASSUME SwitchOK, CycleOK, NEW m \in Coherent, NEW r \in Ram, NEW g,
         OperatorAttention(m, r, g)
  PROVE  Stepped'
<1>1. InPhase(m, "idle", FALSE) \in Coherent
  BY InPhaseCoherent, CoherentIsState DEF Phases
<1>2. (~PanelAnswers) \in BOOLEAN
  BY DEF PanelAnswers
<1>3. Stay(InPhase(m, "idle", FALSE), r, FALSE, FALSE) => Stepped'
  BY <1>1, StayOK
<1>4. ASSUME NEW q \in Ram PROVE Stay(m, q, ~PanelAnswers, FALSE) => Stepped'
  BY <1>2, StayOK
<1>5. Park(m, r, ~PanelAnswers) => Stepped'
  BY <1>2, ParkOK, CoherentIsState
<1>6. ASSUME NEW q \in Ram PROVE Resume(m, q, TRUE) => Stepped'
  BY ResumeOK
<1>7. \A v \in CachedVerdict(r) : Judged(r, v) \in Ram
  BY VerdictsSeen, JudgedRam
<1>8. \/ Stay(InPhase(m, "idle", FALSE), r, FALSE, FALSE)
      \/ Stay(m, r, ~PanelAnswers, FALSE) \/ Park(m, r, ~PanelAnswers)
      \/ Resume(m, r, TRUE)
      \/ \E v \in CachedVerdict(r) :
           Resume(m, Judged(r, v), TRUE) \/ Stay(m, Judged(r, v), ~PanelAnswers, FALSE)
  BY Zenon DEF OperatorAttention
<1> QED
  BY <1>3, <1>4, <1>5, <1>6, <1>7, <1>8, Zenon

\* What recovery works on: the state with the outage begun, and the probes.
LEMMA AdvanceInputs ==
  ASSUME env \in Env, ram \in Ram, NEW g \in IF Measures(Anchored) THEN Measured ELSE {NoGroups}
  PROVE  (IF g = NoGroups THEN ram ELSE [ram EXCEPT !.rcache = g]) \in Ram
<1>1. [ru: {env.wan}, foreign: ForeignSeen] \subseteq Groups
  <2>1. env.wan \in BOOLEAN /\ ForeignSeen \subseteq Statuses
    BY DEF Env, ForeignSeen, Statuses
  <2> QED
    BY <2>1 DEF Groups
<1>2. ram.rcache \in Groups \cup {NoGroups}
  BY DEF Ram
<1>3. g \in Groups \cup {NoGroups}
  BY <1>1, <1>2 DEF Measured
<1> QED
  BY <1>3, RamFields

LEMMA AdvanceKeeps ==
  ASSUME RecoveryIInv, Advance
  PROVE  RecoveryIInv'
<1>1. SwitchOK /\ CycleOK /\ mem \in Coherent /\ ram \in Ram /\ env \in Env
  BY DEF RecoveryIInv, CycleOK, RestOK
<1>2. PICK g \in IF Measures(Anchored) THEN Measured ELSE {NoGroups} :
        LET m == Anchored
            r == IF g = NoGroups THEN ram ELSE [ram EXCEPT !.rcache = g]
        IN \/ Watching(m, r, g) \/ RestartWait(m, r) \/ DirectSettle(m, r, g)
           \/ RebootWait(m, r) \/ PostRebootCheck(m, r, g)
           \/ PasswallRetryWait(m, r, g) \/ OperatorAttention(m, r, g)
  BY Zenon DEF Advance
<1> DEFINE r == IF g = NoGroups THEN ram ELSE [ram EXCEPT !.rcache = g]
<1>3. Anchored \in Coherent /\ r \in Ram
  BY <1>1, AnchoredCoherent, AdvanceInputs
<1> HIDE DEF r
<1>4. \/ Watching(Anchored, r, g) \/ RestartWait(Anchored, r) \/ DirectSettle(Anchored, r, g)
      \/ RebootWait(Anchored, r) \/ PostRebootCheck(Anchored, r, g)
      \/ PasswallRetryWait(Anchored, r, g) \/ OperatorAttention(Anchored, r, g)
  BY <1>2, Zenon DEF r
<1>5. Stepped'
  BY <1>1, <1>3, <1>4, WatchingOK, RestartWaitOK, DirectSettleOK, RebootWaitOK,
     PostRebootCheckOK, PasswallRetryWaitOK, OperatorAttentionOK
<1>6. inv' = NoInventory /\ UNCHANGED <<env, sel, wd, wdRun, contact, cause>>
  BY DEF Advance
<1> QED
  BY <1>5, <1>6, NoInventoryOK DEF RecoveryIInv, RestOK, Stepped

-----------------------------------------------------------------------------
(* The other steps *)

LEMMA ReportKeeps ==
  ASSUME RecoveryIInv, Report
  PROVE  RecoveryIInv'
<1>1. SwitchOK /\ CycleOK /\ mem \in Coherent /\ ram \in Ram /\ cause \in BOOLEAN
        /\ faults \in 0..MaxFaults /\ contact \in 0..3 /\ pw \in BOOLEAN
        /\ marker \in BOOLEAN
  BY DEF RecoveryIInv, SwitchOK, CycleOK, RestOK
<1>2. ram' \in Ram
  <2> DEFINE probes == IF CheckInPasses THEN NoGroups ELSE ram.rcache
             r1 == [ram EXCEPT !.due = FALSE]
  <2>1. probes \in Groups \cup {NoGroups}
    BY <1>1 DEF Ram
  <2>2. r1 \in Ram /\ r1.rcache = ram.rcache
    BY <1>1, RamFields DEF Ram
  <2>3. ram' = [r1 EXCEPT !.rcache = IF CheckInPasses THEN NoGroups ELSE r1.rcache]
    BY DEF Report
  <2> HIDE DEF r1
  <2> QED
    BY <2>1, <2>2, <2>3, RamFields
<1>3. Contacted(mem) \in Coherent /\ Contacted(mem) \in State
  BY <1>1, ContactedCoherent, CoherentIsState
<1>4. Direct(Contacted(mem)) \in Coherent
        /\ Unowned(Proxy(Contacted(mem))) \in Coherent
  BY <1>3, InModeCoherent, SameWait, UnownedCoherent DEF Direct, Proxy
<1>5. ASSUME NEW m \in Coherent, Reported(m) PROVE CycleOK'
  BY <1>1, <1>5 DEF Reported, CycleOK
<1>6. UNCHANGED <<env, sel, inv, wd, wdRun>>
  BY DEF Report
<1>7. SwitchOK' /\ CycleOK' /\ contact' \in 0..3 /\ cause' \in BOOLEAN
  <2>1. CASE Reported(mem) /\ KeepSwitch /\ UNCHANGED <<contact, cause>>
    BY <1>1, <1>5, <2>1, KeepSwitchOK
  <2>2. CASE contact' = 0 /\ Reported(Contacted(mem)) /\ KeepSwitch /\ UNCHANGED cause
    BY <1>1, <1>3, <1>5, <2>2, KeepSwitchOK
  <2>3. CASE /\ contact' = 0 /\ Fault /\ SetSwitch(TRUE)
             /\ Reported(Unowned(Proxy(Contacted(mem)))) /\ UNCHANGED cause
    <3>1. faults' \in 0..MaxFaults
      BY <1>1, <2>3, FaultOK
    <3>2. SwitchOK'
      BY <2>3, <3>1, SetSwitchOK
    <3>3. CycleOK'
      BY <1>4, <1>5, <2>3
    <3> QED
      BY <1>1, <2>3, <3>2, <3>3
  <2>4. CASE /\ contact' = 0 /\ Fault /\ pw' = FALSE /\ marker' = FALSE /\ offBy' = "owner"
             /\ Reported(Direct(Contacted(mem))) /\ cause' = TRUE
    <3>1. SwitchOK'
      BY <1>1, <2>4, FaultOK DEF SwitchOK
    <3> QED
      BY <1>4, <1>5, <2>4, <3>1
  <2>5. CASE /\ contact' = 0 /\ Fault
             /\ \E on \in BOOLEAN :
                  /\ pw' = on
                  /\ offBy' = IF on THEN "nobody" ELSE "owner"
                  /\ cause' = (cause \/ ~on)
             /\ Reported(Contacted(mem)) /\ UNCHANGED marker
    <3>1. SwitchOK' /\ cause' \in BOOLEAN
      BY <1>1, <2>5, FaultOK DEF SwitchOK
    <3> QED
      BY <1>3, <1>5, <2>5, <3>1
  <2> QED
    BY <2>1, <2>2, <2>3, <2>4, <2>5, Zenon DEF Report
<1> QED
  BY <1>2, <1>6, <1>7 DEF RecoveryIInv, RestOK

LEMMA WakeKeeps ==
  ASSUME RecoveryIInv, NEW d \in Gaps, NEW carry \in BOOLEAN, Wake(d, carry)
  PROVE  RecoveryIInv'
<1>1. SwitchOK /\ CycleOK /\ RestOK /\ mem \in Coherent /\ ram \in Ram /\ d \in 0..5
        /\ env \in Env /\ pw \in BOOLEAN
  BY DEF RecoveryIInv, SwitchOK, CycleOK, RestOK
<1>2. Aged(mem, d, carry) \in Coherent
  BY <1>1, AgedCoherent
<1>3. CycleOK'
  BY <1>1, <1>2 DEF Wake, CycleOK
<1>4. ram' \in Ram
  <2>1. ram' \in {ram, [ram EXCEPT !.due = ram.due \/ carry], EmptyRam}
    BY DEF Wake
  <2>2. (ram.due \/ carry) \in BOOLEAN
    OBVIOUS
  <2> QED
    BY <1>1, <2>1, <2>2, RamFields
<1>5. wdRun' \in 0..3 /\ contact' \in 0..3
  BY <1>1, GoneInRange DEF Wake, RestOK
<1>6. inv' \in [pw: BOOLEAN, runtime: {"ok", "missing", "failing"}]
  BY <1>1, CollectedOK DEF Wake
<1>7. cause' \in BOOLEAN
  BY DEF Wake
<1>8. UNCHANGED <<env, sel, pw, marker, wd, faults, offBy>>
  BY DEF Wake
<1> QED
  BY <1>1, <1>3, <1>4, <1>5, <1>6, <1>7, <1>8 DEF RecoveryIInv, SwitchOK, RestOK

LEMMA CrashKeeps ==
  ASSUME RecoveryIInv, AgentCrash \/ Reboot
  PROVE  RecoveryIInv'
<1>1. SwitchOK /\ CycleOK /\ RestOK /\ disk \in Coherent /\ faults \in 0..MaxFaults
        /\ ram \in Ram
  BY DEF RecoveryIInv, SwitchOK, CycleOK
<1>2. /\ mem' = disk /\ ram' = EmptyRam /\ pc' = "sleep" /\ inv' = NoInventory
      /\ UNCHANGED <<env, sel, pw, marker, disk, contact, cause, offBy>>
  BY DEF AgentCrash, Reboot, Crash
<1>3. faults' \in 0..MaxFaults
  BY <1>1, FaultOK DEF AgentCrash, Reboot
<1>4. wd' \in {"idle", "cut", "restore"} /\ wdRun' \in 0..3
  BY <1>1 DEF AgentCrash, Reboot, RestOK
<1>5. EmptyRam \in Ram
  BY <1>1, RamFields
<1> QED
  BY <1>1, <1>2, <1>3, <1>4, <1>5, NoInventoryOK
     DEF RecoveryIInv, SwitchOK, CycleOK, RestOK

LEMMA WatchdogKeeps ==
  ASSUME RecoveryIInv, WatchdogReads \/ WatchdogWrites
  PROVE  RecoveryIInv'
<1>1. UNCHANGED AgentVars
  BY DEF WatchdogReads, WatchdogWrites
<1>2. CASE WatchdogReads
  <2>1. /\ wd' \in {wd, "cut", "restore"} /\ wdRun' \in {wdRun, 0}
        /\ marker' \in {marker, FALSE} /\ UNCHANGED <<pw, offBy>>
    BY <1>2 DEF WatchdogReads, ReleaseOwnership
  <2>2. SwitchOK'
    BY <1>1, <2>1 DEF AgentVars, RecoveryIInv, SwitchOK
  <2>3. RestOK'
    BY <1>1, <2>1 DEF AgentVars, RecoveryIInv, RestOK
  <2> QED
    BY <1>1, <2>2, <2>3 DEF AgentVars, RecoveryIInv, CycleOK
<1>3. CASE WatchdogWrites
  <2>1. /\ wd' = "idle" /\ UNCHANGED wdRun /\ pw' \in {pw, TRUE, FALSE}
        /\ marker' \in {marker, TRUE, FALSE}
        /\ offBy' \in {offBy, "watchdog", "nobody"}
    BY <1>3 DEF WatchdogWrites
  <2>2. SwitchOK'
    BY <1>1, <2>1 DEF AgentVars, RecoveryIInv, SwitchOK
  <2>3. RestOK'
    BY <1>1, <2>1 DEF AgentVars, RecoveryIInv, RestOK
  <2> QED
    BY <1>1, <2>2, <2>3 DEF AgentVars, RecoveryIInv, CycleOK
<1> QED
  BY <1>2, <1>3

LEMMA WorldKeeps ==
  ASSUME RecoveryIInv, WorldChanges \/ OwnerSwitches
  PROVE  RecoveryIInv'
<1>0. UNCHANGED WorldVars
  BY DEF WorldChanges, OwnerSwitches
<1>1. faults' \in 0..MaxFaults
  BY FaultOK DEF RecoveryIInv, SwitchOK, WorldChanges, OwnerSwitches
<1>2. CASE WorldChanges
  <2>1. env' \in Env
    <3>1. ASSUME NEW part \in DOMAIN env
          PROVE  [env EXCEPT ![part] = GoodWorld[part]] \in Env
      <4>1. env \in Env /\ part \in {"panel", "wan", "foreign", "node", "runtime"}
        BY <3>1 DEF RecoveryIInv, RestOK, Env
      <4>2. CASE part = "panel"
        BY <4>1, <4>2 DEF Env, GoodWorld
      <4>3. CASE part = "runtime"
        BY <4>1, <4>3 DEF Env, GoodWorld
      <4>4. CASE part = "wan"
        BY <4>1, <4>4 DEF Env, GoodWorld
      <4>5. CASE part = "foreign"
        BY <4>1, <4>5 DEF Env, GoodWorld
      <4>6. CASE part = "node"
        BY <4>1, <4>6 DEF Env, GoodWorld
      <4> QED
        BY <4>1, <4>2, <4>3, <4>4, <4>5, <4>6
    <3> QED
      BY <1>2, <3>1 DEF WorldChanges
  <2>2. cause' \in BOOLEAN /\ UNCHANGED <<pw, offBy>>
    BY <1>2 DEF WorldChanges
  <2> QED
    BY <1>0, <1>1, <2>1, <2>2 DEF WorldVars, RecoveryIInv, SwitchOK, CycleOK, RestOK
<1>3. CASE OwnerSwitches
  <2>1. /\ pw' \in BOOLEAN /\ offBy' \in {"owner", "nobody"} /\ cause' \in BOOLEAN
        /\ UNCHANGED env
    BY <1>3 DEF OwnerSwitches
  <2> QED
    BY <1>0, <1>1, <2>1 DEF WorldVars, RecoveryIInv, SwitchOK, CycleOK, RestOK
<1> QED
  BY <1>2, <1>3

LEMMA InitHolds == Init => RecoveryIInv
<1> SUFFICES ASSUME Init PROVE RecoveryIInv
  OBVIOUS
<1>1. Fresh \in State
  BY DEF Fresh, State, Phases, Ages, None
<1>2. Fresh \in Coherent
  BY <1>1 DEF Fresh, Coherent, Waits
<1>3. EmptyRam \in Ram
  BY Zenon DEF EmptyRam, Ram
<1>4. env \in Env /\ sel \in Selections /\ cause \in BOOLEAN
  BY DEF Init
<1>5. SwitchOK
  <2>1. 0 \in 0..MaxFaults
    OBVIOUS
  <2>2. pw = TRUE /\ marker = FALSE /\ faults = 0 /\ offBy = "nobody"
    BY DEF Init
  <2> QED
    BY <2>1, <2>2, Zenon DEF SwitchOK
<1>6. CycleOK
  BY <1>2 DEF Init, CycleOK
<1>7. RestOK
  BY <1>4, NoInventoryOK DEF Init, RestOK
<1> QED
  BY <1>3, <1>5, <1>6, <1>7 DEF Init, RecoveryIInv

LEMMA StepKeeps ==
  ASSUME RecoveryIInv, [Next]_vars
  PROVE  RecoveryIInv'
<1>1. CASE Agent
  BY <1>1, RescueKeeps, AdvanceKeeps, ReportKeeps DEF Agent
<1>2. CASE Tick
  BY <1>2, WakeKeeps DEF Tick
<1>3. CASE ServiceRestart
  <2>1. EmptyRam \in Ram
    BY RamFields DEF RecoveryIInv
  <2> QED
    BY <1>3, <2>1 DEF ServiceRestart, RecoveryIInv, SwitchOK, CycleOK, RestOK
<1>4. CASE AgentCrash \/ Reboot
  BY <1>4, CrashKeeps
<1>5. CASE WatchdogReads \/ WatchdogWrites
  BY <1>5, WatchdogKeeps
<1>6. CASE WorldChanges \/ OwnerSwitches
  BY <1>6, WorldKeeps
<1>7. CASE UNCHANGED vars
  BY <1>7 DEF vars, RecoveryIInv, SwitchOK, CycleOK, RestOK
<1> QED
  BY <1>1, <1>2, <1>3, <1>4, <1>5, <1>6, <1>7 DEF Next

\* The inductive invariant holds of every behaviour.
THEOREM RecoveryInvariance == Spec => []RecoveryIInv
  BY InitHolds, StepKeeps, PTL DEF Spec

\* Every variable keeps its type.
THEOREM RecoveryTypeCorrect == Spec => []TypeOK
  BY RecoveryInvariance, IInvImplies, PTL

\* The router waits for an operator only in a park or retrying out of one, also
\* after a crash, a reboot and every job (AwaitingIsParked).
THEOREM WaitsOnlyParked == Spec => []AwaitingIsParked
  BY RecoveryInvariance, IInvImplies, PTL

-----------------------------------------------------------------------------
(* Nobody re-arms a proxy whose runtime is missing *)

\* A step that does not switch PassWall on.
NoRearm == pw' => pw

LEMMA StayIsNoRearm ==
  ASSUME NEW m, NEW r, NEW skip, NEW hold, Stay(m, r, skip, hold)
  PROVE  NoRearm
  BY DEF Stay, KeepSwitch, NoRearm

LEMMA ParkIsNoRearm ==
  ASSUME NEW m, NEW r, NEW skip, Park(m, r, skip)
  PROVE  NoRearm
  BY StayIsNoRearm, Zenon DEF Park

LEMMA GoDirectIsNoRearm ==
  ASSUME NEW m, NEW r, NEW phase, NEW awaiting, NEW skip,
         GoDirect(m, r, phase, awaiting, skip)
  PROVE  NoRearm
<1>1. pw' = FALSE \/ UNCHANGED pw
  BY DEF GoDirect, SwitchFails, SetSwitch
<1> QED
  BY <1>1 DEF NoRearm

LEMMA GiveUpIsNoRearm ==
  ASSUME NEW m, NEW r, GiveUp(m, r)
  PROVE  NoRearm
  BY ParkIsNoRearm, GoDirectIsNoRearm, Zenon DEF GiveUp

LEMMA RebootOrStayIsNoRearm ==
  ASSUME NEW m, NEW r, NEW g, RebootOrStay(m, r, g)
  PROVE  NoRearm
<1>1. CASE UNCHANGED pw
  BY <1>1 DEF NoRearm
<1>2. CASE Stay(m, r, TRUE, FALSE)
  BY <1>2, StayIsNoRearm
<1>3. UNCHANGED pw \/ Stay(m, r, TRUE, FALSE)
  BY DEF RebootOrStay, KeepSwitch
<1> QED
  BY <1>1, <1>2, <1>3

LEMMA JudgeIsNoRearm ==
  ASSUME NEW m, NEW r, NEW g, Judge(m, r, g)
  PROVE  NoRearm
<1>1. VerdictSeen \subseteq {"alive", "dead", "unjudged"}
  BY VerdictsSeen DEF Verdicts
<1> QED
  BY <1>1, StayIsNoRearm, GiveUpIsNoRearm, Zenon DEF Judge

LEMMA StartIsNoRearm ==
  ASSUME NEW m, NEW r, NEW g, StartControlPlaneRecovery(m, r, g)
  PROVE  NoRearm
  BY StayIsNoRearm, GoDirectIsNoRearm, Zenon DEF StartControlPlaneRecovery

LEMMA MissingBlocks ==
  ASSUME inv.runtime = "missing"
  PROVE  Blocks(inv.runtime) = {TRUE}
  BY DEF Blocks

LEMMA RescueNeverRearmsMissing ==
  ASSUME RecoveryIInv, inv.runtime = "missing", Rescue
  PROVE  NoRearm
<1>1. CASE FailSafe
  <2>1. pw' = FALSE \/ UNCHANGED pw
    BY <1>1 DEF FailSafe, SwitchFails, SetSwitch
  <2> QED
    BY <2>1 DEF NoRearm
<1>2. CASE RescueStandsBy \/ RestartPasswall \/ JudgeProxy
  BY <1>2 DEF RescueStandsBy, RestartPasswall, JudgeProxy, KeepSwitch, NoRearm
<1>3. CASE JudgeDirect
  <2>1. KeepSwitch
    <3>1. PICK blocked \in Blocks(inv.runtime), answer \in PathSeen :
            LET credit == IF blocked THEN 0
                          ELSE IF PublicAnswers /\ answer = "alive"
                               THEN IF Reconciled.successes < Recover
                                    THEN Reconciled.successes + 1 ELSE Recover
                               ELSE Reconciled.successes
                m == [Reconciled EXCEPT !.successes = credit]
            IN IF credit = Recover /\ m.trans = 2
               THEN \/ /\ SetSwitch(TRUE) /\ Rescued(Proxy(m))
                       /\ inv' = Collected(TRUE) /\ UNCHANGED faults
                    \/ SwitchFails(TRUE, Proxy(m))
               ELSE Rescued(m) /\ KeepSwitch /\ UNCHANGED inv
      BY <1>3, Zenon DEF JudgeDirect
    <3>2. blocked = TRUE /\ 0 # Recover
      BY MissingBlocks
    <3> QED
      BY <3>1, <3>2
  <2> QED
    BY <2>1 DEF KeepSwitch, NoRearm
<1>4. CASE CountFailure
  BY <1>4 DEF CountFailure
<1> QED
  BY <1>1, <1>2, <1>3, <1>4 DEF Rescue

LEMMA AdvanceNeverRearmsMissing ==
  ASSUME RecoveryIInv, inv.runtime = "missing", Advance
  PROVE  NoRearm
<1>1. Blocks(inv.runtime) = {TRUE}
  BY MissingBlocks
<1>2. ASSUME NEW m, NEW r, ResumeOrPark(m, r) PROVE NoRearm
  BY <1>1, <1>2, ParkIsNoRearm DEF ResumeOrPark
<1>3. ASSUME NEW m, NEW r, NEW g, Watching(m, r, g) PROVE NoRearm
  <2>1. \/ StartControlPlaneRecovery(m, r, g)
        \/ Stay([m EXCEPT !.phase = "monitoring"], r, TRUE, FALSE)
        \/ Stay(m, r, FALSE, FALSE)
    BY <1>1, <1>3 DEF Watching
  <2> QED
    BY <2>1, StartIsNoRearm, StayIsNoRearm, Zenon
<1>4. ASSUME NEW m, NEW r, RestartWait(m, r) \/ RebootWait(m, r) PROVE NoRearm
  BY <1>4, StayIsNoRearm, Zenon DEF RestartWait, RebootWait
<1>5. ASSUME NEW m, NEW r, NEW g, DirectSettle(m, r, g) PROVE NoRearm
  <2>1. \/ Stay(m, r, TRUE, TRUE) \/ ResumeOrPark(m, r)
        \/ Park(m, r, FALSE) \/ Park(m, r, TRUE) \/ RebootOrStay(m, r, g)
    BY <1>1, <1>5 DEF DirectSettle
  <2> QED
    BY <1>2, <2>1, StayIsNoRearm, ParkIsNoRearm, RebootOrStayIsNoRearm, Zenon
<1>6. ASSUME NEW m, NEW r, NEW g, PostRebootCheck(m, r, g) \/ PasswallRetryWait(m, r, g)
      PROVE  NoRearm
  <2>1. \/ Stay(m, r, TRUE, TRUE) \/ GiveUp(m, r) \/ ResumeOrPark(m, r) \/ Judge(m, r, g)
    BY <1>6, Zenon DEF PostRebootCheck, PasswallRetryWait
  <2> QED
    BY <1>2, <2>1, StayIsNoRearm, GiveUpIsNoRearm, JudgeIsNoRearm, Zenon
<1>7. ASSUME NEW m, NEW r, NEW g, OperatorAttention(m, r, g) PROVE NoRearm
  <2>1. \/ Stay(InPhase(m, "idle", FALSE), r, FALSE, FALSE)
        \/ Stay(m, r, ~PanelAnswers, FALSE) \/ Park(m, r, ~PanelAnswers)
    BY <1>1, <1>7 DEF OperatorAttention
  <2> QED
    BY <2>1, StayIsNoRearm, ParkIsNoRearm, Zenon
<1> QED
  BY <1>3, <1>4, <1>5, <1>6, <1>7, Zenon DEF Advance

\* No automatic step of the agent switches PassWall on over a runtime that its
\* cycle saw missing, of all the paths that switch it on (NeverRearmsMissing).
THEOREM MissingRuntimeStaysOff == Spec => NeverRearmsMissing
<1>1. ASSUME RecoveryIInv, [Next]_vars
      PROVE  ~pw /\ pw' /\ pc \in {"rescue", "advance"} /\ pc' # pc
               => inv.runtime # "missing"
  <2> SUFFICES ASSUME pc \in {"rescue", "advance"}, pc' # pc, inv.runtime = "missing"
               PROVE  NoRearm
    BY DEF NoRearm
  <2>1. CASE Rescue
    BY <1>1, <2>1, RescueNeverRearmsMissing
  <2>2. CASE Advance
    BY <1>1, <2>2, AdvanceNeverRearmsMissing
  <2>3. CASE AgentCrash \/ Reboot
    BY <2>3 DEF AgentCrash, Reboot, Crash, NoRearm
  <2>4. ~(Report \/ Tick \/ ServiceRestart)
    BY DEF Report, Tick, Wake, ServiceRestart
  <2>5. ~(WatchdogReads \/ WatchdogWrites \/ WorldChanges \/ OwnerSwitches \/ UNCHANGED vars)
    BY DEF WatchdogReads, WatchdogWrites, AgentVars, WorldChanges, OwnerSwitches,
           WorldVars, vars
  <2> QED
    BY <1>1, <2>1, <2>2, <2>3, <2>4, <2>5 DEF Next, Agent
<1> QED
  BY <1>1, RecoveryInvariance, PTL DEF Spec, NeverRearmsMissing

-----------------------------------------------------------------------------
(* The silence of the panel does not turn the VPN off *)

OwnedBy(m) == PasswallOwnedByRecovery(m.phase)

\* Nothing but the panel or a foreign target is out of order, and nobody has
\* ever concluded anything else.
Quiet ==
  ~cause => /\ env.wan /\ env.node /\ env.runtime = "ok"
            /\ pw /\ inv.pw /\ inv.runtime = "ok"
            /\ ~OwnedBy(mem) /\ ~OwnedBy(disk)
            /\ ram.vcache # "dead"

\* What a quiet step of the agent leaves behind.
StaysQuiet == pw /\ ~OwnedBy(mem) /\ ~OwnedBy(disk) /\ ram.vcache # "dead"

Concrete == "virtual" \notin Selections

\* A node that answers is never called dead.
LEMMA NeverDead ==
  ASSUME Concrete, RecoveryIInv, env.wan, env.node, env.runtime = "ok",
         NEW r \in Ram, r.vcache # "dead"
  PROVE  /\ PathSeen \subseteq {"alive", "unjudged"}
         /\ CachedVerdict(r) \subseteq {"alive", "unjudged"}
         /\ \A v \in CachedVerdict(r) : Judged(r, v).vcache # "dead"
<1>1. sel # "virtual"
  BY DEF Concrete, RecoveryIInv, RestOK
<1>2. NodeAnswers
  BY DEF NodeAnswers
<1>3. PathSeen \subseteq {"alive", "unjudged"} /\ VerdictSeen \subseteq {"alive", "unjudged"}
  BY <1>1, <1>2 DEF PathSeen, VerdictSeen, Busy
<1>4. CachedVerdict(r) \subseteq {"alive", "unjudged"}
  BY <1>3 DEF CachedVerdict, Ram
<1>5. ASSUME NEW v \in CachedVerdict(r) PROVE Judged(r, v).vcache # "dead"
  BY <1>4 DEF Judged, Ram
<1> QED
  BY <1>3, <1>4, <1>5

LEMMA RescueStaysQuiet ==
  ASSUME Concrete, RecoveryIInv, Quiet, ~cause, Rescue
  PROVE  StaysQuiet' /\ inv' = inv
<1>1. /\ env.wan /\ env.node /\ env.runtime = "ok" /\ pw /\ inv.pw /\ inv.runtime = "ok"
      /\ ~OwnedBy(mem) /\ ~OwnedBy(disk) /\ ram.vcache # "dead"
  BY DEF Quiet
<1>2. PublicAnswers
  BY <1>1 DEF PublicAnswers, ProxyWorks
<1>3. mem \in Coherent /\ ram \in Ram /\ inv \in [pw: BOOLEAN, runtime: {"ok", "missing", "failing"}]
  BY DEF RecoveryIInv, CycleOK, RestOK
<1>4. Reconciled \in State /\ Reconciled.phase = mem.phase
  BY <1>3, ReconciledCoherent, CoherentIsState
<1>5. RestartPasswall \/ JudgeProxy
  BY <1>1, <1>2 DEF Rescue, FailSafe, RescueStandsBy, JudgeDirect, CountFailure, Owned,
     OwnedBy
<1>6. /\ UNCHANGED <<pw, disk, inv>> /\ ram'.vcache = ram.vcache
      /\ mem' \in {[Reconciled EXCEPT !.kick = 0], [Reconciled EXCEPT !.failures = 0], Reconciled}
  <2>1. CASE RestartPasswall
    BY <1>3, <2>1 DEF RestartPasswall, Rescued, KeepSwitch, Ram
  <2>2. CASE JudgeProxy
    BY <2>2 DEF JudgeProxy, Rescued, KeepSwitch
  <2> QED
    BY <1>5, <2>1, <2>2
<1>7. mem'.phase = mem.phase
  <2>1. [Reconciled EXCEPT !.kick = 0].phase = mem.phase
    BY <1>4, SetKick, Zeros
  <2>2. [Reconciled EXCEPT !.failures = 0].phase = mem.phase
    BY <1>4, SetFailures, Zeros
  <2> QED
    BY <1>4, <1>6, <2>1, <2>2
<1> QED
  BY <1>1, <1>6, <1>7 DEF StaysQuiet, OwnedBy

\* Advance in a quiet world neither switches nor takes the switch over.
LEMMA QuietStay ==
  ASSUME pw, ~OwnedBy(disk), NEW m, NEW r, NEW skip, NEW hold,
         ~OwnedBy(m), r.vcache # "dead", Stay(m, r, skip, hold)
  PROVE  StaysQuiet'
<1>1. pw' = pw /\ mem' = m /\ ram' = r /\ disk' \in {m, disk}
  BY Zenon DEF Stay, KeepSwitch, Proceed
<1> QED
  BY <1>1 DEF StaysQuiet, OwnedBy

LEMMA AdvanceStaysQuiet ==
  ASSUME Concrete, RecoveryIInv, Quiet, ~cause, Advance
  PROVE  StaysQuiet'
<1>1. /\ env.wan /\ env.node /\ env.runtime = "ok" /\ pw /\ inv.pw /\ inv.runtime = "ok"
      /\ ~OwnedBy(mem) /\ ~OwnedBy(disk) /\ ram.vcache # "dead"
  BY DEF Quiet
<1>2. mem \in Coherent /\ ram \in Ram /\ env \in Env
  BY DEF RecoveryIInv, CycleOK, RestOK
<1>3. PICK g \in IF Measures(Anchored) THEN Measured ELSE {NoGroups} :
        LET m == Anchored
            r == IF g = NoGroups THEN ram ELSE [ram EXCEPT !.rcache = g]
        IN \/ Watching(m, r, g) \/ RestartWait(m, r) \/ DirectSettle(m, r, g)
           \/ RebootWait(m, r) \/ PostRebootCheck(m, r, g)
           \/ PasswallRetryWait(m, r, g) \/ OperatorAttention(m, r, g)
  BY Zenon DEF Advance
<1> DEFINE m == Anchored
           r == IF g = NoGroups THEN ram ELSE [ram EXCEPT !.rcache = g]
           w == [m EXCEPT !.phase = "monitoring"]
<1>4. r \in Ram
  BY <1>2, AdvanceInputs
<1>5. r.vcache # "dead"
  BY <1>1, <1>2 DEF Ram
<1>6. m \in Coherent /\ m \in State /\ ~OwnedBy(m)
  BY <1>1, <1>2, AnchoredCoherent, CoherentIsState DEF OwnedBy, PasswallOwnedByRecovery
<1>7. \/ Watching(m, r, g) \/ RestartWait(m, r) \/ DirectSettle(m, r, g)
      \/ RebootWait(m, r) \/ PostRebootCheck(m, r, g)
      \/ PasswallRetryWait(m, r, g) \/ OperatorAttention(m, r, g)
  BY <1>3, Zenon
<1> HIDE DEF m, r
<1>8. ~(DirectSettle(m, r, g) \/ RebootWait(m, r) \/ PostRebootCheck(m, r, g)
          \/ PasswallRetryWait(m, r, g) \/ OperatorAttention(m, r, g))
  BY <1>6 DEF DirectSettle, RebootWait, PostRebootCheck, PasswallRetryWait,
     OperatorAttention, OwnedBy, PasswallOwnedByRecovery
<1>9. /\ ~OwnedBy(w) /\ ~OwnedBy(InPhase(m, "monitoring", FALSE))
      /\ w \in State
  <2>1. "monitoring" \in Phases
    BY DEF Phases
  <2>2. w \in State /\ w.phase = "monitoring"
    BY <1>6, <2>1, SetPhase
  <2>3. InPhase(m, "monitoring", FALSE).phase = "monitoring"
    BY <1>6, <2>1, InPhasePhase
  <2> HIDE DEF w
  <2> QED
    BY <2>2, <2>3 DEF OwnedBy, PasswallOwnedByRecovery
<1>10. CASE RestartWait(m, r)
  <2>1. \/ Stay(m, r, FALSE, FALSE) \/ Stay(w, r, TRUE, FALSE)
        \/ Stay([m EXCEPT !.phase = m.phase], r, TRUE, FALSE)
    BY <1>10, Zenon DEF RestartWait
  <2>2. ~OwnedBy([m EXCEPT !.phase = m.phase])
    <3>1. m.phase \in Phases
      BY <1>6 DEF State
    <3> QED
      BY <1>6, <3>1, SetPhase DEF OwnedBy
  <2> HIDE DEF w
  <2> QED
    BY <1>1, <1>5, <1>6, <1>9, <2>1, <2>2, QuietStay
<1>11. CASE StartControlPlaneRecovery(m, r, g)
  <2> DEFINE n0 == InPhase(m, "controller_restart_wait", FALSE)
             n1 == [n0 EXCEPT !.restart = IF m.restarted THEN n0.restart ELSE 0]
             n2 == [n1 EXCEPT !.restarted = TRUE]
             q  == IF m.restarted THEN r ELSE Uncached(r)
  <2>1. n0 \in State /\ n0.phase = "controller_restart_wait"
    BY <1>6, InPhaseCoherent, InPhasePhase, CoherentIsState DEF Phases
  <2> HIDE DEF n0
  <2>2. n1 \in State /\ n1.phase = n0.phase
    <3>1. n0.restart \in 0..1
      BY <2>1 DEF State
    <3> QED
      BY <2>1, <3>1, SetRestart, Zeros
  <2> HIDE DEF n1
  <2>3. ~OwnedBy(n2)
    BY <2>1, <2>2, SetRestarted DEF OwnedBy, PasswallOwnedByRecovery
  <2>4. q.vcache # "dead"
    BY <1>4, <1>5 DEF Uncached, Ram
  <2>5. /\ CachedVerdict(r) \subseteq {"alive", "unjudged"}
        /\ \A v \in CachedVerdict(r) : Judged(r, v).vcache # "dead"
    BY <1>1, <1>4, <1>5, NeverDead
  <2>6. \/ Stay(n2, q, TRUE, FALSE)
        \/ \E v \in CachedVerdict(r) :
             IF v # "dead" THEN Stay(w, Judged(r, v), TRUE, FALSE)
             ELSE GoDirect(Direct(m), Judged(r, v), "direct_settle", FALSE, TRUE)
        \/ Stay(InPhase(m, "monitoring", FALSE), r, TRUE, FALSE)
        \/ Stay(w, r, TRUE, FALSE)
    BY <1>11, Zenon DEF StartControlPlaneRecovery, n2, n1, n0
  <2>7. \/ Stay(n2, q, TRUE, FALSE)
        \/ \E v \in CachedVerdict(r) : Stay(w, Judged(r, v), TRUE, FALSE)
        \/ Stay(InPhase(m, "monitoring", FALSE), r, TRUE, FALSE)
        \/ Stay(w, r, TRUE, FALSE)
    BY <2>5, <2>6
  <2> HIDE DEF n2, q, w
  <2> QED
    BY <1>1, <1>5, <1>9, <2>3, <2>4, <2>5, <2>7, QuietStay
<1>12. CASE Watching(m, r, g) /\ ~StartControlPlaneRecovery(m, r, g)
  <2>1. Stay(w, r, TRUE, FALSE) \/ Stay(m, r, FALSE, FALSE)
    BY <1>1, <1>12 DEF Watching
  <2> HIDE DEF w
  <2> QED
    BY <1>1, <1>5, <1>6, <1>9, <2>1, QuietStay
<1> QED
  BY <1>7, <1>8, <1>10, <1>11, <1>12

LEMMA ReportStaysQuiet ==
  ASSUME RecoveryIInv, Quiet, ~cause, Report, ~cause'
  PROVE  StaysQuiet'
<1>1. pw /\ ~OwnedBy(mem) /\ ~OwnedBy(disk) /\ ram.vcache # "dead"
  BY DEF Quiet
<1>2. mem \in Coherent /\ ram \in Ram
  BY DEF RecoveryIInv, CycleOK
<1>3. ram'.vcache = ram.vcache
  BY <1>2 DEF Report, Ram
<1>4. /\ Contacted(mem) \in State /\ ~OwnedBy(Contacted(mem))
      /\ ~OwnedBy(Unowned(Proxy(Contacted(mem))))
  BY <1>1, <1>2, ContactedCoherent, CoherentIsState, InModeCoherent, UnownedCoherent
     DEF OwnedBy, PasswallOwnedByRecovery, Proxy
<1>5. \/ Reported(mem) /\ pw' = pw
      \/ Reported(Contacted(mem)) /\ pw' = pw
      \/ Reported(Unowned(Proxy(Contacted(mem)))) /\ pw' = TRUE
      \/ Reported(Contacted(mem)) /\ pw' = TRUE
  <2>1. CASE UNCHANGED cause \/ cause' = TRUE
    BY <2>1 DEF Report, KeepSwitch, SetSwitch
  <2>2. CASE \E on \in BOOLEAN : /\ pw' = on /\ cause' = (cause \/ ~on)
                                 /\ Reported(Contacted(mem))
    BY <2>2
  <2> QED
    BY <2>1, <2>2, Zenon DEF Report
<1>6. ASSUME NEW m, Reported(m) PROVE mem' = m /\ disk' = m
  BY <1>6 DEF Reported
<1>7. ~OwnedBy(mem') /\ ~OwnedBy(disk') /\ pw'
  BY <1>1, <1>4, <1>5, <1>6
<1> QED
  BY <1>1, <1>3, <1>7 DEF StaysQuiet, OwnedBy

LEMMA WakeStaysQuiet ==
  ASSUME RecoveryIInv, Quiet, NEW d \in Gaps, NEW carry \in BOOLEAN, Wake(d, carry)
  PROVE  Quiet'
<1> SUFFICES ASSUME ~cause' PROVE Quiet'
  BY DEF Quiet
<1>1. mem \in Coherent /\ ram \in Ram /\ d \in 0..5
  BY DEF RecoveryIInv, CycleOK
<1>2. /\ env.wan /\ env.node /\ env.runtime = "ok" /\ pw /\ ~OwnedBy(mem)
      /\ ram.vcache # "dead"
  BY DEF Wake, Settled, Quiet, Owned, OwnedBy
<1>3. mem'.phase = mem.phase /\ disk' = mem'
  BY <1>1, AgedCoherent DEF Wake
<1>4. ram'.vcache # "dead"
  <2>1. ram' \in {ram, [ram EXCEPT !.due = ram.due \/ carry], EmptyRam}
    BY DEF Wake
  <2> QED
    BY <1>1, <1>2, <2>1 DEF Ram, EmptyRam
<1>5. inv'.pw /\ inv'.runtime = "ok" /\ UNCHANGED <<env, pw>>
  BY <1>2 DEF Wake, Collected
<1> QED
  BY <1>2, <1>3, <1>4, <1>5 DEF Quiet, OwnedBy

LEMMA OthersStayQuiet ==
  ASSUME Concrete, RecoveryIInv, Quiet, ~cause', Next, ~Agent, ~Tick
  PROVE  Quiet'
<1>1. CASE ServiceRestart
  BY <1>1 DEF ServiceRestart, Quiet, OwnedBy, EmptyRam
<1>2. CASE AgentCrash \/ Reboot
  BY <1>2 DEF AgentCrash, Reboot, Crash, Quiet, OwnedBy, EmptyRam, NoInventory
<1>3. CASE WatchdogReads
  BY <1>3 DEF WatchdogReads, AgentVars, Quiet, OwnedBy
<1>4. CASE WatchdogWrites
  <2>1. UNCHANGED AgentVars /\ ~cause
    BY <1>4 DEF WatchdogWrites, AgentVars
  <2>2. env.wan /\ env.node /\ env.runtime = "ok" /\ pw
    BY <2>1 DEF Quiet
  <2>3. NodeAnswers
    BY <2>2 DEF NodeAnswers
  <2>4. pw' = TRUE \/ UNCHANGED pw
    BY <1>4, <2>3 DEF WatchdogWrites, ProvenDead, ProvenAlive
  <2>5. pw'
    BY <2>2, <2>4
  <2> QED
    BY <2>1, <2>5 DEF AgentVars, Quiet, OwnedBy
<1>5. CASE WorldChanges
  <2>1. /\ UNCHANGED WorldVars /\ UNCHANGED pw /\ ~cause
        /\ env'.wan /\ env'.node /\ env'.runtime = "ok"
    BY <1>5 DEF WorldChanges
  <2> QED
    BY <2>1 DEF WorldVars, Quiet, OwnedBy
<1>6. CASE OwnerSwitches
  <2>1. ~cause /\ ~pw
    BY <1>6 DEF OwnerSwitches
  <2> QED
    BY <2>1 DEF Quiet
<1> QED
  BY <1>1, <1>2, <1>3, <1>4, <1>5, <1>6 DEF Next

LEMMA StepStaysQuiet ==
  ASSUME Concrete, RecoveryIInv, Quiet, [Next]_vars
  PROVE  Quiet'
<1>1. CASE Tick
  BY <1>1, WakeStaysQuiet DEF Tick
<1>2. CASE UNCHANGED vars
  BY <1>2 DEF vars, Quiet, OwnedBy
<1>3. CASE Agent /\ ~cause'
  <2>1. ~cause
    BY <1>3 DEF Agent, Rescue, FailSafe, RescueStandsBy, RestartPasswall, JudgeDirect,
       JudgeProxy, CountFailure, RescueVars, Advance, Report
  <2>2. StaysQuiet'
    BY <1>3, <2>1, RescueStaysQuiet, AdvanceStaysQuiet, ReportStaysQuiet DEF Agent
  <2>3. UNCHANGED env
    BY <1>3 DEF Agent, Rescue, FailSafe, RescueStandsBy, RestartPasswall, JudgeDirect,
       JudgeProxy, CountFailure, RescueVars, Advance, Report
  <2>4. inv' \in {inv, NoInventory}
    BY <1>3, <2>1, RescueStaysQuiet DEF Agent, Advance, Report
  <2> QED
    BY <2>1, <2>2, <2>3, <2>4 DEF Quiet, StaysQuiet, OwnedBy, NoInventory
<1>4. CASE cause'
  BY <1>4 DEF Quiet
<1>5. CASE Next /\ ~Agent /\ ~Tick /\ ~cause'
  BY <1>5, OthersStayQuiet
<1> QED
  BY <1>1, <1>2, <1>3, <1>4, <1>5

\* While nothing but the panel or a foreign target fails, nobody switches
\* PassWall off, for any thresholds, any number of panel outages and any
\* interleaving of the agent, the watchdog and the reboots
\* (PanelOutageKeepsVpn).  A virtual selection has no node to prove alive.
THEOREM PanelOutageIsHarmless ==
  "virtual" \notin Selections => (Spec => []PanelOutageKeepsVpn)
<1> SUFFICES ASSUME "virtual" \notin Selections
             PROVE  Spec => []PanelOutageKeepsVpn
  OBVIOUS
<1>1. Concrete
  BY DEF Concrete
<1>2. Init => Quiet
  <2> SUFFICES ASSUME Init, ~cause PROVE Quiet
    BY DEF Quiet
  <2>1. env.wan /\ env.node /\ env.runtime = "ok"
    BY DEF Init
  <2>2. pw = TRUE /\ mem = Fresh /\ disk = Fresh /\ ram = EmptyRam /\ inv = NoInventory
    BY DEF Init
  <2> QED
    BY <2>1, <2>2 DEF Quiet, OwnedBy, PasswallOwnedByRecovery, Fresh, EmptyRam, NoInventory
<1>3. RecoveryIInv /\ Quiet /\ [Next]_vars => Quiet'
  BY <1>1, StepStaysQuiet
<1>4. Quiet => PanelOutageKeepsVpn
  BY DEF Quiet, PanelOutageKeepsVpn
<1> QED
  BY <1>2, <1>3, <1>4, RecoveryInvariance, PTL DEF Spec
=============================================================================
