----------------------------- MODULE FailoverProofs -----------------------------
(***************************************************************************)
(* For any nodes, worlds and bounds: the watchdog's state is well formed,  *)
(* and a balancer whose nodes have been up all along is left to xray.      *)
(***************************************************************************)
EXTENDS Failover, TLAPS

\* What "no trouble yet" means for everything the policy looks at.
Quiet ==
  ~trouble =>
    /\ \A n \in Nodes : node[n] = "up" /\ obs[n] # "dead"
    /\ failing = {}
    /\ ours = NoMove /\ act = NoAction /\ place = "look" /\ ~downSince

FIInv == TypeOK /\ Quiet

LEMMA TargetsFacts ==
  /\ None \notin Targets /\ Nodes \subseteq Targets /\ Members \subseteq Targets
  /\ HasFallback => Stage \in Targets
BY FreshAssumption DEF Targets, Nodes, HasFallback

LEMMA CandidatesFacts ==
  ASSUME NEW group, NEW skip, NEW seen
  PROVE  Candidates(group, skip, seen) \subseteq group
BY DEF Candidates

LEMMA BorrowableFacts ==
  ASSUME NEW skip, NEW seen
  PROVE  Borrowable(skip, seen) \subseteq Targets
BY CandidatesFacts, TargetsFacts DEF Borrowable, Nodes

\* An action the look decides on is well formed.
LEMMA ActsType ==
  ASSUME NEW t \in Targets \cup {None}, NEW m \in Members,
         NEW reason \in {"failing", "fallback", "borrowed", "recovered", "gone",
                         "exhausted"},
         Acts(t, m, reason)
  PROVE  act' \in Action /\ act' # NoAction /\ place' = "apply"
<1>1. act' \in Action /\ place' = "apply"
  BY DEF Acts, Action
<1>2. act'.reason # NoAction.reason
  BY DEF Acts, NoAction
<1> QED BY <1>1, <1>2

LEMMA AnyOfType ==
  ASSUME NEW group \in SUBSET Targets, NEW m \in Members,
         NEW reason \in {"failing", "fallback", "borrowed", "recovered", "gone",
                         "exhausted"},
         AnyOf(group, m, reason)
  PROVE  act' \in Action /\ act' # NoAction /\ place' = "apply"
BY ActsType DEF AnyOf

\* The part of the type invariant a look may disturb.
LookOK ==
  /\ ours \in Move \cup {NoMove}
  /\ downSince \in BOOLEAN
  /\ act \in Action \cup {NoAction}
  /\ place \in {"look", "apply", "confirm"} /\ (place = "apply" => act # NoAction)

LEMMA TriedType ==
  ASSUME NEW o \in Move
  PROVE  Tried(o) \in Move
BY DEF Tried, Move

LEMMA DecideBorrowedType ==
  ASSUME TypeOK, NEW o \in Move, NEW seen, DecideBorrowed(o, seen)
  PROVE  LookOK'
<1>1. ours' \in Move
  BY TriedType DEF DecideBorrowed
<1>2. downSince' \in BOOLEAN
  BY DEF DecideBorrowed, TypeOK
<1>3. o.from \in Members /\ None \in Targets \cup {None}
  BY DEF Move
<1> DEFINE next == Borrowable(o.tried \cup {o.target}, seen)
<1>4. next \in SUBSET Targets
  BY BorrowableFacts
<1>5. \/ act' \in Action /\ act' # NoAction /\ place' = "apply"
      \/ NoActs
  <2>1. CASE AnyOf(next, o.from, "borrowed")
    BY <1>3, <1>4, <2>1, AnyOfType
  <2>2. CASE Acts(None, o.from, "exhausted")
    BY <1>3, <2>2, ActsType
  <2>3. CASE Acts(None, o.from, "recovered")
    BY <1>3, <2>3, ActsType
  <2>4. CASE NoActs
    BY <2>4
  <2> QED BY <2>1, <2>2, <2>3, <2>4 DEF DecideBorrowed
<1> QED BY <1>1, <1>2, <1>5 DEF LookOK, NoActs

LEMMA DecideMovedType ==
  ASSUME TypeOK, NEW o \in Move, NEW seen, DecideMoved(o, seen)
  PROVE  LookOK'
<1>1. ours' \in Move
  BY TriedType DEF DecideMoved
<1>2. downSince' \in BOOLEAN
  BY DEF DecideMoved, TypeOK
<1>3. o.from \in Members /\ None \in Targets \cup {None}
  BY DEF Move
<1> DEFINE tried == o.tried \cup {o.target}
<1>4. /\ Candidates(Members, tried, seen) \in SUBSET Targets
      /\ Borrowable(tried, seen) \in SUBSET Targets
  BY CandidatesFacts, BorrowableFacts, TargetsFacts
<1>5. ASSUME MoveOn(o, tried, seen)
      PROVE  \/ act' \in Action /\ act' # NoAction /\ place' = "apply"
             \/ NoActs
  <2>1. CASE AnyOf(Candidates(Members, tried, seen), o.from, "failing")
    BY <1>3, <1>4, <2>1, AnyOfType
  <2>2. CASE HasFallback /\ Acts(Stage, o.from, "fallback")
    BY <1>3, <2>2, ActsType, TargetsFacts
  <2>3. CASE AnyOf(Borrowable(tried, seen), o.from, "borrowed")
    BY <1>3, <1>4, <2>3, AnyOfType
  <2>4. CASE Acts(None, o.from, "exhausted")
    BY <1>3, <2>4, ActsType
  <2>5. CASE NoActs
    BY <2>5
  <2> QED BY <1>5, <2>1, <2>2, <2>3, <2>4, <2>5 DEF MoveOn
<1>6. \/ act' \in Action /\ act' # NoAction /\ place' = "apply"
      \/ NoActs
  <2>1. CASE MoveOn(o, tried, seen)
    BY <1>5, <2>1
  <2>2. CASE Acts(None, o.from, "gone")
    BY <1>3, <2>2, ActsType
  <2>3. CASE Acts(None, o.from, "recovered")
    BY <1>3, <2>3, ActsType
  <2>4. CASE NoActs
    BY <2>4
  <2> QED BY <2>1, <2>2, <2>3, <2>4 DEF DecideMoved
<1> QED BY <1>1, <1>2, <1>6 DEF LookOK, NoActs

LEMMA DecideChosenType ==
  ASSUME TypeOK, NEW seen, DecideChosen(seen)
  PROVE  LookOK'
<1>1. ours' = NoMove
  BY DEF DecideChosen
<1> DEFINE lent == Borrowable({}, seen)
           next == Candidates(Members, {pick}, seen)
           Decided == act' \in Action /\ act' # NoAction /\ place' = "apply"
<1>2. lent \in SUBSET Targets /\ next \in SUBSET Targets
  BY CandidatesFacts, BorrowableFacts, TargetsFacts
<1>3. CASE \E m \in Members : AnyOf(lent, m, "borrowed") /\ UNCHANGED downSince
  BY <1>1, <1>2, <1>3, AnyOfType DEF LookOK, TypeOK
<1>4. CASE IsDownNow
  BY <1>1, <1>4 DEF LookOK, IsDownNow, NoActs
<1>5. CASE IsFine
  BY <1>1, <1>5 DEF LookOK, IsFine, NoActs
<1>6. CASE IsFailing(pick) /\ MoveOff(seen)
  <2>1. pick \in Members
    BY <1>6, FreshAssumption DEF TypeOK, IsFailing
  <2>2. CASE AnyOf(next, pick, "failing") /\ UNCHANGED downSince
    BY <1>1, <1>2, <2>1, <2>2, AnyOfType DEF LookOK, TypeOK
  <2>3. CASE HasFallback /\ Acts(Stage, pick, "fallback") /\ UNCHANGED downSince
    BY <1>1, <2>1, <2>3, ActsType, TargetsFacts DEF LookOK, TypeOK
  <2>4. CASE IsDownNow
    BY <1>4, <2>4
  <2> QED BY <1>6, <2>2, <2>3, <2>4 DEF MoveOff
<1> QED BY <1>3, <1>4, <1>5, <1>6 DEF DecideChosen

LEMMA DecideType ==
  ASSUME TypeOK, Decide
  PROVE  LookOK'
<1>1. ours \in Move \cup {NoMove} /\ Held \in {ours, NoMove}
  BY DEF TypeOK, Held
<1>2. ASSUME NEW o \in Move \cup {NoMove}, LeaveAlone(o)
      PROVE  LookOK'
  BY <1>2 DEF LeaveAlone, NoActs, LookOK, TypeOK
<1>3. CASE LeaveAlone(ours)
  BY <1>1, <1>2, <1>3
<1>4. CASE LeaveAlone(NoMove)
  BY <1>2, <1>4
<1>5. ASSUME NEW seen, DecideChosen(seen)
      PROVE  LookOK'
  BY <1>5, DecideChosenType
<1>6. ASSUME NEW seen, Held # NoMove, DecideBorrowed(Held, seen)
      PROVE  LookOK'
  <2>1. Held \in Move
    BY <1>1, <1>6
  <2> QED BY <1>6, <2>1, DecideBorrowedType
<1>7. ASSUME NEW seen, Held # NoMove, DecideMoved(Held, seen)
      PROVE  LookOK'
  <2>1. Held \in Move
    BY <1>1, <1>7
  <2> QED BY <1>7, <2>1, DecideMovedType
<1> QED BY <1>3, <1>4, <1>5, <1>6, <1>7 DEF Decide

LEMMA AppliedType ==
  ASSUME TypeOK, place = "apply", Applied
  PROVE  ours' \in Move \cup {NoMove} /\ downSince' \in BOOLEAN
<1>1. act \in Action
  BY DEF TypeOK
<1>2. CASE act.target = None
  BY <1>2 DEF Applied, TypeOK
<1>3. CASE act.target # None /\ ours # NoMove
  <2> DEFINE lent == ours.borrowed \/ act.reason = "borrowed"
  <2>1. ours \in Move /\ act.target \in Targets
    BY <1>1, <1>3 DEF TypeOK, Action
  <2>2. lent \in BOOLEAN
    OBVIOUS
  <2>3. /\ ours' = [ours EXCEPT !.target = act.target, !.back = FALSE, !.held = FALSE,
                                !.borrowed = lent]
        /\ downSince' = downSince
    BY <1>3 DEF Applied
  <2> HIDE DEF lent
  <2>4. ours' \in Move
    BY <2>1, <2>2, <2>3 DEF Move
  <2> QED BY <2>3, <2>4 DEF TypeOK
<1>4. CASE act.target # None /\ ours = NoMove
  <2> DEFINE lent == act.reason = "borrowed"
  <2>1. act.target \in Targets /\ act.from \in Members /\ {act.from} \subseteq Targets
    BY <1>1, <1>4, TargetsFacts DEF Action
  <2>2. lent \in BOOLEAN
    OBVIOUS
  <2>3. /\ ours' = [target |-> act.target, from |-> act.from, tried |-> {act.from},
                    retry |-> FALSE, borrowed |-> lent, back |-> FALSE, held |-> FALSE]
        /\ downSince' = FALSE
    BY <1>4 DEF Applied
  <2> HIDE DEF lent
  <2> QED BY <2>1, <2>2, <2>3 DEF Move
<1> QED BY <1>2, <1>3, <1>4

-----------------------------------------------------------------------------
(* The type invariant *)

\* What a change of the policy's own override keeps of its type.
LEMMA MoveNoted ==
  ASSUME ours \in Move \cup {NoMove}, ours # NoMove
  PROVE  /\ ours.target \in Targets
         /\ [ours EXCEPT !.back = TRUE] \in Move
         /\ [ours EXCEPT !.held = TRUE] \in Move
         /\ [ours EXCEPT !.retry = TRUE] \in Move
BY DEF Move

LEMMA PreferredType ==
  ASSUME NEW group, NEW seen
  PROVE  Preferred(group, seen) \subseteq group \cup {None}
BY DEF Preferred

LEMMA InitType == Init => TypeOK
<1> SUFFICES ASSUME Init PROVE TypeOK
  OBVIOUS
<1>1. /\ node \in [Nodes -> Conditions] /\ pins \in Members \cup {None}
      /\ changes \in Nat /\ mishaps \in Nat
  <2>1. PICK w \in Worlds : /\ node = w.nodes /\ pins = w.pins
                            /\ changes = w.changes /\ mishaps = w.mishaps
    BY DEF Init
  <2>2. w \in [nodes: [Nodes -> Conditions], pins: Members \cup {None},
               changes: Nat, mishaps: Nat]
    BY WorldsAssumption
  <2> QED BY <2>1, <2>2
<1>2. trouble \in BOOLEAN
  BY DEF Init
<1> QED BY <1>1, <1>2 DEF Init, NoWord, TypeOK

LEMMA NodesType ==
  ASSUME TypeOK,
         \/ Probe
         \/ \E n \in Nodes : \/ Answers(n) \/ GoesUnanswered(n) \/ Forgotten(n)
                             \/ NodeChanges(n)
  PROVE  TypeOK'
<1>1. CASE Probe
  <2>1. obs' \in [Nodes -> {"none", "alive", "dead"}]
    BY <1>1 DEF TypeOK, Probe
  <2>2. pick' \in Members \cup {None}
    BY <1>1, PreferredType DEF Probe
  <2>3. stagePick' \in Chain \cup {None}
    BY <1>1, PreferredType DEF Probe
  <2> QED BY <1>1, <2>1, <2>2, <2>3
          DEF TypeOK, Probe, policyVars, ownerVars
<1>2. ASSUME NEW n \in Nodes, Answers(n) PROVE TypeOK'
  <2>1. ours' \in Move \cup {NoMove}
    BY <1>2, MoveNoted DEF TypeOK, Answers
  <2> QED BY <1>2, <2>1 DEF TypeOK, Answers, ownerVars
<1>3. ASSUME NEW n \in Nodes, GoesUnanswered(n) PROVE TypeOK'
  BY <1>3 DEF TypeOK, GoesUnanswered, policyVars, ownerVars
<1>4. ASSUME NEW n \in Nodes, Forgotten(n) PROVE TypeOK'
  BY <1>4 DEF TypeOK, Forgotten, policyVars, ownerVars
<1>5. ASSUME NEW n \in Nodes, NodeChanges(n) PROVE TypeOK'
  <2>1. node' \in [Nodes -> Conditions] /\ changes' \in Nat
    BY <1>5 DEF TypeOK, NodeChanges
  <2>2. trouble' \in BOOLEAN
    BY <1>5 DEF NodeChanges
  <2> QED BY <1>5, <2>1, <2>2 DEF TypeOK, NodeChanges, policyVars, ownerVars
<1> QED BY <1>1, <1>2, <1>3, <1>4, <1>5

LEMMA PolicyType ==
  ASSUME TypeOK,
         \/ Decide \/ Apply \/ Confirm
         \/ HoldOver \/ \E n \in Targets : ConfirmHoldOver(n)
  PROVE  TypeOK'
<1>1. CASE Decide
  <2>1. LookOK'
    BY <1>1, DecideType
  <2>2. mishaps' \in Nat
    BY <1>1 DEF Decide, Mishap, TypeOK
  <2> QED BY <1>1, <2>1, <2>2 DEF TypeOK, LookOK, Decide, nodeVars, ownerVars
<1>2. CASE Apply
  <2>1. act \in Action /\ act.target \in Targets \cup {None}
    BY <1>2 DEF TypeOK, Apply, Action
  <2>2. ours' \in Move \cup {NoMove} /\ downSince' \in BOOLEAN
    BY <1>2, AppliedType DEF Apply, TypeOK
  <2>3. override' \in Targets \cup {None} /\ mishaps' \in Nat
    BY <1>2, <2>1 DEF Apply, Mishap, TypeOK
  <2>4. place' \in {"look", "confirm"} /\ act' = NoAction
    BY <1>2 DEF Apply
  <2> QED BY <1>2, <2>2, <2>3, <2>4 DEF TypeOK, Apply, nodeVars, ownerVars
<1>3. CASE Confirm
  <2>1. ours' \in Move \cup {NoMove} /\ unconf' \subseteq Targets
    BY <1>3, MoveNoted DEF Confirm, TypeOK
  <2>2. mishaps' \in Nat
    BY <1>3 DEF Confirm, Mishap, TypeOK
  <2> QED BY <1>3, <2>1, <2>2 DEF TypeOK, Confirm, nodeVars, ownerVars
<1>4. CASE HoldOver
  BY <1>4, MoveNoted DEF TypeOK, HoldOver, nodeVars, ownerVars
<1>5. ASSUME NEW n \in Targets, ConfirmHoldOver(n) PROVE TypeOK'
  BY <1>5 DEF TypeOK, ConfirmHoldOver, nodeVars, ownerVars
<1> QED BY <1>1, <1>2, <1>3, <1>4, <1>5

LEMMA OwnerType ==
  ASSUME TypeOK,
         \/ XrayRestarts \/ HookReads \/ HookApplies
         \/ (\E n \in Members : OwnerPins(n)) \/ OwnerReleases \/ OwnerRecorded
  PROVE  TypeOK'
<1>1. CASE XrayRestarts
  <2>1. ours' \in Move \cup {NoMove} /\ unconf' \subseteq Targets /\ downSince' \in BOOLEAN
        /\ act' \in Action \cup {NoAction}
        /\ place' \in {"look", "apply", "confirm"} /\ (place' = "apply" => act' # NoAction)
    BY <1>1 DEF XrayRestarts, policyVars, TypeOK
  <2> QED BY <1>1, <2>1 DEF XrayRestarts, Mishap, NoWord, TypeOK
<1>2. CASE HookReads
  BY <1>2 DEF TypeOK, HookReads, nodeVars, policyVars
<1>3. CASE HookApplies
  BY <1>3, TargetsFacts DEF TypeOK, HookApplies, Mishap, nodeVars, policyVars
<1>4. ASSUME NEW n \in Members, OwnerPins(n) PROVE TypeOK'
  BY <1>4, TargetsFacts DEF TypeOK, OwnerPins, Mishap, nodeVars, policyVars
<1>5. CASE OwnerReleases
  BY <1>5 DEF TypeOK, OwnerReleases, Mishap, nodeVars, policyVars
<1>6. CASE OwnerRecorded
  BY <1>6 DEF TypeOK, OwnerRecorded, nodeVars, policyVars
<1> QED BY <1>1, <1>2, <1>3, <1>4, <1>5, <1>6

LEMMA NextType ==
  ASSUME TypeOK, [Next]_vars
  PROVE  TypeOK'
<1>1. CASE UNCHANGED vars
  BY <1>1 DEF TypeOK, vars, nodeVars, policyVars, ownerVars
<1> QED BY <1>1, NodesType, PolicyType, OwnerType DEF Next

-----------------------------------------------------------------------------
(* A balancer without trouble *)

\* A balancer has members, so a path of its own that was never down is not down,
\* whether or not there is a word on its nodes.
LEMMA QuietOwnPath ==
  ASSUME Quiet, ~trouble, NEW seen \in {obs, NoWord}
  PROVE  ~OwnPathDown(seen) /\ Borrowable({}, seen) = {}
<1>1. \A n \in Nodes : seen[n] # "dead"
  BY DEF Quiet, NoWord
<1>2. \A n \in Nodes : ~IsDown(n, seen)
  BY <1>1 DEF Quiet, IsDown, IsFailing
<1>3. ~OwnPathDown(seen)
  BY <1>2, NodesAssumption DEF OwnPathDown, Nodes
<1> QED BY <1>3 DEF Borrowable

LEMMA QuietInit == Init => Quiet
BY DEF Init, Quiet, NoWord

LEMMA QuietDecide ==
  ASSUME Quiet, ~trouble, Decide
  PROVE  ours' = NoMove /\ act' = NoAction /\ place' = "look" /\ ~downSince'
<1>1. CASE LeaveAlone(ours) \/ LeaveAlone(NoMove)
  BY <1>1 DEF LeaveAlone, NoActs, Quiet
<1>2. ASSUME NEW seen \in {obs, NoWord}, DecideChosen(seen)
      PROVE  ours' = NoMove /\ act' = NoAction /\ place' = "look" /\ ~downSince'
  <2>1. ~OwnPathDown(seen) /\ Borrowable({}, seen) = {} /\ ~IsFailing(pick)
    BY QuietOwnPath DEF Quiet, IsFailing
  <2>2. ~ \E m \in Members : AnyOf(Borrowable({}, seen), m, "borrowed")
    BY <2>1 DEF AnyOf
  <2>3. IsFine /\ ours' = NoMove
    BY <1>2, <2>1, <2>2 DEF DecideChosen
  <2> QED BY <2>3 DEF IsFine, NoActs
<1>3. Held = NoMove
  BY DEF Quiet, Held
<1> QED BY <1>1, <1>2, <1>3 DEF Decide

LEMMA QuietNext ==
  ASSUME TypeOK, Quiet, [Next]_vars
  PROVE  Quiet'
<1> SUFFICES ASSUME ~trouble' PROVE Quiet'
  BY DEF Quiet
<1>1. CASE UNCHANGED vars
  BY <1>1 DEF Quiet, vars, nodeVars, policyVars, ownerVars
<1>2. CASE Probe
  BY <1>2 DEF Quiet, Probe, policyVars
<1>3. ASSUME NEW n \in Nodes, Answers(n) PROVE Quiet'
  BY <1>3 DEF Quiet, Answers
<1>4. ASSUME NEW n \in Nodes, GoesUnanswered(n) PROVE Quiet'
  BY <1>4 DEF Quiet, GoesUnanswered
<1>5. ASSUME NEW n \in Nodes, Forgotten(n) PROVE Quiet'
  BY <1>5 DEF Quiet, Forgotten, policyVars
<1>6. ASSUME NEW n \in Nodes, NodeChanges(n) PROVE Quiet'
  <2>1. ~trouble /\ node'[n] = "up"
    BY <1>6 DEF NodeChanges
  <2> QED BY <1>6, <2>1 DEF Quiet, NodeChanges, policyVars, TypeOK
<1>7. CASE Decide
  BY <1>7, QuietDecide DEF Quiet, Decide, nodeVars
<1>8. CASE Apply \/ Confirm
  BY <1>8 DEF Quiet, Apply, Confirm
<1>9. CASE HoldOver
  BY <1>9 DEF Quiet, HoldOver
<1>10. ASSUME NEW n \in Targets, ConfirmHoldOver(n) PROVE Quiet'
  BY <1>10 DEF Quiet, ConfirmHoldOver, nodeVars
<1>11. CASE XrayRestarts
  BY <1>11 DEF Quiet, XrayRestarts, NoWord, policyVars
<1>12. CASE HookReads \/ HookApplies \/ OwnerReleases \/ OwnerRecorded
  BY <1>12 DEF Quiet, HookReads, HookApplies, OwnerReleases, OwnerRecorded,
                nodeVars, policyVars
<1>13. ASSUME NEW n \in Members, OwnerPins(n) PROVE Quiet'
  BY <1>13 DEF Quiet, OwnerPins, nodeVars, policyVars
<1> QED BY <1>1, <1>2, <1>3, <1>4, <1>5, <1>6, <1>7, <1>8, <1>9, <1>10, <1>11,
           <1>12, <1>13 DEF Next

-----------------------------------------------------------------------------

\* The inductive invariant: well formed, and quiet while there was no trouble.
THEOREM FailoverInvariance == Spec => []FIInv
<1>1. Init => FIInv
  BY InitType, QuietInit DEF FIInv
<1>2. FIInv /\ [Next]_vars => FIInv'
  BY NextType, QuietNext DEF FIInv
<1> QED BY <1>1, <1>2, PTL DEF Spec

\* The watchdog's state is well formed: every move has a target and a member of
\* the balancer it moved away from, and what is to be applied is an action.
THEOREM FailoverTypeCorrect == Spec => []TypeOK
<1>1. FIInv => TypeOK
  BY DEF FIInv
<1> QED BY <1>1, FailoverInvariance, PTL

\* However many nodes there are, and whatever restarts, lost calls and acts of the
\* owner come in between, a balancer whose nodes have been up is not moved.
THEOREM HealthyLeftAlone == Spec => []HealthyKeepsChoice
<1>1. FIInv => HealthyKeepsChoice
  BY DEF FIInv, Quiet, HealthyKeepsChoice
<1> QED BY <1>1, FailoverInvariance, PTL
=============================================================================
