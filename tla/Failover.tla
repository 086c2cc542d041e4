-------------------------------- MODULE Failover --------------------------------
(***************************************************************************)
(* vctl's failover watchdog and the main balancer of xray: between two     *)
(* rounds of xray's observatory the watchdog sees in the connection table  *)
(* that the node xray prefers no longer answers, and overrides xray's      *)
(* choice, with another member, with the entry's own next stage or with a  *)
(* node borrowed from another country, until it can hand the choice back.  *)
(* The owner's pins are overrides too, recorded in a file and applied      *)
(* again after every start of xray.                                        *)
(*                                                                         *)
(* A look (Decide) and what it asks of xray (Apply, Confirm) are separate  *)
(* steps: the owner, the start hook and the nodes go on in between.        *)
(***************************************************************************)
EXTENDS Naturals

CONSTANTS
  Members,   \* the outbounds the balancer's selector matches
  Chain,     \* those of the balancers its fallback leads to
  Borrow,    \* outbounds of the entry's other countries
  Stage,     \* the fallback tag, an outbound into the next balancer
  None,
  Worlds     \* what the nodes and the owner's pin may be at the start, with the bounds:
             \* the changes of a node from then on, and the mishaps (restarts
             \* of xray, calls that fail, acts of the owner)

Nodes == Members \cup Chain \cup Borrow
Conditions == {"up", "hollow", "down"}

ASSUME NodesAssumption ==
  /\ Members # {}
  /\ Members \cap Chain = {} /\ (Members \cup Chain) \cap Borrow = {}
ASSUME FreshAssumption == Stage \notin Nodes \cup {None} /\ None \notin Nodes
ASSUME WorldsAssumption ==
  Worlds \subseteq [nodes: [Nodes -> Conditions], pins: Members \cup {None},
                   changes: Nat, mishaps: Nat]

VARIABLES
  node,      \* external: "hollow" answers connections and carries nothing
  obs,       \* external: xray's observatory on each node
  pick,      \* external: what the balancer's strategy prefers (principle)
  stagePick, \* external: the same of the next stage
  override,  \* external: what xray is pinned to
  failing,   \* nodes whose dials go unanswered, by the connection table
  ours,      \* the policy's own override
  unconf,    \* nodes whose confirmation failed within ConfirmHold
  downSince, \* the policy holds the balancer down
  act,       \* the action the look decided on
  place,     \* where the look is
  pins,      \* the owner's pin, as recorded (Overrides.Pins)
  request,   \* the owner's request that xray carried out and nobody recorded
  hook,      \* the start hook: what it has to apply
  changes,   \* changes of a node that may still happen
  mishaps,   \* mishaps that may still happen
  trouble    \* auxiliary: some node has not been up, ever since the start

nodeVars == <<node, obs, pick, stagePick, failing, changes>>
policyVars == <<ours, unconf, downSince, act, place>>
ownerVars == <<pins, request, hook>>
vars == <<nodeVars, policyVars, ownerVars, override, mishaps, trouble>>

Targets == Nodes \cup (IF Chain = {} THEN {} ELSE {Stage})

\* back: from has answered since the move; held: ReleaseHold is over.
Move == [target: Targets, from: Members, tried: SUBSET Targets,
         retry: BOOLEAN, borrowed: BOOLEAN, back: BOOLEAN, held: BOOLEAN]
NoMove == [target |-> None]

Action == [target: Targets \cup {None}, from: Members,
           reason: {"failing", "fallback", "borrowed", "recovered", "gone",
                    "exhausted"}]
NoAction == [target |-> None, reason |-> "none"]

TypeOK ==
  /\ node \in [Nodes -> Conditions]
  /\ obs \in [Nodes -> {"none", "alive", "dead"}]
  /\ pick \in Members \cup {None} /\ stagePick \in Chain \cup {None}
  /\ override \in Targets \cup {None}
  /\ failing \subseteq Nodes
  /\ ours \in Move \cup {NoMove}
  /\ unconf \subseteq Targets
  /\ downSince \in BOOLEAN
  /\ act \in Action \cup {NoAction}
  /\ place \in {"look", "apply", "confirm"} /\ (place = "apply" => act # NoAction)
  /\ pins \in Members \cup {None}
  /\ request \in Members \cup {None, "release", "nothing"}
  /\ hook \in Members \cup {None, "read"}
  /\ changes \in Nat /\ mishaps \in Nat
  /\ trouble \in BOOLEAN

NoWord == [n \in Nodes |-> "none"]

Init ==
  /\ \E w \in Worlds :
       /\ node = w.nodes /\ pins = w.pins
       /\ changes = w.changes /\ mishaps = w.mishaps
  /\ obs = NoWord
  /\ pick \in Members /\ stagePick \in Chain \cup {None}
  /\ override = None
  /\ failing = {}
  /\ ours = NoMove /\ unconf = {} /\ downSince = FALSE
  /\ act = NoAction /\ place = "look"
  /\ request = "nothing" /\ hook = "read"
  /\ trouble = (\E n \in Nodes : node[n] # "up")

Mishap == mishaps > 0 /\ mishaps' = mishaps - 1

-----------------------------------------------------------------------------
(* xray and the nodes *)

\* The node that new connections of the balancer go to.
Carrier ==
  IF override # None
  THEN IF override = Stage THEN stagePick ELSE override
  ELSE IF pick # None THEN pick ELSE stagePick

Carried == Carrier # None /\ node[Carrier] = "up"

Preferred(group, seen) ==
  LET alive == {n \in group : seen[n] = "alive"}
  IN IF alive = {} THEN {None} ELSE alive

Unjudged == {n \in Nodes : obs[n] = "none"}

\* A round of the observatory, the first one answer by answer; the strategies
\* choose again.
Probe ==
  /\ \E heard \in IF Unjudged = {} THEN {Nodes} ELSE SUBSET Unjudged \ {{}} :
       obs' = [n \in Nodes |-> IF n \notin heard THEN obs[n]
                              ELSE IF node[n] = "up" THEN "alive" ELSE "dead"]
  /\ pick' \in Preferred(Members, obs')
  /\ stagePick' \in IF Chain = {} THEN {None} ELSE Preferred(Chain, obs')
  /\ UNCHANGED <<node, failing, changes, policyVars, ownerVars, override, mishaps, trouble>>

\* Dials of n, the observatory's at least, are answered.
Answers(n) ==
  /\ node[n] # "down"
  /\ failing' = failing \ {n}
  /\ ours' = IF ours # NoMove /\ ours.from = n THEN [ours EXCEPT !.back = TRUE]
             ELSE ours
  /\ UNCHANGED <<node, obs, pick, stagePick, changes, unconf, downSince, act, place,
                 ownerVars, override, mishaps, trouble>>

\* Two dials of n go unanswered for two seconds (Detector.Failing).
GoesUnanswered(n) ==
  /\ node[n] = "down"
  /\ failing' = failing \cup {n}
  /\ UNCHANGED <<node, obs, pick, stagePick, changes, policyVars, ownerVars, override,
                 mishaps, trouble>>

\* Nobody dials n any more, and the table forgets.
Forgotten(n) ==
  /\ n \in failing /\ n # Carrier
  /\ failing' = failing \ {n}
  /\ UNCHANGED <<node, obs, pick, stagePick, changes, policyVars, ownerVars, override,
                 mishaps, trouble>>

NodeChanges(n) ==
  /\ changes > 0 /\ changes' = changes - 1
  /\ \E c \in Conditions \ {node[n]} : node' = [node EXCEPT ![n] = c]
  /\ trouble' = (trouble \/ node'[n] # "up")
  /\ UNCHANGED <<obs, pick, stagePick, failing, policyVars, ownerVars, override, mishaps>>

-----------------------------------------------------------------------------
(* Decide (policy.go) *)

IsFailing(t) == t \in failing
IsDown(t, seen) == t \in Nodes /\ (seen[t] = "dead" \/ IsFailing(t))

\* Mutant: a node nobody has judged yet counts as down.
OwnPathDownUnjudged(seen) ==
  \A n \in Members \cup Chain : seen[n] # "alive" \/ IsFailing(n)

\* The observatory has had its word on each, and each is down.
OwnPathDown(seen) ==
  \A n \in Members \cup Chain : seen[n] # "none" /\ IsDown(n, seen)

OwnPathAlive(seen) ==
  \E n \in Members \cup Chain : seen[n] = "alive" /\ ~IsFailing(n)

\* candidate: one of them is the fastest.
Candidates(group, skip, seen) ==
  {n \in group \ skip : seen[n] = "alive" /\ ~IsFailing(n)}
Borrowable(skip, seen) ==
  IF OwnPathDown(seen) THEN Candidates(Borrow, skip \cup unconf, seen) ELSE {}
HasFallback == Chain # {}

Acts(target, from, reason) ==
  /\ act' = [target |-> target, from |-> from, reason |-> reason]
  /\ place' = "apply"
\* Mutant: a look without an action is applied like any other.
NoActsApplied == act' = NoAction /\ place' = "apply"

NoActs == act' = NoAction /\ place' = "look"
AnyOf(group, from, reason) == \E n \in group : Acts(n, from, reason)

\* What the policy still holds: an override changed behind its back is not its own.
Held == IF ours # NoMove /\ override # ours.target THEN NoMove ELSE ours

Tried(o) == [o EXCEPT !.tried = @ \cup {o.target}, !.retry = FALSE]

DecideBorrowed(o, seen) ==
  LET failed == o.retry \/ IsDown(o.target, seen)
      returns == ~failed /\ o.held /\ OwnPathAlive(seen)
      next == Borrowable(o.tried \cup {o.target}, seen)
  IN /\ ours' = IF failed THEN Tried(o) ELSE o
     /\ \/ failed /\ AnyOf(next, o.from, "borrowed")
        \/ failed /\ next = {} /\ Acts(None, o.from, "exhausted")
        \/ returns /\ Acts(None, o.from, "recovered")
        \/ ~failed /\ ~returns /\ NoActs
     /\ UNCHANGED downSince

\* Mutant: only an answer of the node ends the move.
AvoidedNot(o) == FALSE

\* The observatory has marked it dead: xray avoids it on its own now.
Avoided(o) == pick # o.from

\* Mutant: the wrong node is asked about.
MayReturnSwapped(o) == o.held /\ o.back /\ IsFailing(o.target)

MayReturn(o) == o.held /\ o.back /\ ~IsFailing(o.from)

\* After a failed confirmation with nothing else to try the node stays: it
\* answers connections.
MoveOn(o, tried, seen) ==
  LET dead == IsFailing(o.target)
      next == Candidates(Members, tried, seen)
      staged == dead /\ HasFallback /\ o.target # Stage
      lent == Borrowable(tried, seen)
  IN \/ AnyOf(next, o.from, "failing")
     \/ next = {} /\ staged /\ Acts(Stage, o.from, "fallback")
     \/ next = {} /\ ~staged /\ AnyOf(lent, o.from, "borrowed")
     \/ next = {} /\ ~staged /\ lent = {} /\ dead /\ Acts(None, o.from, "exhausted")
     \/ next = {} /\ lent = {} /\ ~dead /\ NoActs

DecideMoved(o, seen) ==
  LET failed == o.retry \/ IsFailing(o.target)
  IN /\ ours' = IF failed THEN Tried(o) ELSE o
     /\ \/ failed /\ MoveOn(o, o.tried \cup {o.target}, seen)
        \/ ~failed /\ Avoided(o) /\ Acts(None, o.from, "gone")
        \/ ~failed /\ ~Avoided(o) /\ MayReturn(o) /\ Acts(None, o.from, "recovered")
        \/ ~failed /\ ~Avoided(o) /\ ~MayReturn(o) /\ NoActs
     /\ UNCHANGED downSince

\* Mutant: what is fine again is not noted.
IsFineAgain == NoActs /\ UNCHANGED downSince

IsFine == NoActs /\ downSince' = FALSE

IsDownNow == NoActs /\ downSince' = TRUE

\* The node xray prefers is failing.
MoveOff(seen) ==
  LET next == Candidates(Members, {pick}, seen)
  IN \/ AnyOf(next, pick, "failing") /\ UNCHANGED downSince
     \/ next = {} /\ HasFallback /\ Acts(Stage, pick, "fallback") /\ UNCHANGED downSince
     \/ next = {} /\ ~HasFallback /\ IsDownNow

\* xray follows its own choice.  (A borrow is noted as from the first member.)
DecideChosen(seen) ==
  LET lent == Borrowable({}, seen)
      down == OwnPathDown(seen) /\ pick = None
  IN /\ ours' = NoMove
     /\ \/ (\E m \in Members : AnyOf(lent, m, "borrowed")) /\ UNCHANGED downSince
        \/ lent = {} /\ down /\ IsDownNow
        \/ lent = {} /\ ~down /\ IsFailing(pick) /\ MoveOff(seen)
        \/ lent = {} /\ ~down /\ ~IsFailing(pick) /\ IsFine

\* The owner's pins, and what the watchdog did not set, are left alone.
LeaveAlone(o) == NoActs /\ ours' = o /\ UNCHANGED downSince

\* xray's metrics may give no answer: the look then has no word on any node.
Decide ==
  /\ place = "look"
  /\ \E seen \in {obs, NoWord} :
       /\ IF seen = obs THEN UNCHANGED mishaps ELSE Mishap
       /\ \/ pins # None /\ LeaveAlone(ours)
          \/ pins = None /\ Held = NoMove /\ override # None /\ LeaveAlone(NoMove)
          \/ pins = None /\ Held = NoMove /\ override = None /\ DecideChosen(seen)
          \/ pins = None /\ Held # NoMove /\ Held.borrowed /\ DecideBorrowed(Held, seen)
          \/ pins = None /\ Held # NoMove /\ ~Held.borrowed /\ DecideMoved(Held, seen)
  /\ UNCHANGED <<nodeVars, unconf, ownerVars, override, trouble>>

-----------------------------------------------------------------------------
(* applyFailover *)

\* Applied
Applied ==
  IF act.target = None
  THEN /\ ours' = NoMove
       /\ downSince' = (downSince \/ act.reason = "exhausted")
  ELSE IF ours # NoMove
  THEN /\ ours' = [ours EXCEPT !.target = act.target, !.back = FALSE, !.held = FALSE,
                               !.borrowed = @ \/ act.reason = "borrowed"]
       /\ UNCHANGED downSince
  ELSE /\ ours' = [target |-> act.target, from |-> act.from, tried |-> {act.from},
                   retry |-> FALSE, borrowed |-> act.reason = "borrowed",
                   back |-> FALSE, held |-> FALSE]
       /\ downSince' = FALSE

\* xray refuses, or carries it out and its answer does not come in time.
Apply ==
  /\ place = "apply"
  /\ \/ /\ override' = act.target
        /\ Applied
        /\ place' = IF act.target = None THEN "look" ELSE "confirm"
        /\ UNCHANGED mishaps
     \/ /\ Mishap
        /\ override' \in {override, act.target}
        /\ place' = "look"
        /\ UNCHANGED <<ours, downSince>>
  /\ act' = NoAction
  /\ UNCHANGED <<nodeVars, unconf, ownerVars, trouble>>

\* One request through the balancer.
Confirm ==
  /\ place = "confirm"
  /\ \/ Carried /\ UNCHANGED <<ours, unconf, mishaps>>
     \/ /\ IF Carried THEN Mishap ELSE UNCHANGED mishaps
        /\ ours' = IF ours = NoMove THEN ours ELSE [ours EXCEPT !.retry = TRUE]
        /\ unconf' = IF ours = NoMove THEN unconf ELSE unconf \cup {ours.target}
  /\ place' = "look"
  /\ UNCHANGED <<nodeVars, downSince, act, ownerVars, override, trouble>>

\* ReleaseHold, and ConfirmHold of a node, are over.
HoldOver ==
  /\ ours # NoMove /\ ~ours.held
  /\ ours' = [ours EXCEPT !.held = TRUE]
  /\ UNCHANGED <<nodeVars, unconf, downSince, act, place, ownerVars, override,
                 mishaps, trouble>>

ConfirmHoldOver(n) ==
  /\ n \in unconf
  /\ unconf' = unconf \ {n}
  /\ UNCHANGED <<nodeVars, ours, downSince, act, place, ownerVars, override,
                 mishaps, trouble>>

-----------------------------------------------------------------------------
(* Starts of xray, and the owner *)

\* xray starts anew, without overrides; if the whole daemon does, the policy
\* has forgotten too.
XrayRestarts ==
  /\ Mishap
  /\ obs' = NoWord
  /\ pick' \in Members /\ stagePick' \in Chain \cup {None}
  /\ override' = None
  /\ hook' = "read"
  /\ \/ UNCHANGED <<policyVars, failing>>
     \/ /\ ours' = NoMove /\ unconf' = {} /\ downSince' = FALSE /\ failing' = {}
        /\ act' = NoAction /\ place' = "look"
  /\ UNCHANGED <<node, changes, pins, request, trouble>>

\* reapplyPins
HookReads ==
  /\ hook = "read" /\ hook' = pins
  /\ UNCHANGED <<nodeVars, policyVars, override, pins, request, mishaps, trouble>>

\* It may run out of time.
HookApplies ==
  /\ hook \in Members /\ hook' = None
  /\ \/ override' = hook /\ UNCHANGED mishaps
     \/ Mishap /\ UNCHANGED override
  /\ UNCHANGED <<nodeVars, policyVars, pins, request, trouble>>

\* rpcdPin: xray first, then the record, which may not come to be written (a pin
\* whose answer is late is not recorded); a release is recorded even if xray does
\* not answer.
OwnerPins(n) ==
  /\ request = "nothing" /\ Mishap
  /\ override' = n /\ request' \in {n, "nothing"}
  /\ UNCHANGED <<nodeVars, policyVars, pins, hook, trouble>>

OwnerReleases ==
  /\ request = "nothing" /\ Mishap
  /\ override' \in {None, override} /\ request' \in {"release", "nothing"}
  /\ UNCHANGED <<nodeVars, policyVars, pins, hook, trouble>>

OwnerRecorded ==
  /\ request # "nothing" /\ request' = "nothing"
  /\ pins' = IF request = "release" THEN None ELSE request
  /\ UNCHANGED <<nodeVars, policyVars, override, hook, mishaps, trouble>>

Next ==
  \/ Probe
  \/ \E n \in Nodes : \/ Answers(n) \/ GoesUnanswered(n) \/ Forgotten(n)
                      \/ NodeChanges(n)
  \/ Decide \/ Apply \/ Confirm
  \/ HoldOver \/ \E n \in Targets : ConfirmHoldOver(n)
  \/ XrayRestarts \/ HookReads \/ HookApplies
  \/ (\E n \in Members : OwnerPins(n)) \/ OwnerReleases \/ OwnerRecorded

Spec == Init /\ [][Next]_vars

\* The observatory has its rounds, what carries traffic is dialled, the watchdog
\* looks every 2 s, holds end, and what the owner asked for is done.
FairSpec ==
  /\ Spec
  /\ WF_vars(Probe)
  /\ \A n \in Nodes : WF_vars(Answers(n)) /\ WF_vars(GoesUnanswered(n) /\ n = Carrier)
  /\ WF_vars(Decide) /\ WF_vars(Apply) /\ WF_vars(Confirm)
  /\ WF_vars(HoldOver) /\ \A n \in Targets : WF_vars(ConfirmHoldOver(n))
  /\ WF_vars(HookReads) /\ WF_vars(HookApplies) /\ WF_vars(OwnerRecorded)

-----------------------------------------------------------------------------
(* Properties *)

\* A balancer whose nodes have all been up ever since is left to xray: neither a
\* start of xray, whose observatory has no word yet, nor an act of the owner, nor
\* a call that failed makes the watchdog move it.
HealthyKeepsChoice == ~trouble => ours = NoMove /\ act = NoAction /\ ~downSince

\* An override that neither the policy nor the record knows of: xray's answer was
\* lost, a pin was not recorded, or released while the start hook applied it.
Orphaned == /\ override # None /\ pins = None /\ Held = NoMove
            /\ request = "nothing"

LeftToWatchdog == pins = None /\ request = "nothing" /\ ~Orphaned

\* With one node left that works, of the balancer, of its reserve or of another
\* country, new connections come to be carried, for good.
TrafficCarried ==
  <>[](LeftToWatchdog /\ \E n \in Nodes : node[n] = "up") => <>[]Carried

\* With every node of its own working, the balancer comes back to its own choice.
HandedBack ==
  <>[](LeftToWatchdog /\ \A n \in Members : node[n] = "up") => <>[](override = None)

\* The balancer is not held down while it carries.
DownIsOver == <>[](LeftToWatchdog /\ Carried) => <>[]~downSince
=============================================================================
