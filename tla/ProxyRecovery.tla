---------------------------- MODULE ProxyRecovery ----------------------------
(***************************************************************************)
(* Who switches a PassWall router between proxy and direct mode: the       *)
(* legacy agent's polling cycle (local rescue and control-plane recovery), *)
(* the cron watchdog, and the owner or operator.  They share one UCI       *)
(* switch, a marker file and the agent's state file, and nothing else.     *)
(*                                                                         *)
(* A cycle is Wake (the inventory is collected) -> rescue -> advance ->    *)
(* report (check-in and jobs).  The watchdog reads, probes and then writes,*)
(* so it may act between any two of them.                                  *)
(*                                                                         *)
(* Time is a class of age: 0 fresh, 1 past the settle windows (45 s to     *)
(* 4 min), 2 past 5 min, 3 past 15 min, 4 past the outage threshold (1 h), *)
(* 5 past 12 h.                                                            *)
(***************************************************************************)
EXTENDS Naturals

CONSTANTS
  Selections,  \* kinds of selected node: "node", "shunt", "virtual"
  Trigger,     \* TriggerFailureCount of the rescue policy
  Recover,     \* RecoverySuccessCount of the rescue policy
  Worlds,      \* the worlds the router may start in
  Gaps,        \* classes of time between two cycles
  MaxFaults    \* bound: failures, crashes, acts of the owner and operator

ASSUME SelectionsAssumption == Selections \subseteq {"node", "shunt", "virtual"}
ASSUME CountsAssumption == Trigger \in Nat \ {0} /\ Recover \in Nat \ {0}
ASSUME GapsAssumption == Gaps \subseteq 0..5
ASSUME FaultsAssumption == MaxFaults \in Nat

VARIABLES
  env,     \* the world: panel, wan, foreign targets, node, xray runtime
  sel,     \* what kind of node PassWall has selected
  pw,      \* passwall2.@global[0].enabled
  marker,  \* the watchdog's ownership marker file
  mem,     \* the agent's persisted state, in memory
  disk,    \* the same, as last saved
  ram,     \* what a restart of the process forgets
  inv,     \* the inventory this cycle collected
  pc,      \* where the cycle is
  wd,      \* the watchdog: idle, or probing before it cuts or restores
  wdRun,   \* age of the watchdog's last verdict
  contact, \* age of the last successful contact
  faults,  \* failures and acts of people so far
  cause,   \* auxiliary: something other than the panel has gone wrong
  offBy    \* auxiliary: who switched PassWall off

vars == <<env, sel, pw, marker, mem, disk, ram, inv, pc, wd, wdRun, contact,
          faults, cause, offBy>>

Phases == {"idle", "monitoring", "controller_restart_wait", "direct_settle",
           "reboot_wait", "post_reboot_check", "passwall_retry_wait",
           "operator_attention"}

\* recovery.PasswallOwnedByRecovery
PasswallOwnedByRecovery(phase) ==
  phase \in {"direct_settle", "reboot_wait", "post_reboot_check",
             "passwall_retry_wait", "operator_attention"}

Ages == 0..5
None == 9          \* no outage

Env == [panel: {"up", "lossy", "down"}, wan: BOOLEAN, foreign: BOOLEAN,
        node: BOOLEAN, runtime: {"ok", "missing", "failing"}]

GoodWorld == [panel |-> "up", wan |-> TRUE, foreign |-> TRUE, node |-> TRUE,
              runtime |-> "ok"]

ASSUME WorldsAssumption == Worlds \subseteq Env

State ==
  [phase: Phases, awaiting: BOOLEAN, outage: 0..4 \cup {None},
   retry: Ages, retried: BOOLEAN, restart: 0..1, restarted: BOOLEAN,
   reboot: Ages, mode: {"proxy", "direct"}, trans: 0..2,
   failures: 0..Trigger, successes: 0..Recover, kick: 0..2]

Verdicts == {"alive", "dead", "unjudged"}
Statuses == {"healthy", "partial", "blocked"}
Groups == [ru: BOOLEAN, foreign: Statuses]
NoGroups == [ru |-> FALSE, foreign |-> "none"]

\* rcache: grouped probes kept for 5 min; vcache: node verdict kept for 5 min;
\* due: the pacer allows a check-in that recovery asked to skip.
Ram == [rcache: Groups \cup {NoGroups}, vcache: {"alive", "dead", "none"},
        due: BOOLEAN]
EmptyRam == [rcache |-> NoGroups, vcache |-> "none", due |-> TRUE]

TypeOK ==
  /\ env \in Env
  /\ sel \in Selections
  /\ pw \in BOOLEAN /\ marker \in BOOLEAN
  /\ mem \in State /\ disk \in State
  /\ ram \in Ram
  /\ inv \in [pw: BOOLEAN, runtime: {"ok", "missing", "failing"}]
  /\ pc \in {"sleep", "rescue", "advance", "report", "rebooting"}
  /\ wd \in {"idle", "cut", "restore"}
  /\ wdRun \in 0..3 /\ contact \in 0..3
  /\ faults \in 0..MaxFaults
  /\ cause \in BOOLEAN
  /\ offBy \in {"nobody", "agent", "watchdog", "owner"}

\* The inventory is collected anew in every cycle.
NoInventory == [pw |-> TRUE, runtime |-> "ok"]

\* A registered router in proxy mode that has just been in contact with its panel.
Fresh ==
  [phase |-> "idle", awaiting |-> FALSE, outage |-> None, retry |-> 5,
   retried |-> FALSE, restart |-> 1, restarted |-> FALSE, reboot |-> 5,
   mode |-> "proxy", trans |-> 2, failures |-> 0, successes |-> 0, kick |-> 2]

Init ==
  /\ env \in Worlds
  /\ sel \in Selections
  /\ pw = TRUE /\ marker = FALSE
  /\ mem = Fresh /\ disk = Fresh
  /\ ram = EmptyRam
  /\ inv = NoInventory
  /\ pc = "sleep"
  /\ wd = "idle" /\ wdRun = 3 /\ contact = 0
  /\ faults = 0 /\ offBy = "nobody"
  /\ cause = ~(env.wan /\ env.node /\ env.runtime = "ok")

-----------------------------------------------------------------------------
(* What the probes can see *)

NodeAnswers == env.node /\ env.wan /\ env.runtime # "missing"
ProxyWorks  == env.node /\ env.wan /\ env.runtime = "ok"

\* Unmarked probes take whatever path the LAN has.
PublicAnswers == IF pw THEN ProxyWorks ELSE env.wan
ForeignSeen ==
  IF env.foreign /\ PublicAnswers THEN {"healthy"}
  ELSE IF env.wan THEN {"partial", "blocked"} ELSE {"blocked"}

Busy(answer) == IF wd = "idle" THEN {} ELSE {answer}

\* probeProxyPath: a shunt without a concrete default node and a virtual
\* selection prove nothing; nor does a node the watchdog is probing.
PathSeen ==
  IF sel # "node" THEN {"unjudged"}
  ELSE {IF NodeAnswers THEN "alive" ELSE "dead"} \cup Busy("unjudged")

\* Mutant: a node that another probe keeps busy counts as dead.
VerdictSeenBusyDead == {IF NodeAnswers THEN "alive" ELSE "dead"} \cup Busy("dead")

\* proxyNodeVerdictForRecovery: a shunt is judged by its slots; with nothing
\* concrete to probe the node is "not alive".
VerdictSeen ==
  IF sel = "virtual" THEN {"dead"}
  ELSE {IF NodeAnswers THEN "alive" ELSE "dead"} \cup Busy("unjudged")

\* cachedProxyNodeVerdict
CachedVerdict(r) == IF r.vcache # "none" THEN {r.vcache} ELSE VerdictSeen
Judged(r, v) == IF v = "unjudged" THEN r ELSE [r EXCEPT !.vcache = v]

\* Mutant: a missing runtime stops blocking too.
BlocksForAWhile(runtime) == IF runtime = "ok" THEN {FALSE} ELSE BOOLEAN

\* proxyRuntimeBlocksAutoResume: a failed start stops blocking after 12 h.
Blocks(runtime) ==
  CASE runtime = "ok"      -> {FALSE}
    [] runtime = "missing" -> {TRUE}
    [] runtime = "failing" -> BOOLEAN

Collected(on) == [pw |-> on, runtime |-> env.runtime]

-----------------------------------------------------------------------------
(* Writing the switch *)

Fault == faults < MaxFaults /\ faults' = faults + 1

InMode(m, mode) ==
  [m EXCEPT !.mode = mode, !.trans = 0, !.failures = 0, !.successes = 0]
Direct(m) == InMode(m, "direct")
Proxy(m)  == InMode(m, "proxy")

\* setPasswallMainSwitch on purpose: the watchdog loses its direct.
SetSwitch(on) ==
  /\ pw' = on /\ marker' = FALSE
  /\ offBy' = IF on THEN "nobody" ELSE "agent"
KeepSwitch == UNCHANGED <<pw, marker, offBy, faults>>

EndCycle(m) == mem' = m /\ disk' = m /\ pc' = "sleep" /\ inv' = NoInventory

\* The UCI batch fails, or it commits and the restart of PassWall fails.
SwitchFails(on, m) ==
  /\ Fault
  /\ SetSwitch(on) \/ UNCHANGED <<pw, marker, offBy>>
  /\ EndCycle(m)

-----------------------------------------------------------------------------
(* Local rescue, and the fail-safe that also runs while recovery owns PassWall *)

Owned == PasswallOwnedByRecovery(mem.phase)

\* reconcileRescueStateWithInventory
Reconciled ==
  IF inv.pw = (mem.mode = "proxy") THEN mem
  ELSE [mem EXCEPT !.mode = IF inv.pw THEN "proxy" ELSE "direct",
                   !.failures = 0, !.successes = 0]

Rescued(m) ==
  /\ mem' = m /\ pc' = "advance"
  /\ UNCHANGED disk

RescueVars == <<env, sel, wd, wdRun, contact, cause>>

\* PassWall is on over a runtime that cannot run: direct, at once.
FailSafe ==
  /\ pc = "rescue" /\ inv.pw /\ inv.runtime # "ok"
  /\ \/ /\ SetSwitch(FALSE)
        /\ Rescued(Direct(Reconciled))
        /\ inv' = Collected(FALSE)
        /\ ram' = IF Owned THEN [ram EXCEPT !.rcache = NoGroups] ELSE ram
        /\ UNCHANGED faults
     \/ SwitchFails(FALSE, Reconciled) /\ UNCHANGED ram
  /\ UNCHANGED RescueVars

\* Recovery owns PassWall: local rescue does not run.
RescueStandsBy ==
  /\ pc = "rescue" /\ Owned /\ ~(inv.pw /\ inv.runtime # "ok")
  /\ Rescued(Reconciled)
  /\ KeepSwitch
  /\ UNCHANGED <<RescueVars, inv, ram>>

\* The agent's own PassWall watchdog restarts the service (stopped, or no
\* connectivity), once per cooldown, and judges nothing this cycle.
RestartPasswall ==
  /\ pc = "rescue" /\ ~Owned /\ inv.pw /\ inv.runtime = "ok"
  /\ mem.kick = 2
  /\ Rescued([Reconciled EXCEPT !.kick = 0])
  /\ ram' = [ram EXCEPT !.rcache = NoGroups]
  /\ KeepSwitch
  /\ UNCHANGED <<RescueVars, inv>>

\* Direct mode: the way back is Recover answers of the node and a cooldown.
JudgeDirect ==
  /\ pc = "rescue" /\ ~Owned /\ ~inv.pw
  /\ \E blocked \in Blocks(inv.runtime), answer \in PathSeen :
       LET credit == IF blocked THEN 0
                     ELSE IF PublicAnswers /\ answer = "alive"
                          THEN IF Reconciled.successes < Recover
                               THEN Reconciled.successes + 1 ELSE Recover
                          ELSE Reconciled.successes
           m == [Reconciled EXCEPT !.successes = credit]
       IN IF credit = Recover /\ m.trans = 2
          THEN \/ /\ SetSwitch(TRUE)
                  /\ Rescued(Proxy(m))
                  /\ inv' = Collected(TRUE)
                  /\ UNCHANGED faults
               \/ SwitchFails(TRUE, Proxy(m))
          ELSE Rescued(m) /\ KeepSwitch /\ UNCHANGED inv
  /\ UNCHANGED <<RescueVars, ram>>

\* Proxy mode, the public probe or the node answers, or nothing is proven.
JudgeProxy ==
  /\ pc = "rescue" /\ ~Owned /\ inv.pw /\ inv.runtime = "ok"
  /\ \/ /\ PublicAnswers \/ "alive" \in PathSeen
        /\ Rescued([Reconciled EXCEPT !.failures = 0])
     \/ /\ ~PublicAnswers /\ "unjudged" \in PathSeen
        /\ Rescued(Reconciled)
  /\ KeepSwitch
  /\ UNCHANGED <<RescueVars, inv, ram>>

\* Proxy mode, the node is proven dead.  validateDirectFallback switches
\* PassWall off and on again to try the direct path, unless the watchdog has
\* just switched it off.
CountFailure ==
  /\ pc = "rescue" /\ ~Owned /\ inv.pw /\ inv.runtime = "ok"
  /\ mem.kick < 2
  /\ ~PublicAnswers /\ "dead" \in PathSeen
  /\ LET m == [Reconciled EXCEPT !.failures = IF @ < Trigger THEN @ + 1 ELSE @]
         due == m.failures = Trigger /\ m.trans = 2
     IN \/ /\ ~due \/ (marker /\ ~pw)
           /\ Rescued(m) /\ KeepSwitch /\ UNCHANGED inv
        \/ /\ due /\ ~(marker /\ ~pw)
           /\ \/ /\ env.wan
                 /\ SetSwitch(FALSE)
                 /\ Rescued(Direct(m))
                 /\ inv' = Collected(FALSE)
                 /\ UNCHANGED faults
              \/ /\ ~env.wan
                 /\ pw' = TRUE /\ offBy' = "nobody"
                 /\ Rescued(m)
                 /\ UNCHANGED <<marker, faults, inv>>
              \/ /\ Fault
                 /\ \/ UNCHANGED <<pw, offBy>>
                    \/ pw' = FALSE /\ offBy' = "agent"
                 /\ EndCycle(Reconciled)
                 /\ UNCHANGED marker
  /\ UNCHANGED <<RescueVars, ram>>

Rescue == FailSafe \/ RescueStandsBy \/ RestartPasswall \/ JudgeDirect
            \/ JudgeProxy \/ CountFailure

-----------------------------------------------------------------------------
(* Control-plane recovery *)

PanelAnswers == env.panel = "up" /\ env.wan       \* GET /api/health in 5 s
CheckInPasses == env.panel # "down" /\ env.wan    \* the full request timeout

\* The outage begins with the first probe that fails.
Anchored ==
  IF PanelAnswers \/ mem.outage # None THEN mem
  ELSE [mem EXCEPT !.outage = 0, !.retried = FALSE, !.restarted = FALSE,
                   !.phase = IF @ = "idle" THEN "monitoring" ELSE @]

Measures(m) == m.phase # "idle" \/ m.awaiting \/ m.outage = 4
Measured ==
  IF ram.rcache # NoGroups THEN {ram.rcache}
  ELSE [ru: {env.wan}, foreign: ForeignSeen]

\* Mutant: what recovery asks to skip is skipped.
ProceedUnpaced(m, r, skip, hold) ==
  /\ mem' = m /\ ram' = r
  /\ IF skip THEN disk' = m /\ pc' = "sleep"
             ELSE UNCHANGED disk /\ pc' = "report"

\* What runOnce does with the outcome.  The skip of the check-in is advisory
\* (paced), except in a settle window and right after a switch; the
\* state is committed before a paced check-in.
Proceed(m, r, skip, hold) ==
  /\ mem' = m /\ ram' = r
  /\ IF skip /\ (hold \/ ~r.due \/ m.phase = "reboot_wait")
     THEN disk' = m /\ pc' = "sleep"
     ELSE /\ disk' = IF skip THEN m ELSE disk
          /\ pc' = "report"

Stay(m, r, skip, hold) == Proceed(m, r, skip, hold) /\ KeepSwitch

InPhase(m, phase, awaiting) ==
  [m EXCEPT !.phase = phase, !.awaiting = awaiting]
Uncached(r) == [r EXCEPT !.rcache = NoGroups]

\* resumeProxyMode, and the retry it starts
Resume(m, r, awaiting) ==
  \/ /\ SetSwitch(TRUE)
     /\ Proceed([InPhase(Proxy(m), "passwall_retry_wait", awaiting)
                   EXCEPT !.retry = 0, !.retried = m.outage # None],
                Uncached(r), TRUE, TRUE)
     /\ UNCHANGED faults
  \/ SwitchFails(TRUE, m) /\ ram' = r

\* enterDirectModeForRecovery, then the phase
GoDirect(m, r, phase, awaiting, skip) ==
  \/ /\ SetSwitch(FALSE)
     /\ Proceed(InPhase(Direct(m), phase, awaiting), Uncached(r), skip, TRUE)
     /\ UNCHANGED faults
  \/ SwitchFails(FALSE, m) /\ ram' = r

Park(m, r, skip) == Stay(InPhase(m, "operator_attention", TRUE), r, skip, FALSE)

\* Resume unless the runtime cannot run: then wait for the operator.
ResumeOrPark(m, r) ==
  \/ TRUE \in Blocks(inv.runtime) /\ Park(m, r, ~PanelAnswers)
  \/ FALSE \in Blocks(inv.runtime) /\ Resume(m, r, FALSE)

GiveUp(m, r) ==
  IF inv.pw THEN GoDirect(m, r, "operator_attention", TRUE, ~PanelAnswers)
            ELSE Park(m, r, ~PanelAnswers)

\* startControlPlaneRecovery: the panel has been silent for an hour.
StartControlPlaneRecovery(m, r, g) ==
  LET healthy == g.ru /\ g.foreign = "healthy"
      fallback == g.foreign # "healthy"
  IN \/ /\ healthy
        /\ Stay([InPhase(m, "controller_restart_wait", FALSE) EXCEPT
                   !.restart = IF m.restarted THEN @ ELSE 0,
                   !.restarted = TRUE],
                IF m.restarted THEN r ELSE Uncached(r), TRUE, FALSE)
     \/ /\ fallback /\ inv.pw
        /\ \E v \in CachedVerdict(r) :
             IF v # "dead"
             THEN Stay([m EXCEPT !.phase = "monitoring"], Judged(r, v), TRUE, FALSE)
             ELSE GoDirect(Direct(m), Judged(r, v), "direct_settle", FALSE, TRUE)
     \/ /\ fallback /\ ~inv.pw
        /\ Stay(InPhase(m, "monitoring", FALSE), r, TRUE, FALSE)
     \/ /\ ~healthy /\ ~fallback
        /\ Stay([m EXCEPT !.phase = "monitoring"], r, TRUE, FALSE)

\* Mutant: a direct of somebody else is undone without a look at the runtime.
WatchingBlindly(m, r, g) ==
  /\ m.phase \in {"idle", "monitoring"}
  /\ IF PanelAnswers
     THEN IF ~inv.pw /\ m.retry = 5 THEN Resume(m, r, FALSE) ELSE Stay(m, r, FALSE, FALSE)
     ELSE IF m.outage = 4 THEN StartControlPlaneRecovery(m, r, g)
     ELSE Stay([m EXCEPT !.phase = "monitoring"], r, TRUE, FALSE)

\* shouldResumeProxyAfterExternalDirect: somebody else switched PassWall off.
Watching(m, r, g) ==
  /\ m.phase \in {"idle", "monitoring"}
  /\ \/ /\ ~PanelAnswers /\ m.outage = 4
        /\ StartControlPlaneRecovery(m, r, g)
     \/ /\ ~PanelAnswers /\ m.outage # 4
        /\ Stay([m EXCEPT !.phase = "monitoring"], r, TRUE, FALSE)
     \/ /\ PanelAnswers
        /\ \E blocked \in Blocks(inv.runtime) :
             IF ~inv.pw /\ ~blocked /\ m.retry = 5
             THEN Resume(m, r, FALSE)
             ELSE Stay(m, r, FALSE, FALSE)

RestartWait(m, r) ==
  /\ m.phase = "controller_restart_wait"
  /\ IF PanelAnswers THEN Stay(m, r, FALSE, FALSE)
     ELSE Stay([m EXCEPT !.phase = IF m.restart = 1 THEN "monitoring" ELSE @],
               r, TRUE, FALSE)

\* shouldTriggerReboot and canScheduleAutoReboot; the reboot is stamped and the
\* phase set before it is scheduled.
RebootOrStay(m, r, g) ==
  IF (g.foreign = "blocked" \/ ~g.ru) /\ m.reboot = 5
  THEN LET rebooting == [InPhase(m, "reboot_wait", FALSE) EXCEPT !.reboot = 0]
       IN \/ /\ mem' = rebooting /\ disk' = rebooting /\ pc' = "rebooting"
             /\ ram' = Uncached(r)
             /\ KeepSwitch
          \/ Fault /\ UNCHANGED <<pw, marker, offBy>> /\ EndCycle(rebooting)
                   /\ ram' = r
  ELSE Stay(m, r, TRUE, FALSE)

DirectSettle(m, r, g) ==
  /\ m.phase = "direct_settle"
  /\ \/ m.trans = 0 /\ Stay(m, r, TRUE, TRUE)
     \/ /\ m.trans > 0 /\ PanelAnswers
        /\ IF ~inv.pw /\ g.ru /\ ~(m.outage # None /\ m.retried)
           THEN ResumeOrPark(m, r) ELSE Park(m, r, FALSE)
     \/ /\ m.trans > 0 /\ ~PanelAnswers
        /\ IF inv.pw \/ m.retry < 3 THEN RebootOrStay(m, r, g)
           ELSE \E blocked \in Blocks(inv.runtime), v \in CachedVerdict(r) :
                  CASE blocked -> Park(m, r, TRUE)
                    [] ~blocked /\ v = "alive" -> Resume(m, Judged(r, v), FALSE)
                    [] OTHER -> RebootOrStay(m, Judged(r, v), g)

RebootWait(m, r) ==
  /\ m.phase = "reboot_wait"
  /\ Stay(InPhase(m, "post_reboot_check", FALSE), r, TRUE, FALSE)

\* Mutant: a proxy that works ends the phase and not the wait for the operator.
JudgeKeepsWaiting(m, r, g) ==
  IF g.foreign = "healthy" THEN Stay([m EXCEPT !.phase = "idle"], r, FALSE, FALSE)
  ELSE \E v \in VerdictSeen :
         CASE v = "alive" -> Stay([m EXCEPT !.phase = "idle"], r, FALSE, FALSE)
           [] v = "unjudged" -> Stay(m, r, TRUE, FALSE)
           [] v = "dead" -> GiveUp(m, r)

\* The proxy is judged by the foreign targets, then by a fresh node verdict.
Judge(m, r, g) ==
  IF g.foreign = "healthy" THEN Stay(InPhase(m, "idle", FALSE), r, FALSE, FALSE)
  ELSE \E v \in VerdictSeen :
         CASE v = "alive" -> Stay(InPhase(m, "idle", FALSE), r, FALSE, FALSE)
           [] v = "unjudged" -> Stay(m, r, TRUE, FALSE)
           [] v = "dead" -> GiveUp(m, r)

PostRebootCheck(m, r, g) ==
  /\ m.phase = "post_reboot_check"
  /\ IF m.reboot = 0 THEN Stay(m, r, TRUE, TRUE)
     ELSE IF ~g.ru THEN GiveUp(m, r)
     ELSE IF ~inv.pw THEN ResumeOrPark(m, r)
     ELSE Judge(m, r, g)

PasswallRetryWait(m, r, g) ==
  /\ m.phase = "passwall_retry_wait"
  /\ IF m.retry = 0 THEN Stay(m, r, TRUE, TRUE) ELSE Judge(m, r, g)

\* Mutant: with a panel that answers, the park is left to the operator.
OperatorAttentionLeftToPanel(m, r, g) ==
  /\ m.phase = "operator_attention"
  /\ IF inv.pw /\ g.foreign = "healthy"
     THEN Stay(InPhase(m, "idle", FALSE), r, FALSE, FALSE)
     ELSE IF ~inv.pw /\ ~PanelAnswers /\ m.retry = 5
     THEN ResumeOrPark(m, r)
     ELSE Stay(m, r, ~PanelAnswers, FALSE)

\* Mutant: a PassWall that somebody else switched on again is not looked at.
OperatorAttentionOnlyDirect(m, r, g) ==
  /\ m.phase = "operator_attention"
  /\ IF inv.pw \/ m.retry < 3 THEN Stay(m, r, ~PanelAnswers, FALSE)
     ELSE \E blocked \in Blocks(inv.runtime), v \in CachedVerdict(r) :
            IF ~blocked /\ v = "alive" THEN Resume(m, Judged(r, v), TRUE)
            ELSE Stay(m, r, ~PanelAnswers, FALSE)

\* Never a terminal park: a proven node every 15 min, a blind retry every 12 h
\* of a silent panel.
OperatorAttention(m, r, g) ==
  /\ m.phase = "operator_attention"
  /\ IF inv.pw
     THEN IF g.foreign = "healthy"
          THEN Stay(InPhase(m, "idle", FALSE), r, FALSE, FALSE)
          ELSE Stay(m, r, ~PanelAnswers, FALSE)
     ELSE IF m.retry < 3 THEN Stay(m, r, ~PanelAnswers, FALSE)
     ELSE \E blocked \in Blocks(inv.runtime) :
            \/ blocked /\ Park(m, r, ~PanelAnswers)
            \/ ~blocked /\ ~PanelAnswers /\ m.retry = 5 /\ Resume(m, r, TRUE)
            \/ /\ ~blocked /\ (PanelAnswers \/ m.retry < 5)
               /\ \E v \in CachedVerdict(r) :
                    IF v = "alive" THEN Resume(m, Judged(r, v), TRUE)
                    ELSE Stay(m, Judged(r, v), ~PanelAnswers, FALSE)

\* advanceControlPlaneRecovery
Advance ==
  /\ pc = "advance"
  /\ \E g \in IF Measures(Anchored) THEN Measured ELSE {NoGroups} :
       LET m == Anchored
           r == IF g = NoGroups THEN ram ELSE [ram EXCEPT !.rcache = g]
       IN \/ Watching(m, r, g) \/ RestartWait(m, r) \/ DirectSettle(m, r, g)
          \/ RebootWait(m, r) \/ PostRebootCheck(m, r, g)
          \/ PasswallRetryWait(m, r, g) \/ OperatorAttention(m, r, g)
  /\ inv' = NoInventory
  /\ UNCHANGED <<env, sel, wd, wdRun, contact, cause>>

-----------------------------------------------------------------------------
(* The check-in and the operator's jobs *)

\* noteSuccessfulControlPlaneContact
Contacted(m) ==
  LET n == [m EXCEPT !.outage = None, !.retried = FALSE, !.restarted = FALSE]
  IN IF m.phase \in {"idle", "monitoring", "controller_restart_wait"}
     THEN InPhase(n, "idle", FALSE) ELSE n

\* clearControlPlaneRecoveryOwnership
Unowned(m) ==
  [InPhase(m, "idle", FALSE) EXCEPT !.outage = None, !.retry = 5,
     !.retried = FALSE, !.restart = 1, !.restarted = FALSE]

Reported(m) == mem' = m /\ disk' = m /\ pc' = "sleep"

\* The attempt is paced whether it succeeds or not.
Report ==
  /\ pc = "report"
  /\ ram' = [ram EXCEPT !.due = FALSE,
                        !.rcache = IF CheckInPasses THEN NoGroups ELSE @]
  /\ \/ /\ ~CheckInPasses
        /\ Reported(mem)
        /\ KeepSwitch /\ UNCHANGED <<contact, cause>>
     \/ /\ CheckInPasses
        /\ contact' = 0
        /\ \/ Reported(Contacted(mem)) /\ KeepSwitch /\ UNCHANGED cause
           \* reconnect
           \/ /\ Fault /\ SetSwitch(TRUE)
              /\ Reported(Unowned(Proxy(Contacted(mem))))
              /\ UNCHANGED cause
           \* enter_direct_mode
           \/ /\ Fault /\ pw' = FALSE /\ marker' = FALSE /\ offBy' = "owner"
              /\ Reported(Direct(Contacted(mem)))
              /\ cause' = TRUE
           \* an apply that carries the main switch
           \/ /\ Fault
              /\ \E on \in BOOLEAN :
                   /\ pw' = on
                   /\ offBy' = IF on THEN "nobody" ELSE "owner"
                   /\ cause' = (cause \/ ~on)
              /\ Reported(Contacted(mem))
              /\ UNCHANGED marker
  /\ UNCHANGED <<env, sel, inv, wd, wdRun>>

-----------------------------------------------------------------------------
(* The next cycle *)

\* Mutant: ages are not classes.
GoneOn(a, d, carry, cap) ==
  IF d = 0 THEN a ELSE IF a < d THEN d ELSE IF carry THEN a + 1 ELSE a

\* The class of an age a once time of class d has passed.
Gone(a, d, carry, cap) ==
  LET b == IF d = 0 THEN a ELSE IF a < d THEN d ELSE IF carry THEN a + 1 ELSE a
  IN IF b < cap THEN b ELSE cap

Aged(m, d, carry) ==
  [m EXCEPT
     !.outage  = IF @ = None THEN None ELSE Gone(@, d, carry, 4),
     !.retry   = Gone(@, d, carry, 5),  !.restart = Gone(@, d, carry, 1),
     !.reboot  = Gone(@, d, carry, 5),  !.trans   = Gone(@, d, carry, 2),
     !.kick    = Gone(@, d, carry, 2)]

\* Everything the agent may hold against the proxy is gone.
Settled ==
  /\ env.wan /\ env.node /\ env.runtime = "ok"
  /\ pw /\ wd = "idle"
  /\ ~Owned /\ mem.failures = 0 /\ ram.vcache # "dead"

\* Time of class d passes and the agent polls.  The clocks that are older than
\* d may or may not reach their next class (carry).  A watchdog that is probing
\* is done within 4 min.
Wake(d, carry) ==
  /\ pc = "sleep"
  /\ wd = "idle" \/ d = 0 \/ (d = 1 /\ wdRun = 0)
  /\ mem' = Aged(mem, d, carry)
  /\ disk' = mem'
  /\ CASE d = 0 -> UNCHANGED ram
       [] d = 1 -> ram' \in {[ram EXCEPT !.due = @ \/ carry], EmptyRam}
       [] OTHER -> ram' = EmptyRam
  /\ wdRun' = Gone(wdRun, d, carry, 3)
  /\ contact' = Gone(contact, d, carry, 3)
  /\ inv' = Collected(pw)
  /\ pc' = "rescue"
  /\ cause' = (cause /\ ~Settled)
  /\ UNCHANGED <<env, sel, pw, marker, wd, faults, offBy>>

\* scheduleControllerServiceRestart takes effect: the caches are gone.
ServiceRestart ==
  /\ pc = "sleep" /\ mem.restart = 0 /\ ram # EmptyRam
  /\ ram' = EmptyRam
  /\ UNCHANGED <<env, sel, pw, marker, mem, disk, inv, pc, wd, wdRun, contact,
                 faults, cause, offBy>>

\* The process dies: what was not saved is lost.
Crash ==
  /\ mem' = disk /\ ram' = EmptyRam /\ pc' = "sleep" /\ inv' = NoInventory
  /\ UNCHANGED <<env, sel, pw, marker, disk, contact, cause, offBy>>

AgentCrash == Fault /\ Crash /\ UNCHANGED <<wd, wdRun>>

\* The reboot recovery has scheduled (within 5 s, so before the next cycle), or
\* a power cut: /var/run is empty.
Reboot ==
  /\ \/ pc = "rebooting" /\ UNCHANGED faults
     \/ Fault
  /\ Crash
  /\ wd' = "idle" /\ wdRun' = 3

-----------------------------------------------------------------------------
(* The cron watchdog: it reads, probes for up to 4 min, then writes *)

AgentVars == <<env, sel, mem, disk, ram, inv, pc, contact, faults, cause>>
ReleaseOwnership == marker' = FALSE

RetryInProgress == disk.phase = "passwall_retry_wait" /\ disk.retry < 3

\* should_fail_safe_to_direct: no contact for the dead-man threshold.
ContactStale == contact = 3
\* One verdict every 15 min, and a cooldown after an action.
VerdictDue == wdRun = 3

\* deadman_proxy_verdict: with nothing concrete to probe, inconclusive.
ProvenAlive == sel # "virtual" /\ NodeAnswers
ProvenDead  == sel # "virtual" /\ ~NodeAnswers

WatchdogReads ==
  /\ wd = "idle"
  /\ \/ /\ pw
        /\ ReleaseOwnership
        /\ IF ContactStale /\ ~RetryInProgress /\ VerdictDue
           THEN wd' = "cut" /\ wdRun' = 0
           ELSE UNCHANGED <<wd, wdRun>>
     \/ /\ ~pw /\ marker
        /\ \/ /\ PasswallOwnedByRecovery(disk.phase)
              /\ ReleaseOwnership
              /\ UNCHANGED <<wd, wdRun>>
           \/ /\ ~PasswallOwnedByRecovery(disk.phase) /\ VerdictDue
              /\ wd' = "restore" /\ wdRun' = 0
              /\ UNCHANGED marker
  /\ UNCHANGED <<AgentVars, pw, offBy>>

WatchdogWrites ==
  /\ wd # "idle"
  /\ \/ /\ wd = "cut" /\ ProvenDead
        /\ pw' = FALSE /\ marker' = TRUE
        /\ offBy' = IF pw THEN "watchdog" ELSE offBy
     \/ /\ wd = "restore" /\ ProvenAlive
        /\ pw' = TRUE /\ marker' = FALSE /\ offBy' = "nobody"
     \/ UNCHANGED <<pw, marker, offBy>>
  /\ wd' = "idle"
  /\ UNCHANGED <<AgentVars, wdRun>>

-----------------------------------------------------------------------------
(* The world and the owner *)

WorldVars == <<sel, marker, mem, disk, ram, inv, pc, wd, wdRun, contact>>

\* One thing fails, or is repaired.
WorldChanges ==
  /\ \E part \in DOMAIN env :
       \/ /\ env[part] # GoodWorld[part]
          /\ env' = [env EXCEPT ![part] = GoodWorld[part]]
          /\ UNCHANGED faults
       \/ /\ env[part] = GoodWorld[part]
          /\ env' \in {e \in Env : \A p \in DOMAIN env : (e[p] # env[p]) = (p = part)}
          /\ Fault
  /\ cause' = (cause \/ ~(env'.wan /\ env'.node /\ env'.runtime = "ok"))
  /\ UNCHANGED <<WorldVars, pw, offBy>>

\* The owner, in LuCI or over ssh: the marker file is not theirs to remove.
OwnerSwitches ==
  /\ Fault
  /\ pw' = ~pw
  /\ offBy' = IF pw THEN "owner" ELSE "nobody"
  /\ cause' = (cause \/ pw)
  /\ UNCHANGED <<WorldVars, env>>

Agent == Rescue \/ Advance \/ Report
Tick == \E d \in Gaps, carry \in BOOLEAN : Wake(d, carry)

Next ==
  \/ Agent \/ Tick
  \/ ServiceRestart \/ AgentCrash \/ Reboot
  \/ WatchdogReads \/ WatchdogWrites
  \/ WorldChanges \/ OwnerSwitches

Spec == Init /\ [][Next]_vars

\* The agent polls for ever, every 45 s, and time passes between its polls; cron
\* runs the watchdog.  A verdict takes the watchdog at most 4 min of every 15, and
\* the agent restarts PassWall at most every 5 min, so neither meets every cycle.
FairSpec ==
  /\ Spec
  /\ WF_vars(Agent) /\ WF_vars(Reboot /\ pc = "rebooting")
  /\ SF_vars(Wake(0, FALSE) /\ wd = "idle")
  /\ SF_vars(\E d \in Gaps \ {0, 1} : Wake(d, TRUE))
  /\ SF_vars(Rescue /\ wd = "idle" /\ mem.kick < 2)
  /\ SF_vars(Advance /\ wd = "idle")
  /\ WF_vars(WatchdogReads) /\ WF_vars(WatchdogWrites)

-----------------------------------------------------------------------------
(* Safety *)

\* While nothing but the panel, or a foreign target, fails, nobody switches
\* PassWall off: recovery and the watchdog act on a node they have probed, never
\* on the silence of the panel.
PanelOutageKeepsVpn == ~cause => pw

\* The router waits for an operator only while recovery keeps it parked, or
\* retries out of a park: a flag left behind would keep the panel's incident
\* open and refuse controller updates.
AwaitingIsParked ==
  mem.awaiting => mem.phase \in {"operator_attention", "passwall_retry_wait"}

\* No automatic path of the agent, of the seven that can, switches PassWall on
\* over a runtime that this cycle saw missing.
NeverRearmsMissing ==
  [][~pw /\ pw' /\ pc \in {"rescue", "advance"} /\ pc' # pc
       => inv.runtime # "missing"]_vars

\* The watchdog gives back only the direct it made itself, never the owner's or
\* the operator's.
WatchdogLeavesOthersDirect ==
  [][wd = "restore" /\ ~pw /\ pw' /\ wd' = "idle" => offBy = "watchdog"]_vars

-----------------------------------------------------------------------------
(* Liveness *)

ProxyUsable == env.node /\ env.wan /\ env.runtime = "ok"

\* A working proxy is used again, whoever switched it off and however recovery
\* got there; only a shunt, which local rescue cannot judge, may need the panel.
BackToProxy ==
  <>[](ProxyUsable /\ (sel = "node" \/ PanelAnswers)) => <>[]pw

\* PassWall does not stay on over a runtime that is not there, whatever phase
\* recovery is in and whoever switched it on.
NoBlackHole == <>[](env.runtime = "missing") => <>[]~pw

\* Recovery never hides the router from a panel that can hear it, though its own
\* probe of the panel may fail for ever.
NeverSilent == <>[]CheckInPasses => []<>(contact = 0)

\* With everything in order the wait for an operator ends by itself.
AttentionLifted ==
  <>[](ProxyUsable /\ env.foreign /\ PanelAnswers) => <>[]~mem.awaiting
=============================================================================
