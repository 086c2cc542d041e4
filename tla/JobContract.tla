---------------------------- MODULE JobContract ----------------------------
(***************************************************************************)
(* What the panel and a router promise together about one job each: it is  *)
(* queued, it is executed at most once, it is recorded as succeeded only   *)
(* if that execution succeeded, and sooner or later it is over.            *)
(*                                                                         *)
(* A record is not final: the handler of a slow request may overwrite it,  *)
(* and may even open it again, but never into a second execution.          *)
(***************************************************************************)
CONSTANTS Jobs

VARIABLES
    record,  \* what the panel says of the job
    outcome  \* how its only execution ended

contractVars == <<record, outcome>>

Over == {"succeeded", "failed", "cancelled"}

Init ==
    /\ record = [j \in Jobs |-> "absent"]
    /\ outcome = [j \in Jobs |-> "none"]

Queue(j) ==
    /\ record[j] = "absent"
    /\ record' = [record EXCEPT ![j] = "open"]
    /\ UNCHANGED outcome

Run(j, how) ==
    /\ record[j] # "absent" /\ outcome[j] = "none"
    /\ outcome' = [outcome EXCEPT ![j] = how]
    /\ UNCHANGED record

Record(j, state) ==
    /\ record[j] # "absent"
    /\ state = "succeeded" => outcome[j] = "success"
    /\ record' = [record EXCEPT ![j] = state]
    /\ UNCHANGED outcome

Next ==
    \E j \in Jobs :
        \/ Queue(j)
        \/ \E how \in {"success", "failure"} : Run(j, how)
        \/ \E state \in Over \cup {"open"} : Record(j, state)

Safety == Init /\ [][Next]_contractVars

\* Every queued job is over at some point, and then again whenever a late
\* request opened it once more.
Ends == \A j \in Jobs : record[j] = "open" ~> record[j] \in Over

Spec == Safety /\ Ends
=============================================================================
