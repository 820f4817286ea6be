----------------------------- MODULE JobLifecycle -----------------------------
(***************************************************************************)
(* What the job queue promises of one job, whatever the threads, restarts  *)
(* and client retries do: it is accepted once, its worker is called at     *)
(* most once and never after cancellation was asked for, and it gets one   *)
(* verdict that its history justifies.                                     *)
(***************************************************************************)
CONSTANT Jobs
VARIABLES stage, verdict, executed, cancelAsked

avars == <<stage, verdict, executed, cancelAsked>>

Verdicts == {"completed", "cancelled", "failed", "interrupted"}

Init ==
    /\ stage = [j \in Jobs |-> "absent"]
    /\ verdict = [j \in Jobs |-> "none"]
    /\ executed = {}
    /\ cancelAsked = {}

Accept(j) ==
    /\ stage[j] = "absent"
    /\ stage' = [stage EXCEPT ![j] = "pending"]
    /\ UNCHANGED <<verdict, executed, cancelAsked>>

AskCancel(j) ==
    /\ stage[j] = "pending"
    /\ cancelAsked' = cancelAsked \cup {j}
    /\ UNCHANGED <<stage, verdict, executed>>

Execute(j) ==
    /\ stage[j] = "pending" /\ j \notin executed /\ j \notin cancelAsked
    /\ executed' = executed \cup {j}
    /\ UNCHANGED <<stage, verdict, cancelAsked>>

Decide(j, v) ==
    /\ stage[j] = "pending"
    /\ v = "completed" => j \in executed
    /\ v = "cancelled" => j \in cancelAsked
    /\ stage' = [stage EXCEPT ![j] = "done"]
    /\ verdict' = [verdict EXCEPT ![j] = v]
    /\ UNCHANGED <<executed, cancelAsked>>

Next == \E j \in Jobs :
            Accept(j) \/ AskCancel(j) \/ Execute(j) \/ \E v \in Verdicts : Decide(j, v)

Spec == Init /\ [][Next]_avars
=============================================================================
