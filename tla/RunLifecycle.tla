---------------------------- MODULE RunLifecycle ----------------------------
(***************************************************************************)
(* What an AgentRun promises the clients that watch it (the workflow        *)
(* controller, a UI, kubectl wait): its phase only moves forward, Running   *)
(* is one-way, an outcome is final until the object is removed, and success *)
(* is only ever declared for an agent that finished its work.               *)
(***************************************************************************)
VARIABLES
    state,    \* "absent", or the phase of the run
    worked    \* an agent of this run has exited 0

lifecycleVars == <<state, worked>>

Init ==
    /\ state = "Pending"
    /\ worked = FALSE

Start ==
    /\ state = "Pending"
    /\ state' = "Running"
    /\ UNCHANGED worked

Work ==
    /\ worked' = TRUE
    /\ UNCHANGED state

Succeed ==
    /\ state \in {"Pending", "Running"} /\ worked
    /\ state' = "Succeeded"
    /\ UNCHANGED worked

Fail ==
    /\ state \in {"Pending", "Running"}
    /\ state' = "Failed"
    /\ UNCHANGED worked

Remove ==
    /\ state # "absent"
    /\ state' = "absent"
    /\ worked' = FALSE

Next == Start \/ Work \/ Succeed \/ Fail \/ Remove

Spec == Init /\ [][Next]_lifecycleVars

=============================================================================
