-------------------------- MODULE ServiceLifecycle --------------------------
(***************************************************************************)
(* What a service process promises the service control manager and the     *)
(* user's service object: the state the manager shows, and the callback    *)
(* (start, pause, resume, stop) the service object ran last.  A pending    *)
(* state is shown before the callback runs, and the state that follows it  *)
(* only after the callback has run; a shutdown of the system stops the     *)
(* service without showing a pending state.                                *)
(***************************************************************************)
VARIABLES state, app, shutdown

vars == <<state, app, shutdown>>

Init == state = "STOPPED" /\ app = "none" /\ shutdown = FALSE

Live == {"RUNNING", "PAUSE_PENDING", "PAUSED", "CONTINUE_PENDING"}

Launch ==
    /\ state = "STOPPED" /\ app = "none"
    /\ state' = "START_PENDING" /\ UNCHANGED <<app, shutdown>>

\* The callback a pending state announces.
Run(pending, callback) ==
    /\ state = pending
    /\ app' = callback /\ UNCHANGED <<state, shutdown>>

RunStart  == app = "none" /\ Run("START_PENDING", "started")
RunPause  == app \in {"started", "paused"} /\ Run("PAUSE_PENDING", "paused")
RunResume == app \in {"started", "paused"} /\ Run("CONTINUE_PENDING", "started")
RunStop   == app \in {"started", "paused"} /\ Run("STOP_PENDING", "stopped")

\* The state that follows a pending one, once its callback has run.
Complete(pending, callback, final) ==
    /\ state = pending /\ app = callback
    /\ state' = final /\ UNCHANGED <<app, shutdown>>

Completed ==
    \/ Complete("START_PENDING", "started", "RUNNING")
    \/ Complete("PAUSE_PENDING", "paused", "PAUSED")
    \/ Complete("CONTINUE_PENDING", "started", "RUNNING")

\* A control of the manager is acknowledged by a pending state.
Request ==
    /\ state \in {"RUNNING", "PAUSED"} /\ ~ shutdown
    /\ state' \in {"PAUSE_PENDING", "CONTINUE_PENDING", "STOP_PENDING"}
    /\ UNCHANGED <<app, shutdown>>

\* SHUTDOWN: stop() runs in the state the service is in.
Shutdown ==
    /\ state \in Live /\ ~ shutdown
    /\ shutdown' = TRUE /\ UNCHANGED <<state, app>>

RunShutdown ==
    /\ shutdown /\ state \in Live /\ app \in {"started", "paused"}
    /\ app' = "stopped" /\ UNCHANGED <<state, shutdown>>

\* STOPPED is shown once, after stop() has run.
Stop ==
    /\ app = "stopped" /\ state # "STOPPED"
    /\ state' = "STOPPED" /\ UNCHANGED <<app, shutdown>>

Next ==
    \/ Launch \/ RunStart \/ RunPause \/ RunResume \/ RunStop
    \/ Completed \/ Request \/ Shutdown \/ RunShutdown \/ Stop

Spec == Init /\ [][Next]_vars
=============================================================================
