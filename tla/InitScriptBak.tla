--------------------------- MODULE InitScriptBak ---------------------------
(***************************************************************************)
(* src/mdalarmd.bak, an init script that finds the service by its pid      *)
(* file: start puts a process in the background, stop sends SIGTERM to the *)
(* number in the file and says so, without waiting for the process to end. *)
(* It is used with care: start only after a stop has been reported or the  *)
(* service has died, stop only on a service that runs.                     *)
(***************************************************************************)
EXTENDS ServiceInstances

VARIABLES
    script,   \* stopped (and reported), started, or kill: between cat and kill
    pidStr,   \* what cat has read
    upAtStop  \* history: the services that were running when stop was called

vars == <<procVars, script, pidStr, upAtStop>>

Init ==
    /\ ProcInit
    /\ script = "stopped" /\ pidStr = Empty /\ upAtStop = {}

start(p) ==
    /\ (script = "stopped" \/ Alive = {}) /\ script' = "started"
    /\ Exec(p)
    /\ UNCHANGED <<pidStr, upAtStop>>

(* pidStr=$(cat ...): without a file it is empty. *)
stop ==
    /\ script = "started" /\ script' = "kill"
    /\ pidStr' = IF pidFile = NoFile THEN Empty ELSE pidFile
    /\ upAtStop' = {p \in Pids : proc[p] = "run" /\ ServiceRun[p]} /\ upAtStop' # {}
    /\ UNCHANGED procVars

(* kill -15 $pidStr and the echo after it, whatever kill answers. *)
kill ==
    /\ script = "kill" /\ script' = "stopped"
    /\ Terminate({pidStr})
    /\ UNCHANGED <<pidStr, upAtStop>>

Next ==
    \/ \E p \in Pids : start(p)
    \/ stop
    \/ kill
    \/ \E p \in Pids : Process(p) /\ UNCHANGED <<script, pidStr, upAtStop>>

Spec == Init /\ [][Next]_vars

-----------------------------------------------------------------------------

(* What the script says when it is done, "stop mdalarmd service": the      *)
(* services that were running when it was called are stopping.             *)
StopIsTold ==
    script = "stopped" => \A p \in upAtStop : proc[p] = "run" => ~ServiceRun[p]

=============================================================================
