----------------------------- MODULE InitScript -----------------------------
(***************************************************************************)
(* src/mdalarmd, the init script: start, stop and restart of the service.  *)
(* daemon and killproc are functions of the system.  killproc finds the    *)
(* processes by their name, sends them SIGTERM, and SIGKILL to those that  *)
(* are left when it has waited; it returns when none is left.  Nothing     *)
(* keeps start from being called while the service runs.                   *)
(***************************************************************************)
EXTENDS ServiceInstances

VARIABLES
    script,     \* idle, stop or restart: waiting for the processes to end; start
    overlapped  \* history: a process was started while another one was there

vars == <<procVars, script, overlapped>>

Init ==
    /\ ProcInit
    /\ script = "idle" /\ overlapped = FALSE

Start(p) ==
    /\ script \in {"idle", "start"} /\ script' = "idle"
    /\ Exec(p)
    /\ overlapped' = (Alive # {})

Stop(to) ==
    /\ script = "idle" /\ script' = to
    /\ Terminate(Alive)
    /\ UNCHANGED overlapped

(* The wait of killproc ends because all processes have, or by SIGKILL.    *)
(* restart goes on with start.                                             *)
AfterStop == script' = IF script = "restart" THEN "start" ELSE "idle"

StopEnds ==
    /\ script \in {"stop", "restart"}
    /\ Alive = {}
    /\ AfterStop
    /\ UNCHANGED <<procVars, overlapped>>

StopKills ==
    /\ script \in {"stop", "restart"}
    /\ Alive # {}
    /\ Die(Alive)
    /\ AfterStop
    /\ UNCHANGED overlapped

Next ==
    \/ \E p \in Pids : Start(p)
    \/ \E to \in {"stop", "restart"} : Stop(to)
    \/ StopEnds
    \/ StopKills
    \/ \E p \in Pids : Process(p) /\ UNCHANGED <<script, overlapped>>

Spec == Init /\ [][Next]_vars

-----------------------------------------------------------------------------
(* Properties. *)

(* A service that runs is named by the pid file, whatever file an earlier  *)
(* process left behind, and through any number of stops and restarts that  *)
(* catch it at any step of main, unless it was started on top of another:  *)
(* CreatePidFile takes over a stale file, a process that could not write   *)
(* its number does not run, and no process started before removes it.      *)
PidFileNamesService ==
    ~overlapped =>
        \A p \in Pids : proc[p] = "run" /\ ServiceRun[p] => pidFile = p

(* A pid file without a process that is going to remove it is left by a    *)
(* crash, or a failed remove, since the last removal: no failure of        *)
(* CreatePidFile or of the startup, no SIGTERM and no overlap of two       *)
(* services leaves one.                                                    *)
StaleFileIsAbandoned ==
    pidFile # NoFile /\ ~abandoned => \E p \in Pids : proc[p] \in WithFile

=============================================================================
