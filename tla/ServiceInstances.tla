-------------------------- MODULE ServiceInstances --------------------------
(***************************************************************************)
(* Several mdalarm processes and the one pid file they share (main.cpp):   *)
(* a service that is stopped and started again may find the file of a      *)
(* process that died, or meet a process that is not yet at its end.  The   *)
(* scripts that start and stop them are InitScript (src/mdalarmd) and      *)
(* InitScriptBak (src/mdalarmd.bak).                                       *)
(*                                                                         *)
(* main is reduced to its steps on the file; all of its startup after      *)
(* CreatePidFile is one step.  A process number may be used again once its *)
(* process is gone.                                                        *)
(***************************************************************************)
CONSTANTS
    Pids,    \* process numbers
    NoFile,  \* mdalarm.pid does not exist
    Empty    \* mdalarm.pid exists and is empty

ASSUME PidsAssumption == NoFile \notin Pids /\ Empty \notin Pids /\ NoFile # Empty

VARIABLES
    proc,        \* where each process is in main
    ServiceRun,  \* the flag of each process
    pidFile,     \* the text of mdalarm.pid
    linked,      \* the processes whose open descriptor is the file of that name
    abandoned    \* history: since the file was last removed, a process died with
                 \* it, or could not remove it

procVars == <<proc, ServiceRun, pidFile, linked, abandoned>>

Alive == {p \in Pids : proc[p] # "gone"}
WithFile == {"write", "startup", "run", "remove"}

ProcInit ==
    /\ proc = [p \in Pids |-> "gone"]
    /\ ServiceRun = [p \in Pids |-> TRUE]
    /\ pidFile \in Pids \cup {NoFile}
    /\ linked = {}
    /\ abandoned = (pidFile # NoFile)

-----------------------------------------------------------------------------
(* The steps of main. *)

At(p, from, to) == proc[p] = from /\ proc' = [proc EXCEPT ![p] = to]

(* exec of /usr/local/mdalarm/mdalarm: the statics are initialised. *)
Exec(p) ==
    /\ At(p, "gone", "boot")
    /\ ServiceRun' = [ServiceRun EXCEPT ![p] = TRUE]
    /\ UNCHANGED <<pidFile, linked, abandoned>>

(* signal(), then the log file, without which spdlog throws. *)
Boot(p) ==
    /\ At(p, "boot", "pid") \/ At(p, "boot", "gone")
    /\ UNCHANGED <<ServiceRun, pidFile, linked, abandoned>>

(* CreatePidFile returns -1: main clears the flag and goes on. *)
Fail_Ignored(p) == UNCHANGED ServiceRun
Fail(p) == ServiceRun' = [ServiceRun EXCEPT ![p] = FALSE]

AfterFailure_Return == "gone"
AfterFailure == "startup"

(* mkdir, open and ftruncate.  A failure leaves the file as it is, or has  *)
(* just created it.                                                        *)
OpenPidFile(p) ==
    /\ \/ /\ At(p, "pid", "write")
          /\ pidFile' = Empty /\ linked' = linked \cup {p}
          /\ UNCHANGED ServiceRun
       \/ /\ At(p, "pid", AfterFailure)
          /\ pidFile' \in {pidFile, IF pidFile = NoFile THEN Empty ELSE pidFile}
          /\ Fail(p) /\ UNCHANGED linked
    /\ UNCHANGED abandoned

(* The number is written and the descriptor closed.  A file that another   *)
(* process has removed since the open gets the number, but has no name.    *)
WritePid(p) ==
    /\ \/ /\ At(p, "write", "startup")
          /\ pidFile' = IF p \in linked THEN p ELSE pidFile
          /\ UNCHANGED ServiceRun
       \/ /\ At(p, "write", AfterFailure)
          /\ Fail(p) /\ UNCHANGED pidFile
    /\ linked' = linked \ {p}
    /\ UNCHANGED abandoned

(* Everything from ParseCsvData to SerialPort::Open. *)
Startup(p) ==
    /\ At(p, "startup", "run")
    /\ Fail(p) \/ UNCHANGED ServiceRun
    /\ UNCHANGED <<pidFile, linked, abandoned>>

(* The while ends, and the file is removed whoever has written it, or      *)
(* remove fails and main goes on.                                          *)
LeaveLoop(p) ==
    /\ ~ServiceRun[p] /\ At(p, "run", "remove")
    /\ UNCHANGED <<ServiceRun, pidFile, linked, abandoned>>

RemovePidFile(p) ==
    /\ At(p, "remove", "exit")
    /\ \/ /\ pidFile' = NoFile /\ linked' = {}
          /\ abandoned' = FALSE
       \/ /\ abandoned' = (abandoned \/ pidFile # NoFile)
          /\ UNCHANGED <<pidFile, linked>>
    /\ UNCHANGED ServiceRun

(* SerialPort::Close, DeinitialSDK and the end of main. *)
Exit(p) ==
    /\ At(p, "exit", "gone")
    /\ UNCHANGED <<ServiceRun, pidFile, linked, abandoned>>

-----------------------------------------------------------------------------
(* Ends that skip the rest of main. *)

Die(P) ==
    /\ proc' = [p \in Pids |-> IF p \in P THEN "gone" ELSE proc[p]]
    /\ linked' = linked \ P
    /\ abandoned' = (abandoned \/ \E p \in P : proc[p] \in WithFile)
    /\ UNCHANGED <<ServiceRun, pidFile>>

(* An exception nothing catches: of csv.h, or of PackMsgToAlarm. *)
Abort(p) == proc[p] \in {"startup", "run"} /\ Die({p})

(* SIGTERM: ProcessQuit clears the flag; before signal() it kills. *)
Terminate(P) ==
    /\ proc' = [p \in Pids |-> IF p \in P /\ proc[p] = "boot" THEN "gone" ELSE proc[p]]
    /\ ServiceRun' = [p \in Pids |-> ServiceRun[p] /\ ~(p \in P /\ proc[p] # "gone")]
    /\ UNCHANGED <<pidFile, linked, abandoned>>

Process(p) ==
    \/ Boot(p) \/ OpenPidFile(p) \/ WritePid(p) \/ Startup(p) \/ LeaveLoop(p)
    \/ RemovePidFile(p) \/ Exit(p) \/ Abort(p)

=============================================================================
