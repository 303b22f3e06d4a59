-------------------------- MODULE InitScriptProofs --------------------------
(***************************************************************************)
(* For any set of process numbers: under src/mdalarmd the pid file names   *)
(* the service that runs, and only a crash, or a remove that failed,       *)
(* leaves one behind.                                                      *)
(***************************************************************************)
EXTENDS InitScript, TLAPS

(* The types. *)
TypeInv ==
    /\ proc \in [Pids -> {"gone", "boot", "pid", "write", "startup", "run", "remove", "exit"}]
    /\ ServiceRun \in [Pids -> BOOLEAN]
    /\ pidFile \in Pids \cup {NoFile, Empty}
    /\ linked \subseteq Pids
    /\ abandoned \in BOOLEAN /\ overlapped \in BOOLEAN

(* Services started one at a time are there one at a time, ... *)
OneAtATime == ~overlapped => \A p, q \in Pids : proc[p] # "gone" /\ proc[q] # "gone" => p = q

(* ... so nobody removes the file between the open and the write, ... *)
OpenIsLinked == ~overlapped => \A p \in Pids : proc[p] = "write" => p \in linked

(* ... and from the write on it has the number of a service that goes on. *)
StartedIsNamed ==
    ~overlapped =>
        \A p \in Pids : proc[p] \in {"startup", "run"} /\ ServiceRun[p] => pidFile = p

(* The inductive invariant. *)
IInv == TypeInv /\ OneAtATime /\ OpenIsLinked /\ StartedIsNamed /\ StaleFileIsAbandoned

USE DEF At, Alive, WithFile

-----------------------------------------------------------------------------

(* At the start there is no process, and a file is an abandoned one. *)
LEMMA InitIInv == Init => IInv
  BY DEF Init, ProcInit, IInv, TypeInv, OneAtATime, OpenIsLinked, StartedIsNamed,
         StaleFileIsAbandoned

(* A step of main keeps the invariant. *)
LEMMA ProcessIInv ==
    ASSUME IInv, NEW p \in Pids, Process(p), UNCHANGED <<script, overlapped>>
    PROVE  IInv'
<1> USE DEF IInv, TypeInv, OneAtATime, OpenIsLinked, StartedIsNamed, StaleFileIsAbandoned
<1>1. CASE Boot(p)
  BY <1>1 DEF Boot
<1>2. CASE OpenPidFile(p)
  <2>1. TypeInv'
    BY <1>2, PidsAssumption DEF OpenPidFile, Fail, AfterFailure
  <2>2. OneAtATime' /\ OpenIsLinked'
    BY <1>2 DEF OpenPidFile, Fail, AfterFailure
  <2>3. StartedIsNamed'
    BY <1>2 DEF OpenPidFile, Fail, AfterFailure
  <2>4. StaleFileIsAbandoned'
    BY <1>2 DEF OpenPidFile, Fail, AfterFailure
  <2>5. QED  BY <2>1, <2>2, <2>3, <2>4
<1>3. CASE WritePid(p)
  <2>1. TypeInv' /\ OneAtATime' /\ OpenIsLinked'
    <3>1. TypeInv'
      BY <1>3 DEF WritePid, Fail, AfterFailure
    <3>2. OneAtATime'
      BY <1>3 DEF WritePid, Fail, AfterFailure
    <3>3. OpenIsLinked'
      BY <1>3 DEF WritePid, Fail, AfterFailure
    <3> QED BY <3>1, <3>2, <3>3
  <2>2. StartedIsNamed'
    BY <1>3 DEF WritePid, Fail, AfterFailure
  <2>3. StaleFileIsAbandoned'
    BY <1>3 DEF WritePid, Fail, AfterFailure
  <2>4. QED  BY <2>1, <2>2, <2>3
<1>4. CASE Startup(p)
  BY <1>4 DEF Startup, Fail
<1>5. CASE LeaveLoop(p)
  BY <1>5 DEF LeaveLoop
<1>6. CASE RemovePidFile(p)
  BY <1>6 DEF RemovePidFile
<1>7. CASE Exit(p)
  BY <1>7 DEF Exit
<1>8. CASE Abort(p)
  BY <1>8 DEF Abort, Die
<1>9. QED
  BY <1>1, <1>2, <1>3, <1>4, <1>5, <1>6, <1>7, <1>8 DEF Process

(* So does a step of the script. *)
LEMMA ScriptIInv ==
    ASSUME IInv,
           \/ \E p \in Pids : Start(p)
           \/ \E to \in {"stop", "restart"} : Stop(to)
           \/ StopEnds \/ StopKills
    PROVE  IInv'
<1> USE DEF IInv, TypeInv, OneAtATime, OpenIsLinked, StartedIsNamed, StaleFileIsAbandoned
<1>1. ASSUME NEW p \in Pids, Start(p) PROVE IInv'
  BY <1>1 DEF Start, Exec
<1>2. ASSUME NEW to \in {"stop", "restart"}, Stop(to) PROVE IInv'
  BY <1>2 DEF Stop, Terminate
<1>3. CASE StopEnds
  BY <1>3 DEF StopEnds, procVars
<1>4. CASE StopKills
  BY <1>4 DEF StopKills, Die
<1>5. QED
  BY <1>1, <1>2, <1>3, <1>4

(* So it is an invariant. *)
LEMMA Inductive == Spec => []IInv
<1>1. IInv /\ [Next]_vars => IInv'
  <2> SUFFICES ASSUME IInv, [Next]_vars PROVE IInv'
    OBVIOUS
  <2>1. CASE UNCHANGED vars
    BY <2>1 DEF vars, procVars, IInv, TypeInv, OneAtATime, OpenIsLinked, StartedIsNamed,
                StaleFileIsAbandoned
  <2>2. CASE Next
    BY <2>2, ProcessIInv, ScriptIInv DEF Next
  <2>3. QED  BY <2>1, <2>2
<1>2. QED
  BY InitIInv, <1>1, PTL DEF Spec

(* However often the service is stopped, killed or restarted, and at       *)
(* whatever step of main, the pid file names the one that runs.            *)
THEOREM PidFileCorrect == Spec => []PidFileNamesService
<1>1. IInv => PidFileNamesService
  BY DEF IInv, StartedIsNamed, PidFileNamesService
<1>2. QED
  BY Inductive, <1>1, PTL

(* A pid file that no process is going to remove was left by a crash, or   *)
(* by a process whose remove failed.                                       *)
THEOREM StaleFileCorrect == Spec => []StaleFileIsAbandoned
<1>1. IInv => StaleFileIsAbandoned
  BY DEF IInv
<1>2. QED
  BY Inductive, <1>1, PTL

=============================================================================
