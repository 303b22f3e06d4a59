------------------------------ MODULE AlarmRing ------------------------------
(***************************************************************************)
(* The ring of motion alarms of HikDevOperate (HikDev.cpp) and the two     *)
(* threads that share it without a lock: the SDK thread that runs          *)
(* HikDevAlarmCallback and the main thread that polls the ring in the      *)
(* while (ServiceRun) loop of main.cpp.                                    *)
(*                                                                         *)
(*   source                          here                                  *)
(*   struAlarmMotionDetect[k].struAlarmDevInfo   slotDev[k]                *)
(*   struAlarmMotionDetect[k].AlarmTime          slotTime[k]               *)
(*   dwAlarmMotionDetectWr, ...Rd                Wr, Rd                    *)
(*                                                                         *)
(* Alarms are numbered 1, 2, ... in the order in which the callback        *)
(* records them, and a field of a slot holds the number of the alarm that  *)
(* wrote it: 0 is the zero-initialised memory, Garbage a half-copied       *)
(* structure or memory outside the array.  byChannel is not kept: nothing  *)
(* in the service reads it.                                                *)
(*                                                                         *)
(* The build has no optimisation (CXXFLAGS of the Makefiles), so every     *)
(* mention of Wr in the source is a memory access of its own, and each     *)
(* access is a step here.                                                  *)
(***************************************************************************)
EXTENDS Integers, Sequences

CONSTANTS
    ALARM_MOTION_DETECT_MAX,  \* slots of the ring (32 in HikDev.h)
    Word,                     \* 2^32: what a DWORD holds is 0 .. Word-1
    Events,                   \* what the SDK may pass to the callback
    MaxAlarms                 \* bound: motion alarms recorded in a behaviour

MAX == ALARM_MOTION_DETECT_MAX

ASSUME RingAssumption ==
    /\ ALARM_MOTION_DETECT_MAX \in Nat \ {0, 1}
    /\ Word \in Nat
    /\ Word > 2 * ALARM_MOTION_DETECT_MAX
    /\ MaxAlarms \in Nat

VARIABLES
    slotDev, slotTime, \* the ring
    Wr, Rd,            \* its two indices
    cb,                \* where the callback is
    pc,                \* where the main loop is
    ServiceRun,        \* the flag that SIGTERM clears
    ahead,             \* outcome of the test Wr >= Rd in HikDevGetAlarmNum
    uiAlarmNum, i,     \* size of the batch and position in it
    msg,               \* time and device read for the current alarm
    raised,            \* history: alarms recorded
    handled,           \* history: what the main loop took from the ring
    released,          \* history: alarms given back to a healthy ring
    overrun,           \* history: Wr has run into Rd
    torn,              \* history: the two reads of Wr straddled a wrap
    replayed           \* history: a wrap still pending was counted again

callbackVars == <<slotDev, slotTime, Wr, cb, raised, overrun>>
loopVars     == <<Rd, pc, ahead, uiAlarmNum, i, msg, handled, released, torn,
                  replayed>>
vars         == <<callbackVars, loopVars, ServiceRun>>

(* Three things break the ring: the write index runs into the read index   *)
(* (overrun); a wrap of Wr falls between the two reads of                  *)
(* HikDevGetAlarmNum (torn); HikDevGetAlarmNum sees Wr = MAX, before its   *)
(* reset to 0, when Rd has already gone round to 0 (replayed).             *)
Healthy == ~overrun /\ ~torn /\ ~replayed

Garbage == -1
NoMsg   == [time |-> 0, dev |-> 0]
Index   == 0 .. MAX - 1

-----------------------------------------------------------------------------
(* DWORD arithmetic on operands that are DWORDs already. *)

Plus(a, b)  == IF a + b >= Word THEN a + b - Word ELSE a + b
Minus(a, b) == IF a >= b THEN a - b ELSE a - b + Word

(* The number of slots from r up to w, going round. *)
Distance(r, w) == IF w >= r THEN w - r ELSE MAX - r + w

(* Subtracting MAX once, as both index computations of the code do. *)
Wrapped_OffByOne(k) == IF k > MAX THEN k - MAX ELSE k
Wrapped(k) == IF k >= MAX THEN k - MAX ELSE k

Init ==
    /\ slotDev = [k \in Index |-> 0]
    /\ slotTime = [k \in Index |-> 0]
    /\ Wr = 0 /\ Rd = 0
    /\ cb = "idle"
    /\ pc = "while"
    /\ ServiceRun = TRUE
    /\ ahead = FALSE
    /\ uiAlarmNum = 0 /\ i = 0
    /\ msg = NoMsg
    /\ raised = 0
    /\ handled = <<>>
    /\ released = 0
    /\ overrun = FALSE /\ torn = FALSE /\ replayed = FALSE

-----------------------------------------------------------------------------
(* The callback, on the SDK's thread.  It never looks at Rd. *)

(* What the two switches and the channel loop let through. *)
MotionEvent(e) ==
    /\ e.lCommand = "COMM_ALARM_V30"
    /\ e.dwAlarmType = 3
    /\ e.byChannel # {}

(* A call with a motion event starts to copy *pAlarmer into the slot; any  *)
(* other call returns without a trace.                                     *)
HikDevAlarmCallback(e) ==
    /\ cb = "idle"
    /\ IF MotionEvent(e)
       THEN /\ raised < MaxAlarms
            /\ slotDev' = [slotDev EXCEPT ![Wr] = Garbage]
            /\ cb' = "copy"
       ELSE UNCHANGED <<slotDev, cb>>
    /\ UNCHANGED <<slotTime, Wr, raised, overrun, loopVars, ServiceRun>>

CopyDone ==
    /\ cb = "copy"
    /\ slotDev' = [slotDev EXCEPT ![Wr] = raised + 1]
    /\ cb' = "time"
    /\ UNCHANGED <<slotTime, Wr, raised, overrun, loopVars, ServiceRun>>

StampTime ==
    /\ cb = "time"
    /\ slotTime' = [slotTime EXCEPT ![Wr] = raised + 1]
    /\ cb' = "bump"
    /\ UNCHANGED <<slotDev, Wr, raised, overrun, loopVars, ServiceRun>>

(* ++dwAlarmMotionDetectWr publishes the alarm ... *)
BumpWr_Early ==
    /\ cb = "time"
    /\ Wr' = Wr + 1
    /\ raised' = raised + 1
    /\ overrun' = (overrun \/ Distance(Rd, Wr) = MAX - 1)
    /\ cb' = "wrap"
    /\ UNCHANGED <<slotDev, slotTime, loopVars, ServiceRun>>
BumpWr ==
    /\ cb = "bump"
    /\ Wr' = Wr + 1
    /\ raised' = raised + 1
    /\ overrun' = (overrun \/ Distance(Rd, Wr) = MAX - 1)
    /\ cb' = "wrap"
    /\ UNCHANGED <<slotDev, slotTime, loopVars, ServiceRun>>

(* ... and the test that follows sets it to 0 at the end of the array. *)
WrapWr_OffByOne ==
    /\ cb = "wrap"
    /\ Wr' = IF Wr > MAX THEN 0 ELSE Wr
    /\ cb' = "idle"
    /\ UNCHANGED <<slotDev, slotTime, raised, overrun, loopVars, ServiceRun>>
WrapWr ==
    /\ cb = "wrap"
    /\ Wr' = IF Wr >= MAX THEN 0 ELSE Wr
    /\ cb' = "idle"
    /\ UNCHANGED <<slotDev, slotTime, raised, overrun, loopVars, ServiceRun>>

Callback ==
    \/ \E e \in Events : HikDevAlarmCallback(e)
    \/ CopyDone \/ StampTime \/ BumpWr \/ WrapWr

-----------------------------------------------------------------------------
(* The main loop.  Its locals are reset where they go out of scope. *)

(* The signal handler ProcessQuit. *)
Sigterm ==
    /\ ServiceRun
    /\ ServiceRun' = FALSE
    /\ UNCHANGED <<callbackVars, loopVars>>

While ==
    /\ pc = "while"
    /\ pc' = IF ServiceRun THEN "num" ELSE "stopped"
    /\ UNCHANGED <<Rd, ahead, uiAlarmNum, i, msg, handled, released, torn, replayed,
                   callbackVars, ServiceRun>>

(* HikDevGetAlarmNum reads Wr a first time to choose its branch ... *)
HikDevGetAlarmNum ==
    /\ pc = "num"
    /\ ahead' = (Wr >= Rd)
    /\ pc' = "num2"
    /\ UNCHANGED <<Rd, uiAlarmNum, i, msg, handled, released, torn, replayed,
                   callbackVars, ServiceRun>>

(* ... and a second time to compute its result; main sleeps on 0. *)
AlarmNum_NoWrap == Minus(Wr, Rd)
AlarmNum_OneSlotShort ==
    IF ahead THEN Minus(Wr, Rd) ELSE MAX - 1 - Rd + Wr
AlarmNum ==
    IF ahead THEN Minus(Wr, Rd) ELSE MAX - Rd + Wr

GetAlarmNumResult_Spin ==
    /\ pc = "num2"
    /\ uiAlarmNum' = AlarmNum
    /\ i' = 0
    /\ ahead' = FALSE
    /\ torn' = (torn \/ (ahead /\ Wr < Rd))
    /\ replayed' = (replayed \/ (Wr = MAX /\ Rd = 0))
    /\ pc' = IF AlarmNum = 0 THEN "num" ELSE "time"
    /\ UNCHANGED <<Rd, msg, handled, released, callbackVars, ServiceRun>>
GetAlarmNumResult ==
    /\ pc = "num2"
    /\ uiAlarmNum' = AlarmNum
    /\ i' = 0
    /\ ahead' = FALSE
    /\ torn' = (torn \/ (ahead /\ Wr < Rd))
    /\ replayed' = (replayed \/ (Wr = MAX /\ Rd = 0))
    /\ pc' = IF AlarmNum = 0 THEN "while" ELSE "time"
    /\ UNCHANGED <<Rd, msg, handled, released, callbackVars, ServiceRun>>

(* The slot both getters address: uiAlarmIdx += Rd, minus MAX once. *)
Slot == Wrapped(Plus(i, Rd))

HikDevGetAlarmDateTime ==
    /\ pc = "time"
    /\ \/ /\ Slot < MAX
          /\ msg' = [msg EXCEPT !.time = slotTime[Slot]]
          /\ pc' = "ip"
       \/ /\ Slot >= MAX            \* outside the array: any value, or a fault
          /\ msg' = [msg EXCEPT !.time = Garbage]
          /\ pc' \in {"ip", "crashed"}
    /\ UNCHANGED <<Rd, ahead, uiAlarmNum, i, handled, released, torn, replayed,
                   callbackVars, ServiceRun>>

HikDevGetAlarmIp ==
    /\ pc = "ip"
    /\ \/ /\ Slot < MAX
          /\ msg' = [msg EXCEPT !.dev = slotDev[Slot]]
          /\ pc' = "send"
       \/ /\ Slot >= MAX
          /\ msg' = [msg EXCEPT !.dev = Garbage]
          /\ pc' \in {"send", "crashed"}
    /\ UNCHANGED <<Rd, ahead, uiAlarmNum, i, handled, released, torn, replayed,
                   callbackVars, ServiceRun>>

(* The rest of the for body: the alarm is looked up and its messages sent, *)
(* or it is skipped by one of the continues; either way it is done with.   *)
(* A broken ring may be handled for ever, so the history stops one alarm   *)
(* past MaxAlarms.                                                         *)
Recorded(m) == IF Len(handled) <= MaxAlarms THEN Append(handled, m) ELSE handled

Dispatch_Resample ==
    /\ pc = "send"
    /\ handled' = Recorded(msg)
    /\ i' = i + 1
    /\ msg' = NoMsg
    /\ pc' = IF i + 1 < uiAlarmNum /\ ServiceRun THEN "time" ELSE "release"
    /\ UNCHANGED <<Rd, ahead, uiAlarmNum, released, torn, replayed,
                   callbackVars, ServiceRun>>
Dispatch ==
    /\ pc = "send"
    /\ handled' = Recorded(msg)
    /\ i' = i + 1
    /\ msg' = NoMsg
    /\ pc' = IF i + 1 < uiAlarmNum THEN "time" ELSE "release"
    /\ UNCHANGED <<Rd, ahead, uiAlarmNum, released, torn, replayed,
                   callbackVars, ServiceRun>>

HikDevSetAlarmIdxOffset ==
    /\ pc = "release"
    /\ Rd' = Wrapped(Plus(Rd, uiAlarmNum))
    /\ released' = IF Healthy THEN released + uiAlarmNum ELSE released
    /\ uiAlarmNum' = 0 /\ i' = 0
    /\ pc' = "while"
    /\ UNCHANGED <<ahead, msg, handled, torn, replayed,
                   callbackVars, ServiceRun>>

MainLoop ==
    \/ While
    \/ HikDevGetAlarmNum \/ GetAlarmNumResult
    \/ HikDevGetAlarmDateTime \/ HikDevGetAlarmIp \/ Dispatch
    \/ HikDevSetAlarmIdxOffset

Next == Callback \/ MainLoop \/ Sigterm

(* The kernel keeps scheduling the main thread, whose sleeps end; nothing  *)
(* is assumed of the SDK's thread or of whoever sends SIGTERM.             *)
Spec == Init /\ [][Next]_vars /\ WF_vars(MainLoop)

-----------------------------------------------------------------------------
(* Properties. *)

InBatch == pc \in {"time", "ip", "send", "release"}

(* Type invariant.  Wr reaches MAX only between ++Wr and the reset to 0;   *)
(* Rd is allowed MAX, where HikDevSetAlarmIdxOffset leaves it when the     *)
(* callback laps the ring between the two reads of Wr.                     *)
TypeOK ==
    /\ slotDev \in [Index -> Nat \cup {Garbage}]
    /\ slotTime \in [Index -> Nat]
    /\ Wr \in 0 .. MAX
    /\ Rd \in 0 .. MAX
    /\ cb \in {"idle", "copy", "time", "bump", "wrap"}
    /\ pc \in {"while", "num", "num2", "time", "ip", "send", "release",
               "stopped", "crashed"}
    /\ ServiceRun \in BOOLEAN
    /\ ahead \in BOOLEAN
    /\ uiAlarmNum \in 0 .. Word - 1
    /\ i \in 0 .. Word - 1
    /\ msg \in [time : Int, dev : Int]
    /\ raised \in 0 .. MaxAlarms
    /\ handled \in Seq([time : Int, dev : Int])
    /\ released \in Nat
    /\ overrun \in BOOLEAN
    /\ torn \in BOOLEAN
    /\ replayed \in BOOLEAN

(* The callback always stores into struAlarmMotionDetect, never past its   *)
(* end, however far the main loop has fallen behind.                       *)
WriteInBounds == cb # "wrap" => Wr < MAX

(* The main loop reads outside the array, and may fault there, only after  *)
(* a torn count: an overrun or a replay alone never makes it do so.        *)
ReadInBounds ==
    ~torn => /\ pc # "crashed"
             /\ pc \in {"time", "ip"} => Slot < MAX

(* The alarms leave the ring in the order in which they were recorded,     *)
(* each once, and the time and the device put in a message belong to the   *)
(* same alarm although two getters read them at different moments.         *)
Fifo ==
    Healthy => \A k \in DOMAIN handled : handled[k] = [time |-> k, dev |-> k]

(* What the two indices say is in the ring is what is in the ring: the     *)
(* alarms recorded and not yet released, a wrap in progress included.      *)
Backlog == Healthy => raised - released = Distance(Rd, Wrapped(Wr))

(* The batch is what was in the ring when HikDevGetAlarmNum counted it:    *)
(* the races called torn and replayed are the only ways to miscount.       *)
CountIsBacklog ==
    [][(pc = "num2" /\ pc' # pc /\ Healthy') => uiAlarmNum' = raised - released]_vars

(* The loop goes to sleep only when every alarm recorded has been handled. *)
SleepsOnlyWhenEmpty ==
    [][(pc = "num2" /\ pc' = "while" /\ Healthy') => raised = Len(handled)]_vars

(* SIGTERM never cuts a batch short: when the loop ends, the alarms it has *)
(* handled are those it has released.                                      *)
StopKeepsBatch == Healthy /\ pc = "stopped" => Len(handled) = released

(* An alarm that was recorded is handled in the end, unless the ring broke *)
(* or the service was told to stop.                                        *)
AlarmsAreHandled ==
    \A n \in 1 .. MaxAlarms :
        (raised >= n) ~> (Len(handled) >= n \/ ~Healthy \/ ~ServiceRun)

(* After SIGTERM the loop ends, however many alarms keep arriving.         *)
SigtermStops == ~ServiceRun ~> pc \in {"stopped", "crashed"}

(* What README.md promises, "an alarm function while ipc device of         *)
(* hikvison detect motion": every motion alarm recorded is handled while   *)
(* the service runs.                                                       *)
EveryMotionIsHandled ==
    \A n \in 1 .. MaxAlarms :
        (raised >= n) ~> (Len(handled) >= n \/ ~ServiceRun)

(* The same promise from the other side: no alarm without a motion, that   *)
(* is, on a ring that was never overrun, nothing is handled that was not   *)
(* recorded or was handled before.                                         *)
NoPhantomAlarm ==
    ~overrun => \A k \in DOMAIN handled : handled[k].dev = k

(* Seen from outside, and until it breaks, the ring with its two unlocked  *)
(* indices is a first-in first-out queue of MAX - 1 alarms, one fewer than *)
(* it has slots.                                                           *)
Queue == INSTANCE AlarmQueue WITH Capacity <- MAX - 1, healthy <- Healthy
ImplementsQueue == Queue!Spec

=============================================================================
