--------------------------- MODULE AlarmRingProofs ---------------------------
(***************************************************************************)
(* Proofs about AlarmRing, for a ring of any size, any DWORD of more than  *)
(* twice that size, any events and any number of alarms.                   *)
(*                                                                         *)
(* Two invariants are established in turn.  SafeInv holds of every state,  *)
(* also after the ring has broken, and bounds the indices; DataInv, on top *)
(* of it, says what the slots, the counters and the locals of the main     *)
(* loop hold while the ring is healthy.                                    *)
(***************************************************************************)
EXTENDS AlarmRing, TLAPS

(* The batch in hand can be released into a legal read index, and, unless  *)
(* its count was torn, ends at most one lap past the end of the array.     *)
BatchBounds ==
    /\ InBatch => /\ Wrapped(Plus(Rd, uiAlarmNum)) \in 0 .. MAX
                  /\ ~torn => Rd + uiAlarmNum <= 2 * MAX
    /\ pc \in {"time", "ip", "send"} => i < uiAlarmNum
    /\ pc = "crashed" => torn
    /\ cb \in {"copy", "time", "bump"} => raised < MaxAlarms

(* The bounds. *)
SafeInv == TypeOK /\ WriteInBounds /\ BatchBounds

(* The slots from Rd on hold the alarms recorded and not yet released, in  *)
(* order; the slot being written holds what the callback has stored so far.*)
SlotsInv ==
    /\ \A d \in 0 .. raised - released - 1 :
          /\ slotDev[Wrapped(Rd + d)] = released + 1 + d
          /\ slotTime[Wrapped(Rd + d)] = released + 1 + d
    /\ cb \in {"time", "bump"} => slotDev[Wr] = raised + 1
    /\ cb = "bump" => slotTime[Wr] = raised + 1

(* Where the main loop is in its batch and what it has read. *)
LoopInv ==
    /\ pc # "crashed"
    /\ pc = "num2" /\ ~ahead => Wr < Rd
    /\ pc = "release" => i = uiAlarmNum /\ uiAlarmNum > 0
    /\ InBatch => /\ uiAlarmNum <= raised - released
                  /\ Len(handled) = released + i
    /\ ~InBatch => Len(handled) = released
    /\ pc \in {"ip", "send"} => msg.time = released + i + 1
    /\ pc = "send" => msg.dev = released + i + 1

(* The distance of the indices is the number of alarms in the ring. *)
IndexInv ==
    /\ Rd < MAX
    /\ raised - released = Distance(Rd, Wrapped(Wr))

(* The alarms are handled in order, each with its own device. *)
HandledInv == \A k \in DOMAIN handled : handled[k] = [time |-> k, dev |-> k]

(* What holds while the service is healthy. *)
DataInv == Healthy => IndexInv /\ SlotsInv /\ LoopInv /\ HandledInv

(* The inductive invariant. *)
Inv == SafeInv /\ DataInv

-----------------------------------------------------------------------------
(* Facts about the index arithmetic. *)

(* Going one slot further is one alarm more, up to a full ring. *)
LEMMA DistanceStep ==
    ASSUME NEW r \in Index, NEW w \in Index, Distance(r, w) # MAX - 1
    PROVE  Distance(r, Wrapped(w + 1)) = Distance(r, w) + 1
BY RingAssumption DEF Distance, Wrapped, Index, MAX

(* The write index is the slot that follows the alarms in the ring, and no *)
(* slot before it is the one the callback writes.                          *)
LEMMA WriteSlotIsFree ==
    ASSUME NEW r \in Index, NEW w \in Index
    PROVE  /\ Distance(r, w) \in 0 .. MAX - 1
           /\ Wrapped(r + Distance(r, w)) = w
           /\ \A d \in 0 .. Distance(r, w) - 1 :
                 Wrapped(r + d) \in Index /\ Wrapped(r + d) # w
BY RingAssumption DEF Distance, Wrapped, Index, MAX

(* Whatever HikDevGetAlarmNum computes, the indices stay legal. *)
LEMMA CountBounds ==
    ASSUME NEW r \in 0 .. MAX, NEW w \in 0 .. MAX
    PROVE  /\ Minus(w, r) \in 0 .. Word - 1
           /\ Wrapped(Plus(r, Minus(w, r))) \in 0 .. MAX
           /\ w >= r => r + Minus(w, r) <= 2 * MAX
           /\ MAX - r + w \in 0 .. Word - 1
           /\ Wrapped(Plus(r, MAX - r + w)) \in 0 .. MAX
           /\ r + (MAX - r + w) <= 2 * MAX
BY RingAssumption DEF Minus, Plus, Wrapped, MAX

(* A getter called with an index of the batch addresses a slot of the      *)
(* array, unless the count was torn.                                       *)
LEMMA SlotBounds ==
    ASSUME i \in 0 .. Word - 1, Rd \in 0 .. MAX
    PROVE  /\ Slot \in Nat
           /\ Slot < MAX => Slot \in Index
           /\ i + Rd < 2 * MAX => Slot \in Index
BY RingAssumption DEF Slot, Plus, Wrapped, Index, MAX

(* Giving back the first n alarms moves the read index n slots on. *)
LEMMA ReleaseStep ==
    ASSUME NEW r \in Index, NEW w \in Index, NEW n \in 0 .. Distance(r, w)
    PROVE  /\ Wrapped(Plus(r, n)) \in Index
           /\ Distance(Wrapped(Plus(r, n)), w) = Distance(r, w) - n
           /\ \A d \in 0 .. Distance(r, w) - n - 1 :
                 Wrapped(Wrapped(Plus(r, n)) + d) = Wrapped(r + n + d)
BY RingAssumption DEF Distance, Wrapped, Plus, Index, MAX

-----------------------------------------------------------------------------
(* SafeInv, the invariant that survives every race. *)

(* A ring that is not used yet. *)
LEMMA InitSafe == Init => SafeInv
BY RingAssumption DEF Init, SafeInv, TypeOK, WriteInBounds, BatchBounds, InBatch,
   Index, MAX, NoMsg, Garbage

(* Every step keeps the bounds. *)
LEMMA NextSafe == SafeInv /\ [Next]_vars => SafeInv'
<1> SUFFICES ASSUME SafeInv, [Next]_vars PROVE SafeInv'
    OBVIOUS
<1> USE RingAssumption DEF SafeInv
<1>1. ASSUME NEW e \in Events, HikDevAlarmCallback(e) PROVE SafeInv'
  BY <1>1 DEF HikDevAlarmCallback, TypeOK, WriteInBounds, BatchBounds, InBatch,
     Index, MAX, Garbage, loopVars
<1>2. CASE CopyDone
  <2>1. TypeOK'
    BY <1>2 DEF CopyDone, TypeOK, WriteInBounds, BatchBounds, Index, MAX, Garbage, loopVars
  <2>2. WriteInBounds'
    BY <1>2 DEF CopyDone, TypeOK, WriteInBounds, MAX
  <2>3. BatchBounds'
    BY <1>2 DEF CopyDone, BatchBounds, InBatch, loopVars
  <2> QED
    BY <2>1, <2>2, <2>3
<1>3. CASE StampTime
  <2>1. TypeOK'
    BY <1>3 DEF StampTime, TypeOK, WriteInBounds, BatchBounds, Index, MAX, Garbage, loopVars
  <2>2. WriteInBounds'
    BY <1>3 DEF StampTime, TypeOK, WriteInBounds, MAX
  <2>3. BatchBounds'
    BY <1>3 DEF StampTime, BatchBounds, InBatch, loopVars
  <2> QED
    BY <2>1, <2>2, <2>3
<1>4. CASE BumpWr
  <2>1. TypeOK'
    BY <1>4 DEF BumpWr, TypeOK, WriteInBounds, BatchBounds, Index, MAX, Garbage, loopVars
  <2>2. WriteInBounds'
    BY <1>4 DEF BumpWr, TypeOK, WriteInBounds, MAX
  <2>3. BatchBounds'
    BY <1>4 DEF BumpWr, BatchBounds, InBatch, loopVars
  <2> QED
    BY <2>1, <2>2, <2>3
<1>5. CASE WrapWr
  <2>1. TypeOK'
    BY <1>5 DEF WrapWr, TypeOK, WriteInBounds, BatchBounds, Index, MAX, Garbage, loopVars
  <2>2. WriteInBounds'
    BY <1>5 DEF WrapWr, TypeOK, WriteInBounds, MAX
  <2>3. BatchBounds'
    BY <1>5 DEF WrapWr, BatchBounds, InBatch, loopVars
  <2> QED
    BY <2>1, <2>2, <2>3
<1>6. CASE Sigterm
  <2>1. TypeOK'
    BY <1>6 DEF Sigterm, TypeOK, callbackVars, loopVars
  <2>2. WriteInBounds'
    BY <1>6 DEF Sigterm, WriteInBounds, MAX, callbackVars
  <2>3. BatchBounds'
    BY <1>6 DEF Sigterm, BatchBounds, InBatch, MAX, callbackVars, loopVars
  <2> QED
    BY <2>1, <2>2, <2>3
<1>7. CASE While
  <2>1. TypeOK'
    BY <1>7 DEF While, TypeOK, callbackVars
  <2>2. WriteInBounds'
    BY <1>7 DEF While, WriteInBounds, MAX, callbackVars
  <2>3. BatchBounds'
    BY <1>7 DEF While, BatchBounds, InBatch, MAX, callbackVars
  <2> QED
    BY <2>1, <2>2, <2>3
<1>8. CASE HikDevGetAlarmNum
  <2>1. TypeOK'
    BY <1>8 DEF HikDevGetAlarmNum, TypeOK, callbackVars
  <2>2. WriteInBounds'
    BY <1>8 DEF HikDevGetAlarmNum, WriteInBounds, MAX, callbackVars
  <2>3. BatchBounds'
    BY <1>8 DEF HikDevGetAlarmNum, BatchBounds, InBatch, MAX, callbackVars
  <2> QED
    BY <2>1, <2>2, <2>3
<1>9. CASE GetAlarmNumResult
  <2>1. Wr \in 0 .. MAX /\ Rd \in 0 .. MAX
    BY DEF TypeOK
  <2>2. /\ AlarmNum \in 0 .. Word - 1
        /\ Wrapped(Plus(Rd, AlarmNum)) \in 0 .. MAX
    BY <2>1, CountBounds DEF AlarmNum
  <2>3. ~(ahead /\ Wr < Rd) => Rd + AlarmNum <= 2 * MAX
    BY <2>1, CountBounds DEF AlarmNum, MAX
  <2>4. /\ ~torn' => ~(ahead /\ Wr < Rd)
        /\ torn' \in BOOLEAN /\ replayed' \in BOOLEAN /\ ahead' \in BOOLEAN
        /\ torn => torn'
    BY <1>9, Zenon DEF GetAlarmNumResult, TypeOK
  <2>5. /\ uiAlarmNum' = AlarmNum /\ i' = 0 /\ pc = "num2"
        /\ pc' = IF AlarmNum = 0 THEN "while" ELSE "time"
        /\ UNCHANGED <<Rd, msg, handled, released, slotDev, slotTime, Wr, cb,
                      raised, overrun, ServiceRun>>
    BY <1>9 DEF GetAlarmNumResult, callbackVars
  <2>6. TypeOK'
    BY <2>2, <2>4, <2>5 DEF TypeOK, Index, MAX
  <2>7. WriteInBounds'
    BY <2>5 DEF WriteInBounds
  <2>8. BatchBounds'
    BY <2>2, <2>3, <2>4, <2>5 DEF BatchBounds, InBatch
  <2> QED
    BY <2>6, <2>7, <2>8
<1>10. CASE HikDevGetAlarmDateTime
  <2>1. pc = "time" /\ pc' \in {"ip", "crashed"}
        /\ (pc' = "crashed" => Slot >= MAX)
    BY <1>10 DEF HikDevGetAlarmDateTime
  <2>2. pc' = "crashed" => torn
    BY <2>1, SlotBounds DEF TypeOK, BatchBounds, InBatch, MAX, Index
  <2>3. msg' \in [time : Int, dev : Int]
    <3>1. PICK v : v \in {slotTime[Slot], Garbage} /\ (Slot < MAX \/ v = Garbage)
                   /\ msg' = [msg EXCEPT !.time = v]
      BY <1>10 DEF HikDevGetAlarmDateTime
    <3>2. v \in Int
      <4>1. Slot < MAX => slotTime[Slot] \in Int
        <5>1. Slot \in Nat
          BY <2>1, SlotBounds DEF TypeOK, BatchBounds, InBatch
        <5> QED
          BY <5>1 DEF TypeOK, Index, MAX, Garbage
      <4> QED
        BY <3>1, <4>1 DEF Garbage
    <3>3. msg \in [time : Int, dev : Int]
      BY DEF TypeOK
    <3> QED
      BY <3>1, <3>2, <3>3
  <2> QED
    BY <1>10, <2>1, <2>2, <2>3 DEF HikDevGetAlarmDateTime, TypeOK, WriteInBounds,
       BatchBounds, InBatch, callbackVars
<1>11. CASE HikDevGetAlarmIp
  <2>1. pc = "ip" /\ pc' \in {"send", "crashed"}
        /\ (pc' = "crashed" => Slot >= MAX)
    BY <1>11 DEF HikDevGetAlarmIp
  <2>2. pc' = "crashed" => torn
    BY <2>1, SlotBounds DEF TypeOK, BatchBounds, InBatch, MAX, Index
  <2>3. msg' \in [time : Int, dev : Int]
    <3>1. PICK v : v \in {slotDev[Slot], Garbage} /\ (Slot < MAX \/ v = Garbage)
                   /\ msg' = [msg EXCEPT !.dev = v]
      BY <1>11 DEF HikDevGetAlarmIp
    <3>2. v \in Int
      <4>1. Slot < MAX => slotDev[Slot] \in Int
        <5>1. Slot \in Nat
          BY <2>1, SlotBounds DEF TypeOK, BatchBounds, InBatch
        <5> QED
          BY <5>1 DEF TypeOK, Index, MAX, Garbage
      <4> QED
        BY <3>1, <4>1 DEF Garbage
    <3>3. msg \in [time : Int, dev : Int]
      BY DEF TypeOK
    <3> QED
      BY <3>1, <3>2, <3>3
  <2> QED
    BY <1>11, <2>1, <2>2, <2>3 DEF HikDevGetAlarmIp, TypeOK, WriteInBounds,
       BatchBounds, InBatch, callbackVars
<1>12. CASE Dispatch
  <2>1. handled' \in Seq([time : Int, dev : Int])
    <3> DEFINE S == [time : Int, dev : Int]
    <3>1. handled \in Seq(S) /\ msg \in S
      BY DEF TypeOK
    <3>2. handled' = Append(handled, msg) \/ handled' = handled
      BY <1>12 DEF Dispatch, Recorded
    <3> HIDE DEF S
    <3>3. handled' \in Seq(S)
      BY <3>1, <3>2
    <3> QED
      BY <3>3 DEF S
  <2> QED
    BY <1>12, <2>1 DEF Dispatch, TypeOK, WriteInBounds, BatchBounds, InBatch,
       NoMsg, callbackVars
<1>13. CASE HikDevSetAlarmIdxOffset
  BY <1>13 DEF HikDevSetAlarmIdxOffset, TypeOK, WriteInBounds, BatchBounds,
     InBatch, callbackVars
<1>14. CASE UNCHANGED vars
  BY <1>14 DEF vars, callbackVars, loopVars, TypeOK, WriteInBounds, BatchBounds,
     InBatch
<1> QED
  BY <1>1, <1>2, <1>3, <1>4, <1>5, <1>6, <1>7, <1>8, <1>9, <1>10, <1>11, <1>12,
     <1>13, <1>14 DEF Next, Callback, MainLoop

(* SafeInv is an invariant of the service, whatever races it runs into. *)
LEMMA SafeCorrect == Spec => []SafeInv
<1>1. Init => SafeInv
  BY InitSafe
<1>2. SafeInv /\ [Next]_vars => SafeInv'
  BY NextSafe
<1> QED
  BY <1>1, <1>2, PTL DEF Spec

-----------------------------------------------------------------------------
(* DataInv, what a healthy ring holds. *)

(* A broken ring stays broken. *)
LEMMA HealthyBefore == SafeInv /\ [Next]_vars /\ Healthy' => Healthy
<1> SUFFICES ASSUME SafeInv, [Next]_vars, Healthy' PROVE Healthy
    OBVIOUS
<1>1. overrun => overrun'
  BY Zenon DEF Next, Callback, MainLoop, vars, callbackVars, loopVars,
     HikDevAlarmCallback, CopyDone, StampTime, BumpWr, WrapWr, Sigterm, While,
     HikDevGetAlarmNum, GetAlarmNumResult, HikDevGetAlarmDateTime,
     HikDevGetAlarmIp, Dispatch, HikDevSetAlarmIdxOffset
<1>2. torn => torn'
  BY Zenon DEF Next, Callback, MainLoop, vars, callbackVars, loopVars,
     HikDevAlarmCallback, CopyDone, StampTime, BumpWr, WrapWr, Sigterm, While,
     HikDevGetAlarmNum, GetAlarmNumResult, HikDevGetAlarmDateTime,
     HikDevGetAlarmIp, Dispatch, HikDevSetAlarmIdxOffset
<1>3. replayed => replayed'
  BY Zenon DEF Next, Callback, MainLoop, vars, callbackVars, loopVars,
     HikDevAlarmCallback, CopyDone, StampTime, BumpWr, WrapWr, Sigterm, While,
     HikDevGetAlarmNum, GetAlarmNumResult, HikDevGetAlarmDateTime,
     HikDevGetAlarmIp, Dispatch, HikDevSetAlarmIdxOffset
<1> QED
  BY <1>1, <1>2, <1>3 DEF Healthy

(* Nothing is recorded. *)
LEMMA InitData == Init => DataInv
<1> SUFFICES ASSUME Init PROVE IndexInv /\ SlotsInv /\ LoopInv /\ HandledInv
    BY DEF DataInv
<1> USE RingAssumption DEF Init, MAX
<1>1. IndexInv
  BY DEF IndexInv, Distance, Wrapped
<1>2. SlotsInv
  BY DEF SlotsInv
<1>3. LoopInv
  BY DEF LoopInv, InBatch
<1>4. HandledInv
  BY DEF HandledInv
<1> QED
  BY <1>1, <1>2, <1>3, <1>4

(* The callback's steps leave the main loop alone: what has to be shown is *)
(* that the slot being written is none of those it may be reading.         *)
LEMMA CallbackData ==
    ASSUME SafeInv, DataInv, Callback, Healthy, Healthy'
    PROVE  DataInv'
<1> USE RingAssumption
<1>0. /\ IndexInv /\ SlotsInv /\ LoopInv /\ HandledInv
      /\ TypeOK /\ WriteInBounds
  BY DEF DataInv, SafeInv
<1>1. /\ Rd \in Index
      /\ Wr \in 0 .. MAX
      /\ cb # "wrap" => Wr \in Index
      /\ raised \in Nat /\ released \in Nat
      /\ slotDev \in [Index -> Nat \cup {Garbage}]
      /\ slotTime \in [Index -> Nat]
  BY <1>0 DEF IndexInv, TypeOK, WriteInBounds, Index, MAX
<1>2. UNCHANGED loopVars
  BY Zenon DEF Callback, HikDevAlarmCallback, CopyDone, StampTime, BumpWr, WrapWr
<1>3. cb # "wrap" => /\ Wrapped(Wr) = Wr
                     /\ raised - released = Distance(Rd, Wr)
                     /\ \A d \in 0 .. raised - released - 1 :
                           Wrapped(Rd + d) \in Index \ {Wr}
  <2> SUFFICES ASSUME cb # "wrap"
      PROVE  /\ Wrapped(Wr) = Wr
             /\ raised - released = Distance(Rd, Wr)
             /\ \A d \in 0 .. raised - released - 1 :
                   Wrapped(Rd + d) \in Index \ {Wr}
    OBVIOUS
  <2>1. Wr \in Index /\ Wrapped(Wr) = Wr
    BY <1>1 DEF Wrapped, Index, MAX
  <2>2. raised - released = Distance(Rd, Wr)
    BY <1>0, <2>1 DEF IndexInv
  <2>3. \A d \in 0 .. Distance(Rd, Wr) - 1 : Wrapped(Rd + d) \in Index \ {Wr}
    BY <1>1, <2>1, WriteSlotIsFree
  <2> QED
    BY <2>1, <2>2, <2>3
<1>4. HandledInv'
  BY <1>0, <1>2 DEF HandledInv, loopVars
<1>5. ASSUME NEW e \in Events, HikDevAlarmCallback(e) PROVE DataInv'
  <2>1. /\ UNCHANGED <<slotTime, Wr, raised>> /\ UNCHANGED loopVars
        /\ cb = "idle"
        /\ \/ slotDev' = [slotDev EXCEPT ![Wr] = Garbage] /\ cb' = "copy"
           \/ UNCHANGED <<slotDev, cb>>
    BY <1>5 DEF HikDevAlarmCallback
  <2>2. SlotsInv'
    BY <1>0, <1>1, <1>3, <2>1 DEF SlotsInv, loopVars
  <2>3. IndexInv' /\ LoopInv'
    BY <1>0, <2>1 DEF IndexInv, LoopInv, InBatch, loopVars
  <2> QED
    BY <1>4, <2>2, <2>3 DEF DataInv
<1>6. CASE CopyDone
  <2>1. /\ UNCHANGED <<slotTime, Wr, raised>> /\ UNCHANGED loopVars
        /\ cb = "copy" /\ cb' = "time"
        /\ slotDev' = [slotDev EXCEPT ![Wr] = raised + 1]
    BY <1>6 DEF CopyDone
  <2>2. SlotsInv'
    BY <1>0, <1>1, <1>3, <2>1 DEF SlotsInv, loopVars
  <2>3. IndexInv' /\ LoopInv'
    BY <1>0, <2>1 DEF IndexInv, LoopInv, InBatch, loopVars
  <2> QED
    BY <1>4, <2>2, <2>3 DEF DataInv
<1>7. CASE StampTime
  <2>1. /\ UNCHANGED <<slotDev, Wr, raised>> /\ UNCHANGED loopVars
        /\ cb = "time" /\ cb' = "bump"
        /\ slotTime' = [slotTime EXCEPT ![Wr] = raised + 1]
    BY <1>7 DEF StampTime
  <2>2. SlotsInv'
    BY <1>0, <1>1, <1>3, <2>1 DEF SlotsInv, loopVars
  <2>3. IndexInv' /\ LoopInv'
    BY <1>0, <2>1 DEF IndexInv, LoopInv, InBatch, loopVars
  <2> QED
    BY <1>4, <2>2, <2>3 DEF DataInv
<1>8. CASE BumpWr
  <2>1. /\ UNCHANGED <<slotDev, slotTime>> /\ UNCHANGED loopVars
        /\ cb = "bump" /\ cb' = "wrap"
        /\ Wr' = Wr + 1 /\ raised' = raised + 1
    BY <1>8 DEF BumpWr
  <2>2. Distance(Rd, Wr) # MAX - 1
    BY <1>8, Zenon DEF BumpWr, Healthy
  <2>3. raised' - released' = Distance(Rd, Wrapped(Wr'))
    BY <1>1, <1>3, <2>1, <2>2, DistanceStep DEF loopVars
  <2>4. IndexInv'
    BY <1>0, <2>1, <2>3 DEF IndexInv, loopVars
  <2>5. Wrapped(Rd + (raised - released)) = Wr
    BY <1>1, <1>3, <2>1, WriteSlotIsFree
  <2>6. SlotsInv'
    BY <1>0, <1>1, <1>3, <2>1, <2>5 DEF SlotsInv, loopVars
  <2>7. pc = "num2" /\ ~ahead => Wr' < Rd
    BY <1>0, <1>1, <2>1, <2>2 DEF LoopInv, Distance, Index, MAX
  <2>8. LoopInv'
    BY <1>0, <1>1, <2>1, <2>7 DEF LoopInv, InBatch, TypeOK, loopVars
  <2> QED
    BY <1>4, <2>4, <2>6, <2>8 DEF DataInv
<1>9. CASE WrapWr
  <2>1. /\ UNCHANGED <<slotDev, slotTime, raised>> /\ UNCHANGED loopVars
        /\ cb = "wrap" /\ cb' = "idle"
        /\ Wr' = IF Wr >= MAX THEN 0 ELSE Wr
    BY <1>9 DEF WrapWr
  <2>2. Wrapped(Wr') = Wrapped(Wr)
    BY <1>1, <2>1 DEF Wrapped, MAX
  <2>3. IndexInv'
    BY <1>0, <2>1, <2>2 DEF IndexInv, loopVars
  <2>4. SlotsInv'
    BY <1>0, <2>1 DEF SlotsInv, loopVars
  <2>5. pc = "num2" /\ ~ahead => Wr' < Rd
    BY <1>0, <1>1, <2>1 DEF LoopInv, Index, MAX
  <2>6. LoopInv'
    BY <1>0, <2>1, <2>5 DEF LoopInv, InBatch, loopVars
  <2> QED
    BY <1>4, <2>3, <2>4, <2>6 DEF DataInv
<1> QED
  BY <1>5, <1>6, <1>7, <1>8, <1>9 DEF Callback

(* HikDevGetAlarmNum, when neither race happens, counts the alarms in the  *)
(* ring.                                                                   *)
LEMMA CountExact ==
    ASSUME SafeInv, DataInv, GetAlarmNumResult, Healthy, Healthy'
    PROVE  /\ AlarmNum = raised - released
           /\ AlarmNum \in 0 .. MAX - 1
<1>1. /\ pc = "num2"
      /\ ~(ahead /\ Wr < Rd)
      /\ ~(Wr = MAX /\ Rd = 0)
  BY Zenon DEF GetAlarmNumResult, Healthy
<1>2. /\ Rd \in 0 .. MAX - 1 /\ Wr \in 0 .. MAX
      /\ raised - released = Distance(Rd, Wrapped(Wr))
      /\ ~ahead => Wr < Rd
  BY <1>1, RingAssumption DEF DataInv, IndexInv, LoopInv, SafeInv, TypeOK, MAX
<1> QED
  BY <1>1, <1>2, RingAssumption DEF AlarmNum, Minus, Distance, Wrapped, MAX

(* The slot of the current alarm holds the next alarm to be handled. *)
LEMMA CurrentSlot ==
    ASSUME SafeInv, DataInv, Healthy, pc \in {"time", "ip"}
    PROVE  /\ Slot \in Index
           /\ slotDev[Slot] = released + i + 1
           /\ slotTime[Slot] = released + i + 1
<1>1. /\ i \in Nat /\ Rd \in Index /\ raised \in Nat /\ released \in Nat
      /\ i < uiAlarmNum /\ uiAlarmNum <= raised - released
      /\ raised - released = Distance(Rd, Wrapped(Wr))
      /\ Wr \in 0 .. MAX /\ uiAlarmNum \in Nat
  BY RingAssumption DEF DataInv, IndexInv, LoopInv, InBatch, SafeInv, TypeOK,
     BatchBounds, MAX, Index
<1>2. i \in 0 .. raised - released - 1
  BY <1>1
<1>3. /\ slotDev[Wrapped(Rd + i)] = released + 1 + i
      /\ slotTime[Wrapped(Rd + i)] = released + 1 + i
  BY <1>2 DEF DataInv, SlotsInv
<1>4. Slot = Wrapped(Rd + i) /\ Slot \in Index
  BY <1>1, RingAssumption DEF Slot, Plus, Wrapped, Distance, Index, MAX
<1> QED
  BY <1>1, <1>3, <1>4

(* A step of main keeps the contents of the ring. *)
LEMMA MainData ==
    ASSUME SafeInv, DataInv, MainLoop, Healthy, Healthy'
    PROVE  DataInv'
<1> USE RingAssumption
<1>0. /\ IndexInv /\ SlotsInv /\ LoopInv /\ HandledInv
      /\ TypeOK /\ BatchBounds
  BY DEF DataInv, SafeInv
<1>1. UNCHANGED callbackVars
  BY Zenon DEF MainLoop, While, HikDevGetAlarmNum, GetAlarmNumResult,
     HikDevGetAlarmDateTime, HikDevGetAlarmIp, Dispatch, HikDevSetAlarmIdxOffset
<1>2. UNCHANGED <<Rd, released>> => IndexInv' /\ SlotsInv'
  BY <1>0, <1>1 DEF IndexInv, SlotsInv, callbackVars
<1>3. UNCHANGED handled => HandledInv'
  BY <1>0 DEF HandledInv
<1>4. CASE While
  <2>1. LoopInv'
    BY <1>0, <1>1, <1>4 DEF While, LoopInv, InBatch, callbackVars
  <2> QED
    BY <1>2, <1>3, <1>4, <2>1 DEF While, DataInv
<1>5. CASE HikDevGetAlarmNum
  <2>0. ~ahead' => ~(Wr >= Rd)
    BY <1>5, Zenon DEF HikDevGetAlarmNum
  <2>1. ~ahead' => Wr' < Rd'
    BY <1>0, <1>1, <1>5, <2>0 DEF HikDevGetAlarmNum, TypeOK, callbackVars, MAX
  <2>2. LoopInv'
    BY <1>0, <1>1, <1>5, <2>1 DEF HikDevGetAlarmNum, LoopInv, InBatch, callbackVars
  <2> QED
    BY <1>2, <1>3, <1>5, <2>2 DEF HikDevGetAlarmNum, DataInv
<1>6. CASE GetAlarmNumResult
  <2>1. AlarmNum = raised - released
    BY <1>6, CountExact
  <2>2. LoopInv'
    BY <1>0, <1>1, <1>6, <2>1 DEF GetAlarmNumResult, LoopInv, InBatch, TypeOK,
       callbackVars
  <2> QED
    BY <1>2, <1>3, <1>6, <2>2 DEF GetAlarmNumResult, DataInv
<1>7. CASE HikDevGetAlarmDateTime
  <2>1. pc = "time" /\ Slot \in Index /\ slotTime[Slot] = released + i + 1
    BY <1>7, CurrentSlot DEF HikDevGetAlarmDateTime
  <2>2. pc' = "ip" /\ msg' = [msg EXCEPT !.time = released + i + 1]
    BY <1>7, <2>1 DEF HikDevGetAlarmDateTime, Index, MAX
  <2>3. UNCHANGED <<Rd, ahead, uiAlarmNum, i, handled, released, raised>>
    BY <1>1, <1>7 DEF HikDevGetAlarmDateTime, callbackVars
  <2>4. LoopInv'
    BY <1>0, <2>1, <2>2, <2>3 DEF LoopInv, InBatch, TypeOK
  <2> QED
    BY <1>2, <1>3, <2>3, <2>4 DEF DataInv
<1>8. CASE HikDevGetAlarmIp
  <2>1. pc = "ip" /\ Slot \in Index /\ slotDev[Slot] = released + i + 1
    BY <1>8, CurrentSlot DEF HikDevGetAlarmIp
  <2>2. pc' = "send" /\ msg' = [msg EXCEPT !.dev = released + i + 1]
    BY <1>8, <2>1 DEF HikDevGetAlarmIp, Index, MAX
  <2>3. UNCHANGED <<Rd, ahead, uiAlarmNum, i, handled, released, raised>>
    BY <1>1, <1>8 DEF HikDevGetAlarmIp, callbackVars
  <2>4. LoopInv'
    BY <1>0, <2>1, <2>2, <2>3 DEF LoopInv, InBatch, TypeOK
  <2> QED
    BY <1>2, <1>3, <2>3, <2>4 DEF DataInv
<1>9. CASE Dispatch
  <2>1. /\ pc = "send" /\ i < uiAlarmNum /\ i \in Nat /\ uiAlarmNum \in Nat
        /\ uiAlarmNum <= raised - released /\ Len(handled) = released + i
        /\ raised \in 0 .. MaxAlarms /\ released \in Nat
    BY <1>0, <1>9 DEF Dispatch, LoopInv, InBatch, TypeOK, BatchBounds
  <2>2. msg = [time |-> Len(handled) + 1, dev |-> Len(handled) + 1]
    BY <1>0, <2>1 DEF LoopInv, TypeOK
  <2>3. handled' = Append(handled, msg)
    BY <1>9, <2>1 DEF Dispatch, Recorded
  <2>4. handled \in Seq([time : Int, dev : Int]) /\ msg \in [time : Int, dev : Int]
    BY <1>0 DEF TypeOK
  <2>5. Len(handled') = Len(handled) + 1
    BY <2>3, <2>4
  <2>6. HandledInv'
    BY <1>0, <2>2, <2>3, <2>4 DEF HandledInv
  <2>7. /\ i' = i + 1
        /\ pc' = IF i + 1 < uiAlarmNum THEN "time" ELSE "release"
        /\ UNCHANGED <<Rd, ahead, uiAlarmNum, released, raised>>
    BY <1>1, <1>9 DEF Dispatch, callbackVars
  <2>8. LoopInv'
    BY <2>1, <2>5, <2>7 DEF LoopInv, InBatch
  <2> QED
    BY <1>2, <2>6, <2>7, <2>8 DEF DataInv
<1>10. CASE HikDevSetAlarmIdxOffset
  <2> DEFINE n == uiAlarmNum
             w == Wrapped(Wr)
  <2>1. /\ pc = "release" /\ pc' = "while"
        /\ Rd' = Wrapped(Plus(Rd, n))
        /\ released' = released + n
        /\ UNCHANGED <<handled, slotDev, slotTime, Wr, cb, raised>>
    BY <1>1, <1>10 DEF HikDevSetAlarmIdxOffset, callbackVars
  <2>2. /\ Rd \in Index /\ w \in Index
        /\ raised \in Nat /\ released \in Nat /\ n \in Nat
        /\ raised - released = Distance(Rd, w)
        /\ n <= raised - released
        /\ Len(handled) = released + n
    <3>1. Rd \in Index /\ w \in Index
      BY <1>0 DEF IndexInv, TypeOK, Index, Wrapped, MAX
    <3>2. raised \in Nat /\ released \in Nat /\ n \in Nat
      BY <1>0 DEF TypeOK
    <3>3. raised - released = Distance(Rd, w)
      BY <1>0 DEF IndexInv
    <3>4. n <= raised - released /\ Len(handled) = released + n
      BY <1>0, <2>1 DEF LoopInv, InBatch
    <3> QED
      BY <3>1, <3>2, <3>3, <3>4
  <2>3. n \in 0 .. Distance(Rd, w)
    BY <2>2
  <2> HIDE DEF n, w
  <2>4. /\ Rd' \in Index
        /\ Distance(Rd', w) = Distance(Rd, w) - n
        /\ \A d \in 0 .. Distance(Rd, w) - n - 1 :
              Wrapped(Rd' + d) = Wrapped(Rd + n + d)
    BY <2>1, <2>2, <2>3, ReleaseStep
  <2>5. IndexInv'
    <3>1. raised' - released' = Distance(Rd', w)
      BY <2>1, <2>2, <2>4
    <3>2. Wrapped(Wr') = w
      BY <2>1 DEF w
    <3>3. Rd' < MAX
      BY <2>4 DEF Index, MAX
    <3> QED
      BY <3>1, <3>2, <3>3 DEF IndexInv
  <2>6. SlotsInv'
    <3>1. ASSUME NEW d \in 0 .. raised' - released' - 1
          PROVE  /\ slotDev[Wrapped(Rd' + d)] = released' + 1 + d
                 /\ slotTime[Wrapped(Rd' + d)] = released' + 1 + d
      <4>1. n + d \in 0 .. raised - released - 1
        BY <2>1, <2>2
      <4>2. Wrapped(Rd' + d) = Wrapped(Rd + (n + d))
        BY <2>1, <2>2, <2>4 DEF Index
      <4>3. /\ slotDev[Wrapped(Rd + (n + d))] = released + 1 + (n + d)
            /\ slotTime[Wrapped(Rd + (n + d))] = released + 1 + (n + d)
        BY <1>0, <4>1 DEF SlotsInv
      <4> QED
        BY <2>1, <2>2, <4>2, <4>3
    <3> QED
      BY <1>0, <2>1, <3>1 DEF SlotsInv
  <2>7. LoopInv'
    BY <2>1, <2>2 DEF LoopInv, InBatch
  <2> QED
    BY <1>3, <2>1, <2>5, <2>6, <2>7 DEF DataInv
<1> QED
  BY <1>4, <1>5, <1>6, <1>7, <1>8, <1>9, <1>10 DEF MainLoop

(* Every step does. *)
LEMMA NextData == SafeInv /\ DataInv /\ [Next]_vars => DataInv'
<1> SUFFICES ASSUME SafeInv, DataInv, [Next]_vars, Healthy' PROVE DataInv'
    BY DEF DataInv
<1>1. Healthy
  BY HealthyBefore
<1>2. CASE Callback
  BY <1>1, <1>2, CallbackData
<1>3. CASE MainLoop
  BY <1>1, <1>3, MainData
<1>4. CASE Sigterm \/ UNCHANGED vars
  <2>1. UNCHANGED <<callbackVars, loopVars>>
    BY <1>4 DEF Sigterm, vars
  <2> QED
    BY <1>1, <2>1 DEF callbackVars, loopVars, DataInv, IndexInv, SlotsInv, LoopInv,
       HandledInv, InBatch
<1> QED
  BY <1>2, <1>3, <1>4 DEF Next

(* Inv is an invariant of the service. *)
LEMMA InvCorrect == Spec => []Inv
<1>1. Init => Inv
  BY InitSafe, InitData DEF Inv
<1>2. Inv /\ [Next]_vars => Inv'
  BY NextSafe, NextData DEF Inv
<1> QED
  BY <1>1, <1>2, PTL DEF Spec

-----------------------------------------------------------------------------
(* The theorems. *)

(* Every variable of the ring and of the loop keeps its type; in particular *)
(* Wr and Rd never exceed MAX and no DWORD computation leaves its width.    *)
THEOREM TypeCorrect == Spec => []TypeOK
<1>1. SafeInv => TypeOK
  BY DEF SafeInv
<1> QED
  BY <1>1, SafeCorrect, PTL

(* HikDevAlarmCallback never writes past the end of struAlarmMotionDetect,  *)
(* however far the main loop has fallen behind.                             *)
THEOREM CallbackWritesInBounds == Spec => []WriteInBounds
<1>1. SafeInv => WriteInBounds
  BY DEF SafeInv
<1> QED
  BY <1>1, SafeCorrect, PTL

(* The getters read outside the array only after a torn count. *)
THEOREM GettersReadInBounds == Spec => []ReadInBounds
<1>1. SafeInv => ReadInBounds
  <2> SUFFICES ASSUME SafeInv, ~torn
      PROVE  pc # "crashed" /\ (pc \in {"time", "ip"} => Slot < MAX)
    BY DEF ReadInBounds
  <2>1. pc # "crashed"
    BY DEF SafeInv, BatchBounds
  <2>2. ASSUME pc \in {"time", "ip"} PROVE Slot < MAX
    <3>1. /\ i \in 0 .. Word - 1 /\ Rd \in 0 .. MAX /\ uiAlarmNum \in 0 .. Word - 1
          /\ i < uiAlarmNum /\ Rd + uiAlarmNum <= 2 * MAX
      BY <2>2 DEF SafeInv, TypeOK, BatchBounds, InBatch
    <3>2. i + Rd < 2 * MAX
      BY <3>1, RingAssumption DEF MAX
    <3> QED
      BY <3>1, <3>2, SlotBounds, RingAssumption DEF Index, MAX
  <2> QED
    BY <2>1, <2>2
<1> QED
  BY <1>1, SafeCorrect, PTL

(* Until the ring breaks, alarms are handled in the order of recording,    *)
(* each once, with time and device of one alarm.                           *)
THEOREM FifoCorrect == Spec => []Fifo
<1>1. Inv => Fifo
  BY DEF Inv, DataInv, HandledInv, Fifo
<1> QED
  BY <1>1, InvCorrect, PTL

(* Until the ring breaks, the distance of its indices is the number of     *)
(* alarms recorded and not released.                                       *)
THEOREM BacklogCorrect == Spec => []Backlog
<1>1. Inv => Backlog
  BY DEF Inv, DataInv, IndexInv, Backlog
<1> QED
  BY <1>1, InvCorrect, PTL

(* SIGTERM never leaves an alarm handled and not released.                 *)
THEOREM StopKeepsBatchCorrect == Spec => []StopKeepsBatch
<1>1. Inv => StopKeepsBatch
  BY DEF Inv, DataInv, LoopInv, InBatch, StopKeepsBatch
<1> QED
  BY <1>1, InvCorrect, PTL

(* HikDevGetAlarmNum counts the alarms in the ring, unless it is torn or   *)
(* sees a pending wrap.                                                    *)
THEOREM CountCorrect == Spec => CountIsBacklog
<1>1. Inv /\ [Next]_vars =>
        [(pc = "num2" /\ pc' # pc /\ Healthy') => uiAlarmNum' = raised - released]_vars
  <2> SUFFICES ASSUME Inv, Next, pc = "num2", pc' # pc, Healthy'
      PROVE  uiAlarmNum' = raised - released
    BY DEF vars, loopVars
  <2>1. GetAlarmNumResult
    BY Zenon DEF Next, Callback, MainLoop, HikDevAlarmCallback, CopyDone, StampTime,
       BumpWr, WrapWr, Sigterm, While, HikDevGetAlarmNum, HikDevGetAlarmDateTime,
       HikDevGetAlarmIp, Dispatch, HikDevSetAlarmIdxOffset, loopVars
  <2>2. SafeInv /\ DataInv /\ Healthy
    BY HealthyBefore DEF Inv
  <2> QED
    BY <2>1, <2>2, CountExact DEF GetAlarmNumResult
<1> QED
  BY <1>1, InvCorrect, PTL DEF Spec, CountIsBacklog

(* The main loop goes to sleep only when every recorded alarm is handled.  *)
THEOREM SleepCorrect == Spec => SleepsOnlyWhenEmpty
<1>1. Inv /\ [Next]_vars =>
        [(pc = "num2" /\ pc' = "while" /\ Healthy') => raised = Len(handled)]_vars
  <2> SUFFICES ASSUME Inv, Next, pc = "num2", pc' = "while", Healthy'
      PROVE  raised = Len(handled)
    BY DEF vars, loopVars
  <2>1. GetAlarmNumResult
    BY Zenon DEF Next, Callback, MainLoop, HikDevAlarmCallback, CopyDone, StampTime,
       BumpWr, WrapWr, Sigterm, While, HikDevGetAlarmNum, HikDevGetAlarmDateTime,
       HikDevGetAlarmIp, Dispatch, HikDevSetAlarmIdxOffset, loopVars
  <2>2. SafeInv /\ DataInv /\ Healthy
    BY HealthyBefore DEF Inv
  <2>3. AlarmNum = 0 /\ AlarmNum = raised - released
    BY <2>1, <2>2, CountExact DEF GetAlarmNumResult
  <2>4. Len(handled) = released /\ raised \in Nat /\ released \in Nat
    BY <2>2 DEF SafeInv, TypeOK, DataInv, LoopInv, InBatch
  <2> QED
    BY <2>3, <2>4
<1> QED
  BY <1>1, InvCorrect, PTL DEF Spec, SleepsOnlyWhenEmpty

(* The ring, with its unlocked indices, implements the bounded queue of    *)
(* AlarmQueue: at most MAX - 1 alarms are waiting when one is recorded     *)
(* without harm, and every alarm taken is the oldest one waiting.          *)
THEOREM RingImplementsQueue == Spec => ImplementsQueue
<1>1. Init => Queue!Init
  BY DEF Init, Queue!Init, Healthy
<1>2. Inv /\ Inv' /\ [Next]_vars => [Queue!Next]_(Queue!vars)
  <2> SUFFICES ASSUME Inv, [Next]_vars
      PROVE  Queue!Next \/ UNCHANGED <<raised, handled, released, Healthy>>
    BY DEF Queue!vars
  <2> USE RingAssumption
  <2>0. /\ SafeInv /\ DataInv
        /\ raised \in Nat /\ released \in Nat
        /\ handled \in Seq([time : Int, dev : Int])
        /\ overrun \in BOOLEAN /\ torn \in BOOLEAN /\ replayed \in BOOLEAN
    BY DEF Inv, SafeInv, TypeOK
  <2>1. CASE ~Healthy
    <3>1. ~Healthy'
      BY <2>0, <2>1, HealthyBefore
    <3> QED
      BY <2>1, <3>1 DEF Queue!Next, Queue!Broken
  <2>2. CASE Healthy /\ BumpWr
    <3>1. /\ raised' = raised + 1 /\ UNCHANGED <<handled, released>>
          /\ UNCHANGED <<torn, replayed>> /\ cb = "bump"
      BY <2>2 DEF BumpWr, loopVars
    <3>2. raised - released = Distance(Rd, Wr) /\ Distance(Rd, Wr) \in 0 .. MAX - 1
      <4>1. Rd \in Index /\ Wr \in Index
        BY <2>0, <2>2, <3>1 DEF DataInv, IndexInv, SafeInv, TypeOK, WriteInBounds,
           Index, MAX
      <4>2. Wrapped(Wr) = Wr
        BY <4>1 DEF Wrapped, Index, MAX
      <4> QED
        BY <2>0, <2>2, <4>1, <4>2, WriteSlotIsFree DEF DataInv, IndexInv
    <3>3. Healthy' <=> Distance(Rd, Wr) # MAX - 1
      BY <2>2, <3>1, Zenon DEF BumpWr, Healthy
    <3>4. CASE Distance(Rd, Wr) = MAX - 1
      BY <2>2, <3>1, <3>2, <3>3, <3>4 DEF Queue!Next, Queue!Overflow
    <3>5. CASE Distance(Rd, Wr) # MAX - 1
      <4>1. raised - released < MAX - 1
        BY <3>2, <3>5 DEF MAX
      <4>2. UNCHANGED Healthy
        BY <2>2, <3>3, <3>5, Zenon DEF Healthy
      <4> QED
        BY <2>2, <3>1, <4>1, <4>2 DEF Queue!Next, Queue!Publish
    <3> QED
      BY <3>4, <3>5
  <2>3. CASE Healthy /\ GetAlarmNumResult
    <3>1. UNCHANGED <<raised, handled, released>> /\ Len(handled) = released
      BY <2>0, <2>3 DEF GetAlarmNumResult, callbackVars, DataInv, LoopInv, InBatch
    <3>2. CASE Healthy'
      <4>1. UNCHANGED Healthy
        BY <2>3, <3>2, Zenon DEF Healthy
      <4> QED
        BY <3>1, <4>1
    <3>3. CASE ~Healthy'
      <4>1. Healthy' = FALSE
        BY <3>3, Zenon DEF Healthy
      <4> QED
        BY <2>3, <3>1, <4>1 DEF Queue!Next, Queue!Miscount
    <3> QED
      BY <3>2, <3>3
  <2>4. CASE Healthy /\ Dispatch
    <3>1. /\ UNCHANGED <<raised, released, overrun, torn, replayed>>
          /\ pc = "send"
      BY <2>4 DEF Dispatch, callbackVars
    <3>2. /\ Len(handled) = released + i /\ i < uiAlarmNum
          /\ uiAlarmNum <= raised - released
          /\ msg.time = released + i + 1 /\ msg.dev = released + i + 1
          /\ msg \in [time : Int, dev : Int]
          /\ i \in Nat /\ uiAlarmNum \in Nat /\ raised \in 0 .. MaxAlarms
      BY <2>0, <2>4, <3>1 DEF DataInv, LoopInv, InBatch, SafeInv, TypeOK, BatchBounds
    <3>3. Len(handled) < raised /\ msg = Queue!Alarm(Len(handled) + 1)
      BY <2>0, <3>2 DEF Queue!Alarm
    <3>4. handled' = Append(handled, msg)
      BY <2>0, <2>4, <3>2, <3>3 DEF Dispatch, Recorded
    <3>5. UNCHANGED Healthy
      BY <3>1, Zenon DEF Healthy
    <3> QED
      BY <2>4, <3>1, <3>3, <3>4, <3>5 DEF Queue!Next, Queue!Handle
  <2>5. CASE Healthy /\ HikDevSetAlarmIdxOffset
    <3>1. /\ UNCHANGED <<raised, handled, overrun, torn, replayed>>
          /\ released' = released + uiAlarmNum
          /\ pc = "release"
      BY <2>5 DEF HikDevSetAlarmIdxOffset, callbackVars
    <3>2. /\ Len(handled) = released + uiAlarmNum /\ uiAlarmNum > 0
          /\ uiAlarmNum \in Nat
      BY <2>0, <2>5, <3>1 DEF DataInv, LoopInv, InBatch, SafeInv, TypeOK
    <3>3. released' = Len(handled) /\ released < Len(handled)
      BY <2>0, <3>1, <3>2
    <3>4. UNCHANGED Healthy
      BY <3>1, Zenon DEF Healthy
    <3> QED
      BY <2>5, <3>1, <3>3, <3>4 DEF Queue!Next, Queue!Release
  <2>6. ASSUME ~BumpWr, ~GetAlarmNumResult, ~Dispatch, ~HikDevSetAlarmIdxOffset
        PROVE  UNCHANGED <<raised, handled, released, Healthy>>
    <3>1. UNCHANGED <<raised, handled, released, overrun, torn, replayed>>
      BY <2>6 DEF Next, Callback, MainLoop, HikDevAlarmCallback, CopyDone,
         StampTime, WrapWr, Sigterm, While, HikDevGetAlarmNum,
         HikDevGetAlarmDateTime, HikDevGetAlarmIp, callbackVars, loopVars, vars
    <3> QED
      BY <3>1, Zenon DEF Healthy
  <2> QED
    BY <2>1, <2>2, <2>3, <2>4, <2>5, <2>6
<1> QED
  BY <1>1, <1>2, InvCorrect, PTL DEF Spec, ImplementsQueue, Queue!Spec

=============================================================================
