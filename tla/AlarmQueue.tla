----------------------------- MODULE AlarmQueue -----------------------------
(***************************************************************************)
(* What the alarm ring of HikDevOperate promises to the main loop: a       *)
(* bounded first-in first-out queue whose reader takes alarms in batches   *)
(* and gives their room back only at the end of the batch.                 *)
(*                                                                         *)
(* An alarm is its number in the order of recording; what the reader takes *)
(* is the pair of a time and a device, here always of one alarm.  The      *)
(* promise ends when healthy becomes FALSE: the queue neither refuses nor  *)
(* delays an alarm that finds it full, it breaks.                          *)
(***************************************************************************)
EXTENDS Integers, Sequences

CONSTANT Capacity   \* alarms that may be recorded and not yet released

VARIABLES
    raised,    \* alarms recorded
    handled,   \* what the reader has taken
    released,  \* alarms whose room has been given back
    healthy    \* the queue still keeps its promise

vars == <<raised, handled, released, healthy>>

Alarm(n) == [time |-> n, dev |-> n]

Init ==
    /\ raised = 0
    /\ handled = <<>>
    /\ released = 0
    /\ healthy = TRUE

Publish ==
    /\ healthy
    /\ raised - released < Capacity
    /\ raised' = raised + 1
    /\ UNCHANGED <<handled, released, healthy>>

(* One alarm too many. *)
Overflow ==
    /\ healthy
    /\ raised - released = Capacity
    /\ raised' = raised + 1
    /\ healthy' = FALSE
    /\ UNCHANGED <<handled, released>>

(* The reader's count of the alarms meets an index that is going round: it *)
(* happens between two batches only.                                       *)
Miscount ==
    /\ healthy
    /\ Len(handled) = released
    /\ healthy' = FALSE
    /\ UNCHANGED <<raised, handled, released>>

Handle ==
    /\ healthy
    /\ Len(handled) < raised
    /\ handled' = Append(handled, Alarm(Len(handled) + 1))
    /\ UNCHANGED <<raised, released, healthy>>

(* The batch ends: the room of every alarm handled is free again. *)
Release ==
    /\ healthy
    /\ released < Len(handled)
    /\ released' = Len(handled)
    /\ UNCHANGED <<raised, handled, healthy>>

(* Nothing is promised any more. *)
Broken == ~healthy /\ ~healthy'

Next == Publish \/ Overflow \/ Miscount \/ Handle \/ Release \/ Broken

Spec == Init /\ [][Next]_vars

=============================================================================
