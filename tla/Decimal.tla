------------------------------ MODULE Decimal ------------------------------
(***************************************************************************)
(* DataBaseOperate::StrToUint, which reads the port of the database and    *)
(* the ports of the cameras.  A text is a sequence of character codes; an  *)
(* unsigned number is kept modulo UintMod.                                 *)
(***************************************************************************)
EXTENDS Integers, SequencesExt

CONSTANT UintMod    \* 2^32 in the code

ASSUME UintAssumption == UintMod \in Nat \ {0}

IsDigit(c) == c \in 48 .. 57

(* A character that is no digit ends the loop with false; uint keeps what  *)
(* was read up to there.                                                   *)
StrToUint(str) ==
    LET read[n \in 0 .. Len(str)] ==
            IF n = 0 THEN [ok |-> TRUE, uint |-> 0]
            ELSE IF read[n - 1].ok /\ IsDigit(str[n])
            THEN [ok |-> TRUE, uint |-> (read[n - 1].uint * 10 + str[n] - 48) % UintMod]
            ELSE [ok |-> FALSE, uint |-> read[n - 1].uint]
    IN  read[Len(str)]

(* What the text means. *)
DecimalValue(str) ==
    LET value[n \in 0 .. Len(str)] ==
            IF n = 0 THEN 0 ELSE 10 * value[n - 1] + (str[n] - 48)
    IN  value[Len(str)]

=============================================================================
