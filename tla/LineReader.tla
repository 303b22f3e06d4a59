----------------------------- MODULE LineReader -----------------------------
(***************************************************************************)
(* The receiving half of SerialPort (SerialPort.cpp): readLine, which cuts *)
(* what the message module answers into lines, and readBuffer under it.    *)
(*                                                                         *)
(* ucReadLineBuf is an array that keeps what was read and not yet          *)
(* returned in the places uiReadLineIdx .. uiReadLineValidSize - 1; while  *)
(* it looks for a newline readLine moves these bytes to the front.  The    *)
(* n-th byte on the line is NewLine or the number n.                       *)
(***************************************************************************)
EXTENDS Integers, SequencesExt

CONSTANTS
    READ_LINE_BUF_SIZE,  \* 256 in SerialPort.h
    MaxBytes             \* bound: bytes that arrive in a behaviour

ASSUME ReaderAssumption ==
    /\ READ_LINE_BUF_SIZE \in Nat \ {0}
    /\ MaxBytes \in Nat

Size    == READ_LINE_BUF_SIZE
NewLine == 0
Place   == 0 .. Size - 1

VARIABLES
    ucReadLineBuf,        \* the array
    uiReadLineValidSize,  \* bytes in it
    uiReadLineIdx,        \* bytes of these already returned
    pc,                   \* idle, or inside readLine: scan, read, rescan
    stream,               \* the tty's input queue
    arrived,              \* history: number of bytes that have arrived
    received,             \* history: all bytes read() has delivered
    lines                 \* history: what readLine has returned with UART_TRUE

bufVars == <<ucReadLineBuf, uiReadLineValidSize, uiReadLineIdx>>
vars == <<bufVars, pc, stream, arrived, received, lines>>

Init ==
    /\ ucReadLineBuf = [k \in Place |-> 0]
    /\ uiReadLineValidSize = 0 /\ uiReadLineIdx = 0
    /\ pc = "idle"
    /\ stream = <<>> /\ arrived = 0
    /\ received = <<>> /\ lines = <<>>

-----------------------------------------------------------------------------
(* The newlines among the bytes not yet returned. *)
NewLines == {k \in uiReadLineIdx .. uiReadLineValidSize - 1 : ucReadLineBuf[k] = NewLine}

(* The array after its bytes up to place p have been moved to the front. *)
Shifted_NotMoved(p) == ucReadLineBuf
Shifted(p) ==
    [k \in Place |-> IF k <= p - uiReadLineIdx THEN ucReadLineBuf[k + uiReadLineIdx]
                     ELSE ucReadLineBuf[k]]

(* What stays after a line that ends at place p: where the next byte to    *)
(* return is, and where the bytes end.                                     *)
Rest_Nothing(p) == [idx |-> 0, valid |-> 0]
Rest(p) ==
    IF p + 1 >= uiReadLineValidSize THEN [idx |-> 0, valid |-> 0]
    ELSE [idx |-> p + 1, valid |-> uiReadLineValidSize]

(* The loop meets a newline: the line is copied from the front of the      *)
(* array, and the rest stays where it is for the next call.                *)
ReturnLine ==
    LET p == Min(NewLines) IN
    /\ NewLines # {}
    /\ ucReadLineBuf' = Shifted(p)
    /\ lines' = Append(lines, [k \in 1 .. p + 1 - uiReadLineIdx |-> Shifted(p)[k - 1]])
    /\ uiReadLineIdx' = Rest(p).idx /\ uiReadLineValidSize' = Rest(p).valid
    /\ pc' = "idle"

(* The loop meets none: the bytes are at the front, the rest is cleared.   *)
(* An empty array is not looked at.                                        *)
Remaining_OneShort ==
    IF uiReadLineValidSize = 0 THEN 0 ELSE uiReadLineValidSize - 1 - uiReadLineIdx
Remaining == uiReadLineValidSize - uiReadLineIdx

Compact ==
    /\ NewLines = {}
    /\ uiReadLineValidSize' = Remaining
    /\ uiReadLineIdx' = 0
    /\ ucReadLineBuf' =
           [k \in Place |->
               IF uiReadLineValidSize = 0 THEN ucReadLineBuf[k]
               ELSE IF k < uiReadLineValidSize' THEN ucReadLineBuf[k + uiReadLineIdx]
               ELSE 0]
    /\ UNCHANGED lines

(* readLine is called: a line may be waiting from an earlier call. *)
readLine ==
    /\ pc = "idle"
    /\ pc' = "scan"
    /\ UNCHANGED <<bufVars, stream, arrived, received, lines>>

Scan ==
    /\ pc = "scan"
    /\ \/ ReturnLine
       \/ Compact /\ pc' = "read"
    /\ UNCHANGED <<stream, arrived, received>>

(* readBuffer into the free end of the array.  Nothing to read, an error   *)
(* of select or of read, or no room left makes readLine return UART_FALSE. *)
Free_Whole == Size
Free == Size - uiReadLineValidSize

readBuffer ==
    /\ pc = "read"
    /\ LET n == Min({Len(stream), Free}) IN
       \/ /\ n > 0
          /\ received' = received \o SubSeq(stream, 1, n)
          /\ stream' = SubSeq(stream, n + 1, Len(stream))
          /\ ucReadLineBuf' =
                 [k \in Place |-> IF k \in uiReadLineValidSize .. uiReadLineValidSize + n - 1
                                  THEN stream[k - uiReadLineValidSize + 1]
                                  ELSE ucReadLineBuf[k]]
          /\ uiReadLineValidSize' = uiReadLineValidSize + n
          /\ pc' = "rescan"
       \/ /\ pc' = "idle"
          /\ UNCHANGED <<ucReadLineBuf, uiReadLineValidSize, stream, received>>
    /\ UNCHANGED <<uiReadLineIdx, arrived, lines>>

(* The second turn returns a line or UART_FALSE. *)
Rescan ==
    /\ pc = "rescan"
    /\ \/ ReturnLine
       \/ Compact /\ pc' = "idle"
    /\ UNCHANGED <<stream, arrived, received>>

(* The message module sends a byte. *)
Arrive(b) ==
    /\ arrived < MaxBytes
    /\ b \in {NewLine, arrived + 1}
    /\ stream' = Append(stream, b)
    /\ arrived' = arrived + 1
    /\ UNCHANGED <<bufVars, pc, received, lines>>

Reader == readLine \/ Scan \/ readBuffer \/ Rescan

Next == Reader \/ \E b \in 0 .. MaxBytes : Arrive(b)

(* The caller keeps polling, and a read that can deliver bytes does so in  *)
(* the end.                                                                *)
Spec ==
    /\ Init /\ [][Next]_vars
    /\ WF_vars(Reader)
    /\ SF_vars(readBuffer /\ pc' = "rescan")

-----------------------------------------------------------------------------
(* Properties. *)

TypeOK ==
    /\ ucReadLineBuf \in [Place -> Nat]
    /\ uiReadLineValidSize \in 0 .. Size
    /\ uiReadLineIdx \in 0 .. Size
    /\ pc \in {"idle", "scan", "read", "rescan"}
    /\ stream \in Seq(Nat) /\ received \in Seq(Nat)
    /\ arrived \in 0 .. MaxBytes
    /\ lines \in Seq(Seq(Nat))

(* The bytes not yet returned. *)
Pending ==
    [k \in 1 .. uiReadLineValidSize - uiReadLineIdx |-> ucReadLineBuf[uiReadLineIdx + k - 1]]

(* The lines returned, one after the other, followed by the bytes kept in  *)
(* the array, are the bytes received: moving the array's contents around   *)
(* loses, repeats and reorders nothing.                                    *)
BytesConserved == received = FlattenSeq(lines) \o Pending

(* What readLine returns is one line: a newline at its end and nowhere else. *)
LinesAreLines ==
    \A n \in DOMAIN lines : LET l == lines[n] IN
        /\ l # <<>>
        /\ \A k \in DOMAIN l : l[k] = NewLine <=> k = Len(l)

(* The array is full of a line that is too long for it. *)
Full == uiReadLineValidSize = Size /\ uiReadLineIdx = 0 /\ NewLines = {}

(* Every line that arrives is returned, unless one of them does not fit:   *)
(* then readBuffer is left with no room to read into.                      *)
LinesArrive ==
    \A n \in 1 .. MaxBytes :
        (Cardinality({k \in DOMAIN received : received[k] = NewLine})
         + Cardinality({k \in DOMAIN stream : stream[k] = NewLine}) >= n)
            ~> (Len(lines) >= n \/ Full)

(* And it stays so: no later call gets the reader out of it.               *)
FullForEver == [][Full => Full']_vars

=============================================================================
