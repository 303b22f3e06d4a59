------------------------------ MODULE CsvLines ------------------------------
(***************************************************************************)
(* LineReader and AsynchronousReader of csv.h: a file cut into lines in a  *)
(* buffer of three blocks.  The caller's thread has the first two; a       *)
(* worker thread reads ahead into the third, and the two meet through a    *)
(* mutex and two condition variables.                                      *)
(*                                                                         *)
(* The worker holds the mutex while it reads, a byte at a step, and the    *)
(* caller holds it only within a step.  A thread in a wait goes on when it *)
(* is notified, or for no reason, and then tests its condition again.      *)
(* The bytes of a file are numbers; what a file holds is never changed     *)
(* while it is read, and a short read is its end.                          *)
(***************************************************************************)
EXTENDS Integers, SequencesExt

CONSTANT block_len    \* 2^20 in csv.h

ASSUME BlockAssumption == block_len \in Nat /\ block_len >= 3

NUL == 0
NL  == 10
CR  == 13
BOM == <<239, 187, 191>>    \* the UTF-8 byte order mark

VARIABLES
    file,                   \* the contents of the file
    pos,                    \* bytes of it that fread has delivered
    buffer,                 \* the three blocks
    data_begin, data_end,   \* what is in the first two and not yet returned
    pc,                     \* the caller, inside or outside the LineReader
    worker,                 \* none, lock, wait, read, exited
    got,                    \* bytes of the worker's read so far
    desired_byte_count, read_byte_count, termination_requested,
    lines                   \* history: what next_line has returned

sharedVars == <<desired_byte_count, read_byte_count, termination_requested>>
windowVars == <<data_begin, data_end>>
linesVars  == <<file, pos, buffer, windowVars, pc, worker, got, sharedVars, lines>>

None == -1          \* of the two byte counts
Junk == -1          \* what new char[] leaves in a byte

LinesInit(f) ==
    /\ file = f /\ pos = 0
    /\ buffer = [k \in 0 .. 3 * block_len - 1 |-> Junk]
    /\ data_begin = 0 /\ data_end = 0
    /\ pc = "open"
    /\ worker = "none" /\ got = 0
    /\ desired_byte_count = None /\ read_byte_count = None
    /\ termination_requested = FALSE
    /\ lines = <<>>

(* notify_one, and the mutex, which only the worker keeps for long. *)
Notified(w)  == IF w = "wait" THEN "lock" ELSE w
MutexFree    == worker # "read"
is_valid     == worker # "none"

(* A memcpy of block b of the buffer to block a. *)
Copied(a, b) ==
    [k \in DOMAIN buffer |->
        IF k \div block_len = a THEN buffer[k + (b - a) * block_len] ELSE buffer[k]]

-----------------------------------------------------------------------------
(* The constructor. *)

(* fopen may fail; init reads two blocks, skips the mark, and starts the   *)
(* worker when there may be more.                                          *)
init ==
    /\ pc = "open"
    /\ \/ LET n == Min({2 * block_len, Len(file)}) IN
          /\ pos' = n
          /\ buffer' = [k \in DOMAIN buffer |-> IF k < n THEN file[k + 1] ELSE buffer[k]]
          /\ data_end' = n
          /\ data_begin' = IF n >= 3 /\ IsPrefix(BOM, file) THEN 3 ELSE 0
          /\ IF n = 2 * block_len THEN worker' = "lock" /\ pc' = "prefetch"
             ELSE pc' = "idle" /\ UNCHANGED worker
       \/ pc' = "thrown" /\ UNCHANGED <<pos, buffer, windowVars, worker>>
    /\ UNCHANGED <<file, got, sharedVars, lines>>

(* start_read asks for the third block: at the end of init, and in         *)
(* next_line once that block has been copied.                              *)
start_read ==
    /\ pc \in {"prefetch", "start"} /\ MutexFree
    /\ desired_byte_count' = block_len
    /\ read_byte_count' = None
    /\ worker' = Notified(worker)
    /\ pc' = IF pc = "start" THEN "scan" ELSE "idle"
    /\ UNCHANGED <<file, pos, buffer, windowVars, got, termination_requested, lines>>

-----------------------------------------------------------------------------
(* next_line, from its call to its return. *)

next_line ==
    /\ pc = "idle"
    /\ \/ /\ data_begin = data_end
          /\ pc' = "end" /\ UNCHANGED <<buffer, windowVars>>
       \/ /\ data_begin # data_end /\ data_begin < block_len
          /\ pc' = "scan" /\ UNCHANGED <<buffer, windowVars>>
       \/ /\ data_begin # data_end /\ data_begin >= block_len
          /\ buffer' = Copied(0, 1)
          /\ data_begin' = data_begin - block_len
          /\ data_end' = data_end - block_len
          /\ pc' = IF is_valid THEN "finish" ELSE "scan"
    /\ UNCHANGED <<file, pos, worker, got, sharedVars, lines>>

finish_read ==
    /\ pc = "finish" /\ MutexFree
    /\ IF read_byte_count = None
       THEN pc' = "wait" /\ UNCHANGED data_end
       ELSE pc' = "copy" /\ data_end' = data_end + read_byte_count
    /\ UNCHANGED <<file, pos, buffer, data_begin, worker, got, sharedVars, lines>>

(* The third block becomes the second, outside the mutex. *)
CopyBlock ==
    /\ pc = "copy" /\ pc' = "start"
    /\ buffer' = Copied(1, 2)
    /\ UNCHANGED <<file, pos, windowVars, worker, got, sharedVars, lines>>

(* The while that looks for the end of the line.  It stops at data_end,    *)
(* whatever byte is there: when data_end is the end of the second block    *)
(* that is a byte the worker may be writing.                               *)
line_end == Min({k \in data_begin .. data_end : k = data_end \/ buffer[k] = NL})

TooLong_OffByOne == line_end - data_begin > block_len
TooLong          == line_end - data_begin + 1 > block_len

(* A last line without a newline gets one more byte. *)
EndAfter_NoByte == data_end
EndAfter == IF line_end = data_end THEN data_end + 1 ELSE data_end

(* The end of the line, and a carriage return before it, become NUL. *)
Ended ==
    [k \in DOMAIN buffer |->
        IF \/ k = line_end
           \/ k = line_end - 1 /\ k >= data_begin /\ buffer[k] = CR
        THEN NUL ELSE buffer[k]]

(* The text at a pointer into the buffer: up to the first NUL. *)
Text(buf, from) ==
    LET end == Min({k \in DOMAIN buf : k >= from /\ buf[k] = NUL})
    IN  [k \in 1 .. end - from |-> buf[from + k - 1]]

scan ==
    /\ pc = "scan"
    /\ IF TooLong
       THEN pc' = "thrown" /\ UNCHANGED <<buffer, windowVars, lines>>
       ELSE /\ buffer' = Ended
            /\ data_end' = EndAfter
            /\ lines' = Append(lines, Text(Ended, data_begin))
            /\ data_begin' = line_end + 1
            /\ pc' = "idle"
    /\ UNCHANGED <<file, pos, worker, got, sharedVars>>

-----------------------------------------------------------------------------
(* The destructor: termination_requested under the mutex, the notification *)
(* after it, the join; then the buffer goes.                               *)
Destroy ==
    /\ pc \in {"idle", "end", "thrown"}
    /\ pc' = IF is_valid THEN "terminate" ELSE "gone"
    /\ UNCHANGED <<file, pos, buffer, windowVars, worker, got, sharedVars, lines>>

terminate ==
    /\ pc = "terminate" /\ MutexFree
    /\ termination_requested' = TRUE
    /\ pc' = "notify"
    /\ UNCHANGED <<file, pos, buffer, windowVars, worker, got, desired_byte_count,
                   read_byte_count, lines>>

notify ==
    /\ pc = "notify" /\ pc' = "join"
    /\ worker' = Notified(worker)
    /\ UNCHANGED <<file, pos, buffer, windowVars, got, sharedVars, lines>>

Joinable_Detached == pc = "join"
Joinable == pc = "join" /\ worker = "exited"

join ==
    /\ Joinable /\ pc' = "gone"
    /\ UNCHANGED <<file, pos, buffer, windowVars, worker, got, sharedVars, lines>>

-----------------------------------------------------------------------------
(* The worker. *)

(* It has the mutex and tests its condition. *)
Wakeup ==
    /\ worker = "lock"
    /\ worker' = IF termination_requested THEN "exited"
                 ELSE IF desired_byte_count # None THEN "read"
                 ELSE "wait"
    /\ UNCHANGED <<file, pos, buffer, windowVars, pc, got, sharedVars, lines>>

fread ==
    /\ worker = "read" /\ got < desired_byte_count /\ pos < Len(file)
    /\ buffer' = [buffer EXCEPT ![2 * block_len + got] = file[pos + 1]]
    /\ pos' = pos + 1 /\ got' = got + 1
    /\ UNCHANGED <<file, windowVars, pc, worker, sharedVars, lines>>

(* The read is complete: the caller is notified, and the worker waits      *)
(* again, or ends for good after a read of nothing.                        *)
FinishNotified_OnlyData == IF pc = "wait" /\ got > 0 THEN "finish" ELSE pc
FinishNotified == IF pc = "wait" THEN "finish" ELSE pc

EndOfRead ==
    /\ worker = "read" /\ (got = desired_byte_count \/ pos = Len(file))
    /\ read_byte_count' = got /\ got' = 0
    /\ desired_byte_count' = None
    /\ worker' = IF got = 0 THEN "exited" ELSE "wait"
    /\ pc' = FinishNotified
    /\ UNCHANGED <<file, pos, buffer, windowVars, termination_requested, lines>>

SpuriousWakeup ==
    /\ \/ pc = "wait" /\ pc' = "finish" /\ UNCHANGED worker
       \/ worker = "wait" /\ worker' = "lock" /\ UNCHANGED pc
    /\ UNCHANGED <<file, pos, buffer, windowVars, got, sharedVars, lines>>

Inside == init \/ start_read \/ finish_read \/ CopyBlock \/ scan \/ terminate \/ notify \/ join
Worker == Wakeup \/ fread \/ EndOfRead

-----------------------------------------------------------------------------
(* Properties. *)

(* The two assertions of next_line, and the types. *)
LinesTypeOK ==
    /\ pos \in 0 .. Len(file)
    /\ 0 <= data_begin /\ data_begin <= data_end /\ data_end <= 2 * block_len
    /\ pc \in {"open", "prefetch", "idle", "scan", "finish", "wait", "copy", "start",
               "end", "thrown", "terminate", "notify", "join", "gone"}
    /\ worker \in {"none", "lock", "wait", "read", "exited"}
    /\ got \in 0 .. block_len
    /\ desired_byte_count \in {None, block_len}
    /\ read_byte_count \in None .. block_len

(* The worker fills the third block only while the caller does not copy    *)
(* it, and never a buffer that is gone, although the copy and the          *)
(* destruction happen outside the mutex.                                   *)
BufferIsOwned ==
    /\ pc \in {"copy", "start"} => worker # "read" /\ desired_byte_count = None
    /\ pc = "gone" => worker \in {"none", "exited"}

(* The lines of a file: what stands between the newlines, without the mark *)
(* at its start, a carriage return at a line's end and all from a NUL on;  *)
(* what follows the last newline is a line if it is not empty.             *)
Bytes == IF IsPrefix(BOM, file) THEN SubSeq(file, 4, Len(file)) ELSE file
LineEnds(bytes) ==
    LET found[n \in 0 .. Len(bytes)] ==
            IF n = 0 THEN <<0>>
            ELSE IF bytes[n] = NL THEN Append(found[n - 1], n) ELSE found[n - 1]
        nl == found[Len(bytes)]
    IN  IF Last(nl) = Len(bytes) THEN nl ELSE Append(nl, Len(bytes) + 1)
LineText(raw) ==
    LET cut == IF raw # <<>> /\ Last(raw) = CR THEN Front(raw) ELSE raw
        nul == {k \in DOMAIN cut : cut[k] = NUL}
    IN  IF nul = {} THEN cut ELSE SubSeq(cut, 1, Min(nul) - 1)
Ends == LineEnds(Bytes)
RawLine(n) == SubSeq(Bytes, Ends[n] + 1, Ends[n + 1] - 1)
FileLine(n) == LineText(RawLine(n))
FileLines == [n \in 1 .. Len(Ends) - 1 |-> FileLine(n)]

(* next_line returns the lines of the file, all of them before it reports  *)
(* the end, wherever the borders of the blocks fall and however far the    *)
(* worker has read; it throws only when there is a next line and it does   *)
(* not fit into a block.                                                   *)
LinesOfTheFile ==
    /\ pc = "end" => lines = FileLines
    /\ pc = "thrown" /\ pos > 0 =>
          /\ IsPrefix(lines, FileLines) /\ Len(lines) < Len(FileLines)
          /\ Len(RawLine(Len(lines) + 1)) >= block_len
    /\ pc = "gone" => IsPrefix(lines, FileLines)

=============================================================================
