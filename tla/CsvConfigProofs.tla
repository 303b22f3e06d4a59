-------------------------- MODULE CsvConfigProofs --------------------------
(***************************************************************************)
(* For every block length, file and caller: the two threads of csv.h never *)
(* use the third block of the buffer at the same time, the window stays in *)
(* the first two, every line returned is a line of the file, in its order, *)
(* and ParseCsvData leaves nothing half set and takes a file just when it  *)
(* is well formed.                                                         *)
(***************************************************************************)
EXTENDS CsvConfig, SharedLemmas

(* The two byte counts say whose the third block is: a read in progress    *)
(* was asked for, and what is asked for has not been delivered.            *)
CountsInv ==
    /\ got \in Nat
    /\ worker = "read" => desired_byte_count # None
    /\ read_byte_count # None => desired_byte_count = None
    /\ pc \in {"copy", "start"} => read_byte_count # None

(* The inductive invariant. *)
IInv == CountsInv /\ BufferIsOwned

-----------------------------------------------------------------------------

(* Before the constructor nobody has asked for a read. *)
LEMMA InitIInv == Init => IInv
  BY DEF Init, LinesInit, IInv, CountsInv, BufferIsOwned, None

(* A step of the caller inside the LineReader keeps the invariant. *)
LEMMA InsideIInv ==
    ASSUME IInv, Inside
    PROVE  IInv'
<1> USE BlockAssumption DEF IInv, CountsInv, BufferIsOwned, None, sharedVars, windowVars
<1>1. CASE init
  BY <1>1 DEF init
<1>2. CASE start_read
  BY <1>2 DEF start_read, MutexFree, Notified
<1>3. CASE finish_read
  BY <1>3 DEF finish_read, MutexFree
<1>4. CASE CopyBlock
  BY <1>4 DEF CopyBlock
<1>5. CASE scan
  BY <1>5 DEF scan
<1>6. CASE terminate
  BY <1>6 DEF terminate
<1>7. CASE notify
  BY <1>7 DEF notify, Notified
<1>8. CASE join
  BY <1>8 DEF join, Joinable
<1>9. QED
  BY <1>1, <1>2, <1>3, <1>4, <1>5, <1>6, <1>7, <1>8 DEF Inside

(* So does a step of the worker, and a wake-up for no reason. *)
LEMMA WorkerIInv ==
    ASSUME IInv, Worker \/ SpuriousWakeup
    PROVE  IInv'
<1> USE DEF IInv, CountsInv, BufferIsOwned, None, sharedVars, windowVars
<1>1. CASE Wakeup
  BY <1>1 DEF Wakeup
<1>2. CASE fread
  BY <1>2 DEF fread
<1>3. CASE EndOfRead
  BY <1>3 DEF EndOfRead, FinishNotified
<1>4. CASE SpuriousWakeup
  BY <1>4 DEF SpuriousWakeup
<1>5. QED
  BY <1>1, <1>2, <1>3, <1>4 DEF Worker

(* The calls that a client makes do not touch the counts. *)
LEMMA CallIInv ==
    ASSUME IInv, next_line \/ Destroy \/ UNCHANGED linesVars
    PROVE  IInv'
<1> USE DEF IInv, CountsInv, BufferIsOwned, None, sharedVars, windowVars
<1>1. CASE next_line
  BY <1>1 DEF next_line
<1>2. CASE Destroy
  BY <1>2 DEF Destroy, is_valid
<1>3. CASE UNCHANGED linesVars
  BY <1>3 DEF linesVars
<1>4. QED
  BY <1>1, <1>2, <1>3

(* What a client does to the LineReader: it calls next_line, it destroys   *)
(* it, or it leaves it alone.                                              *)
LEMMA ClientCalls ==
    ASSUME Client
    PROVE  next_line \/ Destroy \/ UNCHANGED linesVars
  BY DEF Client, ParseCsvData, OtherCaller, read_header, read_row, EndOfScope, GetPort

(* The worker fills the third block only while the caller does not copy    *)
(* it, and never a buffer that is gone, for every block length and file.   *)
THEOREM BufferCorrect == Spec => []BufferIsOwned
<1>1. IInv /\ [Next]_vars => IInv'
  <2> SUFFICES ASSUME IInv, [Next]_vars PROVE IInv'
    OBVIOUS
  <2>1. CASE Client
    BY <2>1, ClientCalls, CallIInv
  <2>2. CASE Inside
    BY <2>2, InsideIInv
  <2>3. CASE Worker \/ SpuriousWakeup
    BY <2>3, WorkerIInv
  <2>4. CASE Done \/ UNCHANGED vars
    BY <2>4, CallIInv DEF Done, vars
  <2>5. QED
    BY <2>1, <2>2, <2>3, <2>4 DEF Next, Reader
<1>2. IInv => BufferIsOwned
  BY DEF IInv
<1>3. QED
  BY InitIInv, <1>1, <1>2, PTL DEF Spec

-----------------------------------------------------------------------------
(* The texts that ParseCsvData takes out of a line. *)

(* A turn of Chop, and the recursion in it as an equation. *)
Cut(cols, c) ==
    IF c = Comma THEN Append(cols, <<>>) ELSE [cols EXCEPT ![Len(cols)] = Append(@, c)]
IsCut(g, line) ==
    g = [n \in 0 .. Len(line) |-> IF n = 0 THEN << <<>> >> ELSE Cut(g[n - 1], line[n])]

(* The columns of a line. *)
Texts == {cols \in Seq(Seq(Int)) : Len(cols) > 0}

(* A character more leaves at least one column. *)
LEMMA CutType ==
    ASSUME NEW cols \in Texts, NEW c \in Int
    PROVE  Cut(cols, c) \in Texts
<1>1. cols \in Seq(Seq(Int)) /\ Len(cols) \in 1 .. Len(cols) /\ Len(cols) \in Nat
  BY DEF Texts
<1>2. CASE c = Comma
  <2>1. Append(cols, <<>>) \in Seq(Seq(Int)) /\ Len(Append(cols, <<>>)) = Len(cols) + 1
    BY <1>1
  <2> QED BY <1>1, <1>2, <2>1 DEF Texts, Cut
<1>3. CASE c # Comma
  <2> DEFINE t == Append(cols[Len(cols)], c)
             r == [cols EXCEPT ![Len(cols)] = t]
  <2>1. cols[Len(cols)] \in Seq(Int)
    BY <1>1, ElementOfSeq
  <2>2. t \in Seq(Int)
    BY <2>1
  <2> HIDE DEF t
  <2>3. r \in Seq(Seq(Int)) /\ Len(r) = Len(cols)
    BY <1>1, <2>2, ExceptSeq
  <2> HIDE DEF r
  <2>4. Cut(cols, c) = r
    BY <1>3 DEF Cut, r, t
  <2> QED BY <1>1, <2>3, <2>4 DEF Texts
<1> QED BY <1>2, <1>3

(* Chop cuts a line into at least one column. *)
LEMMA ChopType ==
    ASSUME NEW line \in Seq(Int)
    PROVE  Chop(line) \in Seq(Seq(Int)) /\ Len(Chop(line)) \in Nat \ {0}
<1> DEFINE m == Len(line)
           one == << <<>> >>
           F == CHOOSE g : IsCut(g, line)
<1>1. m \in Nat /\ \A n \in 1 .. m : line[n] \in Int
  OBVIOUS
<1>2. one \in Texts
  BY DEF Texts
<1> HIDE DEF one
<1>3. \E g : IsCut(g, line)
  <2> DEFINE st == [n \in 1 .. m |-> [cols \in Texts |-> Cut(cols, line[n])]]
  <2>1. st \in [1 .. m -> [Texts -> Texts]]
    BY <1>1, CutType
  <2>2. \A cols \in Texts, n \in 1 .. m : st[n][cols] = Cut(cols, line[n])
    OBVIOUS
  <2> HIDE DEF st, m
  <2>3. PICK g : Iterates(g, Texts, one, m, st)
    BY <1>1, <1>2, <2>1, RecursionExists
  <2>4. ASSUME NEW n \in 0 .. m PROVE g[n] = IF n = 0 THEN one ELSE Cut(g[n - 1], line[n])
    <3>1. CASE n = 0
      BY <2>3, <3>1 DEF Iterates
    <3>2. CASE n # 0
      <4>1. n \in 1 .. m /\ n - 1 \in 0 .. m
        BY <1>1, <3>2
      <4> QED BY <2>2, <2>3, <3>2, <4>1 DEF Iterates
    <3> QED BY <3>1, <3>2
  <2>5. IsCut(g, line)
    <3>1. g = [n \in 0 .. m |-> g[n]]
      BY <2>3 DEF Iterates
    <3> QED BY <2>4, <3>1 DEF IsCut, m, one
  <2> QED BY <2>5
<1>4. IsCut(F, line)
  BY <1>3, Zenon
<1>5. Chop(line) = F[m]
  BY Zenon DEF Chop, IsCut, Cut
<1> HIDE DEF F
<1>6. F[0] = one
  BY <1>1, <1>4 DEF IsCut, one
<1>7. ASSUME NEW n \in 0 .. m - 1 PROVE F[n + 1] = Cut(F[n], line[n + 1])
  <2>1. n + 1 \in 0 .. m /\ n + 1 # 0 /\ (n + 1) - 1 = n
    BY <1>1
  <2>2. F[n + 1] = Cut(F[(n + 1) - 1], line[n + 1])
    BY <1>4, <2>1, Zenon DEF IsCut
  <2> QED BY <2>1, <2>2
<1>8. \A n \in 0 .. m : n \in {k \in 0 .. m : F[k] \in Texts}
  <2> DEFINE S == {k \in 0 .. m : F[k] \in Texts}
  <2>1. 0 \in S
    BY <1>1, <1>2, <1>6
  <2>2. ASSUME NEW n \in 0 .. m - 1, n \in S PROVE n + 1 \in S
    <3>1. n + 1 \in 1 .. m /\ n + 1 \in 0 .. m
      BY <1>1
    <3> QED BY <1>1, <1>7, <2>2, <3>1, CutType
  <2> HIDE DEF S, m
  <2> QED BY <1>1, <2>1, <2>2, BoundedInduction DEF S
<1>9. F[m] \in Texts
  BY <1>1, <1>8
<1> QED BY <1>5, <1>9 DEF Texts

(* trim returns a text. *)
LEMMA TrimType ==
    ASSUME NEW col \in Seq(Int)
    PROVE  Trim(col) \in Seq(Int)
<1> DEFINE text == {k \in DOMAIN col : col[k] \notin Blanks}
<1>1. CASE text = {}
  BY <1>1 DEF Trim
<1>2. CASE text # {}
  <2>1. text \in SUBSET (0 .. Len(col)) /\ text \in SUBSET (1 .. Len(col)) /\ Len(col) \in Nat
    OBVIOUS
  <2>2. text \in SUBSET Nat
    BY <2>1
  <2> HIDE DEF text
  <2>3. Min(text) \in text
    BY <1>2, <2>2, MinType
  <2>4. \E x \in text : \A y \in text : y <= x
    BY <1>2, <2>1, GreatestElement
  <2>5. \E x \in text : \A y \in text : x >= y
    BY <2>2, <2>4
  <2>6. Max(text) \in text
    BY <2>5, Zenon DEF Max
  <2>7. Min(text) \in 1 .. Len(col) /\ Max(text) \in 1 .. Len(col)
    BY <2>1, <2>3, <2>6
  <2>8. SubSeq(col, Min(text), Max(text)) \in Seq(Int)
    BY <2>1, <2>7
  <2> QED BY <1>2, <2>8 DEF Trim, text
<1> QED BY <1>1, <1>2

(* The places of the columns of a header that does not throw. *)
LEMMA HeaderOrderType ==
    ASSUME NEW line \in Seq(Int), ~HeaderThrows(line)
    PROVE  HeaderOrder(line) \in Seq(DOMAIN Columns)
<1> DEFINE n == Len(Chop(line))
<1>1. n \in Nat /\ DOMAIN Chop(line) = 1 .. n
  BY ChopType
<1>2. DOMAIN Header(line) = 1 .. n
  BY <1>1 DEF Header
<1>3. ASSUME NEW k \in 1 .. n PROVE HeaderOrder(line)[k] \in DOMAIN Columns
  <2>1. Header(line)[k] \in ToSet(Columns)
    BY <1>2 DEF HeaderThrows
  <2>2. \E c \in DOMAIN Columns : Columns[c] = Header(line)[k]
    BY <2>1 DEF ToSet
  <2>3. HeaderOrder(line)[k] = CHOOSE c \in DOMAIN Columns : Columns[c] = Header(line)[k]
    BY <1>2, Zenon DEF HeaderOrder
  <2> QED BY <2>2, <2>3, Zenon
<1>4. HeaderOrder(line) = [k \in 1 .. n |-> HeaderOrder(line)[k]]
  BY <1>2 DEF HeaderOrder
<1> HIDE DEF n
<1>5. HeaderOrder(line) \in [1 .. n -> DOMAIN Columns]
  BY <1>3, <1>4
<1> QED BY <1>1, <1>5

(* The values of a row that does not throw: every column of the header has *)
(* one.                                                                    *)
LEMMA RowType ==
    ASSUME NEW line \in Seq(Int), col_order \in Seq(DOMAIN Columns), ~RowThrows(line)
    PROVE  Row(line) \in [DOMAIN Columns -> Seq(Int)]
<1>1. /\ Chop(line) \in Seq(Seq(Int)) /\ Len(Chop(line)) = Len(col_order)
      /\ DOMAIN col_order = 1 .. Len(Chop(line)) /\ Len(Chop(line)) \in Nat
  BY ChopType DEF RowThrows
<1>2. ASSUME NEW c \in DOMAIN Columns PROVE Row(line)[c] \in Seq(Int)
  <2> DEFINE at == {k \in DOMAIN col_order : col_order[k] = c}
  <2>1. Row(line)[c] = IF at = {} THEN <<>> ELSE Trim(Chop(line)[Min(at)])
    BY DEF Row
  <2>2. at \in SUBSET (1 .. Len(Chop(line)))
    BY <1>1
  <2> HIDE DEF at
  <2>3. CASE at = {}
    BY <2>1, <2>3
  <2>4. CASE at # {}
    <3>1. at \in SUBSET Nat
      BY <1>1, <2>2
    <3>2. Min(at) \in 1 .. Len(Chop(line))
      BY <2>2, <2>4, <3>1, MinType
    <3>3. Chop(line)[Min(at)] \in Seq(Int)
      BY <1>1, <3>2, ElementOfSeq
    <3> QED BY <2>1, <2>4, <3>3, TrimType
  <2> QED BY <2>3, <2>4
<1> QED BY <1>2 DEF Row

-----------------------------------------------------------------------------
(* The types, and the bounds of the window of bytes not yet returned.      *)

(* The buffer of three blocks. *)
Array == [0 .. 3 * block_len - 1 -> Int]

(* While a line is looked for, the window begins in the first block; and   *)
(* it does not reach the second one while that is to be filled.            *)
WindowInv ==
    /\ data_begin \in Nat /\ data_end \in Nat
    /\ pc \in {"scan", "finish", "wait", "copy", "start"} => data_begin < block_len
    /\ pc \in {"finish", "wait"} => data_end <= block_len

(* The bytes and the texts. *)
TextInv == file \in Seq(0 .. 255) /\ buffer \in Array /\ lines \in Seq(Seq(Int))

(* The invariant of the LineReader. *)
LinesInv == CountsInv /\ LinesTypeOK /\ WindowInv /\ TextInv

(* A memcpy of a block. *)
LEMMA CopiedType ==
    ASSUME buffer \in Array
    PROVE  Copied(0, 1) \in Array /\ Copied(1, 2) \in Array
<1> USE BlockAssumption
<1> DEFINE B == block_len
           D == 0 .. 3 * B - 1
<1>1. DOMAIN buffer = D
  BY DEF Array
<1>2. ASSUME NEW k \in D, k \div B = 0 PROVE k + (1 - 0) * B \in D
  <2>1. k < B
    BY <1>2
  <2> QED BY <2>1
<1>3. ASSUME NEW k \in D, k \div B = 1 PROVE k + (2 - 1) * B \in D
  <2>1. k < 2 * B
    BY <1>3
  <2> QED BY <2>1
<1> HIDE DEF D
<1>4. Copied(0, 1) \in [D -> Int]
  BY <1>1, <1>2 DEF Copied, Array, D
<1>5. Copied(1, 2) \in [D -> Int]
  BY <1>1, <1>3 DEF Copied, Array, D
<1> QED BY <1>4, <1>5 DEF Array, D

(* The end of the line is in the window, or just behind it. *)
LEMMA LineEndType ==
    ASSUME data_begin \in Nat, data_end \in Nat, data_begin <= data_end
    PROVE  line_end \in data_begin .. data_end
<1> DEFINE T == {k \in data_begin .. data_end : k = data_end \/ buffer[k] = NL}
<1>1. data_end \in T /\ T \in SUBSET Nat /\ T \subseteq data_begin .. data_end
  OBVIOUS
<1> HIDE DEF T
<1>2. Min(T) \in T
  BY <1>1, MinType
<1> QED BY <1>1, <1>2 DEF line_end, T

(* The text at a pointer before a NUL. *)
LEMMA TextType ==
    ASSUME NEW buf \in Array, NEW from \in Nat, NEW e \in from .. 3 * block_len - 1, buf[e] = NUL
    PROVE  Text(buf, from) \in Seq(Int)
<1> USE BlockAssumption
<1> DEFINE T == {k \in DOMAIN buf : k >= from /\ buf[k] = NUL}
           end == Min(T)
<1>1. DOMAIN buf = 0 .. 3 * block_len - 1 /\ \A k \in 0 .. 3 * block_len - 1 : buf[k] \in Int
  BY DEF Array
<1>2. e \in T /\ T \in SUBSET Nat /\ \A k \in T : k \in from .. 3 * block_len - 1
  BY <1>1
<1> HIDE DEF T
<1>3. end \in T
  BY <1>2, MinType
<1>4. end \in from .. 3 * block_len - 1
  BY <1>2, <1>3
<1> HIDE DEF end
<1>5. ASSUME NEW k \in 1 .. end - from PROVE buf[from + k - 1] \in Int
  BY <1>1, <1>4
<1>6. [k \in 1 .. end - from |-> buf[from + k - 1]] \in Seq(Int)
  BY <1>4, <1>5
<1> QED BY <1>6 DEF Text, end, T

(* A byte is an integer. *)
LEMMA ByteInt ==
    \A x \in 0 .. 255 : x \in Int
OBVIOUS

(* The constructor fills at most the first two blocks. *)
LEMMA InitRead ==
    ASSUME LinesInv, init
    PROVE  LinesInv'
<1> USE BlockAssumption
<1> DEFINE n == Min({2 * block_len, Len(file)})
<1>1. /\ file \in Seq(0 .. 255) /\ buffer \in Array /\ Len(file) \in Nat
      /\ \A k \in 1 .. Len(file) : file[k] \in Int
  <2>1. file \in Seq(0 .. 255) /\ buffer \in Array /\ Len(file) \in Nat
    BY DEF LinesInv, TextInv
  <2>2. ASSUME NEW k \in 1 .. Len(file) PROVE file[k] \in Int
    <3>1. file[k] \in 0 .. 255
      BY <2>1, ElementOfSeq
    <3> QED BY <3>1, ByteInt, Zenon
  <2> QED BY <2>1, <2>2
<1>2. n \in {2 * block_len, Len(file)} /\ n <= 2 * block_len /\ n <= Len(file)
  <2> DEFINE T == {2 * block_len, Len(file)}
  <2>1. T \in SUBSET Nat /\ T # {}
    BY <1>1
  <2>2. Min(T) \in T /\ \A x \in T : Min(T) <= x
    <3> HIDE DEF T
    <3> QED BY <2>1, MinType
  <2> QED BY <2>2
<1>3. n \in 0 .. Len(file)
  BY <1>1, <1>2
<1>4. UNCHANGED <<file, got, desired_byte_count, read_byte_count, lines>> /\ pc = "open"
  BY DEF init, sharedVars
<1>5. CASE pc' = "thrown" /\ UNCHANGED <<pos, buffer, windowVars, worker>>
  <2> USE DEF LinesInv
  <2>1. CountsInv'
    BY <1>4, <1>5 DEF CountsInv
  <2>2. LinesTypeOK'
    BY <1>4, <1>5 DEF LinesTypeOK, windowVars
  <2>3. WindowInv' /\ TextInv'
    BY <1>4, <1>5 DEF WindowInv, TextInv, windowVars
  <2> QED BY <2>1, <2>2, <2>3
<1>6. CASE /\ pos' = n
           /\ buffer' = [k \in DOMAIN buffer |-> IF k < n THEN file[k + 1] ELSE buffer[k]]
           /\ data_end' = n
           /\ data_begin' = IF n >= 3 /\ IsPrefix(BOM, file) THEN 3 ELSE 0
           /\ IF n = 2 * block_len THEN worker' = "lock" /\ pc' = "prefetch"
              ELSE pc' = "idle" /\ UNCHANGED worker
  <2> HIDE DEF n
  <2>1. buffer' \in Array
    <3>1. DOMAIN buffer = 0 .. 3 * block_len - 1
      BY <1>1 DEF Array
    <3>2. ASSUME NEW k \in 0 .. 3 * block_len - 1, k < n PROVE file[k + 1] \in Int
      <4>1. k + 1 \in 1 .. Len(file)
        BY <1>1, <1>3, <3>2
      <4> QED BY <1>1, <4>1
    <3> QED BY <1>1, <1>6, <3>1, <3>2 DEF Array
  <2>2. TextInv'
    BY <1>4, <2>1 DEF LinesInv, TextInv
  <2>3. data_begin' \in Nat /\ data_end' \in Nat /\ data_begin' <= data_end' /\ data_end' <= 2 * block_len
    <3>1. data_begin' = 0 \/ (data_begin' = 3 /\ n >= 3)
      BY <1>6
    <3> QED BY <1>2, <1>3, <1>6, <3>1
  <2>4. pc' \in {"prefetch", "idle"} /\ worker' \in {"lock", worker}
    BY <1>6
  <2>5. WindowInv'
    BY <2>3, <2>4 DEF WindowInv
  <2>6. CountsInv'
    BY <1>4, <2>4 DEF LinesInv, CountsInv
  <2>7. LinesTypeOK'
    BY <1>3, <1>4, <1>6, <2>3, <2>4 DEF LinesInv, LinesTypeOK
  <2> QED BY <2>2, <2>5, <2>6, <2>7 DEF LinesInv
<1> QED BY <1>5, <1>6 DEF init

(* A line is cut off: a byte that is added at the end of the window still  *)
(* belongs to the second block, because the line fits into a block.        *)
LEMMA ScanType ==
    ASSUME LinesInv, scan
    PROVE  LinesInv'
<1> USE BlockAssumption
<1>1. /\ pc = "scan" /\ data_begin \in Nat /\ data_end \in Nat /\ data_begin <= data_end
      /\ data_end <= 2 * block_len /\ data_begin < block_len /\ buffer \in Array
      /\ lines \in Seq(Seq(Int))
  BY DEF scan, LinesInv, WindowInv, LinesTypeOK, TextInv
<1>2. line_end \in data_begin .. data_end
  BY <1>1, LineEndType
<1>3. UNCHANGED <<file, pos, worker, got, desired_byte_count, read_byte_count>>
  BY DEF scan, sharedVars
<1>4. CASE TooLong
  <2>1. pc' = "thrown" /\ UNCHANGED <<buffer, data_begin, data_end, lines>>
    BY <1>4 DEF scan, windowVars
  <2>2. CountsInv'
    BY <1>3, <2>1 DEF LinesInv, CountsInv
  <2>3. LinesTypeOK'
    BY <1>3, <2>1 DEF LinesInv, LinesTypeOK
  <2>4. WindowInv' /\ TextInv'
    BY <1>3, <2>1 DEF LinesInv, WindowInv, TextInv
  <2> QED BY <2>2, <2>3, <2>4 DEF LinesInv
<1>5. CASE ~TooLong
  <2>1. /\ buffer' = Ended /\ data_end' = EndAfter /\ pc' = "idle"
        /\ lines' = Append(lines, Text(Ended, data_begin)) /\ data_begin' = line_end + 1
    BY <1>5 DEF scan
  <2>2. line_end + 1 <= data_begin + block_len
    BY <1>1, <1>2, <1>5 DEF TooLong
  <2>3. data_begin' \in Nat /\ data_end' \in Nat /\ data_begin' <= data_end' /\ data_end' <= 2 * block_len
    BY <1>1, <1>2, <2>1, <2>2 DEF EndAfter
  <2>4. Ended \in Array /\ Ended[line_end] = NUL /\ line_end \in data_begin .. 3 * block_len - 1
    <3>1. DOMAIN buffer = 0 .. 3 * block_len - 1 /\ line_end \in 0 .. 3 * block_len - 1
      BY <1>1, <1>2 DEF Array
    <3> QED BY <1>1, <1>2, <3>1 DEF Ended, Array, NUL
  <2>5. Text(Ended, data_begin) \in Seq(Int)
    BY <1>1, <2>4, TextType
  <2>6. lines' \in Seq(Seq(Int))
    BY <1>1, <2>1, <2>5
  <2>7. TextInv'
    BY <1>3, <2>1, <2>4, <2>6 DEF LinesInv, TextInv
  <2>8. WindowInv'
    BY <2>1, <2>3 DEF WindowInv
  <2>9. CountsInv'
    BY <1>3, <2>1 DEF LinesInv, CountsInv
  <2>10. LinesTypeOK'
    BY <1>3, <2>1, <2>3 DEF LinesInv, LinesTypeOK
  <2> QED BY <2>7, <2>8, <2>9, <2>10 DEF LinesInv
<1> QED BY <1>4, <1>5

(* The blocks are moved together with the window. *)
LEMMA NextLineType ==
    ASSUME LinesInv, next_line
    PROVE  LinesInv'
<1> USE BlockAssumption
<1>1. /\ pc = "idle" /\ data_begin \in Nat /\ data_end \in Nat /\ data_begin <= data_end
      /\ data_end <= 2 * block_len /\ buffer \in Array
  BY DEF next_line, LinesInv, WindowInv, LinesTypeOK, TextInv
<1>2. UNCHANGED <<file, pos, worker, got, desired_byte_count, read_byte_count, lines>>
  BY DEF next_line, sharedVars
<1>3. CASE pc' \in {"end", "scan"} /\ UNCHANGED <<buffer, windowVars>> /\ (pc' = "scan" => data_begin < block_len)
  <2>1. CountsInv'
    BY <1>2, <1>3 DEF LinesInv, CountsInv
  <2>2. LinesTypeOK'
    BY <1>2, <1>3 DEF LinesInv, LinesTypeOK, windowVars
  <2>3. WindowInv' /\ TextInv'
    BY <1>2, <1>3 DEF LinesInv, WindowInv, TextInv, windowVars
  <2> QED BY <2>1, <2>2, <2>3 DEF LinesInv
<1>4. CASE /\ data_begin # data_end /\ data_begin >= block_len
           /\ buffer' = Copied(0, 1)
           /\ data_begin' = data_begin - block_len
           /\ data_end' = data_end - block_len
           /\ pc' = IF is_valid THEN "finish" ELSE "scan"
  <2>1. /\ data_begin' \in Nat /\ data_end' \in Nat /\ data_begin' <= data_end'
        /\ data_end' <= block_len /\ data_begin' < block_len
    BY <1>1, <1>4
  <2>2. pc' \in {"finish", "scan"}
    BY <1>4
  <2>3. CountsInv'
    BY <1>2, <2>2 DEF LinesInv, CountsInv
  <2>4. LinesTypeOK'
    BY <1>2, <2>1, <2>2 DEF LinesInv, LinesTypeOK
  <2>5. WindowInv'
    BY <2>1, <2>2 DEF WindowInv
  <2>6. TextInv'
    BY <1>1, <1>2, <1>4, CopiedType DEF LinesInv, TextInv
  <2> QED BY <2>3, <2>4, <2>5, <2>6 DEF LinesInv
<1> QED BY <1>3, <1>4 DEF next_line

(* A byte of the worker's read goes into the third block. *)
LEMMA FreadType ==
    ASSUME LinesInv, fread
    PROVE  LinesInv'
<1> USE BlockAssumption
<1>1. /\ worker = "read" /\ got \in 0 .. block_len /\ got < desired_byte_count
      /\ desired_byte_count = block_len /\ pos \in 0 .. Len(file) /\ pos < Len(file)
      /\ file \in Seq(0 .. 255) /\ buffer \in Array /\ Len(file) \in Nat
  BY DEF fread, LinesInv, CountsInv, LinesTypeOK, TextInv
<1>2. /\ buffer' = [buffer EXCEPT ![2 * block_len + got] = file[pos + 1]]
      /\ pos' = pos + 1 /\ got' = got + 1
      /\ UNCHANGED <<file, data_begin, data_end, pc, worker, desired_byte_count, read_byte_count, lines>>
  BY DEF fread, windowVars, sharedVars
<1>3. file[pos + 1] \in Int /\ pos' \in 0 .. Len(file) /\ got' \in 0 .. block_len
  <2>1. pos' \in 1 .. Len(file) /\ pos' = pos + 1 /\ got' \in 0 .. block_len
    BY <1>1, <1>2
  <2>2. file[pos'] \in 0 .. 255
    BY <1>1, <2>1, ElementOfSeq
  <2>3. file[pos'] \in Int
    BY <2>2, ByteInt, Zenon
  <2>4. pos' \in 0 .. Len(file)
    BY <1>1, <2>1
  <2> QED BY <2>1, <2>3, <2>4
<1>4. buffer' \in Array
  BY <1>1, <1>2, <1>3 DEF Array
<1>5. CountsInv'
  BY <1>2, <1>3 DEF LinesInv, CountsInv
<1>6. LinesTypeOK'
  BY <1>2, <1>3 DEF LinesInv, LinesTypeOK
<1>7. WindowInv' /\ TextInv'
  BY <1>2, <1>4 DEF LinesInv, WindowInv, TextInv
<1> QED BY <1>5, <1>6, <1>7 DEF LinesInv

(* The steps that change neither the buffer nor the lines. *)
LEMMA OtherLinesType ==
    ASSUME LinesInv,
           \/ start_read \/ finish_read \/ terminate \/ notify \/ join \/ Destroy
           \/ Wakeup \/ EndOfRead \/ SpuriousWakeup \/ UNCHANGED linesVars
    PROVE  LinesInv'
<1> USE BlockAssumption DEF sharedVars, windowVars
<1>1. TextInv'
  BY DEF LinesInv, TextInv, start_read, finish_read, terminate, notify, join, Destroy, Wakeup,
         EndOfRead, SpuriousWakeup, linesVars
<1>2. CountsInv /\ LinesTypeOK /\ WindowInv
  BY DEF LinesInv
<1> SUFFICES CountsInv' /\ LinesTypeOK' /\ WindowInv'
  BY <1>1 DEF LinesInv
<1> USE <1>2 DEF CountsInv, LinesTypeOK, WindowInv, None
<1>3. CASE start_read
  BY <1>3 DEF start_read, Notified
<1>4. CASE finish_read
  <2>1. /\ UNCHANGED <<file, pos, data_begin, worker, got, desired_byte_count, read_byte_count>>
        /\ pc = "finish"
    BY <1>4 DEF finish_read
  <2>2. CASE read_byte_count = None
    BY <1>4, <2>1, <2>2 DEF finish_read
  <2>3. CASE read_byte_count # None
    <3>1. pc' = "copy" /\ data_end' = data_end + read_byte_count /\ read_byte_count \in 0 .. block_len
      BY <1>4, <2>3 DEF finish_read
    <3>2. data_end' \in Nat /\ data_end' <= 2 * block_len /\ data_begin' <= data_end'
      BY <2>1, <3>1
    <3> QED BY <2>1, <2>3, <3>1, <3>2
  <2> QED BY <2>2, <2>3
<1>5. CASE terminate
  BY <1>5 DEF terminate
<1>6. CASE notify
  BY <1>6 DEF notify, Notified
<1>7. CASE join
  BY <1>7 DEF join
<1>8. CASE Destroy
  BY <1>8 DEF Destroy
<1>9. CASE Wakeup
  BY <1>9 DEF Wakeup
<1>10. CASE EndOfRead
  BY <1>10 DEF EndOfRead, FinishNotified
<1>11. CASE SpuriousWakeup
  BY <1>11 DEF SpuriousWakeup
<1>12. CASE UNCHANGED linesVars
  BY <1>12 DEF linesVars
<1> QED BY <1>3, <1>4, <1>5, <1>6, <1>7, <1>8, <1>9, <1>10, <1>11, <1>12

(* The third block becomes the second. *)
LEMMA CopyBlockType ==
    ASSUME LinesInv, CopyBlock
    PROVE  LinesInv'
<1> USE DEF LinesInv, sharedVars, windowVars
<1>1. CountsInv'
  BY DEF CopyBlock, CountsInv
<1>2. LinesTypeOK'
  BY DEF CopyBlock, LinesTypeOK
<1>3. WindowInv'
  BY DEF CopyBlock, WindowInv
<1>4. TextInv'
  BY CopiedType DEF CopyBlock, TextInv
<1> QED BY <1>1, <1>2, <1>3, <1>4

-----------------------------------------------------------------------------
(* ParseCsvData and main. *)

(* The types. *)
ConfigTypes ==
    /\ step \in {"header", "row", "close", "port", "done"}
    /\ ret \in {"none", "true", "false", "threw"}
    /\ port \in 0 .. UintMod - 1
    /\ col_order \in Seq(DOMAIN Columns)
    /\ strDb \in [DOMAIN Columns -> Seq(Int)]

(* The members are set by a ParseCsvData that returns true only, and the   *)
(* port after it.                                                          *)
MembersInv ==
    /\ step \in {"header", "row"} <=> ret = "none"
    /\ step \in {"close", "port"} => ret # "threw"
    /\ ret # "true" => strDb = NoText
    /\ step # "done" => port = 0
    /\ step = "done" => NothingHalfSet

(* The invariant of the LineReader and its caller. *)
ConfigInv == LinesInv /\ ConfigTypes /\ MembersInv

(* Before the constructor. *)
LEMMA InitConfigInv == Init => ConfigInv
<1> SUFFICES ASSUME Init PROVE ConfigInv
  OBVIOUS
<1> USE BlockAssumption, UintAssumption
<1>1. PICK use \in Uses : LinesInit(use.file)
  BY DEF Init
<1>2. file \in Seq(0 .. 255)
  BY <1>1, UsesAssumption DEF LinesInit
<1>3. Len(file) \in Nat
  BY <1>2
<1>4. CountsInv /\ LinesTypeOK /\ WindowInv
  BY <1>1, <1>3 DEF LinesInit, CountsInv, LinesTypeOK, WindowInv, None
<1>5. TextInv
  BY <1>1, <1>2 DEF LinesInit, TextInv, Array, Junk
<1>6. ConfigTypes
  BY DEF Init, ConfigTypes, NoText
<1>7. MembersInv
  BY DEF Init, MembersInv
<1> QED BY <1>4, <1>5, <1>6, <1>7 DEF ConfigInv, LinesInv

(* Steps that do not touch the members. *)
LEMMA SameConfig ==
    ASSUME ConfigTypes, MembersInv, UNCHANGED configVars
    PROVE  ConfigTypes' /\ MembersInv'
  BY DEF ConfigTypes, MembersInv, configVars, NothingHalfSet, NoText

(* The header sets the order of the columns, and no member. *)
LEMMA HeaderConfig ==
    ASSUME ConfigInv, read_header
    PROVE  ConfigTypes' /\ MembersInv'
<1>1. /\ UNCHANGED <<strDb, port, ServiceRun>> /\ step = "header"
      /\ strDb = NoText /\ port = 0 /\ ret = "none"
  BY DEF read_header, ConfigInv, MembersInv
<1>2. col_order' \in Seq(DOMAIN Columns)
  <2>1. CASE UNCHANGED col_order
    BY <2>1 DEF ConfigInv, ConfigTypes
  <2>2. CASE lines # <<>> /\ ~HeaderThrows(lines[1]) /\ col_order' = HeaderOrder(lines[1])
    <3>1. lines[1] \in Seq(Int)
      BY <2>2 DEF ConfigInv, LinesInv, TextInv
    <3> QED BY <2>2, <3>1, HeaderOrderType
  <2> QED BY <2>1, <2>2 DEF read_header
<1>3. \/ step' = "header" /\ ret' = "none"
      \/ step' = "row" /\ ret' = "none"
      \/ step' = "done" /\ ret' = "threw"
  BY <1>1 DEF read_header, Throw
<1>4. ConfigTypes'
  BY <1>1, <1>2, <1>3 DEF ConfigInv, ConfigTypes
<1>5. MembersInv'
  BY <1>1, <1>3 DEF MembersInv, NothingHalfSet, NoText
<1> QED BY <1>4, <1>5

(* The row sets the members, all or none of them. *)
LEMMA RowConfig ==
    ASSUME ConfigInv, read_row
    PROVE  ConfigTypes' /\ MembersInv'
<1>1. /\ UNCHANGED <<col_order, port, ServiceRun>> /\ step = "row"
      /\ strDb = NoText /\ port = 0 /\ ret = "none" /\ col_order \in Seq(DOMAIN Columns)
  BY DEF read_row, ConfigInv, ConfigTypes, MembersInv
<1>2. CASE UNCHANGED strDb /\ ret' # "true"
  <2>1. \/ step' = "row" /\ ret' = "none"
        \/ step' = "close" /\ ret' = "false"
        \/ step' = "done" /\ ret' = "threw"
    BY <1>1, <1>2 DEF read_row, Close, Throw
  <2>2. ConfigTypes'
    BY <1>1, <1>2, <2>1 DEF ConfigInv, ConfigTypes
  <2>3. MembersInv'
    BY <1>1, <1>2, <2>1 DEF MembersInv, NothingHalfSet, NoText
  <2> QED BY <2>2, <2>3
<1>3. CASE /\ Len(lines) = 2 /\ ~RowThrows(lines[2])
           /\ Close("true") /\ strDb' = Row(lines[2])
  <2>1. lines[2] \in Seq(Int)
    <3>1. lines \in Seq(Seq(Int)) /\ 2 \in 1 .. Len(lines)
      BY <1>3 DEF ConfigInv, LinesInv, TextInv
    <3> QED BY <3>1, ElementOfSeq
  <2>2. strDb' \in [DOMAIN Columns -> Seq(Int)]
    BY <1>1, <1>3, <2>1, RowType
  <2>3. step' = "close" /\ ret' = "true"
    BY <1>3 DEF Close
  <2>4. ConfigTypes'
    BY <1>1, <2>2, <2>3 DEF ConfigInv, ConfigTypes
  <2>5. MembersInv'
    BY <1>1, <2>3 DEF MembersInv
  <2> QED BY <2>4, <2>5
<1> QED BY <1>1, <1>2, <1>3 DEF read_row, Close, Throw

(* The port: by NumberCorrect it is what the text says, and an empty text  *)
(* is 0.                                                                   *)
LEMMA GetPortConfig ==
    ASSUME ConfigInv, GetPort
    PROVE  ConfigTypes' /\ MembersInv'
<1> DEFINE s == strDb[DbPort]
<1>1. /\ step = "port" /\ step' = "done" /\ port' = StrToUint(s).uint
      /\ ServiceRun' = (ret = "true" /\ StrToUint(s).ok)
      /\ UNCHANGED <<col_order, ret, strDb>>
  BY DEF GetPort
<1>2. ret \in {"true", "false"} /\ strDb \in [DOMAIN Columns -> Seq(Int)] /\ (ret # "true" => strDb = NoText)
  BY <1>1 DEF ConfigInv, ConfigTypes, MembersInv
<1>3. s \in Seq(Int) /\ DOMAIN s = 1 .. Len(s)
  BY <1>2, ColumnsAssumption
<1> HIDE DEF s
<1>4. /\ StrToUint(s) \in Number
      /\ StrToUint(s).ok <=> \A k \in 1 .. Len(s) : IsDigit(s[k])
      /\ StrToUint(s).ok => StrToUint(s).uint = DecimalValue(s) % UintMod
  BY <1>3, NumberCorrect
<1>5. ConfigTypes'
  BY <1>1, <1>2, <1>4 DEF ConfigInv, ConfigTypes, Number
<1>6. ret # "true" => port' = 0
  <2> SUFFICES ASSUME ret # "true" PROVE port' = 0
    OBVIOUS
  <2>1. s = <<>> /\ Len(s) = 0
    BY <1>2, ColumnsAssumption DEF s, NoText
  <2>2. StrToUint(s) = [ok |-> TRUE, uint |-> 0]
    BY <1>3, <2>1, StrToUintIsRead
  <2> QED BY <1>1, <2>2
<1>7. ret = "true" /\ ServiceRun' =>
          /\ \A k \in DOMAIN s : IsDigit(s[k])
          /\ port' = DecimalValue(s) % UintMod
  BY <1>1, <1>3, <1>4
<1>8. NothingHalfSet'
  BY <1>1, <1>2, <1>6, <1>7 DEF NothingHalfSet, NoText, s
<1>9. MembersInv'
  BY <1>1, <1>2, <1>8 DEF MembersInv, NoText
<1> QED BY <1>5, <1>9

(* The reader goes out of scope. *)
LEMMA EndOfScopeConfig ==
    ASSUME ConfigInv, EndOfScope
    PROVE  ConfigTypes' /\ MembersInv'
<1>1. /\ UNCHANGED <<col_order, ret, strDb, port, ServiceRun>> /\ step = "close"
      /\ step' \in {"close", "port"}
  BY DEF EndOfScope
<1>2. ConfigTypes'
  BY <1>1 DEF ConfigInv, ConfigTypes
<1>3. MembersInv'
  BY <1>1 DEF ConfigInv, MembersInv, NothingHalfSet, NoText
<1> QED BY <1>2, <1>3

(* Every step keeps it. *)
LEMMA NextConfigInv ==
    ASSUME ConfigInv, [Next]_vars
    PROVE  ConfigInv'
<1>1. LinesInv /\ ConfigTypes /\ MembersInv
  BY DEF ConfigInv
<1>2. CASE Client
  <2>1. LinesInv'
    BY <1>1, <1>2, ClientCalls, NextLineType, OtherLinesType
  <2>2. CASE ParseCsvData
    BY <2>1, <2>2, HeaderConfig, RowConfig, GetPortConfig, EndOfScopeConfig DEF ParseCsvData, ConfigInv
  <2>3. CASE OtherCaller
    BY <1>1, <2>1, <2>3, SameConfig DEF OtherCaller, ConfigInv
  <2> QED BY <1>2, <2>2, <2>3 DEF Client
<1>3. CASE Reader(Inside \/ Worker \/ SpuriousWakeup)
  <2> USE DEF Reader
  <2>1. LinesInv'
    BY <1>1, <1>3, InitRead, ScanType, CopyBlockType, FreadType, OtherLinesType DEF Inside, Worker
  <2> QED BY <1>1, <1>3, <2>1, SameConfig DEF ConfigInv
<1>4. CASE Done \/ UNCHANGED vars
  <2>1. UNCHANGED linesVars /\ UNCHANGED configVars
    BY <1>4 DEF Done, vars
  <2> QED BY <1>1, <2>1, OtherLinesType, SameConfig DEF ConfigInv
<1> QED BY <1>2, <1>3, <1>4 DEF Next

(* So it is an invariant. *)
LEMMA AlwaysConfigInv == Spec => []ConfigInv
  BY InitConfigInv, NextConfigInv, PTL DEF Spec

(* The assertions of next_line and the types, for every block length, file *)
(* and caller: the window never leaves the first two blocks.               *)
THEOREM TypeCorrect == Spec => []TypeOK
<1>1. ConfigInv => TypeOK
  BY DEF ConfigInv, LinesInv, ConfigTypes, TypeOK
<1> QED BY AlwaysConfigInv, <1>1, PTL

(* What main is left with at the end: nothing half set, and the number in  *)
(* the column of the port or an end of the service.                        *)
THEOREM OutcomeCorrect == Spec => [](step = "done" => NothingHalfSet)
<1>1. ConfigInv => (step = "done" => NothingHalfSet)
  BY DEF ConfigInv, MembersInv
<1> QED BY AlwaysConfigInv, <1>1, PTL

-----------------------------------------------------------------------------

(* The ends of the lines in the first n bytes: each but the first is a     *)
(* newline, there is none between them and none after the last.            *)
EndsUpTo(e, bytes, n) ==
    /\ e \in Seq(Nat) /\ Len(e) >= 1 /\ e[1] = 0
    /\ \A k \in 1 .. Len(e) : e[k] <= n
    /\ \A k \in 2 .. Len(e) : e[k - 1] < e[k] /\ bytes[e[k]] = NL
    /\ \A k \in 2 .. Len(e) : \A j \in 1 .. n : e[k - 1] < j /\ j < e[k] => bytes[j] # NL
    /\ \A j \in 1 .. n : e[Len(e)] < j => bytes[j] # NL

(* A turn of the recursion in LineEnds, and the recursion as an equation. *)
Found(e, b, n) == IF b = NL THEN Append(e, n) ELSE e
IsFound(g, bytes) ==
    g = [n \in 0 .. Len(bytes) |-> IF n = 0 THEN <<0>> ELSE Found(g[n - 1], bytes[n], n)]

(* One byte more. *)
LEMMA FoundStep ==
    ASSUME NEW bytes \in Seq(Int), NEW n \in 0 .. Len(bytes) - 1, NEW e, EndsUpTo(e, bytes, n)
    PROVE  EndsUpTo(Found(e, bytes[n + 1], n + 1), bytes, n + 1)
<1> DEFINE m == n + 1
           b == bytes[m]
<1>1. n \in Nat /\ m \in Nat /\ m \in 1 .. Len(bytes) /\ Len(bytes) \in Nat /\ m > n /\ \A j \in 1 .. m : j = m \/ j \in 1 .. n
  OBVIOUS
<1>2. /\ e \in Seq(Nat) /\ Len(e) \in Nat /\ Len(e) >= 1 /\ e[1] = 0
      /\ \A k \in 1 .. Len(e) : e[k] \in Nat /\ e[k] <= n
      /\ \A k \in 2 .. Len(e) : k \in 1 .. Len(e) /\ k - 1 \in 1 .. Len(e)
  BY DEF EndsUpTo
<1>3. /\ \A k \in 2 .. Len(e) : e[k - 1] < e[k] /\ bytes[e[k]] = NL
      /\ \A k \in 2 .. Len(e) : \A j \in 1 .. n : e[k - 1] < j /\ j < e[k] => bytes[j] # NL
      /\ \A j \in 1 .. n : e[Len(e)] < j => bytes[j] # NL
  BY DEF EndsUpTo
<1> HIDE DEF m
<1>4. CASE b # NL
  <2>1. Found(e, b, m) = e
    BY <1>4 DEF Found
  <2>2. \A k \in 1 .. Len(e) : e[k] <= m
    BY <1>1, <1>2
  <2>3. ASSUME NEW k \in 2 .. Len(e), NEW j \in 1 .. m, e[k - 1] < j, j < e[k] PROVE bytes[j] # NL
    <3>1. j # m
      BY <1>1, <1>2, <2>3
    <3> QED BY <1>1, <1>3, <2>3, <3>1
  <2>4. ASSUME NEW j \in 1 .. m, e[Len(e)] < j PROVE bytes[j] # NL
    BY <1>1, <1>3, <1>4, <2>4
  <2>5. EndsUpTo(e, bytes, m)
    BY <1>2, <1>3, <2>2, <2>3, <2>4 DEF EndsUpTo
  <2> QED BY <2>1, <2>5 DEF m
<1>5. CASE b = NL
  <2> DEFINE f == Append(e, m)
             L == Len(e)
  <2>1. Found(e, b, m) = f
    BY <1>5 DEF Found
  <2>2. f \in Seq(Nat) /\ Len(f) = L + 1 /\ f[L + 1] = m /\ \A k \in 1 .. L : f[k] = e[k]
    BY <1>1, <1>2
  <2>3. L \in Nat /\ L >= 1 /\ e[L] \in Nat /\ e[L] <= n
    BY <1>2
  <2>4. \A k \in 1 .. L + 1 : k = L + 1 \/ k \in 1 .. L
    BY <2>3
  <2>5. \A k \in 2 .. L + 1 : (k = L + 1 /\ k - 1 = L /\ k - 1 \in 1 .. L) \/ (k \in 2 .. L /\ k \in 1 .. L /\ k - 1 \in 1 .. L)
    BY <2>3
  <2> HIDE DEF f, L
  <2>6. f[1] = 0 /\ Len(f) >= 1
    BY <1>2, <2>2, <2>3
  <2>7. ASSUME NEW k \in 1 .. Len(f) PROVE f[k] <= m
    <3>1. CASE k = L + 1
      BY <1>1, <2>2, <3>1
    <3>2. CASE k \in 1 .. L
      <4>1. f[k] = e[k] /\ e[k] \in Nat /\ e[k] <= n
        BY <1>2, <2>2, <3>2 DEF L
      <4> QED BY <1>1, <4>1
    <3> QED BY <2>2, <2>4, <3>1, <3>2
  <2>8. ASSUME NEW k \in 2 .. Len(f) PROVE f[k - 1] < f[k] /\ bytes[f[k]] = NL
    <3>1. CASE k \in 2 .. L
      <4>1. k \in 1 .. L /\ k - 1 \in 1 .. L
        BY <2>3, <3>1
      <4>2. f[k] = e[k] /\ f[k - 1] = e[k - 1]
        BY <2>2, <4>1
      <4> QED BY <1>3, <3>1, <4>2 DEF L
    <3>2. CASE k = L + 1
      <4>1. k - 1 = L /\ L \in 1 .. L
        BY <2>3, <3>2
      <4>2. f[k] = m /\ f[k - 1] = e[L]
        BY <2>2, <3>2, <4>1
      <4> QED BY <1>1, <1>5, <2>3, <4>2
    <3> QED BY <2>2, <2>5, <3>1, <3>2
  <2>9. ASSUME NEW k \in 2 .. Len(f), NEW j \in 1 .. m, f[k - 1] < j, j < f[k] PROVE bytes[j] # NL
    <3>1. CASE k \in 2 .. L
      <4>1. k \in 1 .. L /\ k - 1 \in 1 .. L
        BY <2>3, <3>1
      <4>2. f[k] = e[k] /\ f[k - 1] = e[k - 1] /\ e[k] \in Nat /\ e[k] <= n
        BY <1>2, <2>2, <4>1 DEF L
      <4>3. j \in 1 .. n
        BY <1>1, <2>9, <4>2
      <4> QED BY <1>3, <2>9, <3>1, <4>2, <4>3 DEF L
    <3>2. CASE k = L + 1
      <4>1. k - 1 = L /\ L \in 1 .. L
        BY <2>3, <3>2
      <4>2. f[k] = m /\ f[k - 1] = e[L]
        BY <2>2, <3>2, <4>1
      <4>3. j \in 1 .. n
        <5>1. j # m
          BY <1>1, <2>9, <4>2
        <5> QED BY <1>1, <5>1
      <4> QED BY <1>3, <2>9, <4>2, <4>3 DEF L
    <3> QED BY <2>2, <2>5, <3>1, <3>2
  <2>10. \A j \in 1 .. m : f[Len(f)] < j => bytes[j] # NL
    BY <1>1, <2>2
  <2>11. EndsUpTo(f, bytes, m)
    BY <2>2, <2>6, <2>7, <2>8, <2>9, <2>10 DEF EndsUpTo
  <2> QED BY <2>1, <2>11 DEF m
<1> QED BY <1>4, <1>5
(* LineEnds, and the last of them: a newline at the end, or a place behind *)
(* it.                                                                     *)
IsEnds(e, bytes) ==
    /\ e \in Seq(Nat) /\ Len(e) >= 1 /\ e[1] = 0
    /\ e[Len(e)] \in {Len(bytes), Len(bytes) + 1}
    /\ \A k \in 2 .. Len(e) : e[k - 1] < e[k] /\ e[k - 1] < Len(bytes)
    /\ \A k \in 2 .. Len(e) : e[k] \in 1 .. Len(bytes) => bytes[e[k]] = NL
    /\ \A k \in 2 .. Len(e) : \A j \in 1 .. Len(bytes) : e[k - 1] < j /\ j < e[k] => bytes[j] # NL

(* The newlines, with the end when it is none. *)
LEMMA EndsFromNewlines ==
    ASSUME NEW bytes \in Seq(Int), NEW e, EndsUpTo(e, bytes, Len(bytes))
    PROVE  IsEnds(IF e[Len(e)] = Len(bytes) THEN e ELSE Append(e, Len(bytes) + 1), bytes)
<1> DEFINE n == Len(bytes)
           L == Len(e)
<1>1. n \in Nat /\ e \in Seq(Nat) /\ L \in Nat /\ L >= 1 /\ e[1] = 0
  BY DEF EndsUpTo
<1>2. \A k \in 1 .. L : e[k] \in Nat /\ e[k] <= n
  BY <1>1 DEF EndsUpTo
<1>3. /\ \A k \in 2 .. L : e[k - 1] < e[k] /\ bytes[e[k]] = NL
      /\ \A k \in 2 .. L : \A j \in 1 .. n : e[k - 1] < j /\ j < e[k] => bytes[j] # NL
      /\ \A j \in 1 .. n : e[L] < j => bytes[j] # NL
  BY DEF EndsUpTo
<1>4. ASSUME NEW k \in 2 .. L PROVE e[k - 1] < e[k] /\ e[k - 1] < n
  <2>1. k \in 1 .. L /\ k - 1 \in 1 .. L
    BY <1>1
  <2>2. e[k - 1] < e[k]
    BY <1>3
  <2> QED BY <1>1, <1>2, <2>1, <2>2
<1> HIDE DEF n, L
<1>5. CASE e[L] = n
  BY <1>1, <1>3, <1>4, <1>5 DEF IsEnds, n, L
<1>6. CASE e[L] # n
  <2> DEFINE f == Append(e, n + 1)
  <2>1. f \in Seq(Nat) /\ Len(f) = L + 1 /\ f[L + 1] = n + 1 /\ \A k \in 1 .. L : f[k] = e[k]
    BY <1>1 DEF L
  <2> HIDE DEF f
  <2>2. e[L] \in Nat /\ e[L] < n
    <3>1. L \in 1 .. L
      BY <1>1
    <3>2. e[L] \in Nat /\ e[L] <= n
      BY <1>2, <3>1
    <3> QED BY <1>1, <1>6, <3>2
  <2>3. \A k \in 2 .. L + 1 : (k = L + 1 /\ k - 1 = L) \/ k \in 2 .. L
    BY <1>1
  <2>4. \A k \in 2 .. L : k \in 1 .. L /\ k - 1 \in 1 .. L
    BY <1>1
  <2>5. \A k \in 2 .. L : f[k] = e[k] /\ f[k - 1] = e[k - 1]
    BY <2>1, <2>4
  <2>6. f[L] = e[L] /\ f[1] = 0
    BY <1>1, <2>1
  <2>7. ASSUME NEW k \in 2 .. Len(f)
        PROVE  /\ f[k - 1] < f[k] /\ f[k - 1] < n
               /\ f[k] \in 1 .. n => bytes[f[k]] = NL
               /\ \A j \in 1 .. n : f[k - 1] < j /\ j < f[k] => bytes[j] # NL
    <3>1. CASE k \in 2 .. L
      BY <1>3, <1>4, <2>5, <3>1
    <3>2. CASE k = L + 1 /\ k - 1 = L
      <4>1. f[k] = n + 1 /\ f[k - 1] = e[L]
        BY <2>1, <2>6, <3>2
      <4>2. f[k - 1] < f[k] /\ f[k - 1] < n /\ f[k] \notin 1 .. n
        BY <1>1, <2>2, <4>1
      <4> QED BY <1>3, <4>1, <4>2
    <3> QED BY <2>1, <2>3, <3>1, <3>2
  <2>8. Len(f) >= 1 /\ f[Len(f)] \in {n, n + 1}
    BY <1>1, <2>1
  <2>9. IsEnds(f, bytes)
    BY <2>1, <2>6, <2>7, <2>8 DEF IsEnds, n
  <2> QED BY <1>6, <2>9 DEF f, n, L
<1> QED BY <1>5, <1>6

(* What LineEnds computes. *)
LEMMA LineEndsProperties ==
    ASSUME NEW bytes \in Seq(Int)
    PROVE  IsEnds(LineEnds(bytes), bytes)
<1> DEFINE m == Len(bytes)
           zero == <<0>>
           F == CHOOSE g : IsFound(g, bytes)
           X == {e \in Seq(Nat) : Len(e) >= 1}
<1>1. m \in Nat /\ zero \in X
  OBVIOUS
<1>2. \E g : IsFound(g, bytes)
  <2> DEFINE st == [n \in 1 .. m |-> [e \in X |-> Found(e, bytes[n], n)]]
  <2>1. st \in [1 .. m -> [X -> X]]
    <3>1. ASSUME NEW n \in 1 .. m, NEW e \in X PROVE Found(e, bytes[n], n) \in X
      <4>1. n \in Nat /\ e \in Seq(Nat) /\ Len(e) \in Nat /\ Len(e) >= 1
        BY <1>1
      <4>2. Append(e, n) \in Seq(Nat) /\ Len(Append(e, n)) = Len(e) + 1
        BY <4>1
      <4>3. Append(e, n) \in X
        BY <4>1, <4>2
      <4> HIDE DEF X
      <4> QED BY <4>3 DEF Found
    <3> HIDE DEF X, m
    <3> QED BY <3>1
  <2>2. \A e \in X, n \in 1 .. m : st[n][e] = Found(e, bytes[n], n)
    OBVIOUS
  <2> HIDE DEF st, m, X, zero
  <2>3. PICK g : Iterates(g, X, zero, m, st)
    BY <1>1, <2>1, RecursionExists
  <2>4. ASSUME NEW n \in 0 .. m PROVE g[n] = IF n = 0 THEN zero ELSE Found(g[n - 1], bytes[n], n)
    <3>1. CASE n = 0
      BY <2>3, <3>1 DEF Iterates
    <3>2. CASE n # 0
      <4>1. n \in 1 .. m /\ n - 1 \in 0 .. m
        BY <1>1, <3>2
      <4> QED BY <2>2, <2>3, <3>2, <4>1 DEF Iterates
    <3> QED BY <3>1, <3>2
  <2>5. IsFound(g, bytes)
    <3>1. g = [n \in 0 .. m |-> g[n]]
      BY <2>3 DEF Iterates
    <3> QED BY <2>4, <3>1 DEF IsFound, m, zero
  <2> QED BY <2>5
<1>3. IsFound(F, bytes)
  BY <1>2, Zenon
<1>4. LineEnds(bytes) = IF Last(F[m]) = m THEN F[m] ELSE Append(F[m], m + 1)
  BY Zenon DEF LineEnds, IsFound, Found
<1> HIDE DEF F, X
<1>5. F[0] = zero
  BY <1>1, <1>3 DEF IsFound
<1>6. ASSUME NEW n \in 0 .. m - 1 PROVE F[n + 1] = Found(F[n], bytes[n + 1], n + 1)
  <2>1. n + 1 \in 0 .. m /\ n + 1 # 0 /\ (n + 1) - 1 = n
    BY <1>1
  <2>2. F[n + 1] = Found(F[(n + 1) - 1], bytes[n + 1], n + 1)
    BY <1>3, <2>1, Zenon DEF IsFound
  <2> QED BY <2>1, <2>2
<1>7. \A n \in 0 .. m : n \in {k \in 0 .. m : EndsUpTo(F[k], bytes, k)}
  <2> DEFINE S == {k \in 0 .. m : EndsUpTo(F[k], bytes, k)}
  <2>1. 0 \in S
    <3>1. EndsUpTo(zero, bytes, 0)
      BY DEF EndsUpTo
    <3> QED BY <1>1, <1>5, <3>1
  <2>2. ASSUME NEW n \in 0 .. m - 1, n \in S PROVE n + 1 \in S
    <3>1. n + 1 \in 0 .. m /\ EndsUpTo(F[n], bytes, n)
      BY <1>1, <2>2
    <3>2. EndsUpTo(Found(F[n], bytes[n + 1], n + 1), bytes, n + 1)
      BY <3>1, FoundStep
    <3> QED BY <1>6, <3>1, <3>2
  <2> HIDE DEF S, m
  <2> QED BY <1>1, <2>1, <2>2, BoundedInduction DEF S
<1>8. EndsUpTo(F[m], bytes, m)
  BY <1>1, <1>7
<1> QED BY <1>4, <1>8, EndsFromNewlines DEF Last

(* The next end is the next newline, or the place behind the end: it does  *)
(* not come before what is known to be no newline.                         *)
LEMMA NextEnd ==
    ASSUME NEW bytes \in Seq(Int), NEW e, IsEnds(e, bytes), NEW k \in 1 .. Len(e) - 1,
           NEW x \in 1 .. Len(bytes) + 1, e[k] < x,
           \A j \in 1 .. Len(bytes) : e[k] < j /\ j < x => bytes[j] # NL
    PROVE  e[k + 1] >= x /\ (x = Len(bytes) + 1 \/ bytes[x] = NL => e[k + 1] = x)
<1> DEFINE n == Len(bytes)
           y == e[k + 1]
<1>1. n \in Nat /\ Len(e) \in Nat /\ k + 1 \in 2 .. Len(e) /\ k + 1 \in 1 .. Len(e) /\ k \in 1 .. Len(e) /\ (k + 1) - 1 = k
  BY DEF IsEnds
<1>2. e[k] \in Nat /\ y \in Nat
  <2>1. e \in Seq(Nat)
    BY DEF IsEnds
  <2> QED BY <1>1, <2>1, ElementOfSeq
<1>3. e[k] < y /\ (y \in 1 .. n => bytes[y] = NL)
  BY <1>1 DEF IsEnds
<1>4. \A j \in 1 .. n : e[k] < j /\ j < y => bytes[j] # NL
  <2>1. \A j \in 1 .. n : e[(k + 1) - 1] < j /\ j < e[k + 1] => bytes[j] # NL
    BY <1>1, Zenon DEF IsEnds
  <2> QED BY <1>1, <2>1
<1>5. y <= n + 1
  <2>1. CASE k + 1 = Len(e)
    BY <1>1, <2>1 DEF IsEnds
  <2>2. CASE k + 1 # Len(e)
    <3>1. k + 2 \in 2 .. Len(e) /\ (k + 2) - 1 = k + 1
      BY <1>1, <2>2
    <3>2. e[(k + 2) - 1] < Len(bytes)
      BY <3>1, Zenon DEF IsEnds
    <3> QED BY <1>1, <1>2, <3>1, <3>2
  <2> QED BY <2>1, <2>2
<1> HIDE DEF n, y
<1>6. y >= x
  <2> SUFFICES ASSUME y < x PROVE FALSE
    BY <1>1, <1>2 DEF n
  <2>1. y \in 1 .. n
    BY <1>1, <1>2, <1>3 DEF n
  <2> QED BY <1>3, <2>1 DEF n
<1>7. ASSUME x = n + 1 \/ bytes[x] = NL PROVE y = x
  <2>1. CASE x = n + 1
    BY <1>1, <1>2, <1>5, <1>6, <2>1
  <2>2. CASE x # n + 1 /\ bytes[x] = NL
    <3>1. x \in 1 .. n
      BY <1>1, <2>2 DEF n
    <3>2. ~(x < y)
      BY <1>4, <2>2, <3>1
    <3> QED BY <1>1, <1>2, <1>6, <3>1, <3>2
  <2> QED BY <1>7, <2>1, <2>2
<1> QED BY <1>6, <1>7 DEF n, y

(* A text in the buffer, with a NUL behind it, is read up to the first NUL *)
(* in it.                                                                  *)
LEMMA TextOfCut ==
    ASSUME NEW buf \in Array, NEW from \in Nat, NEW cut \in Seq(Int),
           from + Len(cut) \in 0 .. 3 * block_len - 1, buf[from + Len(cut)] = NUL,
           \A j \in 1 .. Len(cut) : cut[j] = buf[from + j - 1]
    PROVE  LET nul == {k \in DOMAIN cut : cut[k] = NUL}
           IN  Text(buf, from) = IF nul = {} THEN cut ELSE SubSeq(cut, 1, Min(nul) - 1)
<1> USE BlockAssumption
<1> DEFINE nul == {k \in DOMAIN cut : cut[k] = NUL}
           c == Len(cut)
           T == {k \in DOMAIN buf : k >= from /\ buf[k] = NUL}
           D == 0 .. 3 * block_len - 1
<1>1. c \in Nat /\ DOMAIN cut = 1 .. c /\ DOMAIN buf = D
  BY DEF Array
<1>2. T \in SUBSET Nat /\ from + c \in T
  BY <1>1
<1>3. ASSUME NEW k \in T, k < from + c PROVE k - from + 1 \in nul
  <2>1. k \in Nat /\ k >= from /\ buf[k] = NUL
    BY <1>1
  <2>2. k - from + 1 \in 1 .. c /\ from + (k - from + 1) - 1 = k
    BY <1>1, <1>3, <2>1
  <2>3. cut[k - from + 1] = NUL
    BY <2>1, <2>2
  <2> QED BY <1>1, <2>2, <2>3
<1>4. ASSUME NEW k \in nul PROVE from + k - 1 \in T
  <2>1. k \in 1 .. c /\ cut[k] = NUL
    BY <1>1
  <2>2. buf[from + k - 1] = NUL
    BY <2>1
  <2>3. from + k - 1 \in D /\ from + k - 1 >= from
    BY <1>1, <2>1
  <2> QED BY <1>1, <2>2, <2>3
<1>5. nul \in SUBSET Nat /\ nul \in SUBSET (1 .. c)
  BY <1>1
<1>6. Text(buf, from) = [k \in 1 .. Min(T) - from |-> buf[from + k - 1]]
  BY DEF Text
<1> HIDE DEF c, T, nul, D
<1>7. CASE nul = {}
  <2>1. \A k \in T : from + c <= k
    <3> SUFFICES ASSUME NEW k \in T PROVE ~(k < from + c)
      BY <1>1, <1>2
    <3> QED BY <1>3, <1>7
  <2>2. Min(T) = from + c
    <3> DEFINE x == from + c
    <3>1. x \in T /\ \A k \in T : x <= k
      BY <1>2, <2>1
    <3> HIDE DEF x
    <3>2. Min(T) = x
      BY <1>2, <3>1, MinIs
    <3> QED BY <3>2 DEF x
  <2>3. Min(T) - from = c
    BY <1>1, <2>2
  <2>4. Text(buf, from) = [k \in 1 .. c |-> cut[k]]
    BY <1>6, <2>3 DEF c
  <2>5. cut = [k \in 1 .. c |-> cut[k]]
    BY <1>1 DEF c
  <2> QED BY <1>7, <2>4, <2>5 DEF nul
<1>8. CASE nul # {}
  <2> DEFINE m == Min(nul)
             x == from + m - 1
  <2>1. m \in nul /\ \A k \in nul : m <= k
    BY <1>5, <1>8, MinType
  <2> HIDE DEF m
  <2>2. m \in 1 .. c
    BY <1>5, <2>1
  <2>3. x \in T
    BY <1>4, <2>1
  <2>4. ASSUME NEW k \in T PROVE x <= k
    <3>1. k \in Nat
      BY <1>2
    <3>2. CASE k < from + c
      <4>1. m <= k - from + 1
        BY <1>3, <2>1, <3>2
      <4> QED BY <2>2, <3>1, <4>1
    <3>3. CASE ~(k < from + c)
      BY <1>1, <2>2, <3>1, <3>3
    <3> QED BY <3>2, <3>3
  <2>5. Min(T) - from = m - 1
    <3> HIDE DEF x
    <3>1. Min(T) = x
      BY <1>2, <2>3, <2>4, MinIs
    <3> QED BY <2>2, <3>1 DEF x
  <2>6. \A k \in 1 .. m - 1 : k \in 1 .. c
    BY <1>1, <2>2
  <2>7. Text(buf, from) = [k \in 1 .. m - 1 |-> cut[k]]
    BY <1>6, <2>5, <2>6 DEF c
  <2>8. SubSeq(cut, 1, m - 1) = [k \in 1 .. m - 1 |-> cut[k]]
    <3>1. m - 1 \in 0 .. c /\ c = Len(cut)
      BY <1>1, <2>2 DEF c
    <3> QED BY <3>1
  <2> QED BY <1>8, <2>7, <2>8 DEF nul, m
<1> QED BY <1>7, <1>8 DEF nul

(* What scan leaves at data_begin is the text of the line. *)
LEMMA EndedText ==
    ASSUME buffer \in Array, data_begin \in Nat, line_end \in data_begin .. 3 * block_len - 1,
           NEW raw \in Seq(Int), Len(raw) = line_end - data_begin,
           \A j \in 1 .. Len(raw) : raw[j] = buffer[data_begin + j - 1]
    PROVE  Text(Ended, data_begin) = LineText(raw)
<1> USE BlockAssumption
<1> DEFINE D == 0 .. 3 * block_len - 1
           L == Len(raw)
           cr == raw # <<>> /\ Last(raw) = CR
           cut == IF cr THEN Front(raw) ELSE raw
           db == data_begin
           le == line_end
<1>1. le \in D /\ le \in Nat /\ L \in Nat /\ DOMAIN buffer = D /\ le = db + L /\ db \in Nat
  BY DEF Array
<1>2. Ended \in Array /\ Ended[le] = NUL
  BY <1>1 DEF Ended, Array, NUL
<1>3. \A k \in D : k >= db /\ k < le - 1 => Ended[k] = buffer[k]
  BY <1>1 DEF Ended
<1>4. le - 1 >= db => Ended[le - 1] = IF buffer[le - 1] = CR THEN NUL ELSE buffer[le - 1]
  BY <1>1 DEF Ended
<1>5. raw # <<>> <=> L > 0
  BY <1>1
<1>6. raw # <<>> => Last(raw) = buffer[le - 1]
  <2> SUFFICES ASSUME raw # <<>> PROVE raw[L] = buffer[le - 1]
    BY DEF Last
  <2>1. L \in 1 .. L /\ db + L - 1 = le - 1
    BY <1>1, <1>5
  <2> QED BY <2>1
<1>7. cut \in Seq(Int) /\ Len(cut) = IF cr THEN L - 1 ELSE L
  BY <1>5 DEF Front
<1>8. \A j \in 1 .. Len(cut) : cut[j] = raw[j] /\ j \in 1 .. L
  BY <1>1, <1>5, <1>7 DEF Front
<1> HIDE DEF L, cr, le, db, D
<1>9. db + Len(cut) \in D /\ Ended[db + Len(cut)] = NUL
  <2>1. CASE cr
    <3>1. L > 0 /\ buffer[le - 1] = CR
      BY <1>5, <1>6, <2>1 DEF cr
    <3>2. db + Len(cut) = le - 1 /\ le - 1 >= db
      BY <1>1, <1>7, <2>1, <3>1
    <3>3. le - 1 \in D
      BY <1>1, <3>2 DEF D
    <3> QED BY <1>4, <3>1, <3>2, <3>3
  <2>2. CASE ~cr
    <3>1. db + Len(cut) = le
      BY <1>1, <1>7, <2>2
    <3> QED BY <1>1, <1>2, <3>1
  <2> QED BY <2>1, <2>2
<1>10. ASSUME NEW j \in 1 .. Len(cut) PROVE cut[j] = Ended[db + j - 1]
  <2> DEFINE k == db + j - 1
  <2>1. j \in 1 .. L /\ cut[j] = buffer[k]
    BY <1>8 DEF L, db
  <2>2. k \in D /\ k >= db /\ k < le
    BY <1>1, <2>1 DEF D
  <2> SUFFICES cut[j] = Ended[k]
    OBVIOUS
  <2> HIDE DEF k
  <2>3. CASE k < le - 1
    BY <1>3, <2>1, <2>2, <2>3
  <2>4. CASE k = le - 1
    <3>1. L > 0 /\ k = db + j - 1
      BY <1>1, <2>1 DEF k
    <3>2. ~cr
      <4> SUFFICES ASSUME cr PROVE FALSE
        OBVIOUS
      <4>1. j <= L - 1 /\ j \in Nat
        BY <1>1, <1>7, <2>1
      <4>2. L \in Nat /\ db \in Nat /\ le = db + L
        BY <1>1
      <4>3. db + j - 1 = le - 1
        BY <2>4, <3>1
      <4> QED BY <4>1, <4>2, <4>3
    <3>3. buffer[le - 1] # CR
      BY <1>5, <1>6, <3>1, <3>2 DEF cr
    <3> QED BY <1>4, <2>1, <2>2, <2>4, <3>3
  <2>5. k < le - 1 \/ k = le - 1
    <3>1. k \in Int
      BY <2>2 DEF D
    <3> QED BY <1>1, <2>2, <3>1
  <2> QED BY <2>3, <2>4, <2>5
<1>11. LineText(raw) = LET nul == {k \in DOMAIN cut : cut[k] = NUL}
                       IN  IF nul = {} THEN cut ELSE SubSeq(cut, 1, Min(nul) - 1)
  BY DEF LineText, cr
<1> HIDE DEF cut
<1>12. Text(Ended, db) = LET nul == {k \in DOMAIN cut : cut[k] = NUL}
                         IN  IF nul = {} THEN cut ELSE SubSeq(cut, 1, Min(nul) - 1)
  BY <1>1, <1>2, <1>7, <1>9, <1>10, TextOfCut DEF D
<1> QED BY <1>11, <1>12 DEF db

(* How many bytes of the file are no bytes of a line. *)
Mark == IF IsPrefix(BOM, file) THEN 3 ELSE 0

(* The mark is skipped. *)
LEMMA BytesAfterMark ==
    ASSUME file \in Seq(0 .. 255)
    PROVE  /\ Bytes \in Seq(Int) /\ Mark \in {0, 3} /\ Len(Bytes) \in Nat /\ Len(file) \in Nat
           /\ Len(file) = Mark + Len(Bytes)
           /\ \A k \in 1 .. Len(Bytes) : Bytes[k] = file[Mark + k]
<1>1. Len(file) \in Nat /\ DOMAIN file = 1 .. Len(file) /\ file = [k \in 1 .. Len(file) |-> file[k]]
  OBVIOUS
<1>2. ASSUME NEW k \in 1 .. Len(file) PROVE file[k] \in Int
  <2>1. file[k] \in 0 .. 255
    BY ElementOfSeq
  <2> QED BY <2>1, ByteInt, Zenon
<1>3. file \in Seq(Int)
  BY <1>1, <1>2
<1>4. CASE IsPrefix(BOM, file)
  <2>1. Len(file) >= 3
    BY <1>1, <1>4 DEF IsPrefix, BOM
  <2>2. Bytes = SubSeq(file, 4, Len(file)) /\ Mark = 3
    BY <1>4 DEF Bytes, Mark
  <2>3. SubSeq(file, 4, Len(file)) \in Seq(Int) /\ Len(SubSeq(file, 4, Len(file))) = Len(file) - 3
    BY <1>1, <1>3, <2>1
  <2>4. ASSUME NEW k \in 1 .. Len(file) - 3 PROVE SubSeq(file, 4, Len(file))[k] = file[3 + k]
    <3>1. SubSeq(file, 4, Len(file))[k] = file[4 + k - 1] /\ 4 + k - 1 = 3 + k
      BY <1>1, <1>3, <2>1
    <3> QED BY <3>1
  <2>5. Len(file) - 3 \in Nat /\ Len(file) = 3 + (Len(file) - 3)
    BY <1>1, <2>1
  <2> QED BY <1>1, <2>2, <2>3, <2>4, <2>5
<1>5. CASE ~IsPrefix(BOM, file)
  <2>1. Bytes = file /\ Mark = 0
    BY <1>5 DEF Bytes, Mark
  <2> QED BY <1>1, <1>3, <2>1
<1> QED BY <1>4, <1>5

-----------------------------------------------------------------------------

(* The lines and the file.  Filled: the bytes in the third block; ReadTo:  *)
(* how far in the file the window ends; Behind: the end of what is in the  *)
(* first two blocks, before and after the third is copied.                 *)
Filled == IF read_byte_count # None THEN read_byte_count ELSE got
ReadTo == IF pc \in {"copy", "start"} THEN pos ELSE pos - Filled
Behind == IF pc = "copy" THEN data_end - read_byte_count ELSE data_end

(* The window and the third block hold the bytes of the file. *)
HoldsInv ==
    /\ \A k \in data_begin .. Behind - 1 : buffer[k] = file[ReadTo - data_end + k + 1]
    /\ \A k \in 0 .. Filled - 1 : buffer[2 * block_len + k] = file[pos - Filled + k + 1]

(* Who reads when, and where the window ends while the third block is      *)
(* copied.                                                                 *)
ReadInv ==
    /\ worker # "read" => got = 0
    /\ pc \in {"open", "prefetch"} \/ worker = "none" =>
          read_byte_count = None /\ desired_byte_count = None
    /\ pc = "open" => worker = "none" /\ pos = 0 /\ lines = <<>>
    /\ pc \in {"prefetch", "finish", "wait", "copy", "start"} => worker # "none"
    /\ pc = "copy" => Behind <= block_len /\ (read_byte_count > 0 => Behind = block_len)
    /\ pc \in {"prefetch", "idle"} => data_begin < 2 * block_len
    /\ Filled <= pos

(* A window that is not full ends at the end of the file. *)
EofInv ==
    /\ read_byte_count \in 0 .. block_len - 1 => pos = Len(file)
    /\ worker = "none" /\ pc \in {"idle", "scan"} => pos = Len(file)
    /\ pc \in {"idle", "prefetch", "scan", "copy", "start"} /\ data_end < 2 * block_len
          => ReadTo = Len(file)
    /\ pc \in {"finish", "wait"} /\ data_end < block_len => ReadTo = Len(file)

(* The lines so far are lines of the file that fit, and the window begins  *)
(* where the next one does, or behind a last line without a newline.       *)
LineInv ==
    LET m == Len(lines) + 1 IN
    /\ m <= Len(Ends)
    /\ \A n \in 1 .. Len(lines) : lines[n] = FileLines[n] /\ Ends[n + 1] - Ends[n] <= block_len
    /\ pc \in {"prefetch", "idle", "scan", "finish", "wait", "copy", "start"} =>
          \/ ReadTo - (data_end - data_begin) = Mark + Ends[m]
          \/ data_begin = data_end /\ ReadTo = Len(file) /\ Ends[m] = Len(Bytes) + 1
    /\ pc \in {"scan", "finish", "wait", "copy", "start"} => data_begin # data_end

(* What ends the reading. *)
EndInv ==
    LET m == Len(lines) + 1 IN
    /\ pc = "end" => m = Len(Ends)
    /\ pc = "thrown" => \/ worker = "none" /\ pos = 0
                        \/ m < Len(Ends) /\ Ends[m + 1] - Ends[m] > block_len

(* The invariant of the lines. *)
FileInv == HoldsInv /\ ReadInv /\ EofInv /\ LineInv /\ EndInv

(* The types that the proofs below use. *)
LEMMA ReadTypes ==
    ASSUME LinesInv, ReadInv
    PROVE  /\ Len(file) \in Nat /\ pos \in 0 .. Len(file) /\ got \in 0 .. block_len
           /\ read_byte_count \in -1 .. block_len /\ Filled \in 0 .. block_len
           /\ ReadTo \in 0 .. Len(file) /\ ReadTo <= pos /\ pos - Filled \in 0 .. Len(file)
           /\ data_begin \in Nat /\ data_end \in Nat /\ data_begin <= data_end
           /\ data_end <= 2 * block_len /\ buffer \in Array
           /\ file \in Seq(0 .. 255) /\ lines \in Seq(Seq(Int)) /\ Len(lines) \in Nat
<1> USE BlockAssumption
<1>1. /\ file \in Seq(0 .. 255) /\ buffer \in Array /\ lines \in Seq(Seq(Int))
      /\ Len(file) \in Nat /\ Len(lines) \in Nat
  BY DEF LinesInv, TextInv
<1>2. /\ pos \in 0 .. Len(file) /\ got \in 0 .. block_len /\ read_byte_count \in -1 .. block_len
      /\ data_begin \in Nat /\ data_end \in Nat /\ data_begin <= data_end /\ data_end <= 2 * block_len
  BY DEF LinesInv, LinesTypeOK, WindowInv, None
<1>3. Filled \in 0 .. block_len
  BY <1>2 DEF Filled, None
<1>4. Filled <= pos
  BY DEF ReadInv
<1>5. pos - Filled \in 0 .. Len(file) /\ pos - Filled <= pos /\ pos <= pos
  BY <1>1, <1>2, <1>3, <1>4
<1>6. ReadTo \in {pos, pos - Filled}
  BY DEF ReadTo
<1> QED BY <1>1, <1>2, <1>3, <1>5, <1>6

(* The file stays, and so do its lines. *)
LEMMA SameFile ==
    ASSUME file' = file
    PROVE  Bytes' = Bytes /\ Mark' = Mark /\ Ends' = Ends /\ FileLines' = FileLines
<1>1. Bytes' = Bytes /\ Mark' = Mark
  BY DEF Bytes, Mark
<1>2. Ends' = Ends
  BY <1>1 DEF Ends
<1>3. FileLines' = FileLines
  BY <1>1, <1>2 DEF FileLines, FileLine, RawLine
<1> QED BY <1>1, <1>2, <1>3

(* The steps that move neither the window nor a byte. *)
LEMMA QuietFile ==
    ASSUME LinesInv, FileInv,
           \/ terminate \/ notify \/ join \/ Destroy \/ Wakeup \/ SpuriousWakeup
           \/ UNCHANGED linesVars
    PROVE  FileInv'
<1>1. UNCHANGED <<file, pos, buffer, data_begin, data_end, got, desired_byte_count,
                  read_byte_count, lines>>
  BY DEF terminate, notify, join, Destroy, Wakeup, SpuriousWakeup, linesVars, sharedVars, windowVars
<1>2. /\ \/ pc' = pc
         \/ pc' \in {"terminate", "gone", "notify", "join"}
         \/ pc = "wait" /\ pc' = "finish"
      /\ worker' = "none" <=> worker = "none"
      /\ worker = "read" => worker' = "read"
  BY DEF terminate, notify, join, Destroy, Wakeup, SpuriousWakeup, linesVars, Notified, Joinable
<1>3. Bytes' = Bytes /\ Mark' = Mark /\ Ends' = Ends /\ FileLines' = FileLines
  BY <1>1, SameFile
<1>4. pc \notin {"copy", "start"} \/ pc' = pc
  BY DEF terminate, notify, join, Destroy, Wakeup, SpuriousWakeup, linesVars, Joinable
<1>5. Filled' = Filled /\ ReadTo' = ReadTo /\ Behind' = Behind
  BY <1>1, <1>2, <1>4 DEF Filled, ReadTo, Behind
<1>6. HoldsInv'
  BY <1>1, <1>5 DEF FileInv, HoldsInv
<1>7. ReadInv'
  BY <1>1, <1>2, <1>5 DEF FileInv, ReadInv
<1>8. EofInv'
  BY <1>1, <1>2, <1>5 DEF FileInv, EofInv
<1>9. LineInv'
  BY <1>1, <1>2, <1>3, <1>5 DEF FileInv, LineInv
<1>10. EndInv'
  BY <1>1, <1>2, <1>3 DEF FileInv, EndInv
<1> QED BY <1>6, <1>7, <1>8, <1>9, <1>10 DEF FileInv

(* A byte of the worker's read. *)
LEMMA FreadFile ==
    ASSUME LinesInv, FileInv, fread
    PROVE  FileInv'
<1> USE BlockAssumption
<1> DEFINE B == 2 * block_len
<1>1. /\ worker = "read" /\ got < desired_byte_count /\ pos < Len(file)
      /\ buffer' = [buffer EXCEPT ![2 * block_len + got] = file[pos + 1]]
      /\ pos' = pos + 1 /\ got' = got + 1
      /\ UNCHANGED <<file, data_begin, data_end, pc, worker, desired_byte_count, read_byte_count, lines>>
  BY DEF fread, windowVars, sharedVars
<1>2. desired_byte_count = block_len /\ read_byte_count = None /\ pc \notin {"copy", "start", "open", "prefetch"}
  BY <1>1 DEF LinesInv, LinesTypeOK, CountsInv, FileInv, ReadInv
<1>3. /\ Len(file) \in Nat /\ pos \in 0 .. Len(file) /\ got \in 0 .. block_len
      /\ data_begin \in Nat /\ data_end \in Nat /\ data_end <= 2 * block_len /\ buffer \in Array
  BY ReadTypes DEF FileInv
<1>4. Bytes' = Bytes /\ Mark' = Mark /\ Ends' = Ends /\ FileLines' = FileLines
  BY <1>1, SameFile
<1>5. Filled = got /\ Filled' = got + 1 /\ Behind = data_end /\ Behind' = data_end
  BY <1>1, <1>2 DEF Filled, Behind
<1>6. ReadTo = pos - got /\ ReadTo' = (pos + 1) - (got + 1)
  BY <1>1, <1>2, <1>5 DEF ReadTo
<1>7. ReadTo' = ReadTo /\ pos' - Filled' = pos - Filled
  BY <1>1, <1>3, <1>5, <1>6
<1>8. HoldsInv'
  <2>1. ASSUME NEW k \in data_begin .. data_end - 1 PROVE buffer'[k] = file[ReadTo - data_end + k + 1]
    <3>1. k \in 0 .. 3 * block_len - 1 /\ k # 2 * block_len + got
      BY <1>3
    <3>2. buffer'[k] = buffer[k]
      BY <1>1, <1>3, <3>1 DEF Array
    <3> QED BY <1>5, <3>2 DEF FileInv, HoldsInv
  <2>2. ASSUME NEW k \in 0 .. got PROVE buffer'[2 * block_len + k] = file[pos - Filled + k + 1]
    <3>1. 2 * block_len + k \in 0 .. 3 * block_len - 1
      BY <1>1, <1>2, <1>3
    <3>2. CASE k = got
      <4>1. pos - Filled + k + 1 = pos + 1
        BY <1>3, <1>5, <3>2
      <4> QED BY <1>1, <1>3, <3>1, <3>2, <4>1 DEF Array
    <3>3. CASE k # got
      <4>1. k \in 0 .. Filled - 1 /\ 2 * block_len + k # 2 * block_len + got
        BY <1>3, <1>5, <3>3
      <4>2. buffer'[2 * block_len + k] = buffer[2 * block_len + k]
        BY <1>1, <1>3, <3>1, <4>1 DEF Array
      <4> QED BY <4>1, <4>2 DEF FileInv, HoldsInv
    <3> QED BY <3>2, <3>3
  <2>3. Filled' - 1 = got
    BY <1>3, <1>5
  <2> QED BY <1>1, <1>5, <1>7, <2>1, <2>2, <2>3 DEF HoldsInv
<1>9. ReadInv'
  <2>1. Filled' <= pos'
    <3>1. Filled <= pos
      BY DEF FileInv, ReadInv
    <3> QED BY <1>1, <1>3, <1>5, <3>1
  <2> QED BY <1>1, <1>2, <2>1 DEF FileInv, ReadInv
<1>10. EofInv'
  BY <1>1, <1>2, <1>7 DEF FileInv, EofInv, None
<1>11. LineInv'
  BY <1>1, <1>4, <1>7 DEF FileInv, LineInv
<1>12. EndInv'
  BY <1>1, <1>4 DEF FileInv, EndInv
<1> QED BY <1>8, <1>9, <1>10, <1>11, <1>12 DEF FileInv

(* The end of the worker's read: a short one has met the end of the file. *)
LEMMA EndOfReadFile ==
    ASSUME LinesInv, FileInv, EndOfRead
    PROVE  FileInv'
<1> USE BlockAssumption
<1>1. /\ worker = "read" /\ (got = desired_byte_count \/ pos = Len(file))
      /\ read_byte_count' = got /\ got' = 0 /\ desired_byte_count' = None
      /\ worker' \in {"exited", "wait"}
      /\ \/ pc' = pc /\ pc # "wait"
         \/ pc = "wait" /\ pc' = "finish"
      /\ UNCHANGED <<file, pos, buffer, data_begin, data_end, lines>>
  BY DEF EndOfRead, windowVars, FinishNotified
<1>2. desired_byte_count = block_len /\ read_byte_count = None /\ pc \notin {"copy", "start", "open", "prefetch"}
  BY <1>1 DEF LinesInv, LinesTypeOK, CountsInv, FileInv, ReadInv
<1>3. got \in 0 .. block_len /\ pos \in 0 .. Len(file) /\ Len(file) \in Nat
  BY ReadTypes DEF FileInv
<1>4. Bytes' = Bytes /\ Mark' = Mark /\ Ends' = Ends /\ FileLines' = FileLines
  BY <1>1, SameFile
<1>5. Filled = got /\ Filled' = got /\ Behind = data_end /\ Behind' = data_end
  BY <1>1, <1>2, <1>3 DEF Filled, Behind, None
<1>6. ReadTo = pos - got /\ ReadTo' = pos - got
  BY <1>1, <1>2, <1>5 DEF ReadTo
<1>7. HoldsInv'
  BY <1>1, <1>5, <1>6 DEF FileInv, HoldsInv
<1>8. ReadInv'
  BY <1>1, <1>2, <1>5 DEF FileInv, ReadInv
<1>9. EofInv'
  <2>1. read_byte_count' \in 0 .. block_len - 1 => pos = Len(file)
    BY <1>1, <1>2, <1>3
  <2> QED BY <1>1, <1>2, <1>6, <2>1 DEF FileInv, EofInv
<1>10. LineInv'
  BY <1>1, <1>4, <1>6 DEF FileInv, LineInv
<1>11. EndInv'
  BY <1>1, <1>4 DEF FileInv, EndInv
<1> QED BY <1>7, <1>8, <1>9, <1>10, <1>11 DEF FileInv

(* A read is asked for: the third block is empty. *)
LEMMA StartReadFile ==
    ASSUME LinesInv, FileInv, start_read
    PROVE  FileInv'
<1> USE BlockAssumption
<1>1. /\ \/ pc = "start" /\ pc' = "scan"
         \/ pc = "prefetch" /\ pc' = "idle"
      /\ worker # "read" /\ desired_byte_count' = block_len /\ read_byte_count' = None
      /\ worker' # "read" /\ (worker' = "none" <=> worker = "none")
      /\ UNCHANGED <<file, pos, buffer, data_begin, data_end, got, lines>>
  BY DEF start_read, windowVars, MutexFree, Notified
<1>2. got = 0 /\ worker # "none" /\ (pc = "prefetch" => read_byte_count = None)
  BY <1>1 DEF FileInv, ReadInv
<1>3. pos \in 0 .. Len(file) /\ Len(file) \in Nat
  BY ReadTypes DEF FileInv
<1>4. Bytes' = Bytes /\ Mark' = Mark /\ Ends' = Ends /\ FileLines' = FileLines
  BY <1>1, SameFile
<1>5. Filled' = 0 /\ Behind = data_end /\ Behind' = data_end /\ (pc = "prefetch" => Filled = 0)
  BY <1>1, <1>2 DEF Filled, Behind
<1>6. ReadTo = pos /\ ReadTo' = pos
  BY <1>1, <1>3, <1>5 DEF ReadTo
<1>7. HoldsInv'
  BY <1>1, <1>5, <1>6 DEF FileInv, HoldsInv
<1>8. ReadInv'
  BY <1>1, <1>2, <1>3, <1>5 DEF FileInv, ReadInv
<1>9. EofInv'
  BY <1>1, <1>2, <1>6 DEF FileInv, EofInv, None
<1>10. LineInv'
  BY <1>1, <1>4, <1>6 DEF FileInv, LineInv
<1>11. EndInv'
  BY <1>1 DEF EndInv
<1> QED BY <1>7, <1>8, <1>9, <1>10, <1>11 DEF FileInv

(* The caller takes what was read: when that is anything, the window fills *)
(* the first block.                                                        *)
LEMMA FinishReadFile ==
    ASSUME LinesInv, FileInv, finish_read
    PROVE  FileInv'
<1> USE BlockAssumption
<1> DEFINE r == read_byte_count
<1>1. /\ pc = "finish"
      /\ UNCHANGED <<file, pos, buffer, data_begin, worker, got, desired_byte_count, read_byte_count, lines>>
  BY DEF finish_read, sharedVars
<1>2. /\ pos \in 0 .. Len(file) /\ Len(file) \in Nat /\ r \in -1 .. block_len
      /\ data_begin \in Nat /\ data_end \in Nat /\ data_begin <= data_end
  BY ReadTypes DEF FileInv
<1>3. Bytes' = Bytes /\ Mark' = Mark /\ Ends' = Ends /\ FileLines' = FileLines
  BY <1>1, SameFile
<1>4. CASE r = None
  <2>1. pc' = "wait" /\ data_end' = data_end
    BY <1>4 DEF finish_read
  <2>2. Filled' = Filled /\ ReadTo' = ReadTo /\ Behind' = Behind
    BY <1>1, <2>1 DEF Filled, ReadTo, Behind
  <2>3. HoldsInv'
    BY <1>1, <2>1, <2>2 DEF FileInv, HoldsInv
  <2>4. ReadInv'
    BY <1>1, <2>1, <2>2 DEF FileInv, ReadInv
  <2>5. EofInv'
    BY <1>1, <2>1, <2>2 DEF FileInv, EofInv
  <2>6. LineInv' /\ EndInv'
    BY <1>1, <1>3, <2>1, <2>2 DEF FileInv, LineInv, EndInv
  <2> QED BY <2>3, <2>4, <2>5, <2>6 DEF FileInv
<1>5. CASE r # None
  <2>1. pc' = "copy" /\ data_end' = data_end + r /\ r \in 0 .. block_len
    BY <1>2, <1>5 DEF finish_read, None
  <2>2. Filled = r /\ Filled' = r /\ ReadTo = pos - r /\ ReadTo' = pos
    BY <1>1, <1>5, <2>1 DEF Filled, ReadTo
  <2>3. Behind = data_end /\ Behind' = data_end
    <3>1. Behind = data_end /\ Behind' = data_end' - r
      BY <1>1, <2>1 DEF Behind
    <3> QED BY <1>2, <2>1, <3>1
  <2>4. ReadTo' - data_end' = ReadTo - data_end
    BY <1>2, <2>1, <2>2
  <2>5. data_end <= block_len /\ (r > 0 => data_end = block_len)
    <3>1. data_end <= block_len
      BY <1>1 DEF LinesInv, WindowInv
    <3>2. data_end < block_len => pos - r = Len(file)
      BY <1>1, <2>2 DEF FileInv, EofInv
    <3> QED BY <1>2, <2>1, <3>1, <3>2
  <2>6. HoldsInv'
    BY <1>1, <2>2, <2>3, <2>4 DEF FileInv, HoldsInv
  <2>7. ReadInv'
    BY <1>1, <2>1, <2>2, <2>3, <2>5 DEF FileInv, ReadInv
  <2>8. EofInv'
    <3>1. r \in 0 .. block_len - 1 => pos = Len(file)
      BY DEF FileInv, EofInv
    <3>2. data_end' < 2 * block_len => pos = Len(file)
      BY <1>2, <2>1, <2>5, <3>1
    <3> QED BY <1>1, <2>1, <2>2, <3>1, <3>2 DEF EofInv
  <2>9. LineInv'
    <3>1. data_begin # data_end
      BY <1>1 DEF FileInv, LineInv
    <3>2. ReadTo - (data_end - data_begin) = Mark + Ends[Len(lines) + 1]
      BY <1>1, <3>1 DEF FileInv, LineInv
    <3>3. data_begin' # data_end' /\ ReadTo' - (data_end' - data_begin') = ReadTo - (data_end - data_begin)
      BY <1>1, <1>2, <2>1, <2>2, <3>1
    <3> QED BY <1>1, <1>3, <2>1, <3>2, <3>3 DEF FileInv, LineInv
  <2>10. EndInv'
    BY <2>1 DEF EndInv
  <2> QED BY <2>6, <2>7, <2>8, <2>9, <2>10 DEF FileInv
<1> QED BY <1>4, <1>5

(* A block copied over another. *)
LEMMA CopiedBytes ==
    ASSUME buffer \in Array
    PROVE  /\ \A k \in 0 .. block_len - 1 : Copied(0, 1)[k] = buffer[k + block_len]
           /\ \A k \in block_len .. 3 * block_len - 1 : Copied(0, 1)[k] = buffer[k]
           /\ \A k \in 0 .. block_len - 1 : Copied(1, 2)[k] = buffer[k]
           /\ \A k \in block_len .. 2 * block_len - 1 : Copied(1, 2)[k] = buffer[k + block_len]
           /\ \A k \in 2 * block_len .. 3 * block_len - 1 : Copied(1, 2)[k] = buffer[k]
<1> DEFINE B == block_len
<1>1. B \in Nat /\ B > 0
  BY BlockAssumption
<1> HIDE DEF B
<1>2. /\ \A k \in 0 .. B - 1 : k \div B = 0
      /\ \A k \in B .. 2 * B - 1 : k \div B = 1
      /\ \A k \in 2 * B .. 3 * B - 1 : k \div B = 2
  <2>1. ASSUME NEW k \in 0 .. B - 1 PROVE k \div B = 0
    BY <1>1
  <2>2. ASSUME NEW k \in B .. 2 * B - 1 PROVE k \div B = 1
    BY <1>1
  <2>3. ASSUME NEW k \in 2 * B .. 3 * B - 1 PROVE k \div B = 2
    BY <1>1
  <2> QED BY <2>1, <2>2, <2>3
<1>3. /\ \A k \in 0 .. B - 1 : k \in 0 .. 3 * B - 1
      /\ \A k \in B .. 2 * B - 1 : k \in 0 .. 3 * B - 1
      /\ \A k \in 2 * B .. 3 * B - 1 : k \in 0 .. 3 * B - 1
      /\ \A k \in B .. 3 * B - 1 : k \in B .. 2 * B - 1 \/ k \in 2 * B .. 3 * B - 1
      /\ (1 - 0) * B = B /\ (2 - 1) * B = B
  BY <1>1
<1>4. DOMAIN buffer = 0 .. 3 * B - 1
  BY DEF Array, B
<1>5. \A k \in 0 .. 3 * B - 1 : Copied(0, 1)[k] = IF k \div B = 0 THEN buffer[k + B] ELSE buffer[k]
  BY <1>3, <1>4 DEF Copied, B
<1>6. \A k \in 0 .. 3 * B - 1 : Copied(1, 2)[k] = IF k \div B = 1 THEN buffer[k + B] ELSE buffer[k]
  BY <1>3, <1>4 DEF Copied, B
<1>7. \A k \in 0 .. B - 1 : Copied(0, 1)[k] = buffer[k + B] /\ Copied(1, 2)[k] = buffer[k]
  BY <1>2, <1>3, <1>5, <1>6
<1>8. \A k \in B .. 2 * B - 1 : Copied(0, 1)[k] = buffer[k] /\ Copied(1, 2)[k] = buffer[k + B]
  BY <1>2, <1>3, <1>5, <1>6
<1>9. \A k \in 2 * B .. 3 * B - 1 : Copied(0, 1)[k] = buffer[k] /\ Copied(1, 2)[k] = buffer[k]
  BY <1>2, <1>3, <1>5, <1>6
<1> QED BY <1>3, <1>7, <1>8, <1>9 DEF B

(* The third block becomes the second, behind a full first one. *)
LEMMA CopyBlockFile ==
    ASSUME LinesInv, FileInv, CopyBlock
    PROVE  FileInv'
<1> USE BlockAssumption
<1> DEFINE r == read_byte_count
           B == block_len
<1>1. /\ pc = "copy" /\ pc' = "start" /\ buffer' = Copied(1, 2)
      /\ UNCHANGED <<file, pos, data_begin, data_end, worker, got, desired_byte_count, read_byte_count, lines>>
  BY DEF CopyBlock, sharedVars, windowVars
<1>2. /\ pos \in 0 .. Len(file) /\ Len(file) \in Nat /\ r \in -1 .. B /\ buffer \in Array
      /\ data_begin \in Nat /\ data_end \in Nat /\ data_begin <= data_end
  BY ReadTypes DEF FileInv
<1>3. Bytes' = Bytes /\ Mark' = Mark /\ Ends' = Ends /\ FileLines' = FileLines
  BY <1>1, SameFile
<1>4. r \in 0 .. B /\ Filled = r /\ Filled' = r
  <2>1. r # None
    BY <1>1 DEF LinesInv, CountsInv
  <2> QED BY <1>1, <1>2, <2>1 DEF Filled, None
<1>5. ReadTo = pos /\ ReadTo' = pos /\ Behind = data_end - r /\ Behind' = data_end
  BY <1>1 DEF ReadTo, Behind
<1>6. data_end - r <= B /\ (r > 0 => data_end - r = B)
  BY <1>1, <1>5 DEF FileInv, ReadInv
<1>7. /\ \A k \in 0 .. B - 1 : buffer'[k] = buffer[k]
      /\ \A k \in B .. 2 * B - 1 : buffer'[k] = buffer[k + B]
      /\ \A k \in 2 * B .. 3 * B - 1 : buffer'[k] = buffer[k]
  BY <1>1, <1>2, CopiedBytes
<1>8. /\ \A k \in data_begin .. data_end - r - 1 : buffer[k] = file[pos - data_end + k + 1]
      /\ \A k \in 0 .. r - 1 : buffer[2 * B + k] = file[pos - r + k + 1]
  BY <1>4, <1>5 DEF FileInv, HoldsInv
<1>9. HoldsInv'
  <2>1. ASSUME NEW k \in data_begin .. data_end - 1 PROVE buffer'[k] = file[pos - data_end + k + 1]
    <3>1. CASE k < data_end - r
      <4>1. k \in 0 .. B - 1 /\ k \in data_begin .. data_end - r - 1
        BY <1>2, <1>4, <1>6, <3>1
      <4> QED BY <1>7, <1>8, <4>1
    <3>2. CASE ~(k < data_end - r)
      <4> DEFINE i == k - B
      <4>1. r > 0 /\ data_end = B + r
        BY <1>2, <1>4, <1>6, <3>2
      <4>2. /\ k \in B .. 2 * B - 1 /\ i \in 0 .. r - 1 /\ k + B = 2 * B + i
            /\ pos - r + i + 1 = pos - data_end + k + 1
        BY <1>2, <1>4, <3>2, <4>1
      <4> HIDE DEF i
      <4>3. buffer'[k] = buffer[k + B]
        BY <1>7, <4>2
      <4>4. buffer[2 * B + i] = file[pos - r + i + 1]
        BY <1>8, <4>2
      <4> QED BY <4>2, <4>3, <4>4
    <3> QED BY <3>1, <3>2
  <2>2. ASSUME NEW k \in 0 .. r - 1 PROVE buffer'[2 * B + k] = file[pos - r + k + 1]
    <3>1. 2 * B + k \in 2 * B .. 3 * B - 1
      BY <1>4
    <3> QED BY <1>7, <1>8, <3>1
  <2> QED BY <1>1, <1>4, <1>5, <2>1, <2>2 DEF HoldsInv
<1>10. ReadInv'
  BY <1>1, <1>4 DEF FileInv, ReadInv
<1>11. EofInv'
  BY <1>1, <1>5 DEF FileInv, EofInv
<1>12. LineInv'
  BY <1>1, <1>3, <1>5 DEF FileInv, LineInv
<1>13. EndInv'
  BY <1>1 DEF EndInv
<1> QED BY <1>9, <1>10, <1>11, <1>12, <1>13 DEF FileInv

(* The ends of the lines of the file. *)
LEMMA EndsOfFile ==
    ASSUME file \in Seq(0 .. 255)
    PROVE  IsEnds(Ends, Bytes)
  BY BytesAfterMark, LineEndsProperties DEF Ends

(* An end that is not before the last byte is the last. *)
LEMMA LastEnd ==
    ASSUME NEW bytes \in Seq(Int), NEW e, IsEnds(e, bytes), NEW m \in 1 .. Len(e)
    PROVE  /\ e[m] \in Nat
           /\ e[m] >= Len(bytes) => m = Len(e)
           /\ e[m] < Len(bytes) => m < Len(e)
<1>1. Len(e) \in Nat /\ Len(bytes) \in Nat /\ e \in Seq(Nat)
  BY DEF IsEnds
<1>2. e[m] \in Nat
  BY <1>1, ElementOfSeq
<1>3. ASSUME m # Len(e) PROVE e[m] < Len(bytes)
  <2>1. m + 1 \in 2 .. Len(e) /\ (m + 1) - 1 = m
    BY <1>1, <1>3
  <2>2. e[(m + 1) - 1] < Len(bytes)
    BY <2>1, Zenon DEF IsEnds
  <2> QED BY <2>1, <2>2
<1>4. ASSUME m = Len(e) PROVE e[m] >= Len(bytes)
  BY <1>1, <1>4 DEF IsEnds
<1> QED BY <1>1, <1>2, <1>3, <1>4

(* next_line: at the end of the window all lines have been returned; the   *)
(* second block becomes the first.                                         *)
LEMMA NextLineFile ==
    ASSUME LinesInv, FileInv, next_line
    PROVE  FileInv'
<1> USE BlockAssumption
<1> DEFINE B == block_len
           m == Len(lines) + 1
<1>1. /\ pc = "idle"
      /\ UNCHANGED <<file, pos, worker, got, desired_byte_count, read_byte_count, lines>>
  BY DEF next_line, sharedVars
<1>2. /\ pos \in 0 .. Len(file) /\ Len(file) \in Nat /\ buffer \in Array /\ Len(lines) \in Nat
      /\ data_begin \in Nat /\ data_end \in Nat /\ data_begin <= data_end /\ data_end <= 2 * B
      /\ ReadTo \in 0 .. Len(file) /\ Filled \in 0 .. B /\ pos - Filled \in 0 .. Len(file)
      /\ file \in Seq(0 .. 255)
  BY ReadTypes DEF FileInv
<1>3. Bytes' = Bytes /\ Mark' = Mark /\ Ends' = Ends /\ FileLines' = FileLines
  BY <1>1, SameFile
<1>4. Filled' = Filled /\ ReadTo = pos - Filled
  BY <1>1 DEF Filled, ReadTo
<1>5. CASE data_begin = data_end /\ pc' = "end" /\ UNCHANGED <<buffer, windowVars>>
  <2>1. UNCHANGED <<data_begin, data_end>>
    BY <1>5 DEF windowVars
  <2>2. ReadTo' = ReadTo /\ Behind' = data_end /\ Behind = data_end
    BY <1>1, <1>4, <1>5, <2>1 DEF ReadTo, Behind
  <2>3. m \in 1 .. Len(Ends) /\ IsEnds(Ends, Bytes) /\ Bytes \in Seq(Int)
    <3>1. IsEnds(Ends, Bytes) /\ Bytes \in Seq(Int)
      BY <1>2, EndsOfFile, BytesAfterMark
    <3>2. Len(Ends) \in Nat
      BY <3>1 DEF IsEnds
    <3>3. m <= Len(Ends)
      BY DEF FileInv, LineInv
    <3> QED BY <1>2, <3>1, <3>2, <3>3
  <2>4. Ends[m] >= Len(Bytes)
    <3>1. data_end < 2 * B
      BY <1>1, <1>5 DEF FileInv, ReadInv
    <3>2. ReadTo = Len(file)
      BY <1>1, <3>1 DEF FileInv, EofInv
    <3>3. Mark \in {0, 3} /\ Len(Bytes) \in Nat /\ Len(file) = Mark + Len(Bytes)
      BY <1>2, BytesAfterMark
    <3>4. ReadTo - (data_end - data_begin) = Mark + Ends[m] \/ Ends[m] = Len(Bytes) + 1
      BY <1>1 DEF FileInv, LineInv
    <3>5. Ends[m] \in Nat
      BY <2>3, LastEnd
    <3> HIDE DEF m
    <3> QED BY <1>2, <1>5, <3>2, <3>3, <3>4, <3>5
  <2>5. m = Len(Ends)
    <3> HIDE DEF m
    <3> QED BY <2>3, <2>4, LastEnd
  <2>6. HoldsInv'
    BY <1>1, <1>4, <1>5, <2>1, <2>2 DEF FileInv, HoldsInv
  <2>7. ReadInv'
    BY <1>1, <1>4, <1>5 DEF FileInv, ReadInv
  <2>8. EofInv'
    BY <1>1, <1>5 DEF FileInv, EofInv
  <2>9. LineInv'
    BY <1>1, <1>3, <1>5 DEF FileInv, LineInv
  <2>10. EndInv'
    BY <1>1, <1>3, <1>5, <2>5 DEF EndInv
  <2> QED BY <2>6, <2>7, <2>8, <2>9, <2>10 DEF FileInv
<1>6. CASE data_begin # data_end /\ pc' = "scan" /\ UNCHANGED <<buffer, windowVars>>
  <2>1. UNCHANGED <<data_begin, data_end>>
    BY <1>6 DEF windowVars
  <2>2. ReadTo' = ReadTo /\ Behind' = data_end /\ Behind = data_end
    BY <1>1, <1>4, <1>6, <2>1 DEF ReadTo, Behind
  <2>3. HoldsInv'
    BY <1>1, <1>4, <1>6, <2>1, <2>2 DEF FileInv, HoldsInv
  <2>4. ReadInv'
    BY <1>1, <1>4, <1>6 DEF FileInv, ReadInv
  <2>5. EofInv'
    BY <1>1, <1>6, <2>1, <2>2 DEF FileInv, EofInv
  <2>6. LineInv'
    BY <1>1, <1>3, <1>6, <2>1, <2>2 DEF FileInv, LineInv
  <2>7. EndInv'
    BY <1>6 DEF EndInv
  <2> QED BY <2>3, <2>4, <2>5, <2>6, <2>7 DEF FileInv
<1>7. CASE /\ data_begin # data_end /\ data_begin >= block_len
           /\ buffer' = Copied(0, 1)
           /\ data_begin' = data_begin - block_len
           /\ data_end' = data_end - block_len
           /\ pc' = IF is_valid THEN "finish" ELSE "scan"
  <2>1. pc' \in {"finish", "scan"} /\ (pc' = "finish" <=> worker # "none")
    BY <1>7 DEF is_valid
  <2>2. ReadTo' = ReadTo /\ Behind' = data_end - B /\ Behind = data_end
    BY <1>1, <1>4, <1>7, <2>1 DEF ReadTo, Behind
  <2>3. /\ \A k \in 0 .. B - 1 : buffer'[k] = buffer[k + B]
        /\ \A k \in B .. 3 * B - 1 : buffer'[k] = buffer[k]
    BY <1>2, <1>7, CopiedBytes
  <2>4. /\ \A k \in data_begin .. data_end - 1 : buffer[k] = file[ReadTo - data_end + k + 1]
        /\ \A k \in 0 .. Filled - 1 : buffer[2 * B + k] = file[pos - Filled + k + 1]
    BY <2>2 DEF FileInv, HoldsInv
  <2>5. HoldsInv'
    <3>1. ASSUME NEW k \in data_begin' .. Behind' - 1 PROVE buffer'[k] = file[ReadTo - data_end' + k + 1]
      <4> DEFINE i == k + B
      <4>1. k \in 0 .. B - 1 /\ i \in data_begin .. data_end - 1
        BY <1>2, <1>7, <2>2
      <4>2. ReadTo - data_end' + k + 1 = ReadTo - data_end + i + 1
        BY <1>2, <1>7, <4>1
      <4>3. buffer'[k] = buffer[i]
        BY <2>3, <4>1
      <4> HIDE DEF i
      <4> QED BY <2>4, <4>1, <4>2, <4>3
    <3>2. ASSUME NEW k \in 0 .. Filled - 1 PROVE buffer'[2 * B + k] = file[pos - Filled + k + 1]
      <4>1. 2 * B + k \in B .. 3 * B - 1
        BY <1>2
      <4> QED BY <2>3, <2>4, <4>1
    <3> QED BY <1>1, <1>4, <2>2, <3>1, <3>2 DEF HoldsInv
  <2>6. ReadInv'
    BY <1>1, <1>4, <2>1 DEF FileInv, ReadInv
  <2>7. EofInv'
    <3>1. read_byte_count \in 0 .. block_len - 1 => pos = Len(file)
      BY DEF FileInv, EofInv
    <3>2. data_end' < block_len => ReadTo = Len(file)
      <4>1. data_end' < block_len => data_end < 2 * block_len
        BY <1>2, <1>7
      <4> QED BY <1>1, <4>1 DEF FileInv, EofInv
    <3>3. worker = "none" => pos = Len(file) /\ Filled = 0
      BY <1>1 DEF FileInv, EofInv, ReadInv, Filled
    <3>4. worker = "none" => ReadTo = Len(file)
      BY <1>2, <1>4, <3>3
    <3> QED BY <1>1, <2>1, <2>2, <3>1, <3>2, <3>3, <3>4 DEF EofInv
  <2>8. LineInv'
    <3>1. ReadTo - (data_end - data_begin) = Mark + Ends[m]
      BY <1>1, <1>7 DEF FileInv, LineInv
    <3>2. data_begin' # data_end' /\ ReadTo' - (data_end' - data_begin') = ReadTo - (data_end - data_begin)
      BY <1>2, <1>7, <2>2
    <3>3. /\ m <= Len(Ends)
          /\ \A n \in 1 .. Len(lines) : lines[n] = FileLines[n] /\ Ends[n + 1] - Ends[n] <= block_len
      BY DEF FileInv, LineInv
    <3> QED BY <1>1, <1>3, <3>1, <3>2, <3>3 DEF LineInv
  <2>9. EndInv'
    BY <2>1 DEF EndInv
  <2> QED BY <2>5, <2>6, <2>7, <2>8, <2>9 DEF FileInv
<1> QED BY <1>5, <1>6, <1>7 DEF next_line

(* The constructor fills the window, and skips the mark. *)
LEMMA InitReadFile ==
    ASSUME LinesInv, FileInv, init
    PROVE  FileInv'
<1> USE BlockAssumption
<1> DEFINE n == Min({2 * block_len, Len(file)})
<1>1. pc = "open" /\ UNCHANGED <<file, got, desired_byte_count, read_byte_count, lines>>
  BY DEF init, sharedVars
<1>2. /\ worker = "none" /\ pos = 0 /\ lines = <<>> /\ got = 0
      /\ read_byte_count = None /\ desired_byte_count = None
  BY <1>1 DEF FileInv, ReadInv
<1>3. file \in Seq(0 .. 255) /\ buffer \in Array /\ Len(file) \in Nat
  BY ReadTypes DEF FileInv
<1>4. Bytes' = Bytes /\ Mark' = Mark /\ Ends' = Ends /\ FileLines' = FileLines
  BY <1>1, SameFile
<1>5. Filled' = 0 /\ Filled = 0
  BY <1>1, <1>2 DEF Filled
<1>6. CASE pc' = "thrown" /\ UNCHANGED <<pos, buffer, windowVars, worker>>
  <2>1. UNCHANGED <<data_begin, data_end>>
    BY <1>6 DEF windowVars
  <2>2. ReadTo' = ReadTo /\ Behind' = Behind
    BY <1>1, <1>5, <1>6, <2>1 DEF ReadTo, Behind
  <2>3. HoldsInv'
    BY <1>1, <1>5, <1>6, <2>1, <2>2 DEF FileInv, HoldsInv
  <2>4. ReadInv'
    BY <1>1, <1>2, <1>5, <1>6 DEF FileInv, ReadInv
  <2>5. EofInv'
    BY <1>1, <1>2, <1>6 DEF EofInv, None
  <2>6. LineInv'
    BY <1>1, <1>4, <1>6 DEF FileInv, LineInv
  <2>7. EndInv'
    BY <1>2, <1>6 DEF EndInv
  <2> QED BY <2>3, <2>4, <2>5, <2>6, <2>7 DEF FileInv
<1>7. CASE /\ pos' = n
           /\ buffer' = [k \in DOMAIN buffer |-> IF k < n THEN file[k + 1] ELSE buffer[k]]
           /\ data_end' = n
           /\ data_begin' = IF n >= 3 /\ IsPrefix(BOM, file) THEN 3 ELSE 0
           /\ IF n = 2 * block_len THEN worker' = "lock" /\ pc' = "prefetch"
              ELSE pc' = "idle" /\ UNCHANGED worker
  <2>1. n \in {2 * block_len, Len(file)} /\ n <= 2 * block_len /\ n <= Len(file)
    <3> DEFINE T == {2 * block_len, Len(file)}
    <3>1. T \in SUBSET Nat /\ T # {}
      BY <1>3
    <3>2. Min(T) \in T /\ \A x \in T : Min(T) <= x
      <4> HIDE DEF T
      <4> QED BY <3>1, MinType
    <3> QED BY <3>2
  <2> HIDE DEF n
  <2>2. n \in Nat /\ (n # 2 * block_len => n = Len(file))
    BY <1>3, <2>1
  <2>3. data_begin' = Mark /\ Mark \in {0, 3}
    <3>1. IsPrefix(BOM, file) => Len(file) >= 3
      BY <1>3 DEF IsPrefix, BOM
    <3>2. IsPrefix(BOM, file) => n >= 3
      BY <1>3, <2>1, <2>2, <3>1
    <3> QED BY <1>7, <3>2 DEF Mark
  <2>4. \/ n = 2 * block_len /\ worker' = "lock" /\ pc' = "prefetch"
        \/ n # 2 * block_len /\ worker' = "none" /\ pc' = "idle"
    BY <1>2, <1>7
  <2>5. ReadTo' = n /\ Behind' = n
    <3>1. ReadTo' = n - 0 /\ Behind' = n
      BY <1>5, <1>7, <2>4 DEF ReadTo, Behind
    <3> QED BY <2>2, <3>1
  <2>6. HoldsInv'
    <3>1. ASSUME NEW k \in data_begin' .. n - 1 PROVE buffer'[k] = file[n - n + k + 1]
      <4>1. k \in Nat /\ k < n /\ k \in 0 .. 3 * block_len - 1 /\ n - n + k + 1 = k + 1
        BY <2>1, <2>2, <2>3
      <4>2. buffer'[k] = file[k + 1]
        BY <1>3, <1>7, <4>1 DEF Array
      <4> QED BY <4>1, <4>2
    <3> QED BY <1>1, <1>5, <1>7, <2>5, <3>1 DEF HoldsInv
  <2>7. ReadInv'
    <3>1. data_begin' < 2 * block_len /\ Filled' <= pos'
      BY <1>5, <1>7, <2>2, <2>3
    <3> QED BY <1>1, <1>2, <2>4, <3>1 DEF ReadInv
  <2>8. EofInv'
    BY <1>1, <1>2, <1>7, <2>2, <2>4, <2>5 DEF EofInv, None
  <2>9. LineInv'
    <3>1. IsEnds(Ends, Bytes)
      BY <1>3, EndsOfFile
    <3>2. Ends[1] = 0 /\ Len(Ends) >= 1
      BY <3>1 DEF IsEnds
    <3>3. Len(lines') = 0
      BY <1>1, <1>2
    <3>4. ReadTo' - (data_end' - data_begin') = Mark + 0
      BY <1>7, <2>2, <2>3, <2>5
    <3>5. ReadTo' - (data_end' - data_begin') = Mark' + Ends'[Len(lines') + 1] /\ Len(lines') + 1 <= Len(Ends')
      BY <1>4, <3>2, <3>3, <3>4
    <3>6. 1 .. Len(lines') = {}
      BY <3>3
    <3> QED BY <2>4, <3>5, <3>6 DEF LineInv
  <2>10. EndInv'
    BY <2>4 DEF EndInv
  <2> QED BY <2>6, <2>7, <2>8, <2>9, <2>10 DEF FileInv
<1> QED BY <1>6, <1>7 DEF init

(* Where scan stops, in the file: at the end of the next line, unless the  *)
(* line is longer than a block.                                            *)
LEMMA ScanEnd ==
    ASSUME LinesInv, FileInv, pc = "scan"
    PROVE  LET m == Len(lines) + 1
               x == Ends[m] + 1 + (line_end - data_begin)
           IN  /\ m \in 1 .. Len(Ends) - 1 /\ Ends[m] \in Nat /\ Ends[m + 1] \in Nat
               /\ x \in 1 .. Len(Bytes) + 1
               /\ Ends[m + 1] >= x
               /\ ~TooLong => Ends[m + 1] = x
               /\ ~TooLong /\ line_end = data_end => ReadTo = Len(file) /\ x = Len(Bytes) + 1
               /\ ReadTo - (data_end - data_begin) = Mark + Ends[m]
               /\ \A j \in 1 .. line_end - data_begin : buffer[data_begin + j - 1] = Bytes[Ends[m] + j]
<1> USE BlockAssumption
<1> DEFINE m == Len(lines) + 1
           em == Ends[m]
           db == data_begin
           de == data_end
           le == line_end
           x == em + 1 + (le - db)
           n == Len(Bytes)
<1>1. /\ Len(file) \in Nat /\ buffer \in Array /\ Len(lines) \in Nat /\ file \in Seq(0 .. 255)
      /\ db \in Nat /\ de \in Nat /\ db <= de /\ de <= 2 * block_len /\ ReadTo \in 0 .. Len(file)
  BY ReadTypes DEF FileInv
<1>2. db < block_len
  BY DEF LinesInv, WindowInv
<1>3. /\ Bytes \in Seq(Int) /\ Mark \in {0, 3} /\ n \in Nat /\ Len(file) = Mark + n
      /\ \A k \in 1 .. n : Bytes[k] = file[Mark + k]
  BY <1>1, BytesAfterMark
<1>4. IsEnds(Ends, Bytes) /\ Len(Ends) \in Nat
  <2>1. IsEnds(Ends, Bytes)
    BY <1>1, EndsOfFile
  <2> QED BY <2>1 DEF IsEnds
<1>5. db # de /\ m <= Len(Ends) /\ ReadTo - (de - db) = Mark + em
  BY DEF FileInv, LineInv
<1>6. m \in 1 .. Len(Ends)
  BY <1>1, <1>4, <1>5
<1> HIDE DEF m, n
<1>7. em \in Nat
  BY <1>3, <1>4, <1>6, LastEnd
<1> HIDE DEF em, db, de
<1>8. em < n /\ em + (de - db) <= n /\ ReadTo = Mark + em + (de - db)
  BY <1>1, <1>3, <1>5, <1>7
<1>9. m < Len(Ends)
  BY <1>3, <1>4, <1>6, <1>8, LastEnd DEF em, n
<1>10. m \in 1 .. Len(Ends) - 1 /\ m + 1 \in 1 .. Len(Ends)
  BY <1>4, <1>6, <1>9
<1>11. Ends[m + 1] \in Nat
  <2> DEFINE p == m + 1
  <2> HIDE DEF p
  <2>1. p \in 1 .. Len(Ends)
    BY <1>10 DEF p
  <2>2. Ends[p] \in Nat
    BY <1>3, <1>4, <2>1, LastEnd
  <2> QED BY <2>2 DEF p
<1>12. le \in db .. de /\ (le = de \/ buffer[le] = NL) /\ \A k \in db .. le - 1 : buffer[k] # NL
  <2> DEFINE T == {k \in db .. de : k = de \/ buffer[k] = NL}
  <2>1. de \in T /\ T \in SUBSET Nat /\ \A k \in T : k \in db .. de /\ (k = de \/ buffer[k] = NL)
    BY <1>1
  <2>2. \A k \in db .. de : buffer[k] = NL => k \in T
    OBVIOUS
  <2>3. le = Min(T)
    BY DEF line_end, db, de
  <2> HIDE DEF T
  <2>4. le \in T /\ \A k \in T : le <= k
    BY <2>1, <2>3, MinType
  <2> HIDE DEF le
  <2>5. le \in db .. de /\ (le = de \/ buffer[le] = NL)
    BY <2>1, <2>4
  <2>6. ASSUME NEW k \in db .. le - 1, buffer[k] = NL PROVE FALSE
    <3>1. k \in db .. de /\ ~(le <= k)
      BY <1>1, <2>5
    <3> QED BY <2>2, <2>4, <2>6, <3>1
  <2> QED BY <2>5, <2>6
<1> HIDE DEF le
<1>13. le \in Nat /\ x \in 1 .. n + 1 /\ em < x /\ x \in Nat
  <2>1. le \in Nat /\ db <= le /\ le <= de
    BY <1>1, <1>12
  <2>2. db \in Nat /\ de \in Nat /\ em \in Nat /\ n \in Nat /\ em + (de - db) <= n
    BY <1>1, <1>3, <1>7, <1>8
  <2>3. le - db \in Nat /\ le - db <= de - db /\ de - db \in Nat
    BY <2>1, <2>2
  <2> DEFINE d == le - db
             w == de - db
  <2> HIDE DEF d, w
  <2>4. d \in Nat /\ w \in Nat /\ d <= w /\ em + w <= n
    BY <2>2, <2>3 DEF d, w
  <2>5. em + 1 + d \in 1 .. n + 1 /\ em < em + 1 + d /\ em + 1 + d \in Nat
    BY <2>2, <2>4
  <2> QED BY <2>1, <2>5 DEF d
<1>14. ASSUME NEW k \in db .. de - 1
       PROVE  em + (k - db) + 1 \in 1 .. n /\ buffer[k] = Bytes[em + (k - db) + 1]
  <2> DEFINE j == em + (k - db) + 1
  <2>1. j \in 1 .. n /\ Mark + j = ReadTo - de + k + 1
    BY <1>1, <1>3, <1>7, <1>8
  <2> HIDE DEF j
  <2>2. buffer[k] = file[ReadTo - de + k + 1]
    BY DEF FileInv, HoldsInv, Behind, db, de
  <2>3. buffer[k] = Bytes[j]
    BY <1>3, <2>1, <2>2
  <2> QED BY <2>1, <2>3 DEF j
<1>15. \A j \in 1 .. n : em < j /\ j < x => Bytes[j] # NL
  <2> SUFFICES ASSUME NEW j \in 1 .. n, em < j, j < x PROVE Bytes[j] # NL
    OBVIOUS
  <2> DEFINE k == db + (j - em - 1)
  <2>1. k \in db .. le - 1 /\ k \in db .. de - 1 /\ em + (k - db) + 1 = j
    BY <1>1, <1>3, <1>7, <1>12, <1>13
  <2> HIDE DEF k
  <2> QED BY <1>12, <1>14, <2>1
<1>16. Ends[m + 1] >= x /\ (x = n + 1 \/ Bytes[x] = NL => Ends[m + 1] = x)
  <2> HIDE DEF x
  <2> QED BY <1>3, <1>4, <1>10, <1>13, <1>15, NextEnd DEF n, em
<1>17. ASSUME ~TooLong, le = de PROVE ReadTo = Len(file) /\ x = n + 1
  <2>1. de < 2 * block_len
    BY <1>1, <1>2, <1>17 DEF TooLong, le, db, de
  <2>2. ReadTo = Len(file)
    BY <2>1 DEF FileInv, EofInv, de
  <2> QED BY <1>1, <1>3, <1>7, <1>8, <1>17, <2>2
<1>18. ASSUME ~TooLong PROVE Ends[m + 1] = x
  <2>1. CASE le = de
    BY <1>16, <1>17, <1>18, <2>1
  <2>2. CASE le # de
    <3>1. le \in db .. de - 1 /\ buffer[le] = NL
      BY <1>1, <1>12, <2>2
    <3>2. em + (le - db) + 1 = x
      BY <1>1, <1>7, <1>13
    <3>3. Bytes[x] = NL
      BY <1>14, <3>1, <3>2
    <3> QED BY <1>16, <3>3
  <2> QED BY <2>1, <2>2
<1>19. ASSUME NEW j \in 1 .. le - db PROVE buffer[db + j - 1] = Bytes[em + j]
  <2> DEFINE k == db + j - 1
  <2>1. k \in db .. de - 1 /\ em + (k - db) + 1 = em + j
    BY <1>1, <1>7, <1>12, <1>13
  <2> HIDE DEF k
  <2>2. buffer[k] = Bytes[em + j]
    BY <1>14, <2>1
  <2> QED BY <2>2 DEF k
<1>20. ReadTo - (de - db) = Mark + em
  BY <1>5
<1> QED BY <1>7, <1>10, <1>11, <1>13, <1>16, <1>17, <1>18, <1>19, <1>20 DEF m, em, le, db, de, n, x

(* The line that scan returns is the next line of the file. *)
LEMMA ScanLine ==
    ASSUME LinesInv, FileInv, pc = "scan", ~TooLong
    PROVE  Text(Ended, data_begin) = FileLines[Len(lines) + 1]
<1> USE BlockAssumption
<1> DEFINE m == Len(lines) + 1
           em == Ends[m]
           ex == Ends[m + 1]
           raw == SubSeq(Bytes, em + 1, ex - 1)
           L == line_end - data_begin
<1>1. /\ m \in 1 .. Len(Ends) - 1 /\ em \in Nat /\ ex = em + 1 + L /\ ex \in 1 .. Len(Bytes) + 1
      /\ \A j \in 1 .. L : buffer[data_begin + j - 1] = Bytes[em + j]
  BY ScanEnd
<1>2. /\ buffer \in Array /\ file \in Seq(0 .. 255) /\ data_begin \in Nat /\ data_end \in Nat
      /\ data_begin <= data_end /\ data_end <= 2 * block_len
  BY ReadTypes DEF FileInv
<1>3. line_end \in data_begin .. data_end
  BY <1>2, LineEndType
<1>4. line_end \in data_begin .. 3 * block_len - 1 /\ L \in Nat
  BY <1>2, <1>3
<1>5. Bytes \in Seq(Int) /\ Len(Bytes) \in Nat
  BY <1>2, BytesAfterMark
<1>6. FileLines[m] = LineText(raw)
  BY <1>1 DEF FileLines, FileLine, RawLine
<1> HIDE DEF m, em, ex, L
<1>7. raw \in Seq(Int) /\ Len(raw) = L /\ \A j \in 1 .. L : raw[j] = Bytes[em + j]
  <2>1. em + 1 \in 1 .. Len(Bytes) + 1 /\ ex - 1 \in 0 .. Len(Bytes) /\ em + 1 \in Nat \ {0}
    BY <1>1, <1>4, <1>5
  <2>2. (ex - 1) - (em + 1) + 1 = L
    BY <1>1, <1>4
  <2>3. raw \in Seq(Int)
    BY <1>5, <2>1
  <2>4. Len(raw) = L
    BY <1>4, <1>5, <2>1, <2>2
  <2>5. ASSUME NEW j \in 1 .. L PROVE raw[j] = Bytes[em + j]
    <3>1. j \in 1 .. Len(raw) /\ (em + 1) + j - 1 = em + j
      BY <1>1, <1>4, <2>4
    <3>2. raw[j] = Bytes[(em + 1) + j - 1]
      BY <1>4, <1>5, <2>1, <2>2, <3>1
    <3> QED BY <3>1, <3>2
  <2> QED BY <2>3, <2>4, <2>5
<1> HIDE DEF raw
<1>8. Text(Ended, data_begin) = LineText(raw)
  <2>1. Len(raw) = line_end - data_begin
    BY <1>7 DEF L
  <2>2. \A j \in 1 .. Len(raw) : raw[j] = buffer[data_begin + j - 1]
    BY <1>1, <1>7
  <2> QED BY <1>2, <1>4, <1>7, <2>1, <2>2, EndedText
<1> QED BY <1>6, <1>8 DEF m

(* A line is returned, and the window begins behind its end; or it does    *)
(* not fit into a block.                                                   *)
LEMMA ScanFile ==
    ASSUME LinesInv, FileInv, scan
    PROVE  FileInv'
<1> USE BlockAssumption
<1> DEFINE m == Len(lines) + 1
           L == line_end - data_begin
<1>1. pc = "scan" /\ UNCHANGED <<file, pos, worker, got, desired_byte_count, read_byte_count>>
  BY DEF scan, sharedVars
<1>2. /\ Len(file) \in Nat /\ buffer \in Array /\ Len(lines) \in Nat /\ lines \in Seq(Seq(Int))
      /\ data_begin \in Nat /\ data_end \in Nat /\ data_begin <= data_end
      /\ data_end <= 2 * block_len /\ ReadTo \in 0 .. Len(file) /\ Filled \in 0 .. block_len
  BY ReadTypes DEF FileInv
<1>3. line_end \in data_begin .. data_end
  BY <1>2, LineEndType
<1>4. Bytes' = Bytes /\ Mark' = Mark /\ Ends' = Ends /\ FileLines' = FileLines
  BY <1>1, SameFile
<1>5. /\ m \in 1 .. Len(Ends) - 1 /\ Ends[m] \in Nat /\ Ends[m + 1] \in Nat
      /\ Ends[m + 1] >= Ends[m] + 1 + L
      /\ ~TooLong => Ends[m + 1] = Ends[m] + 1 + L
      /\ ~TooLong /\ line_end = data_end => ReadTo = Len(file) /\ Ends[m] + 1 + L = Len(Bytes) + 1
      /\ ReadTo - (data_end - data_begin) = Mark + Ends[m]
  BY <1>1, ScanEnd
<1>6. Len(Ends) \in Nat /\ Len(Ends) - 1 \in Int /\ Mark \in {0, 3}
  <2>1. file \in Seq(0 .. 255)
    BY ReadTypes DEF FileInv
  <2>2. IsEnds(Ends, Bytes)
    BY <2>1, EndsOfFile
  <2> QED BY <2>2 DEF IsEnds, Mark
<1>7. Filled' = Filled
  BY <1>1 DEF Filled
<1>8. CASE TooLong
  <2>1. pc' = "thrown" /\ UNCHANGED <<buffer, data_begin, data_end, lines>>
    BY <1>8 DEF scan, windowVars
  <2>2. ReadTo' = ReadTo /\ Behind' = Behind
    BY <1>1, <1>7, <2>1 DEF ReadTo, Behind
  <2>3. HoldsInv'
    BY <1>1, <1>7, <2>1, <2>2 DEF FileInv, HoldsInv
  <2>4. ReadInv'
    BY <1>1, <1>7, <2>1 DEF FileInv, ReadInv
  <2>5. EofInv'
    BY <1>1, <2>1 DEF FileInv, EofInv
  <2>6. LineInv'
    BY <1>1, <1>4, <2>1 DEF FileInv, LineInv
  <2>7. EndInv'
    <3>1. L + 1 > block_len
      BY <1>8 DEF TooLong
    <3>2. L \in Int
      BY <1>2, <1>3
    <3>3. m < Len(Ends) /\ Ends[m + 1] - Ends[m] > block_len
      <4>1. m \in 1 .. Len(Ends) - 1 /\ Len(Ends) \in Nat
        BY <1>5, <1>6
      <4>2. Ends[m] \in Nat /\ Ends[m + 1] \in Nat /\ Ends[m + 1] >= Ends[m] + 1 + L
        BY <1>5
      <4> HIDE DEF m, L
      <4> QED BY <3>1, <3>2, <4>1, <4>2
    <3> QED BY <1>4, <2>1, <3>3 DEF EndInv
  <2> QED BY <2>3, <2>4, <2>5, <2>6, <2>7 DEF FileInv
<1>9. CASE ~TooLong
  <2>1. /\ buffer' = Ended /\ data_end' = EndAfter /\ pc' = "idle"
        /\ lines' = Append(lines, Text(Ended, data_begin)) /\ data_begin' = line_end + 1
    BY <1>9 DEF scan
  <2>2. data_begin < block_len
    BY <1>1 DEF LinesInv, WindowInv
  <2>3. L + 1 <= block_len /\ line_end + 1 < 2 * block_len
    BY <1>2, <1>3, <1>9, <2>2 DEF TooLong
  <2>4. ReadTo' = ReadTo /\ Behind' = data_end' /\ Behind = data_end
    BY <1>1, <1>7, <2>1 DEF ReadTo, Behind
  <2>5. \/ line_end < data_end /\ data_end' = data_end
        \/ line_end = data_end /\ data_end' = data_end + 1
    BY <1>2, <1>3, <2>1 DEF EndAfter
  <2>6. \A k \in 0 .. 3 * block_len - 1 : k > line_end => buffer'[k] = buffer[k]
    <3>1. DOMAIN buffer = 0 .. 3 * block_len - 1 /\ line_end \in Nat
      BY <1>2, <1>3 DEF Array
    <3> QED BY <2>1, <3>1 DEF Ended
  <2>7. HoldsInv'
    <3>1. ASSUME NEW k \in data_begin' .. data_end' - 1 PROVE buffer'[k] = file[ReadTo - data_end' + k + 1]
      <4>1. data_end' = data_end /\ k \in data_begin .. data_end - 1 /\ k > line_end /\ k \in 0 .. 3 * block_len - 1
        BY <1>2, <1>3, <2>1, <2>5
      <4>2. buffer[k] = file[ReadTo - data_end + k + 1]
        BY <2>4, <4>1 DEF FileInv, HoldsInv
      <4> QED BY <2>6, <4>1, <4>2
    <3>2. ASSUME NEW k \in 0 .. Filled - 1 PROVE buffer'[2 * block_len + k] = file[pos - Filled + k + 1]
      <4>1. 2 * block_len + k > line_end /\ 2 * block_len + k \in 0 .. 3 * block_len - 1
        BY <1>2, <1>3, <2>3
      <4>2. buffer[2 * block_len + k] = file[pos - Filled + k + 1]
        BY DEF FileInv, HoldsInv
      <4> QED BY <2>6, <4>1, <4>2
    <3> QED BY <1>1, <1>7, <2>4, <3>1, <3>2 DEF HoldsInv
  <2>8. ReadInv'
    BY <1>1, <1>7, <2>1, <2>3 DEF FileInv, ReadInv
  <2>9. EofInv'
    <3>1. data_end' < 2 * block_len => data_end < 2 * block_len
      BY <1>2, <2>5
    <3> QED BY <1>1, <2>1, <2>4, <3>1 DEF FileInv, EofInv
  <2>10. LineInv'
    <3>1. Len(lines') = m /\ lines'[m] = FileLines[m] /\ \A k \in 1 .. Len(lines) : lines'[k] = lines[k]
      <4>1. Text(Ended, data_begin) = FileLines[m]
        BY <1>1, <1>9, ScanLine
      <4>2. Text(Ended, data_begin) \in Seq(Int)
        <5>1. Ended \in Array /\ Ended[line_end] = NUL /\ line_end \in data_begin .. 3 * block_len - 1
          <6>1. DOMAIN buffer = 0 .. 3 * block_len - 1 /\ line_end \in 0 .. 3 * block_len - 1
            BY <1>2, <1>3 DEF Array
          <6> QED BY <1>2, <1>3, <6>1 DEF Ended, Array, NUL
        <5> QED BY <1>2, <5>1, TextType
      <4> DEFINE t == Text(Ended, data_begin)
      <4> HIDE DEF t
      <4>3. lines' = Append(lines, t) /\ t \in Seq(Int) /\ t = FileLines[m]
        BY <2>1, <4>1, <4>2 DEF t
      <4> QED BY <1>2, <4>3
    <3>2. ASSUME NEW k \in 1 .. m PROVE lines'[k] = FileLines[k] /\ Ends[k + 1] - Ends[k] <= block_len
      <4>1. CASE k = m
        BY <1>2, <1>3, <1>5, <1>9, <2>3, <3>1, <4>1
      <4>2. CASE k # m
        <5>1. k \in 1 .. Len(lines)
          BY <1>2, <4>2
        <5> QED BY <3>1, <5>1 DEF FileInv, LineInv
      <4> QED BY <4>1, <4>2
    <3>3. m + 1 <= Len(Ends)
      BY <1>5, <1>6
    <3>4. \/ ReadTo - (data_end' - data_begin') = Mark + Ends[m + 1]
          \/ data_begin' = data_end' /\ ReadTo = Len(file) /\ Ends[m + 1] = Len(Bytes) + 1
      <4>1. CASE line_end < data_end
        <5>1. ReadTo - (data_end' - data_begin') = (ReadTo - (data_end - data_begin)) + 1 + L
          BY <1>2, <1>3, <2>1, <2>5, <4>1
        <5>2. ReadTo - (data_end' - data_begin') = (Mark + Ends[m]) + 1 + L
          BY <1>5, <5>1
        <5>3. L \in Int
          BY <1>2, <1>3
        <5>4. (Mark + Ends[m]) + 1 + L = Mark + Ends[m + 1]
          <6>1. Ends[m + 1] = Ends[m] + 1 + L /\ Ends[m] \in Nat /\ Mark \in Int
            BY <1>5, <1>6, <1>9
          <6> HIDE DEF m, L
          <6> QED BY <5>3, <6>1
        <5> QED BY <5>2, <5>4
      <4>2. CASE line_end = data_end
        BY <1>2, <1>5, <1>9, <2>1, <2>5, <4>2
      <4> QED BY <2>5, <4>1, <4>2
    <3>5. Len(lines') + 1 = m + 1
      BY <3>1
    <3> HIDE DEF m
    <3> QED BY <1>1, <1>4, <2>1, <2>4, <3>1, <3>2, <3>3, <3>4, <3>5 DEF LineInv
  <2>11. EndInv'
    BY <2>1 DEF EndInv
  <2> QED BY <2>7, <2>8, <2>9, <2>10, <2>11 DEF FileInv
<1> QED BY <1>8, <1>9

(* Before the constructor no line has been read. *)
LEMMA InitFileInv == Init => FileInv
<1> SUFFICES ASSUME Init PROVE FileInv
  OBVIOUS
<1> USE BlockAssumption
<1>1. PICK use \in Uses : LinesInit(use.file)
  BY DEF Init
<1>2. /\ pos = 0 /\ data_begin = 0 /\ data_end = 0 /\ pc = "open" /\ worker = "none" /\ got = 0
      /\ desired_byte_count = None /\ read_byte_count = None /\ lines = <<>> /\ file \in Seq(0 .. 255)
  BY <1>1, UsesAssumption DEF LinesInit
<1>3. Filled = 0 /\ ReadTo = 0 /\ Behind = 0
  BY <1>2 DEF Filled, ReadTo, Behind
<1>4. HoldsInv
  BY <1>2, <1>3 DEF HoldsInv
<1>5. ReadInv /\ EofInv
  BY <1>2, <1>3 DEF ReadInv, EofInv, None
<1>6. LineInv
  <2>1. IsEnds(Ends, Bytes)
    BY <1>2, EndsOfFile
  <2>2. Len(Ends) >= 1 /\ Len(lines) = 0
    BY <1>2, <2>1 DEF IsEnds
  <2> QED BY <1>2, <2>2 DEF LineInv
<1>7. EndInv
  BY <1>2 DEF EndInv
<1> QED BY <1>4, <1>5, <1>6, <1>7 DEF FileInv

(* Every step keeps it. *)
LEMMA NextFileInv ==
    ASSUME LinesInv, FileInv, [Next]_vars
    PROVE  FileInv'
<1>1. CASE Client
  BY <1>1, ClientCalls, NextLineFile, QuietFile
<1>2. CASE Reader(Inside \/ Worker \/ SpuriousWakeup)
  BY <1>2, InitReadFile, StartReadFile, FinishReadFile, CopyBlockFile, ScanFile, QuietFile,
     FreadFile, EndOfReadFile DEF Reader, Inside, Worker
<1>3. CASE Done \/ UNCHANGED vars
  BY <1>3, QuietFile DEF Done, vars
<1> QED BY <1>1, <1>2, <1>3 DEF Next

(* So it is an invariant. *)
LEMMA AlwaysFileInv == Spec => []FileInv
<1>1. ConfigInv => LinesInv
  BY DEF ConfigInv
<1> QED BY InitFileInv, AlwaysConfigInv, NextFileInv, <1>1, PTL DEF Spec

(* The lengths of the lines of the file. *)
LEMMA RawLength ==
    ASSUME file \in Seq(0 .. 255), NEW k \in 1 .. Len(Ends) - 1
    PROVE  Len(RawLine(k)) = Ends[k + 1] - Ends[k] - 1 /\ Ends[k] \in Nat /\ Ends[k + 1] \in Nat
<1>1. Bytes \in Seq(Int) /\ Len(Bytes) \in Nat
  BY BytesAfterMark
<1>2. IsEnds(Ends, Bytes)
  BY EndsOfFile
<1>3. /\ Ends \in Seq(Nat) /\ Len(Ends) \in Nat /\ Ends[Len(Ends)] \in {Len(Bytes), Len(Bytes) + 1}
      /\ \A j \in 2 .. Len(Ends) : Ends[j - 1] < Ends[j] /\ Ends[j - 1] < Len(Bytes)
  BY <1>2 DEF IsEnds
<1>4. k \in 1 .. Len(Ends) /\ k + 1 \in 1 .. Len(Ends) /\ k + 1 \in 2 .. Len(Ends) /\ (k + 1) - 1 = k
  BY <1>3
<1>5. Ends[k] \in Nat /\ Ends[k + 1] \in Nat
  BY <1>3, <1>4, ElementOfSeq
<1>6. Ends[k] < Ends[k + 1] /\ Ends[k] < Len(Bytes)
  BY <1>3, <1>4
<1>7. Ends[k + 1] <= Len(Bytes) + 1
  <2>1. CASE k + 1 = Len(Ends)
    BY <1>1, <1>3, <2>1
  <2>2. CASE k + 1 # Len(Ends)
    <3>1. k + 2 \in 2 .. Len(Ends) /\ (k + 2) - 1 = k + 1
      BY <1>3, <1>4, <2>2
    <3>2. Ends[k + 1] < Len(Bytes)
      BY <1>3, <3>1
    <3> QED BY <1>1, <1>5, <3>2
  <2> QED BY <2>1, <2>2
<1> DEFINE a == Ends[k]
           b == Ends[k + 1]
<1> HIDE DEF a, b
<1>8. a \in Nat /\ b \in Nat /\ a < b /\ a < Len(Bytes) /\ b <= Len(Bytes) + 1
  BY <1>5, <1>6, <1>7 DEF a, b
<1>9. Len(SubSeq(Bytes, a + 1, b - 1)) = b - a - 1
  BY <1>1, <1>8
<1> QED BY <1>5, <1>9 DEF RawLine, a, b

(* next_line returns the lines of the file, all of them before it reports  *)
(* the end, for every block length and file and wherever the borders of    *)
(* the blocks fall in it; it throws only when a line does not fit.         *)
THEOREM LinesCorrect == Spec => []LinesOfTheFile
<1>1. ASSUME LinesInv, FileInv PROVE LinesOfTheFile
  <2> DEFINE m == Len(lines) + 1
  <2>1. lines \in Seq(Seq(Int)) /\ Len(lines) \in Nat /\ file \in Seq(0 .. 255) /\ pos \in Nat
    <3>1. lines \in Seq(Seq(Int)) /\ Len(lines) \in Nat /\ file \in Seq(0 .. 255) /\ Len(file) \in Nat /\ pos \in 0 .. Len(file)
      BY <1>1, ReadTypes DEF FileInv
    <3> QED BY <3>1
  <2>2. Len(Ends) \in Nat /\ m <= Len(Ends) /\ \A k \in 1 .. Len(lines) : lines[k] = FileLines[k]
    <3>1. Len(Ends) \in Nat
      BY <2>1, EndsOfFile DEF IsEnds
    <3> QED BY <1>1, <3>1 DEF FileInv, LineInv
  <2>3. /\ Len(FileLines) = Len(Ends) - 1 /\ DOMAIN FileLines = 1 .. Len(Ends) - 1
        /\ FileLines = [k \in 1 .. Len(Ends) - 1 |-> FileLines[k]]
    <3>1. DOMAIN FileLines = 1 .. Len(Ends) - 1 /\ Len(Ends) - 1 \in Nat
      BY <2>1, <2>2 DEF FileLines
    <3>2. Len(FileLines) = Len(Ends) - 1
      BY <3>1
    <3>3. FileLines = [k \in 1 .. Len(Ends) - 1 |-> FileLines[k]]
      BY DEF FileLines
    <3> QED BY <3>1, <3>2, <3>3
  <2>4. lines = [k \in 1 .. Len(lines) |-> lines[k]]
    BY <2>1
  <2>5. IsPrefix(lines, FileLines)
    <3>1. Len(lines) <= Len(FileLines)
      BY <2>1, <2>2, <2>3
    <3>2. SubSeq(lines, 1, Len(lines)) = [k \in 1 .. Len(lines) |-> lines[k]]
      BY <2>1
    <3>3. SubSeq(FileLines, 1, Len(lines)) = [k \in 1 .. Len(lines) |-> FileLines[k]]
      BY <2>1, <2>3, <3>1
    <3> QED BY <2>2, <3>1, <3>2, <3>3 DEF IsPrefix
  <2>6. pc = "end" => lines = FileLines
    <3> SUFFICES ASSUME pc = "end" PROVE lines = FileLines
      OBVIOUS
    <3>1. m = Len(Ends)
      BY <1>1 DEF FileInv, EndInv
    <3>2. Len(lines) = Len(Ends) - 1
      BY <2>1, <2>2, <3>1
    <3> QED BY <2>2, <2>3, <2>4, <3>2
  <2>7. pc = "thrown" /\ pos > 0 => Len(RawLine(m)) >= block_len
    <3> SUFFICES ASSUME pc = "thrown", pos > 0 PROVE Len(RawLine(m)) >= block_len
      OBVIOUS
    <3>1. m < Len(Ends) /\ Ends[m + 1] - Ends[m] > block_len
      BY <1>1, <2>1 DEF FileInv, EndInv
    <3>2. m \in 1 .. Len(Ends) - 1
      BY <2>1, <2>2, <3>1
    <3> HIDE DEF m
    <3>3. Len(RawLine(m)) = Ends[m + 1] - Ends[m] - 1 /\ Ends[m] \in Nat /\ Ends[m + 1] \in Nat
      BY <2>1, <3>2, RawLength
    <3> QED BY <3>1, <3>3, BlockAssumption
  <2>8. pc = "thrown" /\ pos > 0 => Len(lines) < Len(FileLines)
    <3>1. pc = "thrown" /\ pos > 0 => m < Len(Ends)
      BY <1>1, <2>1 DEF FileInv, EndInv
    <3> QED BY <2>1, <2>2, <2>3, <3>1
  <2> QED BY <2>5, <2>6, <2>7, <2>8 DEF LinesOfTheFile
<1>2. ConfigInv => LinesInv
  BY DEF ConfigInv
<1> QED BY AlwaysConfigInv, AlwaysFileInv, <1>1, <1>2, PTL

-----------------------------------------------------------------------------

(* trim finds the text between the blanks, and there is only one. *)
LEMMA PaddedIsTrim ==
    ASSUME NEW text \in Seq(Int), NEW t \in Seq(Int)
    PROVE  Padded(text, t) <=> t = Trim(text)
<1> DEFINE S == {k \in DOMAIN text : text[k] \notin Blanks}
           n == Len(text)
           L == Len(t)
<1>1. n \in Nat /\ L \in Nat /\ DOMAIN text = 1 .. n /\ (t = <<>> <=> L = 0)
  OBVIOUS
<1>2. /\ S \in SUBSET Nat /\ \A k \in S : k \in 1 .. n /\ text[k] \notin Blanks
      /\ \A k \in 1 .. n : k \in S \/ text[k] \in Blanks
  BY <1>1
<1>3. Trim(text) = IF S = {} THEN <<>> ELSE SubSeq(text, Min(S), Max(S))
  BY DEF Trim
<1> HIDE DEF S, n, L
<1>4. ASSUME Padded(text, t) PROVE t = Trim(text)
  <2>1. PICK a \in 0 .. n, b \in 0 .. n :
            /\ a + L + b = n
            /\ SubSeq(text, a + 1, a + L) = t
            /\ \A k \in 1 .. n : k <= a \/ k > a + L => text[k] \in Blanks
            /\ t # <<>> => Head(t) \notin Blanks /\ Last(t) \notin Blanks
    BY <1>1, <1>4 DEF Padded, n, L
  <2>2. a \in Nat /\ b \in Nat
    BY <1>1
  <2>3. CASE L = 0
    <3>1. ASSUME NEW k \in S PROVE FALSE
      <4>1. k \in 1 .. n /\ text[k] \notin Blanks
        BY <1>2
      <4>2. k <= a \/ k > a + L
        BY <1>1, <2>2, <2>3, <4>1
      <4> QED BY <2>1, <4>1, <4>2
    <3> QED BY <1>1, <1>3, <2>3, <3>1
  <2>4. CASE L # 0
    <3>1. L >= 1 /\ a + 1 \in 1 .. n /\ a + L \in 1 .. n /\ a + 1 <= a + L
      BY <1>1, <2>1, <2>2, <2>4
    <3>2. text[a + 1] = Head(t) /\ text[a + L] = Last(t)
      <4>1. t[1] = text[a + 1 + 1 - 1] /\ t[L] = text[a + 1 + L - 1]
        <5>1. 1 \in 1 .. L /\ L \in 1 .. L
          BY <1>1, <3>1
        <5>2. \A j \in 1 .. L : SubSeq(text, a + 1, a + L)[j] = text[a + 1 + j - 1]
          BY <1>1, <2>1, <2>2, <3>1 DEF n
        <5> QED BY <2>1, <5>1, <5>2
      <4>2. a + 1 + 1 - 1 = a + 1 /\ a + 1 + L - 1 = a + L
        BY <1>1, <2>2
      <4>3. Head(t) = t[1] /\ Last(t) = t[L]
        BY <1>1, <2>4 DEF Last, L
      <4> QED BY <4>1, <4>2, <4>3
    <3>3. a + 1 \in S /\ a + L \in S
      BY <1>1, <1>2, <2>1, <2>4, <3>1, <3>2
    <3>4. ASSUME NEW k \in S PROVE a + 1 <= k /\ k <= a + L
      <4>1. k \in 1 .. n /\ text[k] \notin Blanks
        BY <1>2
      <4>2. ~(k <= a) /\ ~(k > a + L)
        BY <2>1, <4>1
      <4>3. k \in Int
        BY <4>1
      <4> QED BY <1>1, <2>2, <4>2, <4>3
    <3> DEFINE p == a + 1
               q == a + L
    <3>5. p \in S /\ q \in S /\ \A k \in S : p <= k /\ k <= q
      BY <3>3, <3>4
    <3> HIDE DEF p, q
    <3>6. Min(S) = p /\ Max(S) = q
      BY <1>2, <3>5, MinIs, MaxIs
    <3> QED BY <1>3, <2>1, <3>5, <3>6 DEF p, q
  <2> QED BY <2>3, <2>4
<1>5. ASSUME t = Trim(text) PROVE Padded(text, t)
  <2> SUFFICES \E a \in 0 .. n, b \in 0 .. n :
            /\ a + L + b = n
            /\ SubSeq(text, a + 1, a + L) = t
            /\ \A k \in 1 .. n : k <= a \/ k > a + L => text[k] \in Blanks
            /\ t # <<>> => Head(t) \notin Blanks /\ Last(t) \notin Blanks
    BY <1>1 DEF Padded, n, L
  <2>1. CASE S = {}
    <3>1. t = <<>> /\ L = 0
      BY <1>1, <1>3, <1>5, <2>1
    <3>2. SubSeq(text, 0 + 1, 0 + L) = t
      BY <1>1, <3>1
    <3>3. \A k \in 1 .. n : text[k] \in Blanks
      BY <1>2, <2>1
    <3>4. 0 \in 0 .. n /\ n \in 0 .. n /\ 0 + L + n = n
      BY <1>1, <3>1
    <3> QED BY <3>1, <3>2, <3>3, <3>4
  <2>2. CASE S # {}
    <3> DEFINE p == Min(S)
               q == Max(S)
    <3>1. p \in S /\ \A k \in S : p <= k
      BY <1>2, <2>2, MinType
    <3>2. q \in S /\ \A k \in S : k <= q
      <4>1. S \in SUBSET (0 .. n)
        BY <1>1, <1>2
      <4>2. PICK x \in S : \A y \in S : y <= x
        BY <1>1, <2>2, <4>1, GreatestElement
      <4>3. Max(S) = x
        BY <1>2, <4>2, MaxIs
      <4> QED BY <4>2, <4>3
    <3>3. t = SubSeq(text, p, q)
      BY <1>3, <1>5, <2>2
    <3> HIDE DEF p, q
    <3>4. p \in 1 .. n /\ q \in 1 .. n /\ p <= q
      BY <1>2, <3>1, <3>2
    <3>5. p - 1 \in 0 .. n /\ n - q \in 0 .. n /\ q - p + 1 \in Nat
      BY <1>1, <3>4
    <3>6. L = q - p + 1 /\ \A j \in 1 .. L : t[j] = text[p + j - 1]
      <4>1. Len(SubSeq(text, p, q)) = q - p + 1
        BY <1>1, <3>4 DEF n
      <4>2. \A j \in 1 .. q - p + 1 : SubSeq(text, p, q)[j] = text[p + j - 1]
        BY <1>1, <3>4 DEF n
      <4> QED BY <3>3, <4>1, <4>2 DEF L
    <3>7. (p - 1) + L + (n - q) = n /\ (p - 1) + 1 = p /\ (p - 1) + L = q
      BY <1>1, <3>4, <3>6
    <3>8. \A k \in 1 .. n : k <= p - 1 \/ k > (p - 1) + L => text[k] \in Blanks
      <4> SUFFICES ASSUME NEW k \in 1 .. n, k <= p - 1 \/ k > q PROVE text[k] \in Blanks
        BY <3>7
      <4>1. ~(p <= k /\ k <= q)
        BY <3>4
      <4>2. k \notin S
        BY <3>1, <3>2, <4>1
      <4> QED BY <1>2, <4>2
    <3>9. Head(t) \notin Blanks /\ Last(t) \notin Blanks
      <4>1. 1 \in 1 .. L /\ L \in 1 .. L /\ p + 1 - 1 = p /\ p + L - 1 = q
        BY <1>1, <3>4, <3>5, <3>6
      <4>2. t[1] = text[p] /\ t[L] = text[q]
        BY <3>6, <4>1
      <4>3. Head(t) = t[1] /\ Last(t) = t[L]
        BY <1>1, <4>1 DEF Last, L
      <4> QED BY <1>2, <3>1, <3>2, <4>2, <4>3
    <3>10. SubSeq(text, (p - 1) + 1, (p - 1) + L) = t
      BY <3>3, <3>7
    <3> QED BY <3>5, <3>7, <3>8, <3>9, <3>10
  <2> QED BY <2>1, <2>2
<1> QED BY <1>4, <1>5

(* A value that is not empty stands under the name of column c. *)
Under(h, r, c) == \E k \in DOMAIN Chop(h) : Header(h)[k] = Columns[c] /\ Trim(Chop(r)[k]) # <<>>

(* The header and the row that ParseCsvData accepts: the names are those   *)
(* in Columns, in some order, and no value is empty.                       *)
Accepts(h, r) ==
    /\ ~HeaderThrows(h) /\ Len(Chop(r)) = Len(Chop(h))
    /\ \A c \in DOMAIN Columns : Under(h, r, c)

(* It has all the columns, and no other. *)
LEMMA AcceptsAll ==
    ASSUME NEW h \in Seq(Int), NEW r \in Seq(Int)
    PROVE  Accepts(h, r) <=> /\ Len(Chop(h)) = Len(Columns) /\ Len(Chop(r)) = Len(Columns)
                             /\ \A c \in DOMAIN Columns : Under(h, r, c)
<1> DEFINE n == Len(Chop(h))
           N == Len(Columns)
           H == Header(h)
<1>1. n \in Nat /\ DOMAIN Chop(h) = 1 .. n /\ DOMAIN H = 1 .. n
  BY ChopType DEF Header
<1>2. N \in Nat /\ DOMAIN Columns = 1 .. N /\ N >= 1 /\ IsInjective(Columns)
  BY ColumnsAssumption
<1> HIDE DEF n, N, H
<1> DEFINE f == [k \in 1 .. n |-> IF \E c \in 1 .. N : Columns[c] = H[k]
                                  THEN CHOOSE c \in 1 .. N : Columns[c] = H[k] ELSE 1]
<1>3. ASSUME NEW k \in 1 .. n, NEW c \in 1 .. N, H[k] = Columns[c] PROVE f[k] = c
  <2> DEFINE d == CHOOSE x \in 1 .. N : Columns[x] = H[k]
  <2>1. d \in 1 .. N /\ Columns[d] = H[k]
    BY <1>3, Zenon
  <2>2. f[k] = d
    BY <1>3
  <2> HIDE DEF d
  <2> QED BY <1>2, <1>3, <2>1, <2>2 DEF IsInjective
<1>4. ASSUME NEW k \in 1 .. n PROVE f[k] \in 1 .. N /\ (H[k] \notin ToSet(Columns) => f[k] = 1)
  <2>1. CASE \E c \in 1 .. N : Columns[c] = H[k]
    BY <1>2, <1>3, <2>1 DEF ToSet
  <2>2. CASE ~\E c \in 1 .. N : Columns[c] = H[k]
    BY <1>2, <2>2
  <2> QED BY <2>1, <2>2
<1>5. f \in [1 .. n -> 1 .. N]
  BY <1>4
<1>6. DOMAIN f = 1 .. n
  OBVIOUS
<1> HIDE DEF f
<1>7. ASSUME \A c \in DOMAIN Columns : Under(h, r, c)
      PROVE  \A c \in 1 .. N : \E k \in 1 .. n : f[k] = c /\ H[k] = Columns[c]
  <2> SUFFICES ASSUME NEW c \in 1 .. N PROVE \E k \in 1 .. n : f[k] = c /\ H[k] = Columns[c]
    OBVIOUS
  <2>1. Under(h, r, c)
    BY <1>2, <1>7
  <2>2. PICK k \in 1 .. n : H[k] = Columns[c]
    BY <1>1, <2>1 DEF Under, H
  <2> QED BY <1>3, <2>2
<1>8. ASSUME \A c \in DOMAIN Columns : Under(h, r, c)
      PROVE  N = n <=> IsInjective(f)
  BY <1>1, <1>2, <1>5, <1>7, <1>8, Pigeonhole
<1>9. ASSUME Accepts(h, r) PROVE n = N
  <2>1. /\ \A c \in DOMAIN Columns : Under(h, r, c)
        /\ \A k \in 1 .. n : H[k] \in ToSet(Columns) /\ IsInjective(H)
    BY <1>1, <1>9 DEF Accepts, HeaderThrows, H
  <2>2. ASSUME NEW a \in 1 .. n, NEW b \in 1 .. n, f[a] = f[b] PROVE a = b
    <3>1. PICK c \in 1 .. N : H[a] = Columns[c]
      BY <1>2, <2>1 DEF ToSet
    <3>2. PICK d \in 1 .. N : H[b] = Columns[d]
      BY <1>2, <2>1 DEF ToSet
    <3>3. c = d
      BY <1>3, <2>2, <3>1, <3>2
    <3> QED BY <1>1, <2>1, <3>1, <3>2, <3>3 DEF IsInjective
  <2>3. IsInjective(f)
    BY <1>6, <2>2 DEF IsInjective
  <2> QED BY <1>8, <2>1, <2>3
<1>10. ASSUME n = N, \A c \in DOMAIN Columns : Under(h, r, c) PROVE ~HeaderThrows(h)
  <2>1. ASSUME NEW a \in 1 .. n, NEW b \in 1 .. n, f[a] = f[b] PROVE a = b
    BY <1>6, <1>8, <1>10, <2>1 DEF IsInjective
  <2>2. ASSUME NEW k \in 1 .. n PROVE H[k] \in ToSet(Columns)
    <3> SUFFICES ASSUME H[k] \notin ToSet(Columns) PROVE FALSE
      OBVIOUS
    <3>1. f[k] = 1 /\ 1 \in 1 .. N
      BY <1>2, <1>4
    <3>2. PICK j \in 1 .. n : f[j] = 1 /\ H[j] = Columns[1]
      BY <1>7, <1>10, <3>1
    <3>3. j = k
      BY <2>1, <3>1, <3>2
    <3> QED BY <1>2, <3>1, <3>2, <3>3 DEF ToSet
  <2>3. ASSUME NEW a \in 1 .. n, NEW b \in 1 .. n, H[a] = H[b] PROVE a = b
    <3>1. PICK c \in 1 .. N : H[a] = Columns[c]
      BY <1>2, <2>2 DEF ToSet
    <3>2. f[a] = c /\ f[b] = c
      BY <1>3, <2>3, <3>1
    <3> QED BY <2>1, <3>2
  <2>4. IsInjective(H)
    BY <1>1, <2>3 DEF IsInjective
  <2> QED BY <1>1, <2>2, <2>4 DEF HeaderThrows, H
<1>11. ASSUME Accepts(h, r) PROVE Len(Chop(r)) = N
  BY <1>9, <1>11 DEF Accepts, n
<1> QED BY <1>9, <1>10, <1>11 DEF Accepts, n, N

(* Bytes are integers. *)
LEMMA BytesAreInts ==
    ASSUME NEW s \in Seq(0 .. 255)
    PROVE  s \in Seq(Int)
<1>1. Len(s) \in Nat /\ s = [k \in 1 .. Len(s) |-> s[k]]
  OBVIOUS
<1>2. ASSUME NEW k \in 1 .. Len(s) PROVE s[k] \in Int
  <2>1. s[k] \in 0 .. 255
    BY ElementOfSeq
  <2> QED BY <2>1, ByteInt, Zenon
<1> QED BY <1>1, <1>2

(* A line of the file is a text. *)
LEMMA LineTextType ==
    ASSUME NEW raw \in Seq(Int)
    PROVE  LineText(raw) \in Seq(Int)
<1> DEFINE cut == IF raw # <<>> /\ Last(raw) = CR THEN Front(raw) ELSE raw
           nul == {k \in DOMAIN cut : cut[k] = NUL}
<1>1. cut \in Seq(Int)
  BY DEF Front
<1>2. LineText(raw) = IF nul = {} THEN cut ELSE SubSeq(cut, 1, Min(nul) - 1)
  BY DEF LineText
<1> HIDE DEF cut
<1>3. Len(cut) \in Nat /\ DOMAIN cut = 1 .. Len(cut)
  BY <1>1
<1>4. nul \in SUBSET Nat /\ nul \in SUBSET (1 .. Len(cut))
  BY <1>3
<1> HIDE DEF nul
<1>5. CASE nul = {}
  BY <1>1, <1>2, <1>5
<1>6. CASE nul # {}
  <2>1. Min(nul) \in 1 .. Len(cut)
    BY <1>4, <1>6, MinType
  <2>2. Min(nul) - 1 \in 0 .. Len(cut)
    BY <1>3, <2>1
  <2>3. SubSeq(cut, 1, Min(nul) - 1) \in Seq(Int)
    BY <1>1, <1>3, <2>2
  <2> QED BY <1>2, <1>6, <2>3
<1> QED BY <1>5, <1>6

(* The lines of the file. *)
LEMMA FileLinesType ==
    ASSUME file \in Seq(0 .. 255)
    PROVE  /\ Len(Ends) \in Nat \ {0} /\ Len(FileLines) = Len(Ends) - 1
           /\ \A k \in 1 .. Len(Ends) - 1 : FileLines[k] \in Seq(Int)
<1>1. Len(Ends) \in Nat \ {0}
  <2>1. IsEnds(Ends, Bytes)
    BY EndsOfFile
  <2> QED BY <2>1 DEF IsEnds
<1>2. DOMAIN FileLines = 1 .. Len(Ends) - 1 /\ Len(Ends) - 1 \in Nat
  BY <1>1 DEF FileLines
<1>3. Len(FileLines) = Len(Ends) - 1
  BY <1>2
<1>4. ASSUME NEW k \in 1 .. Len(Ends) - 1 PROVE FileLines[k] \in Seq(Int)
  <2>1. FileLines[k] = LineText(RawLine(k))
    BY DEF FileLines, FileLine
  <2>2. Bytes \in Seq(Int)
    BY BytesAfterMark
  <2>3. Ends[k] \in Nat /\ Ends[k + 1] \in Nat
    BY RawLength
  <2> DEFINE a == Ends[k] + 1
             b == Ends[k + 1] - 1
  <2>4. a \in Nat \ {0} /\ b \in Int /\ b <= Len(Bytes)
    <3>1. IsEnds(Ends, Bytes) /\ k + 1 \in 1 .. Len(Ends)
      BY <1>1, EndsOfFile
    <3>2. Ends[k + 1] <= Len(Bytes) + 1
      <4>1. CASE k + 1 = Len(Ends)
        BY <2>2, <3>1, <4>1 DEF IsEnds
      <4>2. CASE k + 1 # Len(Ends)
        <5>1. k + 2 \in 2 .. Len(Ends) /\ (k + 2) - 1 = k + 1
          BY <1>1, <3>1, <4>2
        <5>2. Ends[(k + 2) - 1] < Len(Bytes)
          BY <3>1, <5>1, Zenon DEF IsEnds
        <5> QED BY <2>2, <2>3, <5>1, <5>2
      <4> QED BY <4>1, <4>2
    <3> QED BY <2>2, <2>3, <3>2
  <2> HIDE DEF a, b
  <2>5. SubSeq(Bytes, a, b) \in Seq(Int)
    BY <2>2, <2>4
  <2> QED BY <2>1, <2>5, LineTextType DEF RawLine, a, b
<1> QED BY <1>1, <1>3, <1>4

(* A well-formed file is one whose first two lines are accepted. *)
LEMMA WellFormedAccepts ==
    ASSUME file \in Seq(0 .. 255)
    PROVE  WellFormed <=> Len(FileLines) >= 2 /\ Accepts(FileLines[1], FileLines[2])
<1> SUFFICES ASSUME Len(FileLines) >= 2 PROVE WellFormed <=> Accepts(FileLines[1], FileLines[2])
  BY DEF WellFormed
<1> DEFINE h == FileLines[1]
           r == FileLines[2]
<1>1. h \in Seq(Int) /\ r \in Seq(Int)
  <2>1. 1 \in 1 .. Len(Ends) - 1 /\ 2 \in 1 .. Len(Ends) - 1
    BY FileLinesType
  <2> QED BY <2>1, FileLinesType
<1>2. WellFormed <=> /\ Len(Chop(h)) = Len(Columns) /\ Len(Chop(r)) = Len(Columns)
                     /\ \A c \in DOMAIN Columns : \E k \in DOMAIN Chop(h) :
                            Padded(Chop(h)[k], Columns[c]) /\ ~Padded(Chop(r)[k], <<>>)
  BY DEF WellFormed
<1> HIDE DEF h, r
<1>3. ASSUME Len(Chop(r)) = Len(Chop(h)), NEW c \in DOMAIN Columns
      PROVE  Under(h, r, c) <=> \E k \in DOMAIN Chop(h) :
                            Padded(Chop(h)[k], Columns[c]) /\ ~Padded(Chop(r)[k], <<>>)
  <2>1. /\ Chop(h) \in Seq(Seq(Int)) /\ Chop(r) \in Seq(Seq(Int)) /\ Len(Chop(h)) \in Nat
        /\ DOMAIN Chop(h) = 1 .. Len(Chop(h)) /\ DOMAIN Header(h) = DOMAIN Chop(h)
    BY <1>1, ChopType DEF Header
  <2>2. Columns[c] \in Seq(Int) /\ <<>> \in Seq(Int)
    <3>1. Columns[c] \in Seq(0 .. 255)
      BY ColumnsAssumption
    <3> QED BY <3>1, BytesAreInts
  <2>3. ASSUME NEW k \in DOMAIN Chop(h)
        PROVE  /\ Padded(Chop(h)[k], Columns[c]) <=> Header(h)[k] = Columns[c]
               /\ Padded(Chop(r)[k], <<>>) <=> Trim(Chop(r)[k]) = <<>>
    <3>1. k \in 1 .. Len(Chop(h)) /\ k \in 1 .. Len(Chop(r))
      BY <1>3, <2>1
    <3>2. Chop(h)[k] \in Seq(Int) /\ Chop(r)[k] \in Seq(Int)
      BY <2>1, <3>1, ElementOfSeq
    <3>3. Header(h)[k] = Trim(Chop(h)[k])
      BY DEF Header
    <3>4. Padded(Chop(h)[k], Columns[c]) <=> Columns[c] = Trim(Chop(h)[k])
      BY <2>2, <3>2, PaddedIsTrim
    <3>5. Padded(Chop(r)[k], <<>>) <=> <<>> = Trim(Chop(r)[k])
      BY <2>2, <3>2, PaddedIsTrim
    <3> QED BY <3>3, <3>4, <3>5
  <2> QED BY <2>3 DEF Under
<1>4. Accepts(h, r) <=> /\ Len(Chop(h)) = Len(Columns) /\ Len(Chop(r)) = Len(Columns)
                        /\ \A c \in DOMAIN Columns : Under(h, r, c)
  BY <1>1, AcceptsAll
<1>5. WellFormed <=> Accepts(h, r)
  BY <1>2, <1>3, <1>4
<1> QED BY <1>5 DEF h, r

(* The value that a row has for a column, in the order of the header. *)
LEMMA RowUnder ==
    ASSUME NEW h \in Seq(Int), NEW r \in Seq(Int), ~HeaderThrows(h), col_order = HeaderOrder(h),
           NEW c \in DOMAIN Columns
    PROVE  /\ Row(r)[c] # <<>> <=> Under(h, r, c)
           /\ Row(r)[c] # <<>> =>
                 \E k \in DOMAIN Chop(h) : Header(h)[k] = Columns[c] /\ Trim(Chop(r)[k]) = Row(r)[c]
<1> DEFINE n == Len(Chop(h))
           at == {k \in DOMAIN col_order : col_order[k] = c}
<1>1. n \in Nat /\ DOMAIN Chop(h) = 1 .. n /\ DOMAIN Header(h) = 1 .. n /\ DOMAIN col_order = 1 .. n
  BY ChopType DEF Header, HeaderOrder
<1>2. ASSUME NEW k \in 1 .. n PROVE col_order[k] = c <=> Header(h)[k] = Columns[c]
  <2> DEFINE d == CHOOSE x \in DOMAIN Columns : Columns[x] = Header(h)[k]
  <2>1. Header(h)[k] \in ToSet(Columns)
    BY <1>1 DEF HeaderThrows
  <2>2. \E x \in DOMAIN Columns : Columns[x] = Header(h)[k]
    BY <2>1 DEF ToSet
  <2>3. d \in DOMAIN Columns /\ Columns[d] = Header(h)[k]
    BY <2>2, Zenon
  <2>4. col_order[k] = d
    BY <1>1, Zenon DEF HeaderOrder
  <2> HIDE DEF d
  <2> QED BY <2>3, <2>4, ColumnsAssumption DEF IsInjective
<1>3. at \in SUBSET Nat /\ \A k \in at : k \in 1 .. n /\ Header(h)[k] = Columns[c]
  BY <1>1, <1>2
<1>4. \A k \in 1 .. n : Header(h)[k] = Columns[c] => k \in at
  BY <1>1, <1>2
<1>5. \A j, k \in 1 .. n : Header(h)[j] = Header(h)[k] => j = k
  BY <1>1 DEF HeaderThrows, IsInjective
<1>6. Row(r)[c] = IF at = {} THEN <<>> ELSE Trim(Chop(r)[Min(at)])
  BY DEF Row
<1> HIDE DEF at
<1>7. ASSUME at # {} PROVE Min(at) \in 1 .. n /\ Header(h)[Min(at)] = Columns[c]
  BY <1>3, <1>7, MinType
<1>8. ASSUME Under(h, r, c) PROVE Row(r)[c] # <<>>
  <2>1. PICK k \in 1 .. n : Header(h)[k] = Columns[c] /\ Trim(Chop(r)[k]) # <<>>
    BY <1>1, <1>8 DEF Under
  <2>2. at # {}
    BY <1>4, <2>1
  <2>3. Min(at) = k
    BY <1>5, <1>7, <2>1, <2>2
  <2> QED BY <1>6, <2>1, <2>2, <2>3
<1>9. ASSUME Row(r)[c] # <<>>
      PROVE  \E k \in DOMAIN Chop(h) : Header(h)[k] = Columns[c] /\ Trim(Chop(r)[k]) = Row(r)[c]
  <2>1. at # {} /\ Row(r)[c] = Trim(Chop(r)[Min(at)])
    BY <1>6, <1>9
  <2> QED BY <1>1, <1>7, <2>1
<1>10. ASSUME Row(r)[c] # <<>> PROVE Under(h, r, c)
  BY <1>9, <1>10 DEF Under
<1> QED BY <1>8, <1>9, <1>10

-----------------------------------------------------------------------------

(* ParseCsvData asks for two lines, one after the other, and when it       *)
(* closes, what it returns is decided by the file.                         *)
CallerInv ==
    /\ step # "header" => caller = "ParseCsvData"
    /\ ret # "none" => pc # "open"
    /\ caller = "ParseCsvData" /\ step = "header" =>
          Len(lines) <= 1 /\ (pc # "idle" => lines = <<>>)
    /\ step = "row" =>
          /\ Len(lines) \in {1, 2} /\ (pc # "idle" => Len(lines) = 1)
          /\ ~HeaderThrows(FileLines[1]) /\ col_order = HeaderOrder(FileLines[1])
    /\ ret \in {"threw", "false"} => (pos = 0 /\ worker = "none") \/ ~(WellFormed /\ Fits)
    /\ ret = "true" =>
          pos > 0 /\ WellFormed /\ Fits /\ \A c \in DOMAIN Columns : ValueUnder(c, strDb[c])

(* What the file says stays with it. *)
LEMMA SameWellFormed ==
    ASSUME file' = file
    PROVE  (WellFormed' <=> WellFormed) /\ (Fits' <=> Fits)
<1>1. Bytes' = Bytes /\ Ends' = Ends /\ FileLines' = FileLines
  BY SameFile
<1> QED BY <1>1 DEF WellFormed, Fits, RawLine

(* The steps in which ParseCsvData waits for the LineReader. *)
LEMMA ReaderCaller ==
    ASSUME LinesInv, FileInv, MembersInv, CallerInv, UNCHANGED configVars,
           Inside \/ Worker \/ SpuriousWakeup \/ UNCHANGED linesVars
    PROVE  CallerInv'
<1>1. file' = file
  BY DEF Inside, Worker, init, start_read, finish_read, CopyBlock, scan, terminate, notify, join,
         Wakeup, fread, EndOfRead, SpuriousWakeup, linesVars
<1>2. FileLines' = FileLines /\ (WellFormed' <=> WellFormed) /\ (Fits' <=> Fits)
  BY <1>1, SameFile, SameWellFormed
<1>3. UNCHANGED <<caller, step, col_order, ret, strDb>>
  BY DEF configVars
<1>4. lines \in Seq(Seq(Int)) /\ Len(lines) \in Nat /\ pos \in Nat /\ (lines = <<>> <=> Len(lines) = 0)
  <2>1. lines \in Seq(Seq(Int)) /\ Len(lines) \in Nat /\ Len(file) \in Nat /\ pos \in 0 .. Len(file)
    BY ReadTypes DEF FileInv
  <2> QED BY <2>1
<1>5. CASE init
  <2>1. pc = "open" /\ lines = <<>> /\ lines' = lines
    BY <1>5 DEF init, FileInv, ReadInv
  <2>2. ret = "none" /\ step # "row"
    BY <2>1 DEF CallerInv
  <2> QED BY <1>3, <2>1, <2>2 DEF CallerInv
<1>6. CASE scan
  <2>1. pc = "scan" /\ UNCHANGED <<pos, worker>>
    BY <1>6 DEF scan
  <2>2. \/ pc' = "thrown" /\ lines' = lines
        \/ pc' = "idle" /\ Len(lines') = Len(lines) + 1
    BY <1>4, <1>6 DEF scan, windowVars
  <2>3. caller = "ParseCsvData" /\ step = "header" => Len(lines) = 0
    BY <2>1 DEF CallerInv
  <2>4. step = "row" => Len(lines) = 1
    BY <2>1 DEF CallerInv
  <2>5. ASSUME caller = "ParseCsvData", step = "header"
        PROVE  Len(lines') <= 1 /\ (pc' # "idle" => lines' = <<>>)
    <3>1. Len(lines) = 0 /\ lines = <<>>
      BY <1>4, <2>3, <2>5
    <3>2. CASE pc' = "thrown" /\ lines' = lines
      BY <3>1, <3>2
    <3>3. CASE pc' = "idle" /\ Len(lines') = Len(lines) + 1
      BY <3>1, <3>3
    <3> QED BY <2>2, <3>2, <3>3
  <2>6. ASSUME step = "row"
        PROVE  Len(lines') \in {1, 2} /\ (pc' # "idle" => Len(lines') = 1)
    <3>1. Len(lines) = 1
      BY <2>4, <2>6
    <3>2. CASE pc' = "thrown" /\ lines' = lines
      BY <3>1, <3>2
    <3>3. CASE pc' = "idle" /\ Len(lines') = Len(lines) + 1
      BY <3>1, <3>3
    <3> QED BY <2>2, <3>2, <3>3
  <2>7. pc' # "open"
    BY <2>2
  <2> QED BY <1>2, <1>3, <2>1, <2>5, <2>6, <2>7 DEF CallerInv, ValueUnder
<1>7. CASE ~init /\ ~scan
  <2>1. /\ lines' = lines /\ (pc' = "open" => pc = "open") /\ (pc = "idle" => pc' = "idle")
        /\ (pos > 0 => pos' > 0) /\ (pos = 0 /\ worker = "none" => pos' = 0 /\ worker' = "none")
    BY <1>4, <1>7 DEF Inside, Worker, start_read, finish_read, CopyBlock, terminate, notify, join,
         Wakeup, fread, EndOfRead, SpuriousWakeup, linesVars, Notified, FinishNotified, Joinable
  <2>2. pc' # "idle" => pc # "idle"
    BY <2>1
  <2> QED BY <1>2, <1>3, <2>1, <2>2 DEF CallerInv, ValueUnder
<1> QED BY <1>5, <1>6, <1>7

(* The caller stands at the end of the reader, or has got a line. *)
LEMMA AtTheEnd ==
    ASSUME LinesInv, FileInv
    PROVE  /\ pc = "end" => Len(FileLines) = Len(lines)
           /\ pc = "thrown" /\ Len(lines) \in {0, 1} => (pos = 0 /\ worker = "none") \/ ~Fits
           /\ Len(lines) <= Len(FileLines)
           /\ \A k \in 1 .. Len(lines) : /\ lines[k] = FileLines[k] /\ FileLines[k] \in Seq(Int)
                                         /\ Len(RawLine(k)) < block_len
<1> USE BlockAssumption
<1>1. Len(lines) \in Nat /\ file \in Seq(0 .. 255)
  BY ReadTypes DEF FileInv
<1>2. /\ Len(Ends) \in Nat \ {0} /\ Len(FileLines) = Len(Ends) - 1
      /\ \A k \in 1 .. Len(Ends) - 1 : FileLines[k] \in Seq(Int)
  BY <1>1, FileLinesType
<1>3. Len(lines) + 1 <= Len(Ends)
  BY DEF FileInv, LineInv
<1>4. pc = "end" => Len(FileLines) = Len(lines)
  <2>1. pc = "end" => Len(lines) + 1 = Len(Ends)
    BY DEF FileInv, EndInv
  <2> QED BY <1>1, <1>2, <2>1
<1>5. ASSUME pc = "thrown", Len(lines) \in {0, 1}, ~(pos = 0 /\ worker = "none") PROVE ~Fits
  <2> DEFINE m == Len(lines) + 1
  <2>1. m < Len(Ends) /\ Ends[m + 1] - Ends[m] > block_len
    BY <1>5 DEF FileInv, EndInv
  <2>2. m \in 1 .. Len(Ends) - 1 /\ m \in 1 .. 2
    <3>1. m = 1 \/ m = 2
      <4>1. CASE Len(lines) = 0
        BY <4>1
      <4>2. CASE Len(lines) = 1
        BY <4>2
      <4> QED BY <1>5, <4>1, <4>2
    <3>2. Len(Ends) \in Nat
      BY <1>2
    <3> HIDE DEF m
    <3> QED BY <2>1, <3>1, <3>2
  <2> HIDE DEF m
  <2>3. Len(RawLine(m)) = Ends[m + 1] - Ends[m] - 1 /\ Ends[m] \in Nat /\ Ends[m + 1] \in Nat
    BY <1>1, <2>2, RawLength
  <2>4. ~(Len(RawLine(m)) < block_len)
    BY <2>1, <2>3
  <2> QED BY <2>2, <2>4 DEF Fits
<1>6. ASSUME NEW k \in 1 .. Len(lines)
      PROVE  lines[k] = FileLines[k] /\ FileLines[k] \in Seq(Int) /\ Len(RawLine(k)) < block_len
  <2>1. k \in 1 .. Len(Ends) - 1
    BY <1>1, <1>2, <1>3
  <2>2. Len(RawLine(k)) = Ends[k + 1] - Ends[k] - 1 /\ Ends[k] \in Nat /\ Ends[k + 1] \in Nat
    BY <1>1, <2>1, RawLength
  <2>3. lines[k] = FileLines[k] /\ Ends[k + 1] - Ends[k] <= block_len
    BY DEF FileInv, LineInv
  <2>4. Len(RawLine(k)) < block_len
    BY <2>2, <2>3
  <2> QED BY <1>2, <2>1, <2>3, <2>4
<1> QED BY <1>1, <1>2, <1>3, <1>4, <1>5, <1>6

(* Nothing of the file is changed by a call of next_line. *)
LEMMA NextLineKeeps ==
    ASSUME next_line
    PROVE  UNCHANGED <<file, pos, worker, lines>> /\ pc = "idle" /\ pc' \in {"end", "scan", "finish"}
  BY DEF next_line

(* The header: it is refused only when the file is not well formed. *)
LEMMA HeaderCaller ==
    ASSUME LinesInv, FileInv, MembersInv, CallerInv, caller = "ParseCsvData", read_header
    PROVE  CallerInv'
<1>1. step = "header" /\ ret = "none" /\ UNCHANGED <<caller, strDb>> /\ Len(lines) <= 1
  BY DEF read_header, MembersInv, CallerInv
<1>2. /\ Len(lines) \in Nat /\ lines \in Seq(Seq(Int)) /\ file \in Seq(0 .. 255)
      /\ (lines = <<>> <=> Len(lines) = 0)
  <2>1. Len(lines) \in Nat /\ lines \in Seq(Seq(Int)) /\ file \in Seq(0 .. 255)
    BY ReadTypes DEF FileInv
  <2> QED BY <2>1
<1>3. CASE pc = "idle" /\ lines = <<>> /\ next_line /\ UNCHANGED <<step, col_order, ret>>
  <2>1. Len(lines') <= 1 /\ lines' = <<>> /\ pc' # "open"
    BY <1>2, <1>3, NextLineKeeps
  <2> QED BY <1>1, <1>3, <2>1 DEF CallerInv
<1>4. CASE pc \in {"end", "thrown"} /\ Throw /\ UNCHANGED <<linesVars, col_order>>
  <2>1. step' = "done" /\ ret' = "threw" /\ UNCHANGED <<file, pos, worker, pc>>
    BY <1>4 DEF Throw, linesVars
  <2>2. Len(lines) = 0
    BY <1>1, <1>2, <1>4 DEF CallerInv
  <2>3. (pos = 0 /\ worker = "none") \/ ~(WellFormed /\ Fits)
    <3>1. CASE pc = "end"
      <4>1. Len(FileLines) = 0
        BY <2>2, <3>1, AtTheEnd
      <4> QED BY <4>1 DEF WellFormed
    <3>2. CASE pc = "thrown"
      BY <2>2, <3>2, AtTheEnd
    <3> QED BY <1>4, <3>1, <3>2
  <2>4. (WellFormed' <=> WellFormed) /\ (Fits' <=> Fits)
    BY <2>1, SameWellFormed
  <2> QED BY <1>1, <1>4, <2>1, <2>3, <2>4 DEF CallerInv
<1>5. CASE /\ lines # <<>>
           /\ IF HeaderThrows(lines[1]) THEN Throw /\ UNCHANGED col_order
              ELSE /\ col_order' = HeaderOrder(lines[1]) /\ step' = "row"
                   /\ UNCHANGED ret
           /\ UNCHANGED linesVars
  <2>1. UNCHANGED <<file, pos, worker, pc, lines>>
    BY <1>5 DEF linesVars
  <2>2. Len(lines) = 1 /\ pc = "idle"
    <3>1. Len(lines) # 0
      BY <1>2, <1>5
    <3>2. pc = "idle"
      BY <1>1, <1>5 DEF CallerInv
    <3>3. Len(lines) \in Nat /\ Len(lines) <= 1
      BY <1>1, <1>2
    <3>4. \A n \in Nat : n <= 1 /\ n # 0 => n = 1
      OBVIOUS
    <3> QED BY <3>1, <3>2, <3>3, <3>4
  <2>3. lines[1] = FileLines[1]
    <3>1. 1 \in 1 .. Len(lines)
      BY <2>2
    <3> QED BY <3>1, AtTheEnd
  <2>4. FileLines' = FileLines /\ (WellFormed' <=> WellFormed) /\ (Fits' <=> Fits)
    BY <2>1, SameFile, SameWellFormed
  <2>5. CASE HeaderThrows(lines[1])
    <3>1. step' = "done" /\ ret' = "threw"
      BY <1>5, <2>5 DEF Throw
    <3>2. ~WellFormed
      <4>1. ~Accepts(FileLines[1], FileLines[2])
        BY <2>3, <2>5 DEF Accepts
      <4> QED BY <1>2, <4>1, WellFormedAccepts
    <3> QED BY <1>1, <2>1, <2>2, <2>4, <3>1, <3>2 DEF CallerInv
  <2>6. CASE ~HeaderThrows(lines[1])
    <3>1. step' = "row" /\ ret' = "none" /\ col_order' = HeaderOrder(FileLines[1])
      BY <1>1, <1>5, <2>3, <2>6
    <3>2. ~HeaderThrows(FileLines[1])
      BY <2>3, <2>6
    <3>3. Len(lines') \in {1, 2} /\ pc' = "idle"
      BY <2>1, <2>2
    <3> QED BY <1>1, <2>4, <3>1, <3>2, <3>3 DEF CallerInv
  <2> QED BY <2>5, <2>6
<1> QED BY <1>3, <1>4, <1>5 DEF read_header

(* The row: it is refused only when the file is not well formed, and else  *)
(* every member is the value under its name.                               *)
LEMMA RowCaller ==
    ASSUME LinesInv, FileInv, MembersInv, CallerInv, read_row
    PROVE  CallerInv'
<1> DEFINE h == FileLines[1]
           r == FileLines[2]
<1>1. /\ step = "row" /\ ret = "none" /\ UNCHANGED <<caller, col_order>> /\ caller = "ParseCsvData"
      /\ Len(lines) \in {1, 2} /\ (pc # "idle" => Len(lines) = 1) /\ ~HeaderThrows(h)
      /\ col_order = HeaderOrder(h)
  BY DEF read_row, MembersInv, CallerInv
<1>2. file \in Seq(0 .. 255)
  BY ReadTypes DEF FileInv
<1>3. CASE pc = "idle" /\ Len(lines) = 1 /\ next_line /\ UNCHANGED <<step, ret, strDb>>
  <2>1. file' = file /\ lines' = lines /\ pc' # "open"
    BY <1>3, NextLineKeeps
  <2>2. FileLines' = FileLines
    BY <2>1, SameFile
  <2> QED BY <1>1, <1>3, <2>1, <2>2 DEF CallerInv
<1>4. CASE /\ pc \in {"end", "thrown"}
           /\ IF pc = "end" THEN Close("false") ELSE Throw
           /\ UNCHANGED <<linesVars, strDb>>
  <2>1. step' \in {"close", "done"} /\ ret' \in {"false", "threw"} /\ UNCHANGED <<file, pos, worker, pc>>
    BY <1>4 DEF Close, Throw, linesVars
  <2>2. Len(lines) = 1
    BY <1>1, <1>4
  <2>3. (pos = 0 /\ worker = "none") \/ ~(WellFormed /\ Fits)
    <3>1. CASE pc = "end"
      <4>1. Len(FileLines) = 1
        BY <2>2, <3>1, AtTheEnd
      <4> QED BY <4>1 DEF WellFormed
    <3>2. CASE pc = "thrown"
      BY <2>2, <3>2, AtTheEnd
    <3> QED BY <1>4, <3>1, <3>2
  <2>4. (WellFormed' <=> WellFormed) /\ (Fits' <=> Fits)
    BY <2>1, SameWellFormed
  <2> QED BY <1>1, <1>4, <2>1, <2>3, <2>4 DEF CallerInv
<1>5. CASE /\ Len(lines) = 2
           /\ IF RowThrows(lines[2]) THEN Throw /\ UNCHANGED strDb
              ELSE IF \E c \in DOMAIN Columns : Row(lines[2])[c] = <<>>
              THEN Close("false") /\ UNCHANGED strDb
              ELSE Close("true") /\ strDb' = Row(lines[2])
           /\ UNCHANGED linesVars
  <2>1. UNCHANGED <<file, pos, worker, pc, lines>> /\ pc = "idle" /\ step' \in {"close", "done"}
    BY <1>1, <1>5 DEF linesVars, Close, Throw
  <2>2. /\ lines[2] = r /\ h \in Seq(Int) /\ r \in Seq(Int) /\ Len(FileLines) >= 2
        /\ Len(RawLine(1)) < block_len /\ Len(RawLine(2)) < block_len
    <3>1. 1 \in 1 .. Len(lines) /\ 2 \in 1 .. Len(lines)
      BY <1>5
    <3>2. Len(FileLines) >= 2
      BY <1>5, AtTheEnd
    <3> QED BY <3>1, <3>2, AtTheEnd
  <2>3. FileLines' = FileLines /\ (WellFormed' <=> WellFormed) /\ (Fits' <=> Fits)
    BY <2>1, SameFile, SameWellFormed
  <2>4. WellFormed <=> Accepts(h, r)
    BY <1>2, <2>2, WellFormedAccepts
  <2>5. RowThrows(r) <=> Len(Chop(r)) # Len(Chop(h))
    <3>1. Chop(h) \in Seq(Seq(Int)) /\ Len(Chop(h)) \in Nat
      BY <2>2, ChopType
    <3>2. DOMAIN col_order = DOMAIN Header(h)
      BY <1>1 DEF HeaderOrder
    <3>3. DOMAIN Header(h) = DOMAIN Chop(h)
      BY DEF Header
    <3>4. DOMAIN Chop(h) = 1 .. Len(Chop(h))
      BY <3>1
    <3>5. Len(col_order) = Len(Chop(h))
      <4> HIDE DEF h
      <4> QED BY <3>1, <3>2, <3>3, <3>4
    <3> QED BY <3>5 DEF RowThrows
  <2> HIDE DEF h, r
  <2>6. \A c \in DOMAIN Columns :
            /\ Row(r)[c] # <<>> <=> Under(h, r, c)
            /\ Row(r)[c] # <<>> =>
                 \E k \in DOMAIN Chop(h) : Header(h)[k] = Columns[c] /\ Trim(Chop(r)[k]) = Row(r)[c]
    BY <1>1, <2>2, RowUnder
  <2>7. CASE RowThrows(r) \/ \E c \in DOMAIN Columns : Row(r)[c] = <<>>
    <3>1. ret' \in {"false", "threw"} /\ UNCHANGED strDb
      BY <1>5, <2>2, <2>7 DEF Close, Throw
    <3>2. ~WellFormed
      BY <2>4, <2>5, <2>6, <2>7 DEF Accepts
    <3> QED BY <1>1, <2>1, <2>3, <3>1, <3>2 DEF CallerInv
  <2>8. CASE ~RowThrows(r) /\ ~\E c \in DOMAIN Columns : Row(r)[c] = <<>>
    <3>1. ret' = "true" /\ strDb' = Row(r)
      BY <1>5, <2>2, <2>8 DEF Close
    <3>2. WellFormed
      BY <1>1, <2>4, <2>5, <2>6, <2>8 DEF Accepts
    <3>3. Fits
      <4>1. \A n \in 1 .. 2 : n = 1 \/ n = 2
        OBVIOUS
      <4> QED BY <2>2, <4>1 DEF Fits
    <3>4. pos > 0
      <4>1. /\ pos \in 0 .. Len(file) /\ Len(file) \in Nat /\ ReadTo \in 0 .. Len(file) /\ ReadTo <= pos
            /\ data_begin \in Nat /\ data_end \in Nat /\ data_begin <= data_end
        BY ReadTypes DEF FileInv
      <4>2. /\ Bytes \in Seq(Int) /\ Mark \in {0, 3} /\ Len(Bytes) \in Nat /\ Len(file) = Mark + Len(Bytes)
        BY <1>2, BytesAfterMark
      <4>3. 3 <= Len(Ends) /\ (ReadTo - (data_end - data_begin) = Mark + Ends[3] \/ ReadTo = Len(file))
        BY <1>5, <2>1 DEF FileInv, LineInv
      <4>4. IsEnds(Ends, Bytes) /\ Len(Ends) \in Nat
        <5>1. IsEnds(Ends, Bytes)
          BY <1>2, EndsOfFile
        <5> QED BY <5>1 DEF IsEnds
      <4>5. 1 \in 1 .. Len(Ends) /\ 2 \in 2 .. Len(Ends) /\ 3 \in 2 .. Len(Ends) /\ 3 \in 1 .. Len(Ends) /\ 2 \in 1 .. Len(Ends)
        BY <4>3, <4>4
      <4>6. Ends[1] \in Nat /\ Ends[2] \in Nat /\ Ends[3] \in Nat
        BY <4>2, <4>4, <4>5, LastEnd
      <4>7. Ends[3 - 1] < Ends[3] /\ Ends[2 - 1] < Len(Bytes)
        BY <4>4, <4>5, Zenon DEF IsEnds
      <4>8. Ends[3] > 0 /\ Len(Bytes) > 0
        <5>1. 3 - 1 = 2 /\ 2 - 1 = 1
          OBVIOUS
        <5> QED BY <4>2, <4>6, <4>7, <5>1
      <4>9. ReadTo > 0
        BY <4>1, <4>2, <4>3, <4>6, <4>8
      <4> QED BY <4>1, <4>9
    <3>5. ASSUME NEW c \in DOMAIN Columns PROVE ValueUnder(c, strDb'[c])
      <4>1. PICK k \in DOMAIN Chop(h) : Header(h)[k] = Columns[c] /\ Trim(Chop(r)[k]) = Row(r)[c]
        BY <2>6, <2>8
      <4>2. k \in 1 .. Len(Chop(h)) /\ k \in 1 .. Len(Chop(r))
        <5>1. DOMAIN Chop(h) = 1 .. Len(Chop(h))
          BY <2>2, ChopType
        <5>2. Len(Chop(r)) = Len(Chop(h))
          BY <2>5, <2>8
        <5> QED BY <4>1, <5>1, <5>2
      <4>3. Chop(h) \in Seq(Seq(Int)) /\ Chop(r) \in Seq(Seq(Int))
        BY <2>2, ChopType
      <4>4. Chop(h)[k] \in Seq(Int) /\ Chop(r)[k] \in Seq(Int)
        BY <4>2, <4>3, ElementOfSeq
      <4>5. Columns[c] \in Seq(Int) /\ Row(r)[c] \in Seq(Int)
        <5>1. Columns[c] \in Seq(0 .. 255)
          BY ColumnsAssumption
        <5> QED BY <4>1, <4>4, <5>1, BytesAreInts, TrimType
      <4>6. Header(h)[k] = Trim(Chop(h)[k])
        BY DEF Header
      <4>7. Padded(Chop(h)[k], Columns[c]) /\ Padded(Chop(r)[k], Row(r)[c])
        BY <4>1, <4>4, <4>5, <4>6, PaddedIsTrim
      <4> QED BY <3>1, <4>7 DEF ValueUnder, h, r
    <3>6. \A c \in DOMAIN Columns : ValueUnder(c, strDb[c])'
      BY <2>3, <3>5 DEF ValueUnder
    <3> QED BY <1>1, <2>1, <2>3, <3>1, <3>2, <3>3, <3>4, <3>6 DEF CallerInv
  <2> QED BY <2>7, <2>8
<1> QED BY <1>3, <1>4, <1>5 DEF read_row

(* What comes after the row does not touch it. *)
LEMMA AfterRowCaller ==
    ASSUME CallerInv, MembersInv, EndOfScope \/ GetPort
    PROVE  CallerInv'
<1>1. /\ step \in {"close", "port"} /\ step' \in {"close", "port", "done"}
      /\ UNCHANGED <<caller, ret, strDb, file, pos, worker>> /\ (pc' = "open" => pc = "open")
  BY DEF EndOfScope, GetPort, Destroy, linesVars
<1>2. FileLines' = FileLines /\ (WellFormed' <=> WellFormed) /\ (Fits' <=> Fits)
  BY <1>1, SameFile, SameWellFormed
<1> QED BY <1>1, <1>2 DEF CallerInv, ValueUnder

(* Another caller leaves ParseCsvData at its beginning. *)
LEMMA OtherCallerCaller ==
    ASSUME CallerInv, MembersInv, caller = "other", OtherCaller
    PROVE  CallerInv'
<1>1. step = "header" /\ ret = "none" /\ UNCHANGED <<caller, step, ret>>
  BY DEF CallerInv, MembersInv, OtherCaller, configVars
<1> QED BY <1>1 DEF CallerInv

(* So it is an invariant. *)
LEMMA AlwaysCallerInv == Spec => []CallerInv
<1>1. Init => CallerInv
  BY DEF Init, LinesInit, CallerInv
<1>2. ASSUME ConfigInv, FileInv, CallerInv, [Next]_vars PROVE CallerInv'
  <2>1. LinesInv /\ MembersInv
    BY <1>2 DEF ConfigInv
  <2>2. CASE Client
    <3>1. CASE caller = "ParseCsvData" /\ ParseCsvData
      BY <1>2, <2>1, <3>1, HeaderCaller, RowCaller, AfterRowCaller DEF ParseCsvData
    <3>2. CASE caller = "other" /\ OtherCaller
      BY <1>2, <2>1, <3>2, OtherCallerCaller
    <3> QED BY <2>2, <3>1, <3>2 DEF Client
  <2>3. CASE Reader(Inside \/ Worker \/ SpuriousWakeup)
    BY <1>2, <2>1, <2>3, ReaderCaller DEF Reader
  <2>4. CASE Done \/ UNCHANGED vars
    <3>1. UNCHANGED linesVars /\ UNCHANGED configVars
      BY <2>4 DEF Done, vars
    <3> QED BY <1>2, <2>1, <3>1, ReaderCaller
  <2> QED BY <1>2, <2>2, <2>3, <2>4 DEF Next
<1> QED BY <1>1, <1>2, AlwaysConfigInv, AlwaysFileInv, PTL DEF Spec

(* main connects with what DbCfg.csv says or does not run, for every file, *)
(* block length and set of columns: ParseCsvData succeeds on the           *)
(* well-formed files that can be opened and whose lines fit, and on no     *)
(* other, and then every member is the value under its column's name.      *)
THEOREM ConfigCorrect == Spec => []ConfigMatchesFile
<1>1. ASSUME ConfigInv, CallerInv PROVE ConfigMatchesFile
  <2> SUFFICES ASSUME step = "done"
               PROVE  /\ ret = "true" <=> pos > 0 /\ WellFormed /\ Fits
                      /\ ret = "true" => \A c \in DOMAIN Columns : ValueUnder(c, strDb[c])
                      /\ NothingHalfSet
    BY DEF ConfigMatchesFile
  <2>1. NothingHalfSet /\ ret \in {"true", "false", "threw"}
    BY <1>1 DEF ConfigInv, MembersInv, ConfigTypes
  <2>2. ret = "true" => pos > 0 /\ WellFormed /\ Fits /\ \A c \in DOMAIN Columns : ValueUnder(c, strDb[c])
    BY <1>1 DEF CallerInv
  <2>3. ret # "true" => ~(pos > 0 /\ WellFormed /\ Fits)
    BY <1>1, <2>1 DEF CallerInv
  <2> QED BY <2>1, <2>2, <2>3
<1> QED BY <1>1, AlwaysConfigInv, AlwaysCallerInv, PTL

=============================================================================
