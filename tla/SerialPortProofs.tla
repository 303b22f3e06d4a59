-------------------------- MODULE SerialPortProofs --------------------------
(***************************************************************************)
(* SerialPort.cpp.  SerialWriter, for any queue, any message sizes and any *)
(* number of messages: the order in which chunks are sent, and that every  *)
(* line the modem cannot use has a failed writeBuffer of its own.          *)
(* MessageText, for any name, phone number, time and ip: what comes out of *)
(* ConvertToUtf16Be, where PackMsgToAlarm puts it, and when that fails.    *)
(***************************************************************************)
EXTENDS SerialWriter, MessageText, SharedLemmas, FiniteSetTheorems

(* What was sent and what still waits. *)
Out == wire \o txq

(* What a write puts into the queue: a chunk of a message, the last with   *)
(* its line end.                                                           *)
ChunkSet == [msg : Nat, pos : Nat, end : BOOLEAN]

(* The types. *)
TypeInv ==
    /\ pc \in {"open", "set", "ready", "flush", "closed"}
    /\ wire \in Seq(ChunkSet) /\ txq \in Seq(ChunkSet)
    /\ sizes \in Seq(Nat) /\ results \in Seq(Int)
    /\ Len(txq) <= Room

(* Every call but the one inside tcflush has its result. *)
CountInv ==
    /\ pc \in {"open", "set"} => sizes = <<>> /\ results = <<>>
    /\ pc = "ready" => Len(results) = Len(sizes)
    /\ pc = "flush" => Len(results) + 1 = Len(sizes)

(* A chunk of a message that was given to writeBuffer. *)
Known(c) ==
    /\ c.msg \in 1 .. Len(sizes)
    /\ c.pos \in 1 .. sizes[c.msg]
    /\ c = Chunk(c.msg, c.pos, sizes[c.msg])

(* Only chunks of messages that were written are sent. *)
ChunksInv == \A a \in 1 .. Len(Out) : Known(Out[a])

(* A call from m on and before n failed. *)
FailedIn(m, n) == \E f \in Failures : m <= f /\ f < n

(* Chunk d may be sent after chunk c: it is the next one of the message,   *)
(* or it begins a message and the one before is complete or was cut off by *)
(* a failure between the two.                                              *)
Follows(c, d) ==
    \/ d.msg = c.msg /\ d.pos = c.pos + 1
    \/ d.pos = 1 /\ (c.end \/ FailedIn(c.msg, d.msg))

(* What is sent begins with a beginning, and each chunk may follow the one *)
(* before.                                                                 *)
FollowInv ==
    /\ Out # <<>> => Out[1].pos = 1
    /\ \A a \in 1 .. Len(Out) - 1 : Follows(Out[a], Out[a + 1])

(* The next message may follow the last chunk. *)
TailInv ==
    pc = "ready" /\ ~hungup /\ Out # <<>> =>
        LET c == Out[Len(Out)] IN c.end \/ FailedIn(c.msg, Len(sizes) + 1)

(* Chunks are sent in the order of the calls, and of their places in a     *)
(* message.                                                                *)
OrderInv == \A a, b \in 1 .. Len(Out) : a < b => Before(Out[a], Out[b])

(* The inductive invariant. *)
IInv == TypeInv /\ CountInv /\ ChunksInv /\ FollowInv /\ TailInv /\ OrderInv

-----------------------------------------------------------------------------

(* What is on the wire, then what waits in the queue. *)
LEMMA OutType ==
    ASSUME TypeInv
    PROVE  /\ Out \in Seq(ChunkSet) /\ Len(Out) = Len(wire) + Len(txq) /\ Len(Out) \in Nat
           /\ Len(wire) \in Nat /\ Len(txq) \in Nat
           /\ \A a \in 1 .. Len(wire) : Out[a] = wire[a]
<1>1. wire \in Seq(ChunkSet) /\ txq \in Seq(ChunkSet)
  BY DEF TypeInv
<1> HIDE DEF ChunkSet
<1>2. /\ Out \in Seq(ChunkSet) /\ Len(Out) = Len(wire) + Len(txq)
      /\ \A a \in 1 .. Len(wire) + Len(txq) :
            Out[a] = IF a <= Len(wire) THEN wire[a] ELSE txq[a - Len(wire)]
  BY <1>1, ConcatProperties, Zenon DEF Out
<1>3. Len(wire) \in Nat /\ Len(txq) \in Nat
  BY <1>1
<1> QED BY <1>2, <1>3

(* Nothing sent. *)
LEMMA OutEmpty ==
    ASSUME TypeInv
    PROVE  Out = <<>> <=> Len(Out) = 0
  BY OutType, EmptySeq

(* The parts of a chunk. *)
LEMMA ChunkType ==
    ASSUME TypeInv, NEW a \in 1 .. Len(Out)
    PROVE  Out[a].msg \in Nat /\ Out[a].pos \in Nat /\ Out[a].end \in BOOLEAN
<1>1. Out[a] \in ChunkSet
  BY OutType, ElementOfSeq
<1> QED BY <1>1 DEF ChunkSet

(* A step that adds nothing to what is sent; it may drop chunks that wait  *)
(* in the queue.                                                           *)
LEMMA ShorterIInv ==
    ASSUME IInv, TypeInv', CountInv', TailInv', sizes' = sizes, Failures \subseteq Failures',
           Len(Out') <= Len(Out), \A a \in 1 .. Len(Out') : Out'[a] = Out[a]
    PROVE  IInv'
<1>1. Len(Out) \in Nat /\ Len(Out)' \in Nat
  <2>1. TypeInv
    BY DEF IInv
  <2>2. Len(Out) \in Nat
    BY <2>1, OutType
  <2>3. (TypeInv => Len(Out) \in Nat)'
    BY OutType
  <2> QED BY <2>2, <2>3
<1>2. \A a \in 1 .. Len(Out') : a \in 1 .. Len(Out)
  BY <1>1
<1>3. ChunksInv'
  BY <1>2 DEF IInv, ChunksInv, Known
<1>4. OrderInv'
  BY <1>2 DEF IInv, OrderInv
<1>5. FollowInv'
  <2>1. Out' # <<>> => Out'[1].pos = 1
    <3> SUFFICES ASSUME Out' # <<>> PROVE Out'[1].pos = 1
      OBVIOUS
    <3>1. Len(Out') # 0
      <4>1. (TypeInv => (Out = <<>> <=> Len(Out) = 0))'
        BY OutEmpty
      <4> QED BY <4>1
    <3>2. 1 \in 1 .. Len(Out') /\ Len(Out) # 0
      BY <1>1, <3>1
    <3>3. Out # <<>>
      BY <3>2, OutEmpty DEF IInv
    <3> QED BY <3>2, <3>3 DEF IInv, FollowInv
  <2>2. ASSUME NEW a \in 1 .. Len(Out') - 1 PROVE Follows(Out[a], Out[a + 1])'
    <3>1. a \in 1 .. Len(Out') /\ a + 1 \in 1 .. Len(Out') /\ a \in 1 .. Len(Out) - 1
      BY <1>1
    <3>2. Follows(Out[a], Out[a + 1])
      BY <3>1 DEF IInv, FollowInv
    <3>3. Out'[a] = Out[a] /\ Out'[a + 1] = Out[a + 1]
      BY <3>1
    <3> QED BY <3>2, <3>3, Zenon DEF Follows, FailedIn
  <2> QED BY <2>1, <2>2 DEF FollowInv
<1> QED BY <1>3, <1>4, <1>5 DEF IInv

(* A failure stays one. *)
LEMMA FailuresGrow ==
    ASSUME results \in Seq(Int), NEW r \in Int, results' = results \/ results' = Append(results, r)
    PROVE  Failures \subseteq Failures'
<1>1. ASSUME NEW f \in DOMAIN results PROVE f \in DOMAIN results' /\ results'[f] = results[f]
  OBVIOUS
<1> QED BY <1>1 DEF Failures

(* A message, or its beginning, is put behind what was sent before. *)
LEMMA WriteIInv ==
    ASSUME IInv, NEW size \in Sizes, writeBuffer(size)
    PROVE  IInv'
<1> DEFINE n == Len(sizes) + 1
           acc == Accepted(size)
           m == SubSeq(Message(n, size), 1, acc)
           L == Len(Out)
<1>1. /\ size \in Nat /\ Len(sizes) \in Nat /\ sizes \in Seq(Nat) /\ results \in Seq(Int)
      /\ wire \in Seq(ChunkSet) /\ txq \in Seq(ChunkSet) /\ Len(txq) \in Nat /\ Room \in Nat
      /\ Len(txq) <= Room
  BY WriterAssumption DEF IInv, TypeInv
<1>2. n \in Nat \ {0} /\ Len(sizes) < n
  BY <1>1
<1>3. acc \in 0 .. size /\ Len(txq) + acc <= Room /\ (hungup => acc = 0)
  BY <1>1 DEF Accepted
<1>4. /\ sizes' = Append(sizes, size) /\ txq' = txq \o m /\ wire' = wire /\ hungup' = hungup
      /\ pc = "ready"
      /\ \/ Success(size) /\ results' = Append(results, UART_TRUE) /\ pc' = "ready"
         \/ ~Success(size) /\ results' = results /\ pc' = "flush"
  BY DEF writeBuffer, deviceVars
<1> HIDE DEF n, acc
<1>5. m \in Seq(ChunkSet) /\ Len(m) = acc /\ \A k \in 1 .. acc : m[k] = Chunk(n, k, size)
  <2>1. Message(n, size) \in [1 .. size -> ChunkSet]
    BY <1>1, <1>2 DEF Message, Chunk, ChunkSet
  <2>2. Message(n, size) \in Seq(ChunkSet) /\ Len(Message(n, size)) = size
    BY <1>1, <2>1
  <2>3. /\ m \in Seq(ChunkSet) /\ Len(m) = acc
        /\ \A k \in 1 .. acc : m[k] = Message(n, size)[k]
    BY <1>1, <1>3, <2>2
  <2>4. \A k \in 1 .. acc : Message(n, size)[k] = Chunk(n, k, size)
    BY <1>1, <1>3 DEF Message
  <2> QED BY <2>3, <2>4
<1> HIDE DEF m
<1>6. /\ sizes' \in Seq(Nat) /\ Len(sizes') = n /\ sizes'[n] = size
      /\ \A k \in 1 .. Len(sizes) : sizes'[k] = sizes[k]
  BY <1>1, <1>4 DEF n
<1>7. Failures \subseteq Failures'
  BY <1>1, <1>4, FailuresGrow DEF UART_TRUE
<1>8. TypeInv
  BY DEF IInv
<1>9. L \in Nat /\ Out \in Seq(ChunkSet)
  BY <1>8, OutType
<1>10. /\ Len(Out') = L + acc /\ \A a \in 1 .. L : Out'[a] = Out[a]
       /\ \A a \in L + 1 .. L + acc : Out'[a] = Chunk(n, a - L, size)
  <2>1. Out' = Out \o m
    <3> HIDE DEF ChunkSet
    <3>1. wire \in Seq(ChunkSet) /\ txq \in Seq(ChunkSet) /\ m \in Seq(ChunkSet)
      BY <1>1, <1>5
    <3>2. (wire \o txq) \o m = wire \o (txq \o m)
      BY <3>1, ConcatAssociative
    <3>3. txq' = txq \o m /\ wire' = wire
      BY <1>4
    <3> QED BY <3>2, <3>3 DEF Out
  <2>2. /\ Len(Out \o m) = Len(Out) + Len(m)
        /\ \A a \in 1 .. Len(Out) + Len(m) :
              (Out \o m)[a] = IF a <= Len(Out) THEN Out[a] ELSE m[a - Len(Out)]
    <3> HIDE DEF ChunkSet
    <3> QED BY <1>5, <1>9, ConcatProperties, Zenon
  <2>3. Len(Out') = L + acc
    BY <1>5, <2>1, <2>2
  <2>4. ASSUME NEW a \in 1 .. L PROVE Out'[a] = Out[a]
    <3>1. a \in 1 .. L + acc /\ a <= L
      BY <1>3, <1>9
    <3> QED BY <1>5, <2>1, <2>2, <3>1
  <2>5. ASSUME NEW a \in L + 1 .. L + acc PROVE Out'[a] = Chunk(n, a - L, size)
    <3>1. a \in 1 .. L + acc /\ ~(a <= L) /\ a - L \in 1 .. acc
      BY <1>3, <1>9
    <3> QED BY <1>5, <2>1, <2>2, <3>1
  <2> QED BY <2>3, <2>4, <2>5
<1> HIDE DEF L
<1>11. TypeInv'
  <2>1. txq' \in Seq(ChunkSet) /\ Len(txq') = Len(txq) + acc
    <3> HIDE DEF ChunkSet
    <3>1. txq \o m \in Seq(ChunkSet) /\ Len(txq \o m) = Len(txq) + Len(m)
      BY <1>1, <1>5, ConcatProperties, Zenon
    <3>2. txq' = txq \o m /\ Len(m) = acc
      BY <1>4, <1>5
    <3> QED BY <3>1, <3>2
  <2>2. results' \in Seq(Int)
    <3>1. results' = results \/ results' = Append(results, 0)
      BY <1>4 DEF UART_TRUE
    <3>2. results \in Seq(Int) /\ Append(results, 0) \in Seq(Int)
      BY <1>1
    <3> QED BY <3>1, <3>2, Zenon
  <2>3. Len(txq') <= Room
    BY <1>1, <1>3, <2>1
  <2> QED BY <1>1, <1>4, <1>6, <2>1, <2>2, <2>3 DEF TypeInv
<1>12. CountInv'
  <2>1. Len(results) = Len(sizes)
    BY <1>4 DEF IInv, CountInv
  <2>2. CASE pc' = "ready"
    <3>1. Len(results') = Len(results) + 1
      BY <1>1, <1>4, <2>2 DEF UART_TRUE
    <3>2. Len(sizes') = Len(sizes) + 1
      BY <1>1, <1>6 DEF n
    <3> QED BY <2>1, <2>2, <3>1, <3>2 DEF CountInv
  <2>3. CASE pc' = "flush"
    BY <1>1, <1>4, <1>6, <2>1, <2>3 DEF CountInv, n
  <2> QED BY <1>4, <2>2, <2>3
<1>13. ASSUME NEW a \in 1 .. L
       PROVE  /\ Out[a].msg \in 1 .. Len(sizes) /\ Out[a].pos \in 1 .. sizes[Out[a].msg]
              /\ Out[a] = Chunk(Out[a].msg, Out[a].pos, sizes[Out[a].msg])
  BY DEF IInv, ChunksInv, Known, L
<1>14. ASSUME NEW a \in 1 .. L + acc
       PROVE  a \in 1 .. L \/ (a \in L + 1 .. L + acc /\ a - L \in 1 .. acc)
  BY <1>3, <1>9
<1>15. ASSUME NEW k PROVE /\ Chunk(n, k, size).msg = n /\ Chunk(n, k, size).pos = k
                          /\ Chunk(n, k, size).end = (k = size)
  BY DEF Chunk
<1>16. ChunksInv'
  <2>1. ASSUME NEW a \in 1 .. L + acc PROVE Known(Out[a])'
    <3>1. CASE a \in 1 .. L
      <4>1. Out'[a] = Out[a] /\ sizes'[Out[a].msg] = sizes[Out[a].msg]
            /\ Out[a].msg \in 1 .. Len(sizes')
        BY <1>2, <1>6, <1>10, <1>13, <3>1
      <4> QED BY <1>13, <3>1, <4>1 DEF Known
    <3>2. CASE a \in L + 1 .. L + acc /\ a - L \in 1 .. acc
      <4>1. Out'[a] = Chunk(n, a - L, size) /\ a - L \in 1 .. size /\ n \in 1 .. Len(sizes')
        BY <1>1, <1>2, <1>3, <1>6, <1>10, <3>2
      <4> QED BY <1>6, <1>15, <4>1 DEF Known
    <3> QED BY <1>14, <3>1, <3>2
  <2> QED BY <1>10, <2>1 DEF ChunksInv
<1>17. OrderInv'
  <2>1. ASSUME NEW a \in 1 .. L + acc, NEW b \in 1 .. L + acc, a < b
        PROVE  Before(Out'[a], Out'[b])
    <3>1. CASE b \in 1 .. L
      <4>1. a \in 1 .. L
        BY <1>9, <2>1, <3>1
      <4>2. Before(Out[a], Out[b])
        BY <2>1, <3>1, <4>1 DEF IInv, OrderInv, L
      <4> QED BY <1>10, <3>1, <4>1, <4>2
    <3>2. CASE a \in 1 .. L /\ b \in L + 1 .. L + acc
      <4>1. Out'[b].msg = n
        BY <1>10, <1>15, <3>2
      <4>2. Out'[a].msg \in 1 .. Len(sizes)
        BY <1>10, <1>13, <3>2
      <4>3. Out'[a].msg < n
        BY <1>1, <1>2, <4>2
      <4> QED BY <4>1, <4>3 DEF Before
    <3>3. CASE a \in L + 1 .. L + acc /\ b \in L + 1 .. L + acc
      <4>1. Out'[a].msg = n /\ Out'[b].msg = n /\ Out'[a].pos = a - L /\ Out'[b].pos = b - L
        BY <1>10, <1>15, <3>3
      <4>2. a - L < b - L
        BY <1>9, <2>1
      <4> QED BY <4>1, <4>2 DEF Before
    <3> QED BY <1>14, <3>1, <3>2, <3>3
  <2> QED BY <1>10, <2>1 DEF OrderInv
<1>18. FollowInv'
  <2>1. Out' # <<>> => Out'[1].pos = 1
    <3>1. CASE L = 0
      <4> SUFFICES ASSUME Out' # <<>> PROVE Out'[1].pos = 1
        OBVIOUS
      <4>1. Len(Out') # 0
        <5>1. (TypeInv => (Out = <<>> <=> Len(Out) = 0))'
          BY OutEmpty
        <5> QED BY <1>11, <5>1
      <4>2. 1 \in L + 1 .. L + acc /\ 1 - L = 1
        BY <1>3, <1>10, <3>1, <4>1
      <4> QED BY <1>10, <1>15, <4>2
    <3>2. CASE L # 0
      <4>1. 1 \in 1 .. L
        BY <1>9, <3>2
      <4>2. Out # <<>>
        BY <1>8, <3>2, OutEmpty DEF L
      <4> QED BY <1>10, <4>1, <4>2 DEF IInv, FollowInv
    <3> QED BY <3>1, <3>2
  <2>2. ASSUME NEW a \in 1 .. (L + acc) - 1 PROVE Follows(Out[a], Out[a + 1])'
    <3>1. CASE a + 1 <= L
      <4>1. a \in 1 .. L /\ a + 1 \in 1 .. L /\ a \in 1 .. L - 1
        BY <1>9, <3>1
      <4>2. Follows(Out[a], Out[a + 1])
        BY <4>1 DEF IInv, FollowInv, L
      <4>3. Out'[a] = Out[a] /\ Out'[a + 1] = Out[a + 1]
        BY <1>10, <4>1
      <4> QED BY <1>7, <4>2, <4>3, Zenon DEF Follows, FailedIn
    <3>2. CASE a = L
      <4>1. L \in 1 .. L /\ L + 1 \in L + 1 .. L + acc /\ (L + 1) - L = 1 /\ acc # 0 /\ L # 0
        BY <1>3, <1>9, <3>2
      <4>2. Out'[L] = Out[L] /\ Out'[L + 1].pos = 1 /\ Out'[L + 1].msg = n
        BY <1>10, <1>15, <4>1
      <4>3. ~hungup /\ Out # <<>>
        BY <1>3, <1>8, <4>1, OutEmpty DEF L
      <4>4. Out[L].end \/ FailedIn(Out[L].msg, n)
        BY <1>4, <4>3 DEF IInv, TailInv, L, n
      <4> QED BY <1>7, <3>2, <4>2, <4>4, Zenon DEF Follows, FailedIn
    <3>3. CASE a > L
      <4>1. /\ a \in L + 1 .. L + acc /\ a + 1 \in L + 1 .. L + acc
            /\ (a + 1) - L = (a - L) + 1
        BY <1>3, <1>9, <3>3
      <4>2. /\ Out'[a].msg = n /\ Out'[a + 1].msg = n
            /\ Out'[a].pos = a - L /\ Out'[a + 1].pos = (a + 1) - L
        BY <1>10, <1>15, <4>1
      <4> QED BY <4>1, <4>2 DEF Follows
    <3>4. a + 1 <= L \/ a = L \/ a > L
      BY <1>9
    <3> QED BY <3>1, <3>2, <3>3, <3>4, Zenon
  <2> QED BY <1>10, <2>1, <2>2 DEF FollowInv
<1>19. TailInv'
  <2> SUFFICES ASSUME pc' = "ready" PROVE Out'[Len(Out')].end
    BY DEF TailInv
  <2>1. acc = size /\ acc > 0
    BY <1>4 DEF Success, acc
  <2>2. L + acc \in L + 1 .. L + acc /\ (L + acc) - L = size
    BY <1>1, <1>9, <2>1
  <2> QED BY <1>10, <1>15, <2>2
<1> QED BY <1>11, <1>12, <1>16, <1>17, <1>18, <1>19 DEF IInv

(* What is flushed or lost is a tail of what waits. *)
LEMMA DropIInv ==
    ASSUME IInv, txq' = <<>>, wire' = wire, sizes' = sizes, results \in Seq(Int),
           results' \in Seq(Int), Failures \subseteq Failures', CountInv', TailInv',
           pc' \in {"open", "set", "ready", "flush", "closed"}
    PROVE  IInv'
<1>1. TypeInv
  BY DEF IInv
<1>2. TypeInv'
  BY <1>1, WriterAssumption DEF TypeInv
<1>3. Out' = wire
  BY <1>1 DEF TypeInv, Out
<1>4. Len(Out') <= Len(Out) /\ \A a \in 1 .. Len(Out') : Out'[a] = Out[a]
  BY <1>1, <1>3, OutType
<1> QED BY <1>2, <1>4, ShorterIInv

(* What was sent and what waits stay as they are. *)
LEMMA SameIInv ==
    ASSUME IInv, Out' = Out, sizes' = sizes, results' = results, TypeInv', CountInv',
           pc' = "ready" => pc = "ready" \/ Out = <<>>, hungup => hungup'
    PROVE  IInv'
<1>1. TailInv'
  BY DEF IInv, TailInv, FailedIn, Failures
<1>2. Failures \subseteq Failures'
  BY DEF Failures
<1>3. Len(Out') <= Len(Out) /\ \A a \in 1 .. Len(Out') : Out'[a] = Out[a]
  BY OutType DEF IInv
<1> QED BY <1>1, <1>2, <1>3, ShorterIInv

(* Every step keeps it. *)
LEMMA NextIInv ==
    ASSUME IInv, [Next]_vars
    PROVE  IInv'
<1>1. TypeInv /\ CountInv
  BY DEF IInv
<1>2. results \in Seq(Int) /\ Failures \subseteq Failures
  BY <1>1 DEF TypeInv
<1>3. CASE Open
  BY <1>1, <1>3, SameIInv DEF Open, deviceVars, TypeInv, CountInv, Out
<1>4. CASE Set
  <2>1. Out = <<>>
    <3>1. sizes = <<>> /\ Len(sizes) = 0
      BY <1>1, <1>4 DEF Set, CountInv
    <3>2. Len(Out) \in Nat
      BY <1>1, OutType
    <3>3. \A a \in 1 .. Len(Out) : Out[a].msg \in 1 .. 0
      BY <3>1 DEF IInv, ChunksInv, Known
    <3>4. Len(Out) = 0
      BY <3>2, <3>3
    <3> QED BY <1>1, <3>4, OutEmpty
  <2>2. CountInv'
    BY <1>1, <1>4 DEF Set, CountInv
  <2> QED BY <1>1, <1>4, <2>1, <2>2, SameIInv DEF Set, deviceVars, TypeInv, Out
<1>5. CASE \E size \in Sizes : writeBuffer(size)
  BY <1>5, WriteIInv
<1>6. CASE TcFlush
  <2>1. /\ txq' = <<>> /\ results' = Append(results, UART_FALSE) /\ pc' = "ready"
        /\ pc = "flush" /\ wire' = wire /\ sizes' = sizes
    BY <1>6 DEF TcFlush, AfterFlush
  <2>2. /\ results' \in Seq(Int) /\ Len(results') = Len(results) + 1
        /\ Len(sizes) = Len(results) + 1 /\ results'[Len(sizes)] = UART_FALSE
        /\ Len(sizes) \in DOMAIN results' /\ Len(sizes) \in Nat
    BY <1>1, <2>1 DEF TypeInv, CountInv, UART_FALSE
  <2>3. Failures \subseteq Failures'
    BY <1>2, <2>1, FailuresGrow DEF UART_FALSE
  <2>4. CountInv'
    BY <2>1, <2>2 DEF CountInv
  <2>5. Len(sizes) \in Failures'
    BY <2>2 DEF Failures
  <2>6. TailInv'
    <3> SUFFICES ASSUME Out' # <<>> PROVE FailedIn(Out[Len(Out)].msg, Len(sizes) + 1)'
      BY DEF TailInv
    <3>1. Out' = wire
      BY <1>1, <2>1 DEF TypeInv, Out
    <3>2. Len(wire) \in 1 .. Len(wire) /\ Len(wire) \in 1 .. Len(Out)
      BY <1>1, <3>1, OutType DEF TypeInv
    <3>3. Out'[Len(Out')].msg \in 1 .. Len(sizes)
      BY <1>1, <3>1, <3>2, OutType DEF IInv, ChunksInv, Known
    <3>4. Out'[Len(Out')].msg <= Len(sizes) /\ Len(sizes) < Len(sizes) + 1
      BY <2>2, <3>3
    <3> QED BY <2>1, <2>5, <3>4 DEF FailedIn
  <2> QED BY <1>2, <2>1, <2>2, <2>3, <2>4, <2>6, DropIInv
<1>7. CASE Close
  <2>1. CountInv' /\ TailInv'
    BY <1>7 DEF Close, CountInv, TailInv
  <2>2. CASE txq' = txq
    BY <1>1, <1>7, <2>1, <2>2, SameIInv DEF Close, deviceVars, TypeInv, Out
  <2>3. CASE txq' = <<>>
    BY <1>2, <1>7, <2>1, <2>3, DropIInv DEF Close, Failures
  <2> QED BY <1>7, <2>2, <2>3 DEF Close
<1>8. CASE Transmit
  <2>1. /\ txq # <<>> /\ wire' = Append(wire, Head(txq)) /\ txq' = Tail(txq)
        /\ UNCHANGED <<hungup, pc, sizes, results>>
    BY <1>8 DEF Transmit, deviceVars
  <2>2. wire' \in Seq(ChunkSet) /\ txq' \in Seq(ChunkSet) /\ Len(txq') <= Room
    <3> HIDE DEF ChunkSet
    <3> QED BY <1>1, <2>1, WriterAssumption DEF TypeInv
  <2>3. TypeInv' /\ CountInv'
    BY <1>1, <2>1, <2>2 DEF TypeInv, CountInv
  <2>4. Out' = Out
    <3> HIDE DEF ChunkSet
    <3> QED BY <1>1, <2>1, AppendNext DEF TypeInv, Out
  <2> QED BY <2>1, <2>3, <2>4, SameIInv
<1>9. ASSUME NEW p \in Ports, Unplug(p) PROVE IInv'
  <2>1. /\ UNCHANGED <<pc, wire, sizes, results>>
        /\ hungup' = (hungup \/ fd = p) /\ txq' = IF fd = p THEN <<>> ELSE txq
    BY <1>9 DEF Unplug
  <2>2. CountInv'
    BY <1>1, <2>1 DEF CountInv
  <2>3. CASE fd = p
    <3>1. TailInv'
      BY <2>1, <2>3 DEF TailInv
    <3>2. Failures \subseteq Failures'
      BY <2>1 DEF Failures
    <3>3. pc' \in {"open", "set", "ready", "flush", "closed"}
      BY <1>1, <2>1 DEF TypeInv
    <3> QED BY <1>2, <2>1, <2>2, <2>3, <3>1, <3>2, <3>3, DropIInv
  <2>4. CASE fd # p
    BY <1>1, <2>1, <2>2, <2>4, SameIInv DEF TypeInv, Out
  <2> QED BY <2>3, <2>4
<1>10. ASSUME NEW p \in Ports, Plug(p) PROVE IInv'
  BY <1>1, <1>10, SameIInv DEF Plug, TypeInv, CountInv, Out
<1>11. CASE UNCHANGED vars
  BY <1>1, <1>11, SameIInv DEF vars, TypeInv, CountInv, Out
<1> QED BY <1>3, <1>4, <1>5, <1>6, <1>7, <1>8, <1>9, <1>10, <1>11 DEF Next, Main

(* Before anything is sent. *)
LEMMA InitIInv == Init => IInv
<1> SUFFICES ASSUME Init PROVE IInv
  OBVIOUS
<1>1. TypeInv
  BY WriterAssumption DEF Init, TypeInv
<1>2. CountInv
  BY DEF Init, CountInv
<1>3. Out = <<>> /\ Len(Out) = 0
  BY <1>1, EmptySeq, ConcatEmptySeq DEF Init, Out, TypeInv
<1>4. ChunksInv /\ FollowInv /\ TailInv /\ OrderInv
  BY <1>3 DEF ChunksInv, FollowInv, TailInv, OrderInv
<1> QED BY <1>1, <1>2, <1>4 DEF IInv

(* So it is an invariant. *)
LEMMA AlwaysIInv == Spec => []IInv
  BY InitIInv, NextIInv, PTL DEF Spec

(* What the modem receives and what still waits in the kernel is in the    *)
(* order in which writeBuffer was called, and nothing is sent twice.       *)
THEOREM OrderCorrect == Spec => []SentInOrder
<1>1. IInv => SentInOrder
  <2> SUFFICES ASSUME IInv PROVE SentInOrder
    OBVIOUS
  <2>1. DOMAIN Out = 1 .. Len(Out)
    <3> HIDE DEF ChunkSet
    <3> QED BY OutType DEF IInv
  <2> QED BY <2>1 DEF IInv, OrderInv, SentInOrder, Out
<1> QED BY AlwaysIInv, <1>1, PTL

-----------------------------------------------------------------------------
(* The places where a line that the modem cannot use ends, and the last    *)
(* place before the message that ends at p.                                *)
TornEnds == {p \in DOMAIN wire : IsLineEnd(p) /\ ~Intact(p)}

(* The place before the first chunk of a message of which the last one is  *)
(* at p.                                                                   *)
PlaceBefore(p) == p - sizes[wire[p].msg]

(* What is on the wire is the beginning of what is sent. *)
LEMMA WirePlaces ==
    ASSUME IInv
    PROVE  /\ Len(wire) \in Nat /\ DOMAIN wire = 1 .. Len(wire) /\ wire \in Seq(ChunkSet)
           /\ \A p \in 1 .. Len(wire) : p \in 1 .. Len(Out) /\ Out[p] = wire[p] /\ Known(wire[p])
           /\ Len(wire) >= 1 => wire[1].pos = 1
           /\ \A p \in 1 .. Len(wire) - 1 : Follows(wire[p], wire[p + 1])
<1>1. TypeInv
  BY DEF IInv
<1>2. /\ Len(wire) \in Nat /\ Len(Out) \in Nat /\ Len(wire) <= Len(Out)
      /\ \A p \in 1 .. Len(wire) : p \in 1 .. Len(Out) /\ Out[p] = wire[p]
  BY <1>1, OutType
<1>3. wire \in Seq(ChunkSet)
  BY <1>1 DEF TypeInv
<1>4. DOMAIN wire = 1 .. Len(wire)
  <2> HIDE DEF ChunkSet
  <2> QED BY <1>3
<1>5. \A p \in 1 .. Len(wire) : Known(wire[p])
  <2> SUFFICES ASSUME NEW p \in 1 .. Len(wire) PROVE Known(wire[p])
    OBVIOUS
  <2>1. Known(Out[p])
    BY <1>2 DEF IInv, ChunksInv
  <2> QED BY <1>2, <2>1
<1>6. Len(wire) >= 1 => wire[1].pos = 1
  <2> SUFFICES ASSUME Len(wire) >= 1 PROVE wire[1].pos = 1
    OBVIOUS
  <2>1. 1 \in 1 .. Len(wire) /\ Len(Out) # 0
    BY <1>2
  <2>2. Out # <<>>
    BY <1>1, <2>1, OutEmpty
  <2> QED BY <1>2, <2>1, <2>2 DEF IInv, FollowInv
<1>7. ASSUME NEW p \in 1 .. Len(wire) - 1 PROVE Follows(wire[p], wire[p + 1])
  <2>1. p \in 1 .. Len(wire) /\ p + 1 \in 1 .. Len(wire) /\ p \in 1 .. Len(Out) - 1
    BY <1>2
  <2>2. Follows(Out[p], Out[p + 1])
    BY <2>1 DEF IInv, FollowInv
  <2>3. Out[p] = wire[p] /\ Out[p + 1] = wire[p + 1]
    BY <1>2, <2>1
  <2> QED BY <2>2, <2>3
<1> QED BY <1>2, <1>3, <1>4, <1>5, <1>6, <1>7

(* A message whose last chunk was sent was sent whole and in one piece.    *)
LEMMA SentWhole ==
    ASSUME IInv, NEW p \in 1 .. Len(wire), wire[p].end
    PROVE  LET n == wire[p].msg
               size == sizes[n]
           IN  /\ n \in 1 .. Len(sizes) /\ size \in Nat \ {0} /\ p >= size
               /\ \A j \in 0 .. size - 1 : wire[p - j] = Chunk(n, size - j, size)
<1> DEFINE n == wire[p].msg
           size == sizes[n]
           Here(j) == p - j >= 1 /\ wire[p - j] = Chunk(n, size - j, size)
           B == {j \in 0 .. size - 1 : ~Here(j)}
<1>1. /\ Len(wire) \in Nat /\ wire[1].pos = 1
      /\ \A k \in 1 .. Len(wire) : Known(wire[k])
      /\ \A k \in 1 .. Len(wire) - 1 : Follows(wire[k], wire[k + 1])
  BY WirePlaces
<1>2. sizes \in Seq(Nat)
  BY DEF IInv, TypeInv
<1>3. /\ n \in 1 .. Len(sizes) /\ wire[p].pos \in 1 .. size
      /\ wire[p] = Chunk(n, wire[p].pos, size)
  BY <1>1 DEF Known
<1>4. size \in Nat \ {0}
  BY <1>2, <1>3
<1>5. wire[p].pos = size
  <2>1. \A k : Chunk(n, k, size).end = (k = size)
    BY DEF Chunk
  <2>2. wire[p].end = (wire[p].pos = size)
    BY <1>3, <2>1, Zenon
  <2> QED BY <2>2, Zenon
<1> HIDE DEF n, size
<1>6. Here(0)
  BY <1>3, <1>4, <1>5
<1>7. ASSUME NEW j \in 0 .. size - 1, j # 0, Here(j - 1) PROVE Here(j)
  <2>1. /\ p - (j - 1) \in 1 .. Len(wire) /\ size - (j - 1) # 1
        /\ p - j + 1 = p - (j - 1) /\ (size - j) + 1 = size - (j - 1)
    BY <1>1, <1>4, <1>7
  <2>2. wire[p - (j - 1)].msg = n /\ wire[p - (j - 1)].pos = size - (j - 1)
    BY <1>7 DEF Chunk
  <2>3. p - (j - 1) # 1
    BY <1>1, <2>1, <2>2
  <2>4. p - j \in 1 .. Len(wire) - 1 /\ p - j \in 1 .. Len(wire)
    BY <1>1, <2>1, <2>3
  <2>5. Follows(wire[p - j], wire[p - (j - 1)])
    <3>1. Follows(wire[p - j], wire[(p - j) + 1])
      BY <1>1, <2>4
    <3> QED BY <2>1, <3>1
  <2>6. wire[p - j].msg = n /\ size - (j - 1) = wire[p - j].pos + 1
    BY <2>1, <2>2, <2>5 DEF Follows
  <2>7. /\ wire[p - j].pos \in 1 .. size
        /\ wire[p - j] = Chunk(n, wire[p - j].pos, size)
    BY <1>1, <2>4, <2>6 DEF Known, size
  <2>8. wire[p - j].pos = size - j
    <3> DEFINE q == wire[p - j].pos
    <3>1. q \in Int /\ size \in Int /\ size - (j - 1) = q + 1
      BY <1>4, <2>6, <2>7
    <3> HIDE DEF q
    <3>2. q = size - j
      BY <3>1
    <3> QED BY <3>2 DEF q
  <2> QED BY <2>4, <2>7, <2>8
<1>8. B = {}
  <2> SUFFICES ASSUME B # {} PROVE FALSE
    OBVIOUS
  <2>1. B \in SUBSET Nat
    BY <1>4
  <2>2. PICK j \in B : \A k \in B : j <= k
    BY <2>1, LeastElement
  <2>3. j \in 0 .. size - 1 /\ ~Here(j)
    BY <2>2
  <2>4. j # 0
    BY <1>6, <2>3
  <2>5. j - 1 \in 0 .. size - 1 /\ ~(j <= j - 1)
    BY <1>4, <2>3, <2>4
  <2>6. Here(j - 1)
    BY <2>2, <2>5
  <2> QED BY <1>7, <2>3, <2>4, <2>6
<1>9. \A j \in 0 .. size - 1 : Here(j)
  BY <1>8
<1>10. p >= size
  <2>1. size - 1 \in 0 .. size - 1
    BY <1>4
  <2>2. p - (size - 1) >= 1
    BY <1>9, <2>1
  <2> QED BY <1>4, <2>2
<1> QED BY <1>3, <1>4, <1>9, <1>10 DEF n, size

(* A line that is not one whole message has a chunk of an earlier message  *)
(* in front of it, which a failure has cut off.                            *)
LEMMA TornCause ==
    ASSUME IInv, NEW p \in TornEnds
    PROVE  /\ p \in 1 .. Len(wire) /\ wire[p].end
           /\ PlaceBefore(p) \in 1 .. Len(wire) /\ ~wire[PlaceBefore(p)].end
           /\ \E f \in Failures : wire[PlaceBefore(p)].msg <= f /\ f < wire[p].msg
<1> DEFINE n == wire[p].msg
           size == sizes[n]
           q == p - size
<1>1. /\ Len(wire) \in Nat /\ wire \in Seq(ChunkSet) /\ DOMAIN wire = 1 .. Len(wire)
      /\ \A k \in 1 .. Len(wire) : Known(wire[k])
      /\ \A k \in 1 .. Len(wire) - 1 : Follows(wire[k], wire[k + 1])
  BY WirePlaces
<1>2. p \in 1 .. Len(wire) /\ wire[p].end
  BY <1>1 DEF TornEnds, IsLineEnd
<1>3. /\ size \in Nat \ {0} /\ p >= size
      /\ \A j \in 0 .. size - 1 : wire[p - j] = Chunk(n, size - j, size)
  BY <1>2, SentWhole
<1> HIDE DEF n, size
<1>4. SubSeq(wire, p - size + 1, p) = Message(n, size)
  <2> DEFINE t == SubSeq(wire, p - size + 1, p)
  <2>1. p - size + 1 \in 1 .. Len(wire) /\ p - (p - size + 1) + 1 = size
    BY <1>1, <1>2, <1>3
  <2>2. t = [k \in 1 .. size |-> wire[(p - size + 1) + k - 1]]
    BY <1>1, <1>2, <1>3, <2>1
  <2>3. ASSUME NEW k \in 1 .. size PROVE wire[(p - size + 1) + k - 1] = Chunk(n, k, size)
    <3>1. /\ size - k \in 0 .. size - 1 /\ size - (size - k) = k
          /\ p - (size - k) = (p - size + 1) + k - 1
      BY <1>2, <1>3
    <3>2. wire[p - (size - k)] = Chunk(n, size - (size - k), size)
      BY <1>3, <3>1
    <3> QED BY <3>1, <3>2
  <2> QED BY <2>2, <2>3 DEF Message
<1>5. ~(p = size \/ wire[p - size].end)
  BY <1>3, <1>4 DEF TornEnds, Intact, IsLineEnd, n, size
<1>6. q \in 1 .. Len(wire) - 1 /\ q \in 1 .. Len(wire) /\ q + 1 = p - (size - 1) /\ q = PlaceBefore(p)
  BY <1>1, <1>2, <1>3, <1>5 DEF PlaceBefore, n, size
<1>7. wire[q + 1].msg = n /\ wire[q + 1].pos = 1
  <2>1. size - 1 \in 0 .. size - 1 /\ size - (size - 1) = 1
    BY <1>3
  <2>2. wire[q + 1] = Chunk(n, 1, size)
    BY <1>3, <1>6, <2>1
  <2> QED BY <2>2 DEF Chunk
<1>8. Follows(wire[q], wire[q + 1])
  BY <1>1, <1>6
<1>9. wire[q].pos + 1 # 1
  <2>1. wire[q].pos \in 1 .. sizes[wire[q].msg]
    BY <1>1, <1>6 DEF Known
  <2> QED BY <2>1
<1>10. FailedIn(wire[q].msg, n)
  BY <1>5, <1>7, <1>8, <1>9 DEF Follows
<1> QED BY <1>2, <1>5, <1>6, <1>10 DEF FailedIn, n

(* Two such lines: the first ends before the chunk in front of the second, *)
(* which is of a later message.                                            *)
LEMMA TornApart ==
    ASSUME IInv, NEW p \in TornEnds, NEW r \in TornEnds, p < r
    PROVE  wire[p].msg < wire[PlaceBefore(r)].msg
<1> DEFINE n == wire[r].msg
           size == sizes[n]
           q == PlaceBefore(r)
<1>1. Len(wire) \in Nat /\ Len(Out) \in Nat
  BY WirePlaces, OutType DEF IInv
<1>2. p \in 1 .. Len(wire) /\ wire[p].end /\ r \in 1 .. Len(wire) /\ wire[r].end
  BY TornCause
<1>3. q \in 1 .. Len(wire) /\ ~wire[q].end
  BY TornCause
<1>4. /\ size \in Nat \ {0} /\ q = r - size
      /\ \A j \in 0 .. size - 1 : wire[r - j] = Chunk(n, size - j, size)
  BY <1>2, SentWhole DEF PlaceBefore
<1> HIDE DEF n, size, q
<1>5. ~(q < p)
  <2> SUFFICES ASSUME q < p PROVE FALSE
    OBVIOUS
  <2>1. r - p \in 0 .. size - 1 /\ r - (r - p) = p /\ size - (r - p) # size
    BY <1>2, <1>3, <1>4
  <2>2. wire[p] = Chunk(n, size - (r - p), size)
    <3>1. wire[r - (r - p)] = Chunk(n, size - (r - p), size)
      BY <1>4, <2>1
    <3> QED BY <2>1, <3>1
  <2>3. wire[p].end = (size - (r - p) = size)
    BY <2>2 DEF Chunk
  <2> QED BY <1>2, <2>1, <2>3, Zenon
<1>6. p # q
  BY <1>2, <1>3, Zenon
<1>7. p < q
  BY <1>2, <1>3, <1>5, <1>6
<1>8. Before(wire[p], wire[q])
  <2>1. /\ p \in 1 .. Len(Out) /\ q \in 1 .. Len(Out) /\ Out[p] = wire[p] /\ Out[q] = wire[q]
    BY <1>2, <1>3, WirePlaces
  <2>2. Before(Out[p], Out[q])
    BY <1>7, <2>1 DEF IInv, OrderInv
  <2> QED BY <2>1, <2>2
<1>9. ~(wire[p].msg = wire[q].msg /\ wire[p].pos < wire[q].pos)
  <2> SUFFICES ASSUME wire[p].msg = wire[q].msg PROVE ~(wire[p].pos < wire[q].pos)
    OBVIOUS
  <2> DEFINE s == sizes[wire[p].msg]
  <2>1. s \in Nat \ {0} /\ wire[p - 0] = Chunk(wire[p].msg, s - 0, s)
    <3>1. /\ s \in Nat \ {0}
          /\ \A j \in 0 .. s - 1 : wire[p - j] = Chunk(wire[p].msg, s - j, s)
      BY <1>2, SentWhole
    <3>2. 0 \in 0 .. s - 1
      BY <3>1
    <3> QED BY <3>1, <3>2
  <2>2. wire[p] = Chunk(wire[p].msg, s, s)
    <3>1. p - 0 = p /\ s - 0 = s
      BY <1>2, <2>1
    <3> QED BY <2>1, <3>1
  <2>3. wire[p].pos = s
    BY <2>2 DEF Chunk
  <2>4. wire[q].pos \in 1 .. s
    BY <1>3, WirePlaces DEF Known
  <2> QED BY <2>1, <2>3, <2>4
<1> QED BY <1>8, <1>9 DEF Before, q

(* There is a failure for every torn line: the calls that caused two of    *)
(* them are two.                                                           *)
LEMMA TornAreFew ==
    ASSUME IInv
    PROVE  TornLinesHaveFailures
<1> DEFINE Cause(p, f) == wire[PlaceBefore(p)].msg <= f /\ f < wire[p].msg
           F == [p \in TornEnds |-> CHOOSE f \in Failures : Cause(p, f)]
<1>1. ASSUME NEW p \in TornEnds PROVE F[p] \in Failures /\ Cause(p, F[p])
  <2>1. \E f \in Failures : Cause(p, f)
    BY TornCause
  <2> HIDE DEF Cause
  <2>2. F[p] = CHOOSE f \in Failures : Cause(p, f)
    OBVIOUS
  <2> QED BY <2>1, <2>2, Zenon
<1>2. F \in [TornEnds -> Failures]
  BY <1>1
<1> HIDE DEF F
<1>3. ASSUME NEW p \in TornEnds, NEW r \in TornEnds, p < r PROVE F[p] # F[r]
  <2>1. wire[p].msg < wire[PlaceBefore(r)].msg
    BY <1>3, TornApart
  <2>2. F[p] < wire[p].msg /\ wire[PlaceBefore(r)].msg <= F[r]
    BY <1>1
  <2>3. F[p] \in Nat /\ F[r] \in Nat
    BY <1>1 DEF Failures, IInv, TypeInv
  <2>4. wire[p].msg \in Nat /\ wire[PlaceBefore(r)].msg \in Nat
    <3>1. p \in 1 .. Len(wire) /\ PlaceBefore(r) \in 1 .. Len(wire)
      BY TornCause
    <3>2. \A k \in 1 .. Len(wire) : wire[k].msg \in 1 .. Len(sizes)
      BY WirePlaces DEF Known
    <3> QED BY <3>1, <3>2
  <2> QED BY <2>1, <2>2, <2>3, <2>4
<1>4. F \in Injection(TornEnds, Failures)
  <2>1. ASSUME NEW p \in TornEnds, NEW r \in TornEnds, F[p] = F[r] PROVE p = r
    <3>1. p \in 1 .. Len(wire) /\ r \in 1 .. Len(wire)
      BY TornCause
    <3> QED BY <1>3, <2>1, <3>1
  <2> QED BY <1>2, <2>1 DEF Injection, IsInjective
<1>5. IsFiniteSet(Failures)
  <2>1. DOMAIN results = 1 .. Len(results) /\ Len(results) \in Nat
    BY DEF IInv, TypeInv
  <2>2. IsFiniteSet(1 .. Len(results))
    BY <2>1, FS_Interval
  <2>3. Failures \in SUBSET (1 .. Len(results))
    BY <2>1 DEF Failures
  <2> QED BY <2>2, <2>3, FS_Subset
<1>6. Cardinality(TornEnds) <= Cardinality(Failures)
  BY <1>4, <1>5, FS_Injection
<1> QED BY <1>6 DEF TornEnds, TornLinesHaveFailures

(* A line that the modem cannot use always comes from a writeBuffer that   *)
(* returned UART_FALSE, one line at most from each.                        *)
THEOREM TornCorrect == Spec => []TornLinesHaveFailures
  BY AlwaysIInv, TornAreFew, PTL

-----------------------------------------------------------------------------
(* The text of a message. *)

(* A piece of a name: one to four bytes, of which only the first can begin *)
(* something; the first byte of a character does.                          *)
LEMMA CharacterShape ==
    ASSUME NEW p, IsCharacter(p)
    PROVE  /\ p.code \in Nat /\ p.bytes \in Seq(0 .. 255) /\ Size(p) \in 1 .. 4
           /\ \A x \in 2 .. Size(p) : Continues(p.bytes[x])
           /\ p.bytes[1] < 128 \/ p.bytes[1] \in 192 .. 255
           /\ Size(p) = 1 => p.bytes[1] = p.code /\ p.code < 128
           /\ Size(p) = 2 => p.bytes[1] \in 192 .. 223
           /\ Size(p) # 4 => p.code < 65536
           /\ Size(p) = 3 => /\ p.bytes[1] = 224 + (p.code \div 4096)
                             /\ p.bytes[2] = 128 + ((p.code \div 64) % 64)
                             /\ p.bytes[3] = 128 + (p.code % 64)
           /\ Size(p) = 4 => p.bytes[1] \in 240 .. 255
<1> DEFINE c == p.code
           b == p.bytes
<1>1. c \in Nat /\ c < 1114112 /\ b = Utf8(c)
  BY SMT DEF IsCharacter
<1> HIDE DEF c, b
<1>2. CASE c < 128
  <2>1. b = <<c>>
    BY <1>1, <1>2, SMT DEF Utf8
  <2>2. b \in Seq(0 .. 255) /\ Len(b) = 1 /\ b[1] = c
    BY <1>1, <1>2, <2>1, SMT
  <2> QED BY <1>1, <1>2, <2>2, SMT DEF Size, c, b
<1>3. CASE ~(c < 128) /\ c < 2048
  <2> DEFINE b1 == 192 + (c \div 64)
             b2 == 128 + (c % 64)
  <2>1. b = <<b1, b2>>
    BY <1>1, <1>3, SMT DEF Utf8
  <2>2. b1 \in 192 .. 223 /\ b2 \in 0 .. 255 /\ Continues(b2)
    BY <1>1, <1>3, SMT DEF Continues
  <2> HIDE DEF b1, b2
  <2>3. b \in Seq(0 .. 255) /\ Len(b) = 2 /\ b[1] = b1 /\ b[2] = b2
    BY <2>1, <2>2, SMT
  <2>4. ASSUME NEW x \in 2 .. 2 PROVE Continues(b[x])
    <3>1. x = 2
      OBVIOUS
    <3> QED BY <2>2, <2>3, <3>1, SMT
  <2> QED BY <1>1, <1>3, <2>2, <2>3, <2>4, SMT DEF Size, c, b
<1>4. CASE ~(c < 128) /\ ~(c < 2048) /\ c < 65536
  <2> DEFINE b1 == 224 + (c \div 4096)
             b2 == 128 + ((c \div 64) % 64)
             b3 == 128 + (c % 64)
  <2>1. b = <<b1, b2, b3>>
    BY <1>1, <1>4, SMT DEF Utf8
  <2>2. b1 \in 192 .. 255 /\ b2 \in 0 .. 255 /\ b3 \in 0 .. 255 /\ Continues(b2) /\ Continues(b3)
    BY <1>1, <1>4, SMT DEF Continues
  <2>5. b1 = 224 + (c \div 4096) /\ b2 = 128 + ((c \div 64) % 64) /\ b3 = 128 + (c % 64)
    OBVIOUS
  <2> HIDE DEF b1, b2, b3
  <2>3. b \in Seq(0 .. 255) /\ Len(b) = 3 /\ b[1] = b1 /\ b[2] = b2 /\ b[3] = b3
    BY <2>1, <2>2, SMT
  <2>4. ASSUME NEW x \in 2 .. 3 PROVE Continues(b[x])
    <3>1. x = 2 \/ x = 3
      OBVIOUS
    <3> QED BY <2>2, <2>3, <3>1, SMT
  <2>6. Size(p) = 3
    BY <2>3 DEF Size, b
  <2>7. p.code \in Nat /\ p.code < 65536 /\ p.bytes \in Seq(0 .. 255) /\ p.bytes[1] \in 192 .. 255
    BY <1>1, <1>4, <2>2, <2>3, SMT DEF c, b
  <2>8. /\ p.bytes[1] = 224 + (p.code \div 4096) /\ p.bytes[2] = 128 + ((p.code \div 64) % 64)
        /\ p.bytes[3] = 128 + (p.code % 64)
    BY <2>3, <2>5, SMT DEF c, b
  <2>9. \A x \in 2 .. Size(p) : Continues(p.bytes[x])
    BY <2>4, <2>6 DEF b
  <2> QED BY <2>6, <2>7, <2>8, <2>9, SMT
<1>5. CASE ~(c < 128) /\ ~(c < 2048) /\ ~(c < 65536)
  <2> DEFINE b1 == 240 + (c \div 262144)
             b2 == 128 + ((c \div 4096) % 64)
             b3 == 128 + ((c \div 64) % 64)
             b4 == 128 + (c % 64)
  <2>1. b = <<b1, b2, b3, b4>>
    BY <1>1, <1>5, SMT DEF Utf8
  <2>2. /\ b1 \in 240 .. 255 /\ b2 \in 0 .. 255 /\ b3 \in 0 .. 255 /\ b4 \in 0 .. 255
        /\ Continues(b2) /\ Continues(b3) /\ Continues(b4)
    BY <1>1, <1>5, SMT DEF Continues
  <2> HIDE DEF b1, b2, b3, b4
  <2>3. b \in Seq(0 .. 255) /\ Len(b) = 4 /\ b[1] = b1 /\ b[2] = b2 /\ b[3] = b3 /\ b[4] = b4
    BY <2>1, <2>2, SMT
  <2>4. ASSUME NEW x \in 2 .. 4 PROVE Continues(b[x])
    <3>1. x = 2 \/ x = 3 \/ x = 4
      OBVIOUS
    <3> QED BY <2>2, <2>3, <3>1, SMT
  <2> QED BY <1>1, <2>2, <2>3, <2>4, SMT DEF Size, c, b
<1> QED BY <1>2, <1>3, <1>4, <1>5, SMT

(* A fragment is shorter than its first byte says. *)
LEMMA FragmentShape ==
    ASSUME NEW p, IsFragment(p)
    PROVE  /\ p.code = -1 /\ p.bytes \in Seq(0 .. 255) /\ Size(p) \in 1 .. 3
           /\ \A x \in 2 .. Size(p) : Continues(p.bytes[x])
           /\ p.bytes[1] \in 128 .. 255
           /\ p.bytes[1] < 224 => Size(p) = 1
           /\ p.bytes[1] < 240 => Size(p) < 3
<1> DEFINE b == p.bytes
           first == b[1]
           needs == IF first < 224 THEN 2 ELSE IF first < 240 THEN 3 ELSE 4
<1>1. /\ p.code = -1 /\ b \in Seq(128 .. 255) /\ Len(b) \in 1 .. needs - 1
      /\ \A x \in 2 .. Len(b) : Continues(b[x])
  BY DEF IsFragment
<1>2. b \in Seq(0 .. 255) /\ Len(b) \in Nat
  <2> HIDE DEF b
  <2>1. 128 .. 255 \subseteq 0 .. 255
    OBVIOUS
  <2> QED BY <1>1, <2>1, SeqMonotonic
<1>3. needs \in 2 .. 4
  OBVIOUS
<1>4. first \in 128 .. 255
  <2>1. 1 \in 1 .. Len(b)
    <3> HIDE DEF b, needs
    <3> QED BY <1>1, <1>2, <1>3
  <2> QED BY <1>1, <2>1, ElementOfSeq
<1>5. Len(b) \in 1 .. 3 /\ (first < 224 => Len(b) = 1) /\ (first < 240 => Len(b) < 3)
  <2>1. Len(b) \in 1 .. needs - 1 /\ first \in 128 .. 255
    BY <1>1, <1>4
  <2> DEFINE l == Len(b)
             f == first
  <2>2. l \in 1 .. (IF f < 224 THEN 2 ELSE IF f < 240 THEN 3 ELSE 4) - 1 /\ f \in 128 .. 255
    BY <2>1
  <2> HIDE DEF l, f
  <2>3. l \in 1 .. 3 /\ (f < 224 => l = 1) /\ (f < 240 => l < 3)
    BY <2>2
  <2> QED BY <2>3 DEF l, f
<1> QED BY <1>1, <1>2, <1>4, <1>5 DEF Size


(* The bytes of a piece. *)
LEMMA PieceShape ==
    ASSUME NEW p \in Pieces
    PROVE  /\ p.bytes \in Seq(0 .. 255) /\ p.bytes \in Seq(Int) /\ Size(p) \in 1 .. 4
           /\ \A x \in 2 .. Size(p) : Continues(p.bytes[x])
<1>1. /\ p.bytes \in Seq(0 .. 255) /\ Size(p) \in 1 .. 4
      /\ \A x \in 2 .. Size(p) : Continues(p.bytes[x])
  <2>1. CASE IsCharacter(p)
    BY <2>1, CharacterShape
  <2>2. CASE IsFragment(p)
    <3>1. Size(p) \in 1 .. 3 => Size(p) \in 1 .. 4
      OBVIOUS
    <3> QED BY <2>2, <3>1, FragmentShape
  <2> QED BY <2>1, <2>2, TextAssumption
<1>2. p.bytes \in Seq(Int)
  <2>1. 0 .. 255 \subseteq Int
    OBVIOUS
  <2> QED BY <1>1, <2>1, SeqMonotonic
<1> QED BY <1>1, <1>2

(* The digits that ConvertToUtf16Be puts out are those of the code. *)
LEMMA DigitIsHex ==
    ASSUME NEW v \in 0 .. 15
    PROVE  HexDigits[v + 1] = ToChar(v) /\ ToChar(v) \in Int
<1> DEFINE t == HexDigits
<1>1. /\ t[1] = 48 /\ t[2] = 49 /\ t[3] = 50 /\ t[4] = 51 /\ t[5] = 52 /\ t[6] = 53 /\ t[7] = 54
      /\ t[8] = 55 /\ t[9] = 56 /\ t[10] = 57 /\ t[11] = 65 /\ t[12] = 66 /\ t[13] = 67
      /\ t[14] = 68 /\ t[15] = 69 /\ t[16] = 70
  BY DEF HexDigits
<1> HIDE DEF t
<1>2. CASE v \in 0 .. 9
  <2>1. \/ v = 0 \/ v = 1 \/ v = 2 \/ v = 3 \/ v = 4 \/ v = 5 \/ v = 6 \/ v = 7 \/ v = 8 \/ v = 9
    BY <1>2
  <2> QED BY <1>1, <2>1 DEF t, ToChar
<1>3. CASE v \in 10 .. 15
  <2>1. \/ v = 10 \/ v = 11 \/ v = 12 \/ v = 13 \/ v = 14 \/ v = 15
    BY <1>3
  <2> QED BY <1>1, <2>1 DEF t, ToChar
<1> QED BY <1>2, <1>3

(* The digits that ConvertToUtf16Be appends are the four hexadecimal digits of the code. *)
LEMMA HexIsDigits ==
    ASSUME NEW c \in Nat, c < 65536
    PROVE  Hex(c) = Digits(c) /\ Digits(c) \in Seq(Int) /\ Len(Digits(c)) = 4 /\ c % 65536 = c
<1> DEFINE v1 == c \div 4096
           v2 == (c \div 256) % 16
           v3 == (c \div 16) % 16
           v4 == c % 16
           w == <<4096, 256, 16, 1>>
<1>1. v1 \in 0 .. 15 /\ v2 \in 0 .. 15 /\ v3 \in 0 .. 15 /\ v4 \in 0 .. 15 /\ c % 65536 = c
  BY SMT
<1>2. (c \div 4096) % 16 = v1 /\ (c \div 1) % 16 = v4
  BY SMT
<1>3. w[1] = 4096 /\ w[2] = 256 /\ w[3] = 16 /\ w[4] = 1
  BY SMT
<1>4. Digits(c) = <<ToChar(v1), ToChar(v2), ToChar(v3), ToChar(v4)>>
  BY SMT DEF Digits
<1>5. Hex(c) = [k \in 1 .. 4 |-> HexDigits[((c \div w[k]) % 16) + 1]]
  BY SMT DEF Hex
<1>6. /\ (c \div w[1]) % 16 = v1 /\ (c \div w[2]) % 16 = v2
      /\ (c \div w[3]) % 16 = v3 /\ (c \div w[4]) % 16 = v4
  <2> HIDE DEF w
  <2> QED BY <1>2, <1>3, SMT
<1> HIDE DEF v1, v2, v3, v4
<1>7. /\ HexDigits[v1 + 1] = ToChar(v1) /\ HexDigits[v2 + 1] = ToChar(v2)
      /\ HexDigits[v3 + 1] = ToChar(v3) /\ HexDigits[v4 + 1] = ToChar(v4)
      /\ ToChar(v1) \in Int /\ ToChar(v2) \in Int /\ ToChar(v3) \in Int /\ ToChar(v4) \in Int
  BY <1>1, DigitIsHex
<1> DEFINE h == Hex(c)
<1> HIDE DEF w
<1>8. h[1] = ToChar(v1) /\ h[2] = ToChar(v2) /\ h[3] = ToChar(v3) /\ h[4] = ToChar(v4)
  <2>1. \A k \in 1 .. 4 : h[k] = HexDigits[((c \div w[k]) % 16) + 1]
    BY <1>5
  <2>2. 1 \in 1 .. 4 /\ 2 \in 1 .. 4 /\ 3 \in 1 .. 4 /\ 4 \in 1 .. 4
    BY SMT
  <2> HIDE DEF h
  <2> QED BY <1>6, <1>7, <2>1, <2>2
<1> DEFINE d == Digits(c)
<1>9. d \in Seq(Int) /\ Len(d) = 4 /\ d[1] = ToChar(v1) /\ d[2] = ToChar(v2)
      /\ d[3] = ToChar(v3) /\ d[4] = ToChar(v4)
  <2> DEFINE x1 == ToChar(v1)
             x2 == ToChar(v2)
             x3 == ToChar(v3)
             x4 == ToChar(v4)
  <2>1. x1 \in Int /\ x2 \in Int /\ x3 \in Int /\ x4 \in Int /\ d = <<x1, x2, x3, x4>>
    BY <1>4, <1>7
  <2> HIDE DEF x1, x2, x3, x4, d
  <2>2. d \in Seq(Int) /\ Len(d) = 4 /\ d[1] = x1 /\ d[2] = x2 /\ d[3] = x3 /\ d[4] = x4
    BY <2>1, SMT
  <2> QED BY <2>2 DEF x1, x2, x3, x4
<1>10. h = [k \in 1 .. 4 |-> h[k]] /\ d = [k \in 1 .. 4 |-> d[k]]
  <2>1. d = [k \in 1 .. Len(d) |-> d[k]]
    <3> HIDE DEF d
    <3> QED BY <1>9
  <2>2. h = [k \in 1 .. 4 |-> h[k]]
    BY <1>5
  <2> HIDE DEF d, h
  <2> QED BY <1>9, <2>1, <2>2
<1>11. ASSUME NEW k \in 1 .. 4 PROVE h[k] = d[k]
  <2> HIDE DEF d, h
  <2>1. k = 1 \/ k = 2 \/ k = 3 \/ k = 4
    BY SMT
  <2> QED BY <1>8, <1>9, <2>1
<1>12. h = d
  <2> HIDE DEF d, h
  <2> QED BY <1>10, <1>11
<1> QED BY <1>1, <1>9, <1>12, SMT DEF h, d

(* The bytes of a code of three bytes. *)
ThreeBytes(c, b1, b2, b3) ==
    b1 = 224 + (c \div 4096) /\ b2 = 128 + ((c \div 64) % 64) /\ b3 = 128 + (c % 64)
(* What ConvertToUtf16Be makes of three such bytes is the code. *)
LEMMA DecodeThree ==
    ASSUME NEW c \in Nat, c < 65536, NEW b1, NEW b2, NEW b3, ThreeBytes(c, b1, b2, b3)
    PROVE  /\ (b1 * 4096 + (b2 % 64) * 64 + (b3 % 64)) % 65536 = c
           /\ b1 \in 224 .. 239
<1>0. b1 = 224 + (c \div 4096) /\ b2 = 128 + ((c \div 64) % 64) /\ b3 = 128 + (c % 64)
  BY SMT DEF ThreeBytes
<1>1. b2 % 64 = (c \div 64) % 64 /\ b3 % 64 = c % 64
  BY <1>0, SMT
<1>2. c = (c \div 4096) * 4096 + ((c \div 64) % 64) * 64 + (c % 64)
  BY <1>0, SMT
<1>3. b1 * 4096 = 14 * 65536 + (c \div 4096) * 4096
  BY <1>0, SMT
<1>4. b1 * 4096 + (b2 % 64) * 64 + (b3 % 64) = 14 * 65536 + c
  BY <1>1, <1>2, <1>3, SMT
<1>5. (14 * 65536 + c) % 65536 = c
  BY SMT
<1>6. b1 \in 224 .. 239
  BY <1>0, SMT
<1> QED BY <1>4, <1>5, <1>6, SMT

(* What a piece should come out as. *)
LEMMA HexOfPiece ==
    ASSUME NEW p \in Pieces
    PROVE  HexOf(p) \in Seq(Int)
<1>1. CASE p.code = -1 \/ Size(p) = 4
  BY <1>1 DEF HexOf
<1>2. CASE ~(p.code = -1 \/ Size(p) = 4)
  <2>1. IsCharacter(p)
    BY <1>2, TextAssumption DEF IsFragment
  <2>2. p.code \in Nat /\ p.code < 65536
    BY <1>2, <2>1, CharacterShape, SMT
  <2>3. Hex(p.code) \in Seq(Int)
    BY <2>2, HexIsDigits, SMT
  <2> QED BY <1>2, <2>3 DEF HexOf
<1> QED BY <1>1, <1>2

-----------------------------------------------------------------------------

(* The bytes of a name and what they should come out as, piece by piece;   *)
(* where the pieces begin and what those before one come out as.           *)
ByteSeqs == [k \in DOMAIN name |-> name[k].bytes]
HexSeqs == [k \in DOMAIN name |-> HexOf(name[k])]
At(k) == Len(Sums(ByteSeqs)[k])
Shown(k) == Sums(HexSeqs)[k]

(* The types. *)
TextTypes ==
    /\ name \in Seq(Pieces)
    /\ phone \in Nat /\ time \in Nat /\ ip \in Nat
    /\ i \in Nat
    /\ strOut \in Seq(Int)

(* The pieces of a name as sequences of bytes and as what should come out of them. *)
LEMMA SequencesOfName ==
    ASSUME name \in Seq(Pieces)
    PROVE  /\ ByteSeqs \in Seq(Seq(Int)) /\ HexSeqs \in Seq(Seq(Int))
           /\ Len(ByteSeqs) = Len(name) /\ Len(HexSeqs) = Len(name) /\ Len(name) \in Nat
           /\ \A k \in 1 .. Len(name) : /\ name[k] \in Pieces
                                        /\ ByteSeqs[k] = name[k].bytes
                                        /\ HexSeqs[k] = HexOf(name[k])
           /\ strIn = FlattenSeq(ByteSeqs)
<1>1. Len(name) \in Nat /\ DOMAIN name = 1 .. Len(name)
  OBVIOUS
<1>2. ASSUME NEW k \in 1 .. Len(name) PROVE name[k] \in Pieces
  BY ElementOfSeq
<1>3. \A k \in 1 .. Len(name) : name[k].bytes \in Seq(Int) /\ HexOf(name[k]) \in Seq(Int)
  BY <1>2, PieceShape, HexOfPiece
<1>4. ByteSeqs \in [1 .. Len(name) -> Seq(Int)] /\ HexSeqs \in [1 .. Len(name) -> Seq(Int)]
  BY <1>1, <1>3 DEF ByteSeqs, HexSeqs
<1>5. /\ ByteSeqs \in Seq(Seq(Int)) /\ HexSeqs \in Seq(Seq(Int))
      /\ Len(ByteSeqs) = Len(name) /\ Len(HexSeqs) = Len(name)
  BY <1>1, <1>4
<1>6. \A k \in 1 .. Len(name) : ByteSeqs[k] = name[k].bytes /\ HexSeqs[k] = HexOf(name[k])
  BY <1>1 DEF ByteSeqs, HexSeqs
<1>7. strIn = FlattenSeq(ByteSeqs)
  BY DEF strIn, ByteSeqs
<1> QED BY <1>1, <1>2, <1>5, <1>6, <1>7

(* The pieces stand one after the other. *)
LEMMA Places ==
    ASSUME name \in Seq(Pieces)
    PROVE  /\ strIn \in Seq(Int) /\ At(0) = 0 /\ At(Len(name)) = Len(strIn)
           /\ \A k \in 0 .. Len(name) : At(k) \in Nat
           /\ \A k \in 0 .. Len(name) - 1 : At(k + 1) = At(k) + Size(name[k + 1])
<1> DEFINE n == Len(name)
           g == Sums(ByteSeqs)
<1>1. /\ n \in Nat /\ g \in [0 .. n -> Seq(Int)] /\ g[0] = <<>> /\ g[n] = strIn
      /\ \A k \in 0 .. n - 1 : g[k + 1] = g[k] \o ByteSeqs[k + 1]
  BY SequencesOfName, SumsExist DEF IsSums
<1>2. ASSUME NEW k \in 0 .. n PROVE g[k] \in Seq(Int) /\ Len(g[k]) \in Nat
  <2>1. g[k] \in Seq(Int)
    BY <1>1
  <2> HIDE DEF g
  <2> QED BY <2>1
<1>3. ASSUME NEW k \in 0 .. n - 1 PROVE Len(g[k + 1]) = Len(g[k]) + Size(name[k + 1])
  <2>1. k + 1 \in 1 .. n /\ k \in 0 .. n
    BY <1>1
  <2>2. ByteSeqs[k + 1] = name[k + 1].bytes /\ ByteSeqs[k + 1] \in Seq(Int)
    BY <2>1, SequencesOfName, ElementOfSeq
  <2> DEFINE a == g[k]
             b == ByteSeqs[k + 1]
  <2>3. a \in Seq(Int) /\ b \in Seq(Int) /\ g[k + 1] = a \o b
    BY <1>1, <1>2, <2>1, <2>2
  <2> HIDE DEF a, b
  <2>4. Len(a \o b) = Len(a) + Len(b)
    BY <2>3
  <2> QED BY <2>2, <2>3, <2>4 DEF a, b, Size
<1>4. Len(g[0]) = 0
  BY <1>1
<1>5. strIn \in Seq(Int) /\ Len(g[n]) = Len(strIn)
  <2>1. n \in 0 .. n
    BY <1>1
  <2> QED BY <1>1, <1>2, <2>1
<1> QED BY <1>2, <1>3, <1>4, <1>5 DEF At

(* A later piece stands behind an earlier one. *)
LEMMA PlacesGrow ==
    ASSUME name \in Seq(Pieces), NEW a \in 0 .. Len(name), NEW b \in 0 .. Len(name), a < b
    PROVE  At(a) < At(b)
<1> DEFINE n == Len(name)
           g == Sums(ByteSeqs)
<1>1. n \in Nat /\ a \in Nat /\ b \in Nat /\ a <= n /\ b <= n
  OBVIOUS
<1> HIDE DEF n
<1>2. a + 1 \in 0 .. n /\ b \in a + 1 .. n /\ a \in 0 .. n - 1 /\ a + 1 \in 1 .. n
  BY <1>1
<1>3. ByteSeqs \in Seq(Seq(Int)) /\ Len(ByteSeqs) = n /\ IsSums(g, ByteSeqs)
      /\ name[a + 1] \in Pieces
  <2> HIDE DEF g
  <2> QED BY <1>2, SequencesOfName, SumsExist DEF g, n
<1>4. At(a + 1) <= At(b)
  <2> HIDE DEF g
  <2>1. Len(g[a + 1]) <= Len(g[b])
    BY <1>2, <1>3, SumsGrow
  <2> QED BY <2>1 DEF At, g
<1>5. /\ At(a + 1) = At(a) + Size(name[a + 1]) /\ At(a) \in Nat /\ At(b) \in Nat
      /\ Size(name[a + 1]) \in 1 .. 4
  BY <1>2, <1>3, Places, PieceShape DEF n
<1> QED BY <1>4, <1>5

(* The bytes of a piece, in the name. *)
LEMMA BytesOfPiece ==
    ASSUME name \in Seq(Pieces), NEW k \in 0 .. Len(name) - 1, NEW x \in 1 .. Size(name[k + 1])
    PROVE  /\ At(k) \in Nat /\ At(k) + x \in 1 .. Len(strIn)
           /\ strIn[At(k) + x] = name[k + 1].bytes[x]
<1> DEFINE n == Len(name)
           g == Sums(ByteSeqs)
           p == name[k + 1]
<1>1. n \in Nat
  OBVIOUS
<1>2. /\ k \in Nat /\ k \in 0 .. n /\ k + 1 \in 0 .. n /\ k + 1 \in 1 .. n
      /\ n \in k + 1 .. n /\ n \in 0 .. n
  BY <1>1
<1>3. p \in Pieces /\ ByteSeqs[k + 1] = p.bytes
  BY <1>2, SequencesOfName
<1>4. /\ At(k) \in Nat /\ At(k + 1) = At(k) + Size(p) /\ At(n) = Len(strIn)
      /\ Size(p) \in 1 .. 4 /\ p.bytes \in Seq(Int)
  BY <1>2, <1>3, Places, PieceShape
<1>5. /\ ByteSeqs \in Seq(Seq(Int)) /\ Len(ByteSeqs) = n /\ IsSums(g, ByteSeqs)
  BY SequencesOfName, SumsExist
<1>6. g[k + 1] = g[k] \o p.bytes /\ g[k] \in Seq(Int) /\ g[n] = strIn
  BY <1>2, <1>3, <1>5, SequencesOfName DEF IsSums
<1>7. Len(g[k + 1]) <= Len(g[n]) /\ \A y \in 1 .. Len(g[k + 1]) : g[n][y] = g[k + 1][y]
  <2> HIDE DEF g, n
  <2> QED BY <1>2, <1>5, SumsGrow
<1>8. At(k) + x \in 1 .. At(k + 1) /\ At(k + 1) <= At(n) /\ At(n) \in Nat
  <2>1. At(k + 1) <= At(n) /\ At(n) \in Nat
    BY <1>2, <1>7, Places DEF At
  <2> DEFINE s == Size(p)
             a == At(k)
  <2>2. a \in Nat /\ s \in 1 .. 4 /\ x \in 1 .. s /\ At(k + 1) = a + s
    BY <1>4
  <2> HIDE DEF s, a
  <2>3. a + x \in 1 .. a + s
    BY <2>2
  <2> QED BY <2>1, <2>2, <2>3 DEF a
<1>9. strIn[At(k) + x] = g[k + 1][At(k) + x]
  BY <1>6, <1>7, <1>8 DEF At
<1>10. g[k + 1][At(k) + x] = p.bytes[x]
  <2> DEFINE s == g[k]
             t == p.bytes
  <2>1. s \in Seq(Int) /\ t \in Seq(Int) /\ x \in 1 .. Len(t) /\ Len(s) = At(k)
    BY <1>4, <1>6 DEF At, Size
  <2> HIDE DEF s, t
  <2>2. (s \o t)[Len(s) + x] = t[x]
    BY <2>1
  <2> QED BY <1>6, <2>1, <2>2 DEF s, t
<1>11. At(k) + x \in 1 .. Len(strIn)
  <2> DEFINE u == At(k) + x
             v == At(k + 1)
             w == At(n)
  <2>1. u \in 1 .. v /\ v <= w /\ w \in Nat /\ v \in Nat
    BY <1>2, <1>8, Places
  <2> HIDE DEF u, v, w
  <2>2. u \in 1 .. w
    BY <2>1
  <2> QED BY <1>4, <2>2 DEF u, w
<1> QED BY <1>4, <1>9, <1>10, <1>11

(* Every byte belongs to a piece. *)
LEMMA PieceAt ==
    ASSUME name \in Seq(Pieces), NEW y \in Nat, y < Len(strIn)
    PROVE  \E k \in 0 .. Len(name) - 1 : \E x \in 1 .. Size(name[k + 1]) : y + 1 = At(k) + x
<1> DEFINE n == Len(name)
           T == {k \in 0 .. n : At(k) <= y}
<1>1. n \in Nat /\ 0 \in 0 .. n
  OBVIOUS
<1>2. At(0) = 0 /\ At(n) = Len(strIn) /\ \A k \in 0 .. n : At(k) \in Nat
  BY Places
<1>3. T # {} /\ T \in SUBSET (0 .. n)
  BY <1>1, <1>2
<1>4. PICK k \in T : \A j \in T : j <= k
  <2> HIDE DEF T, n
  <2> QED BY <1>1, <1>3, GreatestElement
<1>5. k \in 0 .. n /\ At(k) <= y
  OBVIOUS
<1>6. k # n
  <2>1. ~(Len(strIn) <= y)
    <3>1. Len(strIn) \in Nat
      BY <1>1, <1>2
    <3> QED BY <3>1
  <2> QED BY <1>2, <1>5, <2>1
<1> HIDE DEF n
<1>7. k \in 0 .. n - 1 /\ k + 1 \in 0 .. n /\ k + 1 \in 1 .. n /\ ~(k + 1 <= k)
  BY <1>1, <1>5, <1>6
<1>8. ~(At(k + 1) <= y)
  <2>1. k + 1 \notin T
    BY <1>4, <1>7
  <2> QED BY <1>7, <2>1
<1>9. name[k + 1] \in Pieces /\ At(k + 1) = At(k) + Size(name[k + 1])
  BY <1>7, SequencesOfName, Places DEF n
<1>10. At(k) \in Nat /\ Size(name[k + 1]) \in 1 .. 4
  BY <1>2, <1>5, <1>9, PieceShape
<1> DEFINE s == Size(name[k + 1])
           a == At(k)
<1>11. a \in Nat /\ s \in 1 .. 4 /\ a <= y /\ ~(a + s <= y)
  BY <1>5, <1>8, <1>9, <1>10
<1> HIDE DEF s, a
<1>12. y + 1 - a \in 1 .. s /\ y + 1 = a + (y + 1 - a)
  BY <1>11
<1> QED BY <1>7, <1>12 DEF s, a, n

(* What ConvertToUtf16Be sees from a byte on: the rest of the piece, and   *)
(* then the first byte of the next or, past the end, 0.                    *)
LEMMA ByteAt ==
    ASSUME name \in Seq(Pieces), i \in Nat, NEW k \in 0 .. Len(name) - 1,
           NEW x \in 1 .. Size(name[k + 1]), i + 1 = At(k) + x, NEW m \in Nat
    PROVE  /\ x + m <= Size(name[k + 1]) => Byte(m) = name[k + 1].bytes[x + m]
           /\ x + m = Size(name[k + 1]) + 1 =>
                IF k + 1 < Len(name) THEN Byte(m) = name[k + 2].bytes[1] ELSE Byte(m) = 0
<1> DEFINE n == Len(name)
           s == Size(name[k + 1])
           a == At(k)
<1>1. n \in Nat /\ k \in 0 .. n - 1
  OBVIOUS
<1>2. k + 1 \in 1 .. n /\ k \in 0 .. n
  BY <1>1
<1>3. /\ a \in Nat /\ s \in 1 .. 4 /\ At(k + 1) = a + s /\ Len(strIn) \in Nat
      /\ At(n) = Len(strIn)
  <2>1. name[k + 1] \in Pieces
    BY <1>2, SequencesOfName
  <2>2. strIn \in Seq(Int) => Len(strIn) \in Nat
    OBVIOUS
  <2> QED BY <1>2, <2>1, <2>2, PieceShape, Places
<1>4. ASSUME x + m <= s PROVE Byte(m) = name[k + 1].bytes[x + m]
  <2>1. x + m \in 1 .. s
    <3> HIDE DEF s
    <3>1. x \in 1 .. s
      BY DEF s
    <3> QED BY <1>3, <1>4, <3>1
  <2>2. a + (x + m) \in 1 .. Len(strIn) /\ strIn[a + (x + m)] = name[k + 1].bytes[x + m]
    BY <2>1, BytesOfPiece
  <2>3. i + m + 1 = a + (x + m) /\ i + m < Len(strIn)
    <3> HIDE DEF a
    <3>1. i + 1 = a + x
      BY DEF a
    <3>2. x \in Nat
      BY <1>3
    <3> DEFINE l == Len(strIn)
    <3>3. l \in Nat /\ a \in Nat /\ a + (x + m) \in 1 .. l
      BY <1>3, <2>2
    <3> HIDE DEF l
    <3>4. i + m + 1 = a + (x + m) /\ i + m < l
      BY <3>1, <3>2, <3>3
    <3> QED BY <3>4 DEF l
  <2> QED BY <2>2, <2>3 DEF Byte
<1>5. ASSUME x + m = s + 1 PROVE i + m = At(k + 1) /\ i + m + 1 = At(k + 1) + 1
  <2> HIDE DEF a, s
  <2>1. i + 1 = a + x /\ x \in 1 .. s
    BY DEF a, s
  <2> QED BY <1>3, <1>5, <2>1
<1>6. ASSUME x + m = s + 1, k + 1 < n PROVE Byte(m) = name[k + 2].bytes[1]
  <2>1. k + 1 \in 0 .. n - 1 /\ (k + 1) + 1 = k + 2 /\ k + 2 \in 1 .. n
    BY <1>1, <1>6
  <2>2. name[k + 2] \in Pieces
    BY <2>1, SequencesOfName
  <2>3. Size(name[k + 2]) \in 1 .. 4 /\ 1 \in 1 .. Size(name[k + 2])
    BY <2>2, PieceShape
  <2>4. /\ At(k + 1) \in Nat /\ At(k + 1) + 1 \in 1 .. Len(strIn)
        /\ strIn[At(k + 1) + 1] = name[k + 2].bytes[1]
    BY <2>1, <2>3, BytesOfPiece
  <2>5. At(k + 1) < Len(strIn)
    BY <1>3, <2>4
  <2> QED BY <1>5, <1>6, <2>4, <2>5 DEF Byte
<1>7. ASSUME x + m = s + 1, ~(k + 1 < n) PROVE Byte(m) = 0
  <2>1. k + 1 = n
    BY <1>1, <1>7
  <2>2. ~(i + m < Len(strIn))
    BY <1>3, <1>5, <1>7, <2>1
  <2> QED BY <2>2 DEF Byte
<1> QED BY <1>4, <1>6, <1>7

(* A byte that begins something is not one that continues it. *)
LEMMA LeadByte ==
    ASSUME NEW b \in 0 .. 255
    PROVE  /\ Continues(b) <=> b \in 128 .. 191
           /\ b \div 32 = 6 <=> b \in 192 .. 223
           /\ b \div 16 = 14 <=> b \in 224 .. 239
  BY DEF Continues

(* No more characters have come out than pieces have begun. *)
CharsInv ==
    \E k \in 0 .. Len(name) : Len(strOut) <= 4 * k /\ (k = 0 \/ At(k - 1) < i)

(* The pieces before the place ConvertToUtf16Be is at have come out as     *)
(* they should; it is at the beginning of a piece or inside one that does  *)
(* not come out.                                                           *)
Dropped(p) == p.code = -1 \/ Size(p) = 4
DecodeInv ==
    Regular => \E k \in 0 .. Len(name) :
        /\ strOut = Shown(k)
        /\ \/ i = At(k)
           \/ k < Len(name) /\ Dropped(name[k + 1]) /\ At(k) < i /\ i < At(k + 1)

(* What is said of the name stays with it. *)
LEMMA SameName ==
    ASSUME name' = name
    PROVE  /\ ByteSeqs' = ByteSeqs /\ HexSeqs' = HexSeqs /\ strIn' = strIn
           /\ Regular' = Regular
           /\ \A k : At(k)' = At(k) /\ Shown(k)' = Shown(k)
  BY DEF ByteSeqs, HexSeqs, strIn, Regular, At, Shown

(* The bytes are numbers. *)
LEMMA ByteType ==
    ASSUME TextTypes, NEW k \in Nat
    PROVE  Byte(k) \in Int
<1>1. strIn \in Seq(Int) /\ i \in Nat
  BY Places DEF TextTypes
<1>2. CASE i + k < Len(strIn)
  <2>1. i + k + 1 \in 1 .. Len(strIn)
    BY <1>1, <1>2
  <2>2. strIn[i + k + 1] \in Int
    BY <1>1, <2>1, ElementOfSeq
  <2> QED BY <1>2, <2>2 DEF Byte
<1>3. CASE ~(i + k < Len(strIn))
  BY <1>3 DEF Byte
<1> QED BY <1>2, <1>3

(* A turn puts out four digits for a byte that begins something, or        *)
(* nothing.                                                                *)
LEMMA ConvertTurn ==
    ASSUME TextTypes, ConvertToUtf16Be
    PROVE  /\ i' \in Nat /\ i < i' /\ strOut' \in Seq(Int)
           /\ \/ strOut' = strOut
              \/ Len(strOut') = Len(strOut) + 4 /\ (OneByte \/ TwoByte \/ ThreeByte)
<1> DEFINE b0 == Byte(0)
           b1 == Byte(1)
           b2 == Byte(2)
<1>1. i \in Nat /\ strOut \in Seq(Int) /\ b0 \in Int /\ b1 \in Int /\ b2 \in Int
  BY ByteType DEF TextTypes
<1> HIDE DEF b0, b1, b2
<1>2. ASSUME NEW n \in 1 .. 3, NEW code \in Int, Take(n, code)
      PROVE  i' \in Nat /\ i < i' /\ strOut' \in Seq(Int) /\ Len(strOut') = Len(strOut) + 4
  <2> DEFINE c == code % 65536
  <2>1. c \in Nat /\ c < 65536
    BY SMT
  <2> HIDE DEF c
  <2>2. Digits(c) \in Seq(Int) /\ Len(Digits(c)) = 4
    BY <2>1, HexIsDigits
  <2>3. strOut' = strOut \o Digits(c) /\ i' = i + n
    BY <1>2, SMT DEF Take, c
  <2> DEFINE d == Digits(c)
  <2>0. d \in Seq(Int) /\ Len(d) = 4
    BY <2>2
  <2> HIDE DEF d
  <2>4. strOut \o d \in Seq(Int) /\ Len(strOut \o d) = Len(strOut) + 4
    <3>1. ASSUME NEW s \in Seq(Int), NEW t \in Seq(Int)
          PROVE  s \o t \in Seq(Int) /\ Len(s \o t) = Len(s) + Len(t)
      OBVIOUS
    <3> QED BY <1>1, <2>0, <3>1
  <2> QED BY <1>1, <2>3, <2>4, SMT DEF d
<1>3. CASE OneByte /\ Take(1, b0)
  <2>1. 1 \in 1 .. 3
    OBVIOUS
  <2> QED BY <1>1, <1>2, <1>3, <2>1
<1>4. CASE TwoByte /\ Take(2, b0 * 64 + (b1 % 64))
  <2>1. 2 \in 1 .. 3 /\ b0 * 64 + (b1 % 64) \in Int
    BY <1>1
  <2> QED BY <1>2, <1>4, <2>1
<1>5. CASE ThreeByte /\ Take(3, b0 * 4096 + (b1 % 64) * 64 + (b2 % 64))
  <2>1. 3 \in 1 .. 3 /\ b0 * 4096 + (b1 % 64) * 64 + (b2 % 64) \in Int
    BY <1>1, SMT
  <2> QED BY <1>2, <1>5, <2>1, SMT
<1>6. CASE i' = i + Skipped /\ UNCHANGED strOut
  BY <1>1, <1>6 DEF Skipped
<1> QED BY <1>3, <1>4, <1>5, <1>6, SMT DEF ConvertToUtf16Be, b0, b1, b2

(* It keeps the count. *)
LEMMA ConvertCount ==
    ASSUME TextTypes, CharsInv, ConvertToUtf16Be
    PROVE  CharsInv'
<1> DEFINE n == Len(name)
<1>0. name' = name /\ i < Len(strIn) /\ name \in Seq(Pieces) /\ i \in Nat /\ strOut \in Seq(Int)
  BY SMT DEF ConvertToUtf16Be, inVars, TextTypes
<1>1. n \in Nat /\ Len(strOut) \in Nat
  BY <1>0
<1>2. /\ i' \in Nat /\ i < i' /\ strOut' \in Seq(Int)
      /\ \/ strOut' = strOut
         \/ Len(strOut') = Len(strOut) + 4 /\ (OneByte \/ TwoByte \/ ThreeByte)
  BY ConvertTurn
<1>3. \A k : At(k)' = At(k)
  BY <1>0, SameName
<1>4. PICK k \in 0 .. n : Len(strOut) <= 4 * k /\ (k = 0 \/ At(k - 1) < i)
  BY DEF CharsInv
<1>5. \A j \in 0 .. n : At(j) \in Nat
  BY <1>0, Places
<1>6. CASE strOut' = strOut
  <2>1. k = 0 \/ At(k - 1) < i'
    <3>1. CASE k # 0
      <4>1. k - 1 \in 0 .. n
        BY <1>1, <3>1
      <4>2. At(k - 1) \in Nat /\ At(k - 1) < i
        BY <1>4, <1>5, <3>1, <4>1
      <4> QED BY <1>0, <1>2, <4>2
    <3> QED BY <3>1
  <2> QED BY <1>0, <1>3, <1>4, <1>6, <2>1 DEF CharsInv
<1>7. CASE Len(strOut') = Len(strOut) + 4 /\ (OneByte \/ TwoByte \/ ThreeByte)
  <2>1. PICK j \in 0 .. n - 1 : \E x \in 1 .. Size(name[j + 1]) : i + 1 = At(j) + x
    BY <1>0, PieceAt
  <2>2. PICK x \in 1 .. Size(name[j + 1]) : i + 1 = At(j) + x
    BY <2>1
  <2> DEFINE p == name[j + 1]
  <2>3. j + 1 \in 1 .. n /\ j \in 0 .. n /\ j + 1 \in 0 .. n /\ (j + 1) - 1 = j
    BY <1>1
  <2>4. p \in Pieces
    BY <1>0, <2>3, SequencesOfName
  <2>5. /\ p.bytes \in Seq(0 .. 255) /\ Size(p) \in 1 .. 4
        /\ \A z \in 2 .. Size(p) : Continues(p.bytes[z])
    BY <2>4, PieceShape
  <2>6. Byte(0) = p.bytes[x]
    <3>1. x + 0 = x /\ x + 0 <= Size(p) /\ 0 \in Nat
      BY <2>5
    <3> QED BY <1>0, <2>2, <3>1, ByteAt
  <2>7. p.bytes[x] \in 0 .. 255
    <3>1. x \in 1 .. Len(p.bytes)
      BY DEF Size
    <3> QED BY <2>5, <3>1, ElementOfSeq
  <2>8. ~Continues(Byte(0))
    <3> DEFINE b == Byte(0)
    <3>1. b \in 0 .. 255 /\ (b < 128 \/ b \div 32 = 6 \/ b \div 16 = 14)
      <4>1. b < 128 \/ b \div 32 = 6 \/ b \div 16 = 14
        BY <1>7 DEF OneByte, TwoByte, ThreeByte
      <4>2. b \in 0 .. 255
        BY <2>6, <2>7, Zenon
      <4> HIDE DEF b
      <4> QED BY <4>1, <4>2
    <3> HIDE DEF b
    <3>3. ~Continues(b)
      BY <3>1 DEF Continues
    <3> QED BY <3>3 DEF b
  <2>9. x = 1
    <3>1. x \notin 2 .. Size(p)
      BY <2>5, <2>6, <2>8
    <3> QED BY <2>5, <3>1
  <2>10. i = At(j)
    BY <1>0, <1>5, <2>2, <2>3, <2>9
  <2>11. k <= j
    <3>1. CASE k # 0
      <4>1. k - 1 \in 0 .. n /\ At(k - 1) < At(j)
        BY <1>1, <1>4, <2>10, <3>1
      <4>2. ~(j < k - 1) /\ j # k - 1
        <5>1. ASSUME j < k - 1 PROVE FALSE
          <6>1. At(j) < At(k - 1)
            BY <1>0, <2>3, <4>1, <5>1, PlacesGrow
          <6> QED BY <1>5, <2>3, <4>1, <6>1
        <5>2. ASSUME j = k - 1 PROVE FALSE
          BY <1>5, <2>3, <4>1, <5>2
        <5> QED BY <5>1, <5>2
      <4> QED BY <1>1, <4>2
    <3> QED BY <1>1, <3>1
  <2>12. Len(strOut') <= 4 * (j + 1)
    BY <1>1, <1>4, <1>7, <2>11
  <2>13. At((j + 1) - 1) < i'
    BY <1>2, <2>3, <2>10
  <2> QED BY <1>0, <1>3, <2>3, <2>12, <2>13 DEF CharsInv
<1> QED BY <1>2, <1>6, <1>7

(* What the pieces should come out as, piece by piece. *)
LEMMA Outs ==
    ASSUME name \in Seq(Pieces)
    PROVE  /\ Shown(0) = <<>> /\ Shown(Len(name)) = FlattenSeq(HexSeqs)
           /\ \A k \in 0 .. Len(name) - 1 :
                 Shown(k + 1) = Shown(k) \o HexOf(name[k + 1]) /\ Shown(k) \in Seq(Int)
<1> DEFINE n == Len(name)
           g == Sums(HexSeqs)
<1>1. /\ n \in Nat /\ g \in [0 .. n -> Seq(Int)] /\ g[0] = <<>> /\ g[n] = FlattenSeq(HexSeqs)
      /\ \A k \in 0 .. n - 1 : g[k + 1] = g[k] \o HexSeqs[k + 1]
  BY SequencesOfName, SumsExist DEF IsSums
<1>2. ASSUME NEW k \in 0 .. n - 1
      PROVE  g[k + 1] = g[k] \o HexOf(name[k + 1]) /\ g[k] \in Seq(Int)
  <2>1. k + 1 \in 1 .. n /\ k \in 0 .. n
    BY <1>1
  <2>2. HexSeqs[k + 1] = HexOf(name[k + 1])
    BY <2>1, SequencesOfName
  <2> HIDE DEF g
  <2> QED BY <1>1, <2>1, <2>2
<1> QED BY <1>1, <1>2 DEF Shown

(* The three cases of a turn that puts something out exclude each other,   *)
(* so that a turn is determined by the bytes it sees.                      *)
LEMMA TurnByByte ==
    ASSUME TextTypes, ConvertToUtf16Be, Byte(0) \in 0 .. 255
    PROVE  /\ name' = name
           /\ OneByte => Take(1, Byte(0))
           /\ ThreeByte =>
                 Take(3, Byte(0) * 4096 + (Byte(1) % 64) * 64 + (Byte(2) % 64))
           /\ ~OneByte /\ ~TwoByte /\ ~ThreeByte => i' = i + 1 /\ strOut' = strOut
<1> DEFINE b == Byte(0)
           c2 == b * 64 + (Byte(1) % 64)
           c3 == b * 4096 + (Byte(1) % 64) * 64 + (Byte(2) % 64)
<1>1. ~(OneByte /\ TwoByte) /\ ~(OneByte /\ ThreeByte) /\ ~(TwoByte /\ ThreeByte)
  <2>1. b \in 0 .. 255
    OBVIOUS
  <2> HIDE DEF b
  <2>2. /\ ~(b < 128 /\ b \div 32 = 6) /\ ~(b < 128 /\ b \div 16 = 14)
        /\ ~(b \div 32 = 6 /\ b \div 16 = 14)
    BY <2>1
  <2> QED BY <2>2 DEF OneByte, TwoByte, ThreeByte, b
<1>2. /\ name' = name
      /\ \/ OneByte /\ Take(1, b)
         \/ TwoByte /\ Take(2, c2)
         \/ ThreeByte /\ Take(3, c3)
         \/ ~OneByte /\ ~TwoByte /\ ~ThreeByte /\ i' = i + 1 /\ strOut' = strOut
  BY SMT DEF ConvertToUtf16Be, inVars, Skipped
<1> HIDE DEF b, c2, c3
<1>3. /\ OneByte => Take(1, b)
      /\ ThreeByte => Take(3, c3)
      /\ ~OneByte /\ ~TwoByte /\ ~ThreeByte => i' = i + 1 /\ strOut' = strOut
  BY <1>1, <1>2
<1> QED BY <1>2, <1>3, SMT DEF b, c3

(* A byte that is passed over, of a piece that does not come out. *)
LEMMA SkipDecode ==
    ASSUME TextTypes, name' = name, i' = i + 1, strOut' = strOut,
           NEW k \in 0 .. Len(name) - 1, Dropped(name[k + 1]), strOut = Shown(k),
           At(k) <= i, i < At(k + 1)
    PROVE  DecodeInv'
<1> DEFINE n == Len(name)
<1>1. n \in Nat /\ name \in Seq(Pieces) /\ i \in Nat /\ strOut \in Seq(Int)
  BY DEF TextTypes
<1>2. k \in 0 .. n - 1 /\ k \in 0 .. n /\ k + 1 \in 0 .. n /\ k < n
  BY <1>1
<1>3. At(k) \in Nat /\ At(k + 1) \in Nat
  BY <1>1, <1>2, Places
<1>4. Shown(k + 1) = Shown(k)
  <2>1. HexOf(name[k + 1]) = <<>>
    BY DEF HexOf, Dropped
  <2>2. Shown(k + 1) = Shown(k) \o <<>> /\ Shown(k) \in Seq(Int)
    BY <1>1, <1>2, <2>1, Outs
  <2>3. ASSUME NEW s \in Seq(Int) PROVE s \o <<>> = s
    OBVIOUS
  <2> QED BY <2>2, <2>3
<1>5. \A j : At(j)' = At(j) /\ Shown(j)' = Shown(j)
  BY SameName
<1>6. CASE i + 1 = At(k + 1)
  BY <1>2, <1>4, <1>5, <1>6 DEF DecodeInv
<1>7. CASE i + 1 # At(k + 1)
  <2>1. At(k) < i + 1 /\ i + 1 < At(k + 1)
    BY <1>1, <1>3, <1>7
  <2>2. Dropped(name[k + 1])'
    BY DEF Dropped, Size
  <2>3. \E j \in 0 .. Len(name') :
           /\ strOut' = Shown(j)'
           /\ j < Len(name') /\ Dropped(name[j + 1])' /\ At(j)' < i' /\ i' < At(j + 1)'
    BY <1>2, <1>5, <2>1, <2>2
  <2> QED BY <2>3 DEF DecodeInv
<1> QED BY <1>6, <1>7

(* The byte after a fragment continues nothing: there is none, or it is    *)
(* the first of a character.                                               *)
LEMMA AfterFragment ==
    ASSUME TextTypes, Regular, NEW k \in 0 .. Len(name) - 1, name[k + 1].code = -1, i = At(k),
           NEW m \in Nat, 1 + m = Size(name[k + 1]) + 1
    PROVE  ~Continues(Byte(m))
<1> DEFINE n == Len(name)
<1>1. n \in Nat /\ name \in Seq(Pieces) /\ i \in Nat
  BY DEF TextTypes
<1>2. k + 1 \in 1 .. n
  BY <1>1
<1>3. name[k + 1] \in Pieces
  BY <1>1, <1>2, SequencesOfName
<1>4. 1 \in 1 .. Size(name[k + 1])
  BY <1>3, PieceShape
<1>5. IF k + 1 < n THEN Byte(m) = name[k + 2].bytes[1] ELSE Byte(m) = 0
  BY <1>1, <1>4, ByteAt
<1>6. CASE k + 1 < n
  <2>1. k + 1 \in 1 .. n - 1 /\ (k + 1) + 1 = k + 2 /\ k + 2 \in 1 .. n
    BY <1>1, <1>6
  <2>2. name[k + 2].code # -1
    BY <2>1 DEF Regular
  <2>3. name[k + 2] \in Pieces
    BY <1>1, <2>1, SequencesOfName
  <2> DEFINE p == name[k + 2]
             b == p.bytes[1]
  <2>0. p \in Pieces /\ p.code # -1
    BY <2>2, <2>3
  <2> HIDE DEF p
  <2>4. IsCharacter(p)
    BY <2>0, TextAssumption DEF IsFragment
  <2>5. b < 128 \/ b \in 192 .. 255
    BY <2>4, CharacterShape, SMT
  <2>6. b \in Int
    <3>1. p.bytes \in Seq(Int) /\ Size(p) \in 1 .. 4
      BY <2>0, PieceShape
    <3>2. 1 \in 1 .. Len(p.bytes)
      <4> DEFINE l == Size(p)
      <4>1. l \in 1 .. 4
        BY <3>1
      <4> HIDE DEF l
      <4>2. 1 \in 1 .. l
        BY <4>1
      <4> QED BY <4>2 DEF l, Size
    <3> QED BY <3>1, <3>2, ElementOfSeq
  <2> HIDE DEF b
  <2>7. ~Continues(b)
    BY <2>5, <2>6 DEF Continues
  <2> QED BY <1>5, <1>6, <2>7 DEF b, p
<1>7. CASE ~(k + 1 < n)
  BY <1>5, <1>7 DEF Continues
<1> QED BY <1>6, <1>7

(* Nothing comes out at the first byte of a piece that is to be left out,  *)
LEMMA DroppedAtFirst ==
    ASSUME TextTypes, Regular, NEW k \in 0 .. Len(name) - 1, Dropped(name[k + 1]), i = At(k)
    PROVE  ~OneByte /\ ~TwoByte /\ ~ThreeByte
<1> DEFINE p == name[k + 1]
           b == Byte(0)
<1>1. name \in Seq(Pieces) /\ i \in Nat /\ Len(name) \in Nat
  BY DEF TextTypes
<1>2. p \in Pieces
  <2>1. k + 1 \in 1 .. Len(name)
    BY <1>1
  <2> QED BY <1>1, <2>1, SequencesOfName
<1>3. b = p.bytes[1]
  <2>1. Size(p) \in 1 .. 4
    BY <1>2, PieceShape
  <2>2. 1 \in 1 .. Size(p) /\ 1 + 0 <= Size(p) /\ 1 + 0 = 1 /\ 0 \in Nat
    BY <2>1
  <2> QED BY <1>1, <2>2, ByteAt
<1>4. CASE p.code = -1
  <2>1. IsFragment(p)
    <3> HIDE DEF p
    <3> QED BY <1>2, <1>4, TextAssumption, SMT DEF IsCharacter
  <2>2. /\ b \in 128 .. 255 /\ Size(p) \in 1 .. 3
        /\ b < 224 => Size(p) = 1
        /\ b < 240 => Size(p) < 3
    <3> HIDE DEF p
    <3>1. /\ p.bytes[1] \in 128 .. 255 /\ Size(p) \in 1 .. 3
          /\ p.bytes[1] < 224 => Size(p) = 1
          /\ p.bytes[1] < 240 => Size(p) < 3
      BY <2>1, FragmentShape
    <3> QED BY <1>3, <3>1
  <2>3. /\ Size(p) = 1 => ~Continues(Byte(1))
        /\ Size(p) = 2 => ~Continues(Byte(2))
    <3>1. ASSUME Size(p) = 1 PROVE ~Continues(Byte(1))
      BY <1>4, <3>1, AfterFragment
    <3>2. ASSUME Size(p) = 2 PROVE ~Continues(Byte(2))
      BY <1>4, <3>2, AfterFragment
    <3> QED BY <3>1, <3>2
  <2> DEFINE s == Size(p)
  <2>4. s \in 1 .. 3 /\ (b < 224 => s = 1) /\ (b < 240 => s < 3)
    BY <2>2
  <2> HIDE DEF b, s
  <2>5. /\ ~(b < 128) /\ (b \div 32 = 6 => s = 1)
        /\ b \div 16 = 14 => s = 1 \/ s = 2
    BY <2>2, <2>4
  <2> QED BY <2>3, <2>5 DEF OneByte, TwoByte, ThreeByte, b, s
<1>5. CASE p.code # -1 /\ Size(p) = 4
  <2>1. IsCharacter(p)
    <3> HIDE DEF p
    <3> QED BY <1>2, <1>5, TextAssumption DEF IsFragment
  <2>2. b \in 240 .. 255
    <3> HIDE DEF p
    <3>1. p.bytes[1] \in 240 .. 255
      BY <1>5, <2>1, CharacterShape, SMT
    <3> QED BY <1>3, <3>1
  <2> HIDE DEF b
  <2>3. ~(b < 128) /\ b \div 32 # 6 /\ b \div 16 # 14
    BY <2>2
  <2> QED BY <2>3 DEF OneByte, TwoByte, ThreeByte, b
<1> QED BY <1>4, <1>5 DEF Dropped

(* nor at a later one. *)
LEMMA NothingInside ==
    ASSUME TextTypes, NEW k \in 0 .. Len(name) - 1, At(k) < i, i < At(k + 1)
    PROVE  ~OneByte /\ ~TwoByte /\ ~ThreeByte /\ Byte(0) \in 0 .. 255
<1> DEFINE p == name[k + 1]
           a == At(k)
           x == i + 1 - a
           s == Size(p)
           b == Byte(0)
<1>1. name \in Seq(Pieces) /\ i \in Nat /\ Len(name) \in Nat
  BY DEF TextTypes
<1>2. p \in Pieces /\ At(k + 1) = a + s /\ a \in Nat
  <2>1. k + 1 \in 1 .. Len(name) /\ k \in 0 .. Len(name)
    BY <1>1
  <2> QED BY <1>1, <2>1, SequencesOfName, Places
<1>3. /\ s \in 1 .. 4 /\ p.bytes \in Seq(0 .. 255)
      /\ \A z \in 2 .. s : Continues(p.bytes[z])
  BY <1>2, PieceShape
<1>4. a < i /\ i < a + s
  BY <1>2
<1> HIDE DEF a, s
<1>5. x \in 2 .. s /\ x \in 1 .. s /\ x + 0 <= s /\ x + 0 = x /\ i + 1 = a + x
  BY <1>1, <1>2, <1>3, <1>4
<1>6. b = p.bytes[x]
  <2> HIDE DEF x
  <2>1. x \in 1 .. Size(name[k + 1]) /\ i + 1 = At(k) + x /\ 0 \in Nat /\ x + 0 <= Size(name[k + 1])
    BY <1>5 DEF a, s
  <2>2. Byte(0) = name[k + 1].bytes[x + 0]
    BY <1>1, <2>1, ByteAt
  <2> QED BY <1>5, <2>2
<1>7. b \in 0 .. 255 /\ Continues(b)
  <2> HIDE DEF x, p
  <2>1. x \in 1 .. Len(p.bytes)
    BY <1>5 DEF s, Size
  <2>2. p.bytes[x] \in 0 .. 255
    BY <1>3, <2>1, ElementOfSeq
  <2>3. Continues(p.bytes[x])
    BY <1>3, <1>5
  <2> QED BY <1>6, <2>2, <2>3
<1> HIDE DEF b
<1>8. ~(b < 128) /\ b \div 32 # 6 /\ b \div 16 # 14
  BY <1>7 DEF Continues
<1> QED BY <1>7, <1>8 DEF OneByte, TwoByte, ThreeByte, b

(* A character of one or three bytes comes out as its code. *)
LEMMA CharacterDecode ==
    ASSUME TextTypes, ConvertToUtf16Be, NEW k \in 0 .. Len(name) - 1, i = At(k), strOut = Shown(k),
           ~Dropped(name[k + 1]), Size(name[k + 1]) # 2
    PROVE  strOut' = Shown(k + 1) /\ i' = At(k + 1) /\ name' = name
<1> DEFINE p == name[k + 1]
           c == p.code
           b == Byte(0)
<1>1. name \in Seq(Pieces) /\ i \in Nat /\ Len(name) \in Nat /\ strOut \in Seq(Int)
  BY DEF TextTypes
<1>2. p \in Pieces /\ At(k + 1) = i + Size(p) /\ Shown(k + 1) = strOut \o HexOf(p)
  <2>1. k + 1 \in 1 .. Len(name)
    BY <1>1
  <2> QED BY <1>1, <2>1, SequencesOfName, Places, Outs
<1>3. p.code # -1 /\ Size(p) # 4 /\ Size(p) # 2
  BY DEF Dropped
<1> HIDE DEF p
<1>4. IsCharacter(p)
  BY <1>2, <1>3, TextAssumption DEF IsFragment
<1>5. c \in Nat /\ c < 65536
  BY <1>3, <1>4, CharacterShape, SMT
<1>6. HexOf(p) = Digits(c) /\ c % 65536 = c
  <2>1. Hex(c) = Digits(c) /\ c % 65536 = c
    <3> HIDE DEF c
    <3> QED BY <1>5, HexIsDigits, SMT
  <2> QED BY <1>3, <2>1, SMT DEF HexOf
<1>7. Size(p) \in 1 .. 4 /\ p.bytes \in Seq(0 .. 255)
  BY <1>2, PieceShape
<1>8. ASSUME NEW m \in 0 .. Size(p) - 1 PROVE Byte(m) = p.bytes[m + 1] /\ Byte(m) \in 0 .. 255
  <2> DEFINE l == Size(p)
  <2>0. l \in 1 .. 4 /\ m \in 0 .. l - 1
    BY <1>7
  <2> HIDE DEF l
  <2>1. 1 \in 1 .. l /\ m \in Nat /\ 1 + m <= l /\ 1 + m = m + 1 /\ m + 1 \in 1 .. l
    BY <2>0
  <2>2. Byte(m) = p.bytes[m + 1]
    <3>1. /\ 1 \in 1 .. Size(name[k + 1]) /\ 1 + m <= Size(name[k + 1])
          /\ m \in Nat /\ i + 1 = At(k) + 1
      BY <2>1 DEF l, p
    <3>2. Byte(m) = name[k + 1].bytes[1 + m]
      BY <1>1, <3>1, ByteAt
    <3> QED BY <2>1, <3>2 DEF p
  <2>3. p.bytes[m + 1] \in 0 .. 255
    <3>1. m + 1 \in 1 .. Len(p.bytes)
      BY <2>1 DEF l, Size
    <3> QED BY <1>7, <3>1, ElementOfSeq
  <2> QED BY <2>2, <2>3
<1>9. b = p.bytes[1] /\ b \in 0 .. 255
  <2>1. 0 \in 0 .. Size(p) - 1 /\ 0 + 1 = 1
    BY <1>7
  <2> QED BY <1>8, <2>1
<1>10. CASE Size(p) = 1
  <2>1. b = c /\ b < 128
    BY <1>4, <1>9, <1>10, CharacterShape, SMT
  <2>2. Take(1, b) /\ name' = name
    BY <1>9, <2>1, TurnByByte, SMT DEF OneByte
  <2>3. strOut' = strOut \o Digits(b % 65536) /\ i' = i + 1
    BY <2>2, SMT DEF Take
  <2> HIDE DEF b, c
  <2> QED BY <1>2, <1>6, <1>10, <2>1, <2>2, <2>3, SMT DEF p
<1>11. CASE Size(p) = 3
  <2> DEFINE b1 == Byte(1)
             b2 == Byte(2)
             code == b * 4096 + (b1 % 64) * 64 + (b2 % 64)
  <2>1. b1 = p.bytes[2] /\ b2 = p.bytes[3]
    <3>1. 1 \in 0 .. Size(p) - 1 /\ 2 \in 0 .. Size(p) - 1 /\ 1 + 1 = 2 /\ 2 + 1 = 3
      BY <1>11
    <3> QED BY <1>8, <3>1
  <2>2. b = 224 + (c \div 4096) /\ b1 = 128 + ((c \div 64) % 64) /\ b2 = 128 + (c % 64)
    BY <1>4, <1>9, <1>11, <2>1, CharacterShape, SMT
  <2>3. Continues(b1) /\ Continues(b2)
    <3>1. 2 \in 2 .. Size(p) /\ 3 \in 2 .. Size(p)
      BY <1>11
    <3> QED BY <1>2, <2>1, <3>1, PieceShape
  <2>4. code % 65536 = c /\ b \in 224 .. 239
    <3> HIDE DEF b, b1, b2, c
    <3>1. ThreeBytes(c, b, b1, b2)
      BY <2>2, SMT DEF ThreeBytes
    <3> QED BY <1>5, <3>1, DecodeThree, SMT
  <2>5. ThreeByte
    <3>1. b \div 16 = 14
      <4> HIDE DEF b
      <4> QED BY <2>4
    <3> QED BY <2>3, <3>1 DEF ThreeByte
  <2>6. Take(3, code) /\ name' = name
    BY <1>9, <2>5, TurnByByte, SMT
  <2> HIDE DEF code, b, b1, b2
  <2>7. strOut' = strOut \o Digits(code % 65536) /\ i' = i + 3
    BY <2>6, SMT DEF Take
  <2> HIDE DEF c
  <2> QED BY <1>2, <1>6, <1>11, <2>4, <2>6, <2>7, SMT DEF p
<1> QED BY <1>3, <1>7, <1>10, <1>11

(* A turn keeps what has been decoded. *)
LEMMA ConvertDecode ==
    ASSUME TextTypes, DecodeInv, ConvertToUtf16Be
    PROVE  DecodeInv'
<1> DEFINE n == Len(name)
<1>1. name \in Seq(Pieces) /\ i \in Nat /\ n \in Nat /\ strOut \in Seq(Int)
  BY DEF TextTypes
<1>2. name' = name /\ i < Len(strIn)
  BY SMT DEF ConvertToUtf16Be, inVars
<1>3. SUFFICES ASSUME Regular PROVE DecodeInv'
  BY <1>2, SameName DEF DecodeInv
<1>4. PICK k \in 0 .. n :
        /\ strOut = Shown(k)
        /\ \/ i = At(k)
           \/ k < n /\ Dropped(name[k + 1]) /\ At(k) < i /\ i < At(k + 1)
  BY <1>3 DEF DecodeInv
<1>5. CASE i = At(k)
  <2>1. k # n
    <3>1. At(n) = Len(strIn) /\ strIn \in Seq(Int)
      BY <1>1, Places
    <3>2. Len(strIn) \in Nat
      BY <3>1
    <3> QED BY <1>1, <1>2, <1>5, <3>1, <3>2
  <2>2. k \in 0 .. n - 1 /\ k + 1 \in 1 .. n /\ k + 1 \in 0 .. n
    BY <1>1, <2>1
  <2>3. CASE Dropped(name[k + 1])
    <3>1. name[k + 1] \in Pieces /\ At(k + 1) = At(k) + Size(name[k + 1])
      BY <1>1, <2>2, SequencesOfName, Places
    <3>2. Size(name[k + 1]) \in 1 .. 4
      BY <3>1, PieceShape
    <3>3. ~OneByte /\ ~TwoByte /\ ~ThreeByte
      BY <1>3, <1>5, <2>2, <2>3, DroppedAtFirst
    <3>4. i' = i + 1 /\ strOut' = strOut
      BY <3>3, SMT DEF ConvertToUtf16Be, Skipped
    <3>5. At(k) <= i /\ i < At(k + 1)
      BY <1>1, <1>5, <3>1, <3>2
    <3> QED BY <1>2, <1>4, <2>2, <2>3, <3>4, <3>5, SkipDecode
  <2>4. CASE ~Dropped(name[k + 1])
    <3>1. Size(name[k + 1]) # 2
      BY <1>1, <1>3, <2>2, <2>4 DEF Regular, Dropped
    <3>2. strOut' = Shown(k + 1) /\ i' = At(k + 1)
      BY <1>4, <1>5, <2>2, <2>4, <3>1, CharacterDecode
    <3>3. \A j : At(j)' = At(j) /\ Shown(j)' = Shown(j)
      BY <1>2, SameName
    <3> QED BY <1>2, <2>2, <3>2, <3>3 DEF DecodeInv
  <2> QED BY <2>3, <2>4
<1>6. CASE k < n /\ Dropped(name[k + 1]) /\ At(k) < i /\ i < At(k + 1)
  <2>1. k \in 0 .. n - 1 /\ k \in 0 .. n
    BY <1>1, <1>6
  <2>2. ~OneByte /\ ~TwoByte /\ ~ThreeByte
    BY <1>6, <2>1, NothingInside
  <2>3. i' = i + 1 /\ strOut' = strOut
    BY <2>2, SMT DEF ConvertToUtf16Be, Skipped
  <2>4. At(k) <= i
    <3>1. At(k) \in Nat
      BY <1>1, <2>1, Places
    <3> QED BY <1>1, <1>6, <3>1
  <2> QED BY <1>2, <1>4, <1>6, <2>1, <2>3, <2>4, SkipDecode
<1> QED BY <1>4, <1>5, <1>6

(* What a message is made of. *)
Parts == {"command", "comma", "alarm", "label", "end", "phone", "time", "ip"}
Place == Int \cup (Parts \X Nat)

(* Two parts joined. *)
LEMMA JoinType ==
    ASSUME NEW S, NEW s \in Seq(S), NEW t \in Seq(S)
    PROVE  s \o t \in Seq(S) /\ Len(s \o t) = Len(s) + Len(t) /\ Len(s) \in Nat /\ Len(t) \in Nat
  OBVIOUS

(* Joining is associative for these parts. *)
SameJoin(x, y, z) == (x \o y) \o z = x \o (y \o z)
(* Three parts joined, in either order. *)
LEMMA JoinThree ==
    ASSUME NEW x \in Seq(Place), NEW y \in Seq(Place), NEW z \in Seq(Place)
    PROVE  SameJoin(x, y, z)
  BY ConcatAssociative DEF SameJoin

(* What std::string::insert makes longer, *)
LEMMA InsertType ==
    ASSUME NEW S, NEW s \in Seq(S), NEW t \in Seq(S), NEW pos \in Nat, pos <= Len(s)
    PROVE  Insert(s, pos, t) \in Seq(S) /\ Len(Insert(s, pos, t)) = Len(s) + Len(t)
<1> DEFINE a == SubSeq(s, 1, pos)
           b == SubSeq(s, pos + 1, Len(s))
<1>1. a \in Seq(S) /\ Len(a) = pos /\ b \in Seq(S) /\ Len(b) = Len(s) - pos
      /\ Len(s) \in Nat /\ Len(t) \in Nat
  OBVIOUS
<1> HIDE DEF a, b
<1> DEFINE u == a \o t
<1>2. u \in Seq(S) /\ Len(u) = pos + Len(t)
  BY <1>1, JoinType
<1> HIDE DEF u
<1>3. u \o b \in Seq(S) /\ Len(u \o b) = Len(u) + Len(b)
  BY <1>1, <1>2, JoinType
<1>4. Insert(s, pos, t) = u \o b
  BY DEF Insert, a, b, u
<1>5. Len(u) + Len(b) = Len(s) + Len(t)
  BY <1>1, <1>2
<1> QED BY <1>3, <1>4, <1>5

(* and what it does between two parts. *)
LEMMA InsertBetween ==
    ASSUME NEW a \in Seq(Place), NEW b \in Seq(Place), NEW t \in Seq(Place)
    PROVE  Insert(a \o b, Len(a), t) = (a \o t) \o b
<1> DEFINE s == a \o b
           u == SubSeq(s, 1, Len(a))
           v == SubSeq(s, Len(a) + 1, Len(s))
<1>1. s \in Seq(Place) /\ Len(s) = Len(a) + Len(b) /\ Len(a) \in Nat /\ Len(b) \in Nat
  OBVIOUS
<1>2. \A k \in 1 .. Len(a) : s[k] = a[k]
  OBVIOUS
<1>3. \A k \in 1 .. Len(b) : s[Len(a) + k] = b[k]
  OBVIOUS
<1> HIDE DEF s
<1>4. u \in Seq(Place) /\ Len(u) = Len(a) /\ \A k \in 1 .. Len(a) : u[k] = s[k]
  BY <1>1
<1>5. v \in Seq(Place) /\ Len(v) = Len(b) /\ \A k \in 1 .. Len(b) : v[k] = s[Len(a) + k]
  BY <1>1
<1> HIDE DEF u, v
<1>6. u = a
  <2>1. \A k \in 1 .. Len(u) : u[k] = a[k]
    BY <1>2, <1>4
  <2> QED BY <1>4, <2>1, SeqEqual
<1>7. v = b
  <2>1. \A k \in 1 .. Len(v) : v[k] = b[k]
    BY <1>3, <1>5
  <2> QED BY <1>5, <2>1, SeqEqual
<1>8. Insert(s, Len(a), t) = (u \o t) \o v
  BY DEF Insert, u, v
<1> QED BY <1>6, <1>7, <1>8 DEF s

(* A fixed text is a sequence of places. *)
LEMMA LiteralType ==
    ASSUME NEW part \in Parts, NEW n \in Nat
    PROVE  Literal(part, n) \in Seq(Place) /\ Len(Literal(part, n)) = n
<1> DEFINE l == [k \in 1 .. n |-> <<part, k>>]
<1>1. l \in [1 .. n -> Place]
  <2>1. ASSUME NEW k \in 1 .. n PROVE <<part, k>> \in Place
    <3>1. k \in Nat
      OBVIOUS
    <3>2. <<part, k>> \in Parts \X Nat
      BY <3>1
    <3> QED BY <3>2, Zenon DEF Place
  <2> QED BY <2>1
<1> HIDE DEF l
<1>2. l \in Seq(Place) /\ Len(l) = n
  BY <1>1
<1> QED BY <1>2 DEF Literal, l

(* The parts. *)
LEMMA PartTypes ==
    ASSUME TextTypes
    PROVE  /\ Literal("command", 14) \in Seq(Place) /\ Len(Literal("command", 14)) = 14
           /\ Literal("comma", 3) \in Seq(Place) /\ Len(Literal("comma", 3)) = 3
           /\ Literal("alarm", 64) \in Seq(Place) /\ Len(Literal("alarm", 64)) = 64
           /\ Literal("label", 28) \in Seq(Place) /\ Len(Literal("label", 28)) = 28
           /\ Literal("end", 4) \in Seq(Place) /\ Len(Literal("end", 4)) = 4
           /\ strPhoneNum \in Seq(Place) /\ Len(strPhoneNum) = phone
           /\ strDataTimeUtf16be \in Seq(Place) /\ Len(strDataTimeUtf16be) = 4 * time
           /\ strIpUtf16be \in Seq(Place) /\ Len(strIpUtf16be) = 4 * ip
           /\ strOut \in Seq(Place)
<1>1. phone \in Nat /\ 4 * time \in Nat /\ 4 * ip \in Nat /\ strOut \in Seq(Int)
  BY DEF TextTypes
<1>2. strOut \in Seq(Place)
  <2>1. Int \subseteq Place
    BY DEF Place
  <2> QED BY <1>1, <2>1, SeqMonotonic
<1>3. /\ strPhoneNum \in Seq(Place) /\ Len(strPhoneNum) = phone
      /\ strDataTimeUtf16be \in Seq(Place) /\ Len(strDataTimeUtf16be) = 4 * time
      /\ strIpUtf16be \in Seq(Place) /\ Len(strIpUtf16be) = 4 * ip
  <2>1. "phone" \in Parts /\ "time" \in Parts /\ "ip" \in Parts
    BY DEF Parts
  <2> QED BY <1>1, <2>1, LiteralType DEF strPhoneNum, strDataTimeUtf16be, strIpUtf16be
<1>4. /\ Literal("command", 14) \in Seq(Place) /\ Len(Literal("command", 14)) = 14
      /\ Literal("comma", 3) \in Seq(Place) /\ Len(Literal("comma", 3)) = 3
      /\ Literal("alarm", 64) \in Seq(Place) /\ Len(Literal("alarm", 64)) = 64
      /\ Literal("label", 28) \in Seq(Place) /\ Len(Literal("label", 28)) = 28
      /\ Literal("end", 4) \in Seq(Place) /\ Len(Literal("end", 4)) = 4
  <2>1. /\ "command" \in Parts /\ "comma" \in Parts /\ "alarm" \in Parts /\ "label" \in Parts
        /\ "end" \in Parts /\ 14 \in Nat /\ 3 \in Nat /\ 64 \in Nat /\ 28 \in Nat /\ 4 \in Nat
    BY DEF Parts
  <2> QED BY <2>1, LiteralType
<1> QED BY <1>2, <1>3, <1>4

(* The places of the inserts, and the lengths between them. *)
LEMMA MessageLengths ==
    ASSUME TextTypes
    PROVE  /\ Len(strMsgSent) = 113
           /\ WithName \in Seq(Place) /\ Len(WithName) = 113 + phone + 4 * time + Len(strOut)
           /\ PosIp = 120 + 4 * time + Len(strOut) /\ PosIp \in Nat
           /\ phone \in Nat /\ time \in Nat /\ ip \in Nat /\ Len(strOut) \in Nat
<1>0. phone \in Nat /\ time \in Nat /\ ip \in Nat /\ Len(strOut) \in Nat
  BY DEF TextTypes
<1>1. strMsgSent \in Seq(Place) /\ Len(strMsgSent) = 113
  <2> DEFINE c == Literal("command", 14)
             k == Literal("comma", 3)
             a == Literal("alarm", 64)
             l == Literal("label", 28)
             e == Literal("end", 4)
  <2>1. /\ c \in Seq(Place) /\ k \in Seq(Place) /\ a \in Seq(Place) /\ l \in Seq(Place)
        /\ e \in Seq(Place)
    BY PartTypes
  <2>2. Len(c) = 14 /\ Len(k) = 3 /\ Len(a) = 64 /\ Len(l) = 28 /\ Len(e) = 4
    BY PartTypes
  <2> HIDE DEF c, k, a, l, e
  <2> DEFINE s1 == c \o k
             s2 == s1 \o a
             s3 == s2 \o l
             s4 == s3 \o e
  <2>3. s1 \in Seq(Place) /\ Len(s1) = Len(c) + Len(k)
    BY <2>1, JoinType
  <2> HIDE DEF s1
  <2>4. s2 \in Seq(Place) /\ Len(s2) = Len(s1) + Len(a)
    BY <2>1, <2>3, JoinType
  <2> HIDE DEF s2
  <2>5. s3 \in Seq(Place) /\ Len(s3) = Len(s2) + Len(l)
    BY <2>1, <2>4, JoinType
  <2> HIDE DEF s3
  <2>6. s4 \in Seq(Place) /\ Len(s4) = Len(s3) + Len(e)
    BY <2>1, <2>5, JoinType
  <2> HIDE DEF s4
  <2>7. Len(s4) = 113
    BY <2>2, <2>3, <2>4, <2>5, <2>6
  <2>8. strMsgSent = s4
    BY DEF strMsgSent, c, k, a, l, e, s4, s3, s2, s1
  <2> QED BY <2>6, <2>7, <2>8
<1>7. strPhoneNum \in Seq(Place) /\ strDataTimeUtf16be \in Seq(Place) /\ strOut \in Seq(Place)
  BY PartTypes
<1>8. Len(strPhoneNum) = phone /\ Len(strDataTimeUtf16be) = 4 * time
  BY PartTypes
<1>2. WithPhone \in Seq(Place) /\ Len(WithPhone) = 113 + phone
  <2>1. PosPhone \in Nat /\ PosPhone <= Len(strMsgSent)
    BY <1>1 DEF PosPhone
  <2>2. WithPhone \in Seq(Place) /\ Len(WithPhone) = Len(strMsgSent) + Len(strPhoneNum)
    BY <1>1, <1>7, <2>1, InsertType DEF WithPhone
  <2> QED BY <1>1, <1>8, <2>2
<1>3. PosDateTime = 28 /\ PosName = 92 + 4 * time
  <2>1. Len(strDataTimeUtf16be) = 4 * time
    BY PartTypes
  <2> QED BY <1>0, <2>1 DEF PosDateTime, PosPhone, PosName
<1>4. WithDateTime \in Seq(Place) /\ Len(WithDateTime) = 113 + phone + 4 * time
  <2>1. PosDateTime \in Nat /\ PosDateTime <= Len(WithPhone)
    BY <1>0, <1>2, <1>3
  <2>2. WithDateTime \in Seq(Place) /\ Len(WithDateTime) = Len(WithPhone) + Len(strDataTimeUtf16be)
    BY <1>2, <1>7, <2>1, InsertType DEF WithDateTime
  <2> QED BY <1>2, <1>8, <2>2
<1>5. WithName \in Seq(Place) /\ Len(WithName) = 113 + phone + 4 * time + Len(strOut)
  <2>1. PosName \in Nat /\ PosName <= Len(WithDateTime)
    BY <1>0, <1>3, <1>4
  <2>2. WithName \in Seq(Place) /\ Len(WithName) = Len(WithDateTime) + Len(strOut)
    BY <1>4, <1>7, <2>1, InsertType DEF WithName
  <2> QED BY <1>4, <2>2
<1>6. PosIp = 120 + 4 * time + Len(strOut) /\ PosIp \in Nat
  BY <1>0, <1>3 DEF PosIp
<1> QED BY <1>0, <1>1, <1>5, <1>6

(* The five parts of the fixed text (c to e) and the four that are inserted. *)
ArePlaced(c, k, a, l, e, p, d, o, n) ==
    /\ c \in Seq(Place) /\ k \in Seq(Place) /\ a \in Seq(Place) /\ l \in Seq(Place)
    /\ e \in Seq(Place) /\ p \in Seq(Place) /\ d \in Seq(Place) /\ o \in Seq(Place) /\ n \in Seq(Place)
ArePartsOf(c, k, a, l, e, p, d, o, n) ==
    /\ ArePlaced(c, k, a, l, e, p, d, o, n)
    /\ Len(c) = 14 /\ Len(p) = 11 /\ Len(k) = 3 /\ Len(a) = 64 /\ Len(l) = 28
FourInserts(c, k, a, l, e, p, d, o, n) ==
    LET w1 == Insert(c \o k \o a \o l \o e, 14, p)
        w2 == Insert(w1, 28, d)
        w3 == Insert(w2, 92 + Len(d), o)
    IN  Insert(w3, 120 + Len(d) + Len(o), n)
NineParts(c, k, a, l, e, p, d, o, n) == c \o p \o k \o d \o a \o o \o l \o n \o e

(* PackMsgToAlarm's four inserts, each at its position, fall between the parts of the text. *)
LEMMA InsertsBetween ==
    ASSUME NEW c, NEW k, NEW a, NEW l, NEW e, NEW p, NEW d, NEW o, NEW n,
           ArePartsOf(c, k, a, l, e, p, d, o, n)
    PROVE  FourInserts(c, k, a, l, e, p, d, o, n) = NineParts(c, k, a, l, e, p, d, o, n)
<1> DEFINE w1 == Insert(c \o k \o a \o l \o e, 14, p)
           w2 == Insert(w1, 28, d)
           w3 == Insert(w2, 92 + Len(d), o)
           w4 == Insert(w3, 120 + Len(d) + Len(o), n)
<1> DEFINE r3 == l \o e
           r2 == a \o r3
           r1 == k \o r2
           cp == c \o p
           h1 == cp \o k
           hd == h1 \o d
           h2 == hd \o a
           ho == h2 \o o
           h3 == ho \o l
<1> /\ c \in Seq(Place) /\ k \in Seq(Place) /\ a \in Seq(Place) /\ l \in Seq(Place)
    /\ e \in Seq(Place) /\ p \in Seq(Place) /\ d \in Seq(Place) /\ o \in Seq(Place) /\ n \in Seq(Place)
  BY DEF ArePartsOf, ArePlaced
<1>0. Len(d) \in Nat /\ Len(o) \in Nat
  OBVIOUS
<1>1. r3 \in Seq(Place)
  OBVIOUS
<1> HIDE DEF r3
<1>2. r2 \in Seq(Place)
  BY <1>1
<1> HIDE DEF r2
<1>3. r1 \in Seq(Place)
  BY <1>2
<1> HIDE DEF r1
<1>4. cp \in Seq(Place) /\ Len(cp) = Len(c) + Len(p)
  BY JoinType
<1> HIDE DEF cp
<1>5. h1 \in Seq(Place) /\ Len(h1) = Len(cp) + Len(k)
  BY <1>4, JoinType
<1> HIDE DEF h1
<1>6. hd \in Seq(Place) /\ Len(hd) = Len(h1) + Len(d)
  BY <1>5, JoinType
<1> HIDE DEF hd
<1>7. h2 \in Seq(Place) /\ Len(h2) = Len(hd) + Len(a)
  BY <1>6, JoinType
<1> HIDE DEF h2
<1>8. ho \in Seq(Place) /\ Len(ho) = Len(h2) + Len(o)
  BY <1>7, JoinType
<1> HIDE DEF ho
<1>9. h3 \in Seq(Place) /\ Len(h3) = Len(ho) + Len(l)
  BY <1>8, JoinType
<1> HIDE DEF h3
<1>15. 14 = Len(c) /\ 28 = Len(h1) /\ 92 + Len(d) = Len(h2) /\ 120 + Len(d) + Len(o) = Len(h3)
  BY <1>0, <1>4, <1>5, <1>6, <1>7, <1>8, <1>9 DEF ArePartsOf
<1>10. c \o k \o a \o l \o e = c \o r1
  <2> DEFINE x == c \o k
             y == x \o a
             z == y \o l
  <2>1. x \in Seq(Place)
    OBVIOUS
  <2> HIDE DEF x
  <2>2. y \in Seq(Place)
    BY <2>1
  <2> HIDE DEF y, z
  <2>3. z \o e = y \o r3
    <3>1. SameJoin(y, l, e)
      BY <2>2, JoinThree
    <3> QED BY <3>1 DEF SameJoin, r3, z
  <2>4. (x \o a) \o r3 = x \o r2
    <3>1. SameJoin(x, a, r3)
      BY <1>1, <2>1, JoinThree
    <3> QED BY <3>1 DEF SameJoin, r2
  <2>5. (c \o k) \o r2 = c \o r1
    <3>1. SameJoin(c, k, r2)
      BY <1>2, JoinThree
    <3> QED BY <3>1 DEF SameJoin, r1
  <2> QED BY <2>3, <2>4, <2>5 DEF x, y, z
<1>11. w1 = h1 \o r2
  <2>1. Insert(c \o r1, Len(c), p) = cp \o r1
    BY <1>3, InsertBetween DEF cp
  <2>2. (cp \o k) \o r2 = cp \o r1
    <3>1. SameJoin(cp, k, r2)
      BY <1>2, <1>4, JoinThree
    <3> QED BY <3>1 DEF SameJoin, r1
  <2> QED BY <1>10, <1>15, <2>1, <2>2 DEF h1
<1>12. w2 = h2 \o r3
  <2>1. Insert(h1 \o r2, Len(h1), d) = hd \o r2
    BY <1>2, <1>5, InsertBetween DEF hd
  <2>2. (hd \o a) \o r3 = hd \o r2
    <3>1. SameJoin(hd, a, r3)
      BY <1>1, <1>6, JoinThree
    <3> QED BY <3>1 DEF SameJoin, r2
  <2> QED BY <1>11, <1>15, <2>1, <2>2 DEF h2
<1>13. w3 = h3 \o e
  <2>1. Insert(h2 \o r3, Len(h2), o) = ho \o r3
    BY <1>1, <1>7, InsertBetween DEF ho
  <2>2. (ho \o l) \o e = ho \o r3
    <3>1. SameJoin(ho, l, e)
      BY <1>8, JoinThree
    <3> QED BY <3>1 DEF SameJoin, r3
  <2> QED BY <1>12, <1>15, <2>1, <2>2 DEF h3
<1>14. w4 = (h3 \o n) \o e
  <2>1. Insert(h3 \o e, Len(h3), n) = (h3 \o n) \o e
    BY <1>9, InsertBetween
  <2> QED BY <1>13, <1>15, <2>1
<1> QED BY <1>14 DEF h3, ho, h2, hd, h1, cp, FourInserts, NineParts

(* With eleven digits they all do. *)
LEMMA InsertsInPlace ==
    ASSUME TextTypes, phone = 11
    PROVE  Insert(WithName, PosIp, strIpUtf16be)
             = Literal("command", 14) \o strPhoneNum \o Literal("comma", 3)
                   \o strDataTimeUtf16be \o Literal("alarm", 64) \o strOut
                   \o Literal("label", 28) \o strIpUtf16be \o Literal("end", 4)
<1> DEFINE c == Literal("command", 14)
           k == Literal("comma", 3)
           a == Literal("alarm", 64)
           l == Literal("label", 28)
           e == Literal("end", 4)
           p == strPhoneNum
           d == strDataTimeUtf16be
           o == strOut
           n == strIpUtf16be
           S == Place
<1>1. /\ c \in Seq(S) /\ Len(c) = 14 /\ k \in Seq(S) /\ Len(k) = 3
      /\ a \in Seq(S) /\ Len(a) = 64 /\ l \in Seq(S) /\ Len(l) = 28
      /\ e \in Seq(S) /\ p \in Seq(S) /\ Len(p) = 11
      /\ d \in Seq(S) /\ o \in Seq(S) /\ n \in Seq(S)
  BY PartTypes
<1>2. Len(d) \in Nat /\ Len(o) \in Nat
  <2> HIDE DEF d, o
  <2> QED BY <1>1, JoinType
<1>3. WithPhone = Insert(c \o k \o a \o l \o e, 14, p)
  BY DEF WithPhone, strMsgSent, PosPhone
<1>4. WithDateTime = Insert(WithPhone, 28, d)
  <2>1. PosDateTime = 28
    BY DEF PosDateTime, PosPhone
  <2> QED BY <2>1 DEF WithDateTime
<1>5. PosName = 92 + Len(d) /\ PosIp = 120 + Len(d) + Len(o)
  <2> HIDE DEF o
  <2>1. PosDateTime = 28
    BY DEF PosDateTime, PosPhone
  <2>2. PosName = 28 + 64 + Len(d)
    BY <2>1 DEF PosName
  <2>3. PosIp = PosName + 28 + Len(o)
    BY DEF PosIp, o
  <2> HIDE DEF d
  <2> QED BY <1>2, <2>2, <2>3
<1>6. WithName = Insert(WithDateTime, 92 + Len(d), o)
  BY <1>5 DEF WithName
<1> HIDE DEF c, k, a, l, e, p, d, o, n, S
<1>7. Insert(WithName, PosIp, n) = FourInserts(c, k, a, l, e, p, d, o, n)
  BY <1>3, <1>4, <1>5, <1>6 DEF FourInserts
<1>8. ArePlaced(c, k, a, l, e, p, d, o, n)
  BY <1>1, Zenon DEF ArePlaced, S
<1>9. ArePartsOf(c, k, a, l, e, p, d, o, n)
  BY <1>1, <1>8 DEF ArePartsOf
<1>10. FourInserts(c, k, a, l, e, p, d, o, n) = NineParts(c, k, a, l, e, p, d, o, n)
  BY <1>9, InsertsBetween
<1> QED BY <1>7, <1>10 DEF NineParts, c, k, a, l, e, p, d, o, n

(* Where PackMsgToAlarm is, and what the message is when it is there. *)
Packed == stage \in {"copy", "done", "overrun"}
StageInv ==
    /\ stage \in {"start", "convert", "pack", "copy", "done", "thrown", "overrun"}
    /\ phone = 0 => stage \in {"start", "copy", "done", "overrun"} /\ strMsg = <<>>
    /\ phone # 0 /\ stage \notin {"start", "convert"} => i >= Len(strIn)
    /\ phone # 0 /\ Packed =>
          PosIp <= Len(WithName) /\ strMsg = Insert(WithName, PosIp, strIpUtf16be)
    /\ stage = "thrown" => PosIp > Len(WithName)
    /\ stage = "overrun" => Len(strMsg) > BufSize

(* The inductive invariant. *)
TextInv == TextTypes /\ CharsInv /\ DecodeInv /\ StageInv

(* At first nothing has come out. *)
LEMMA InitTextInv == TextInit => TextInv
<1> SUFFICES ASSUME TextInit PROVE TextInv
  OBVIOUS
<1>1. /\ phone \in Nat /\ time \in Nat /\ ip \in Nat /\ i = 0 /\ strOut = <<>> /\ stage = "start"
      /\ strMsg = <<>>
  BY TextAssumption DEF TextInit
<1>2. name \in Seq(Pieces)
  <2>1. PICK n \in 0 .. MaxPieces : name \in [1 .. n -> Pieces]
    BY DEF TextInit
  <2>2. n \in Nat
    BY TextAssumption
  <2> QED BY <2>1, <2>2
<1>3. TextTypes
  <2>1. <<>> \in Seq(Int)
    OBVIOUS
  <2> QED BY <1>1, <1>2, <2>1 DEF TextTypes
<1>4. 0 \in 0 .. Len(name) /\ Len(<<>>) = 0
  BY <1>2
<1>5. CharsInv
  BY <1>1, <1>4 DEF CharsInv
<1>6. DecodeInv
  <2>1. Shown(0) = <<>> /\ At(0) = 0
    BY <1>2, Outs, Places
  <2> QED BY <1>1, <1>4, <2>1 DEF DecodeInv
<1>7. StageInv
  BY <1>1 DEF StageInv, Packed
<1> QED BY <1>3, <1>5, <1>6, <1>7 DEF TextInv

(* The steps before and after ConvertToUtf16Be leave what it has done. *)
LEMMA QuietText ==
    ASSUME TextTypes, CharsInv, DecodeInv, UNCHANGED <<inVars, i, strOut>>
    PROVE  /\ TextTypes' /\ CharsInv' /\ DecodeInv'
           /\ strIn' = strIn /\ PosIp' = PosIp /\ WithName' = WithName
           /\ strIpUtf16be' = strIpUtf16be
           /\ name' = name /\ phone' = phone /\ i' = i /\ strOut' = strOut
<1>1. name' = name /\ phone' = phone /\ time' = time /\ ip' = ip /\ i' = i /\ strOut' = strOut
  BY DEF inVars
<1>2. /\ strIn' = strIn /\ Regular' = Regular
      /\ \A k : At(k)' = At(k) /\ Shown(k)' = Shown(k)
  BY <1>1, SameName
<1>3. TextTypes'
  BY <1>1 DEF TextTypes
<1>4. CharsInv'
  BY <1>1, <1>2 DEF CharsInv
<1>5. DecodeInv'
  <2> SUFFICES ASSUME Regular
               PROVE  \E k \in 0 .. Len(name') :
                        /\ strOut' = Shown(k)'
                        /\ \/ i' = At(k)'
                           \/ /\ k < Len(name') /\ Dropped(name[k + 1])'
                              /\ At(k)' < i' /\ i' < At(k + 1)'
    BY <1>2 DEF DecodeInv
  <2>1. PICK k \in 0 .. Len(name) :
          /\ strOut = Shown(k)
          /\ \/ i = At(k)
             \/ k < Len(name) /\ Dropped(name[k + 1]) /\ At(k) < i /\ i < At(k + 1)
    BY DEF DecodeInv
  <2>2. Dropped(name[k + 1])' = Dropped(name[k + 1])
    BY <1>1 DEF Dropped, Size
  <2> QED BY <1>1, <1>2, <2>1, <2>2
<1>6. PosIp' = PosIp /\ WithName' = WithName /\ strIpUtf16be' = strIpUtf16be
  BY <1>1 DEF PosIp, PosName, PosDateTime, PosPhone, WithName, WithDateTime, WithPhone,
              strMsgSent, strPhoneNum, strDataTimeUtf16be, strIpUtf16be, Literal, Insert
<1> QED BY <1>1, <1>2, <1>3, <1>4, <1>5, <1>6

(* Every step keeps it. *)
LEMMA NextTextInv ==
    ASSUME TextInv, [TextNext]_textVars
    PROVE  TextInv'
<1> USE DEF TextInv
<1>1. CASE ConvertToUtf16Be
  <2>1. /\ name' = name /\ phone' = phone /\ time' = time /\ ip' = ip /\ stage' = stage
        /\ strMsg' = strMsg /\ stage = "convert"
    BY <1>1, SMT DEF ConvertToUtf16Be, inVars
  <2>2. i' \in Nat /\ strOut' \in Seq(Int)
    BY <1>1, ConvertTurn
  <2>3. TextTypes'
    BY <2>1, <2>2 DEF TextTypes
  <2>4. CharsInv' /\ DecodeInv'
    BY <1>1, ConvertCount, ConvertDecode
  <2>5. StageInv'
    BY <2>1 DEF StageInv, Packed
  <2> QED BY <2>3, <2>4, <2>5
<1>2. ASSUME UNCHANGED <<inVars, i, strOut>>, StageInv' PROVE TextInv'
  BY <1>2, QuietText
<1>3. ASSUME UNCHANGED <<inVars, i, strOut>>
      PROVE  /\ strIn' = strIn /\ PosIp' = PosIp /\ WithName' = WithName
             /\ strIpUtf16be' = strIpUtf16be
             /\ name' = name /\ phone' = phone /\ i' = i /\ strOut' = strOut
  BY <1>3, QuietText
<1>4. CASE Start
  <2>1. UNCHANGED <<inVars, i, strOut>> /\ strMsg' = strMsg /\ stage = "start"
        /\ stage' = IF phone = 0 THEN "copy" ELSE "convert"
    BY <1>4 DEF Start
  <2> QED BY <1>2, <1>3, <2>1 DEF StageInv, Packed
<1>5. CASE EndOfText
  <2>1. /\ UNCHANGED <<inVars, i, strOut>> /\ strMsg' = strMsg /\ stage = "convert"
        /\ stage' = "pack" /\ i >= Len(strIn)
    BY <1>5 DEF EndOfText
  <2> QED BY <1>2, <1>3, <2>1 DEF StageInv, Packed
<1>6. CASE PackMsgToAlarm
  <2>1. UNCHANGED <<inVars, i, strOut>> /\ stage = "pack"
    BY <1>6 DEF PackMsgToAlarm
  <2>2. \/ /\ PosIp <= Len(WithName) /\ strMsg' = Insert(WithName, PosIp, strIpUtf16be)
           /\ stage' = "copy"
        \/ PosIp > Len(WithName) /\ stage' = "thrown" /\ strMsg' = strMsg
    BY <1>6 DEF PackMsgToAlarm
  <2>3. phone # 0
    BY <2>1 DEF StageInv
  <2> QED BY <1>2, <1>3, <2>1, <2>2, <2>3 DEF StageInv, Packed
<1>7. CASE CopyToBufSent
  <2>1. /\ UNCHANGED <<inVars, i, strOut>> /\ strMsg' = strMsg /\ stage = "copy"
        /\ stage' = IF Len(strMsg) <= BufSize THEN "done" ELSE "overrun"
    BY <1>7 DEF CopyToBufSent
  <2>2. stage' = "overrun" => Len(strMsg) > BufSize
    <3>1. Len(strMsg) \in Nat /\ BufSize \in Nat
      <4>1. CASE phone = 0
        <5>1. strMsg = <<>>
          BY <4>1 DEF StageInv
        <5> QED BY <5>1, TextAssumption
      <4>2. CASE phone # 0
        <5>1. PosIp <= Len(WithName) /\ strMsg = Insert(WithName, PosIp, strIpUtf16be)
          BY <2>1, <4>2 DEF StageInv, Packed
        <5>2. WithName \in Seq(Place) /\ strIpUtf16be \in Seq(Place) /\ PosIp \in Nat
          BY MessageLengths, PartTypes
        <5>3. strMsg \in Seq(Place)
          BY <5>1, <5>2, InsertType
        <5> QED BY <5>3, TextAssumption
      <4> QED BY <4>1, <4>2
    <3> QED BY <2>1, <3>1
  <2>3. stage' \in {"done", "overrun"}
    BY <2>1
  <2> QED BY <1>2, <1>3, <2>1, <2>2, <2>3 DEF StageInv, Packed
<1>8. CASE UNCHANGED textVars
  <2>1. UNCHANGED <<inVars, i, strOut>> /\ strMsg' = strMsg /\ stage' = stage
    BY <1>8 DEF textVars
  <2> QED BY <1>2, <1>3, <2>1 DEF StageInv, Packed
<1> QED BY <1>1, <1>4, <1>5, <1>6, <1>7, <1>8 DEF TextNext, Done

(* So it is an invariant. *)
LEMMA AlwaysTextInv == TextSpec => []TextInv
  BY InitTextInv, NextTextInv, PTL DEF TextSpec

(* Every character of one or three bytes comes out as its code point, in   *)
(* order, whatever stands around it: ConvertToUtf16Be on every name        *)
(* without characters of two bytes and without two fragments side by side. *)
THEOREM DecodeCorrect == TextSpec => []DecodesUtf8
<1>1. TextInv => DecodesUtf8
  <2> SUFFICES ASSUME TextInv, Ended, phone # 0, Regular
               PROVE  strOut = FlattenSeq([k \in DOMAIN name |-> HexOf(name[k])])
    BY DEF DecodesUtf8
  <2> DEFINE n == Len(name)
  <2>1. name \in Seq(Pieces) /\ i \in Nat /\ n \in Nat
    BY DEF TextInv, TextTypes
  <2>2. i >= Len(strIn)
    BY DEF TextInv, StageInv, Ended
  <2>3. At(n) = Len(strIn) /\ \A k \in 0 .. n : At(k) \in Nat
    BY <2>1, Places
  <2>4. PICK k \in 0 .. n :
          /\ strOut = Shown(k)
          /\ \/ i = At(k)
             \/ k < n /\ Dropped(name[k + 1]) /\ At(k) < i /\ i < At(k + 1)
    BY DEF TextInv, DecodeInv
  <2>5. ASSUME NEW j \in 0 .. n PROVE At(j) <= At(n)
    <3>1. n \in 0 .. n
      BY <2>1
    <3>2. CASE j = n
      BY <2>3, <3>1, <3>2
    <3>3. CASE j # n
      <4>1. j < n
        BY <2>1, <3>3
      <4>2. At(j) < At(n)
        BY <2>1, <3>1, <4>1, PlacesGrow
      <4> QED BY <2>3, <3>1, <4>2
    <3> QED BY <3>2, <3>3
  <2>6. ~(k < n /\ i < At(k + 1))
    <3> SUFFICES ASSUME k < n, i < At(k + 1) PROVE FALSE
      OBVIOUS
    <3>1. k + 1 \in 0 .. n
      BY <2>1
    <3>2. At(k + 1) <= At(n) /\ At(k + 1) \in Nat
      BY <2>3, <2>5, <3>1
    <3>3. At(n) \in Nat /\ i >= At(n)
      <4>1. n \in 0 .. n
        BY <2>1
      <4> QED BY <2>2, <2>3, <4>1
    <3> QED BY <2>1, <3>2, <3>3
  <2>7. i = At(k)
    BY <2>4, <2>6
  <2>8. k = n
    <3> SUFFICES ASSUME k # n PROVE FALSE
      OBVIOUS
    <3>1. k < n /\ n \in 0 .. n
      BY <2>1
    <3>2. At(k) < At(n)
      BY <2>1, <3>1, PlacesGrow
    <3> QED BY <2>1, <2>2, <2>3, <2>7, <3>1, <3>2
  <2>9. Shown(n) = FlattenSeq(HexSeqs)
    BY <2>1, Outs
  <2> QED BY <2>4, <2>8, <2>9 DEF HexSeqs
<1> QED BY AlwaysTextInv, <1>1, PTL

(* With a phone number of eleven digits PackMsgToAlarm puts every part     *)
(* where it belongs, for times, names and ips of every length.             *)
THEOREM PlaceCorrect == TextSpec => []PartsInPlace
<1>1. TextInv => PartsInPlace
  <2> SUFFICES ASSUME TextInv, Packed, phone = 11 PROVE PartsInPlace
    BY DEF PartsInPlace, Packed
  <2>1. strMsg = Insert(WithName, PosIp, strIpUtf16be)
    BY DEF TextInv, StageInv
  <2> QED BY <2>1, InsertsInPlace DEF TextInv, PartsInPlace
<1> QED BY AlwaysTextInv, <1>1, PTL

(* The last insert throws only for a phone number of one to six digits,    *)
(* and the copy into BufSent overruns it only when four digits for every   *)
(* piece of the name and the rest of the message are more than it holds.   *)
THEOREM BoundsCorrect == TextSpec => []FailsOnlyOutOfBounds
<1>1. TextInv => FailsOnlyOutOfBounds
  <2> SUFFICES ASSUME TextInv PROVE FailsOnlyOutOfBounds
    OBVIOUS
  <2>1. TextTypes
    BY DEF TextInv
  <2>2. /\ Len(strMsgSent) = 113
        /\ WithName \in Seq(Place) /\ Len(WithName) = 113 + phone + 4 * time + Len(strOut)
        /\ PosIp = 120 + 4 * time + Len(strOut) /\ PosIp \in Nat
        /\ phone \in Nat /\ time \in Nat /\ ip \in Nat /\ Len(strOut) \in Nat
    BY <2>1, MessageLengths
  <2>3. ASSUME stage = "thrown" PROVE phone \in 1 .. 6
    <3>1. PosIp > Len(WithName) /\ phone # 0
      BY <2>3 DEF TextInv, StageInv
    <3> QED BY <2>2, <3>1
  <2>4. ASSUME stage = "overrun"
        PROVE  Len(strMsgSent) + phone + 4 * (time + ip + Len(name)) > BufSize
    <3>1. Len(strMsg) > BufSize /\ BufSize \in Nat
      BY <2>4, TextAssumption DEF TextInv, StageInv
    <3>2. phone # 0
      <4> SUFFICES ASSUME phone = 0 PROVE FALSE
        OBVIOUS
      <4>1. strMsg = <<>>
        BY DEF TextInv, StageInv
      <4> QED BY <3>1, <4>1
    <3>3. PosIp <= Len(WithName) /\ strMsg = Insert(WithName, PosIp, strIpUtf16be)
      BY <2>4, <3>2 DEF TextInv, StageInv, Packed
    <3>4. strIpUtf16be \in Seq(Place) /\ Len(strIpUtf16be) = 4 * ip
      BY <2>1, PartTypes
    <3>5. Len(strMsg) = Len(WithName) + Len(strIpUtf16be)
      <4>1. WithName \in Seq(Place) /\ PosIp \in Nat /\ strIpUtf16be \in Seq(Place)
        BY <2>2, <3>4
      <4> QED BY <3>3, <4>1, InsertType
    <3>6. Len(strOut) <= 4 * Len(name) /\ Len(name) \in Nat
      <4>1. Len(name) \in Nat
        BY <2>1 DEF TextTypes
      <4>2. PICK k \in 0 .. Len(name) : Len(strOut) <= 4 * k
        BY DEF TextInv, CharsInv
      <4> QED BY <2>2, <4>1, <4>2
    <3> QED BY <2>2, <3>1, <3>4, <3>5, <3>6
  <2> QED BY <2>3, <2>4 DEF FailsOnlyOutOfBounds
<1> QED BY AlwaysTextInv, <1>1, PTL

=============================================================================
