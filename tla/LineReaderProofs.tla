-------------------------- MODULE LineReaderProofs --------------------------
(***************************************************************************)
(* For an array of any size and any number of bytes: what readLine returns *)
(* and keeps.                                                              *)
(***************************************************************************)
EXTENDS LineReader, SharedLemmas

(* The bytes kept stand behind those returned, and are at the front of the *)
(* array while readBuffer adds to them.                                    *)
PlacesInv ==
    /\ uiReadLineIdx <= uiReadLineValidSize
    /\ pc \in {"read", "rescan"} => uiReadLineIdx = 0

(* The inductive invariant. *)
IInv == TypeOK /\ PlacesInv /\ BytesConserved /\ LinesAreLines

-----------------------------------------------------------------------------

(* readLine cuts at the first newline. *)
LEMMA FirstNewLine ==
    ASSUME TypeOK, NewLines # {}
    PROVE  /\ Min(NewLines) \in NewLines
           /\ \A k \in NewLines : Min(NewLines) <= k
<1>1. NewLines \in SUBSET Nat
  BY ReaderAssumption DEF NewLines, TypeOK, Size
<1>2. \E x \in NewLines : \A y \in NewLines : x <= y
  BY <1>1, LeastElement
<1> QED BY <1>2, Zenon DEF Min

(* The smaller of two numbers. *)
LEMMA MinOfTwo ==
    ASSUME NEW a \in Nat, NEW b \in Nat
    PROVE  /\ Min({a, b}) \in {a, b}
           /\ Min({a, b}) <= a /\ Min({a, b}) <= b
<1>1. \E x \in {a, b} : \A y \in {a, b} : x <= y
  OBVIOUS
<1> DEFINE m == CHOOSE x \in {a, b} : \A y \in {a, b} : x <= y
<1>2. m \in {a, b} /\ \A y \in {a, b} : m <= y
  BY <1>1, Zenon
<1>3. Min({a, b}) = m
  BY DEF Min
<1> QED BY <1>2, <1>3

(* The n bytes of an array from place i on. *)
Window(b, i, n) == [k \in 1 .. n |-> b[i + k - 1]]

(* The array is not empty. *)
LEMMA SizeAssumption == Size \in Nat \ {0}
  BY ReaderAssumption DEF Size

(* A part of the array is a sequence of its bytes. *)
LEMMA WindowType ==
    ASSUME NEW b \in [Place -> Nat], NEW i \in Nat, NEW n \in Nat, i + n <= Size
    PROVE  /\ Window(b, i, n) \in Seq(Nat) /\ Len(Window(b, i, n)) = n
           /\ \A k \in 1 .. n : Window(b, i, n)[k] = b[i + k - 1]
<1>1. \A k \in 1 .. n : b[i + k - 1] \in Nat
  BY SizeAssumption DEF Place
<1>2. Window(b, i, n) \in [1 .. n -> Nat]
  BY <1>1 DEF Window
<1>3. Window(b, i, n) \in Seq(Nat) /\ Len(Window(b, i, n)) = n
  BY <1>2
<1> QED BY <1>3 DEF Window

(* Joining bytes is associative. *)
LEMMA JoinBytes ==
    ASSUME NEW s \in Seq(Nat), NEW t \in Seq(Nat), NEW u \in Seq(Nat)
    PROVE  (s \o t) \o u = s \o (t \o u)
<1> DEFINE a == (s \o t) \o u
           b == s \o (t \o u)
<1>1. a \in Seq(Nat) /\ b \in Seq(Nat) /\ Len(a) = Len(b)
  OBVIOUS
<1>2. ASSUME NEW k \in 1 .. Len(a) PROVE a[k] = b[k]
  OBVIOUS
<1> HIDE DEF a, b
<1>3. a = b
  BY <1>1, <1>2, SeqEqual
<1> QED BY <1>3 DEF a, b

(* Two parts next to each other make one. *)
LEMMA WindowSplit ==
    ASSUME NEW b \in [Place -> Nat], NEW i \in Nat, NEW m \in Nat, NEW n \in Nat,
           i + m + n <= Size
    PROVE  Window(b, i, m + n) = Window(b, i, m) \o Window(b, i + m, n)
<1> DEFINE w == Window(b, i, m + n)
           u == Window(b, i, m)
           v == Window(b, i + m, n)
<1> USE SizeAssumption
<1>1. w \in Seq(Nat) /\ Len(w) = m + n /\ \A k \in 1 .. m + n : w[k] = b[i + k - 1]
  <2>1. m + n \in Nat /\ i + (m + n) <= Size
    OBVIOUS
  <2> QED BY <2>1, WindowType, Zenon
<1>2. u \in Seq(Nat) /\ Len(u) = m /\ \A k \in 1 .. m : u[k] = b[i + k - 1]
  <2>1. i + m <= Size
    OBVIOUS
  <2> QED BY <2>1, WindowType, Zenon
<1>3. v \in Seq(Nat) /\ Len(v) = n /\ \A k \in 1 .. n : v[k] = b[(i + m) + k - 1]
  <2>1. i + m \in Nat /\ (i + m) + n <= Size
    OBVIOUS
  <2> QED BY <2>1, WindowType, Zenon
<1> HIDE DEF w, u, v
<1>4. /\ u \o v \in Seq(Nat) /\ Len(u \o v) = m + n
      /\ \A k \in 1 .. m + n : (u \o v)[k] = IF k <= m THEN u[k] ELSE v[k - m]
  <2>1. /\ u \o v \in Seq(Nat) /\ Len(u \o v) = Len(u) + Len(v)
        /\ \A k \in 1 .. Len(u) + Len(v) :
              (u \o v)[k] = IF k <= Len(u) THEN u[k] ELSE v[k - Len(u)]
    <3>1. u \in Seq(Nat) /\ v \in Seq(Nat)
      BY <1>2, <1>3
    <3> QED BY <3>1, ConcatProperties, Zenon
  <2> QED BY <1>2, <1>3, <2>1
<1>5. ASSUME NEW k \in 1 .. m + n PROVE w[k] = (u \o v)[k]
  <2>1. CASE k <= m
    <3>1. k \in 1 .. m
      BY <2>1
    <3>2. (u \o v)[k] = u[k]
      BY <1>4, <2>1
    <3>3. u[k] = b[i + k - 1] /\ w[k] = b[i + k - 1]
      BY <1>1, <1>2, <3>1
    <3> QED BY <3>2, <3>3
  <2>2. CASE k > m
    <3>1. (u \o v)[k] = v[k - m] /\ k - m \in 1 .. n /\ (i + m) + (k - m) - 1 = i + k - 1
      BY <1>4, <2>2
    <3> QED BY <1>1, <1>3, <3>1
  <2>3. k <= m \/ k > m
    OBVIOUS
  <2> QED BY <2>1, <2>2, <2>3, Zenon
<1> QED BY <1>1, <1>4, <1>5, SeqEqual DEF w, u, v

(* A line is returned: the bytes kept are the line and what is kept then.  *)
LEMMA ReturnLineIInv ==
    ASSUME IInv, ReturnLine, UNCHANGED <<stream, arrived, received>>
    PROVE  IInv'
<1> DEFINE p == Min(NewLines)
           i == uiReadLineIdx
           v == uiReadLineValidSize
           l == [k \in 1 .. p + 1 - i |-> Shifted(p)[k - 1]]
<1> USE SizeAssumption DEF Place
<1>1. p \in NewLines /\ \A k \in NewLines : p <= k
  BY FirstNewLine DEF IInv, ReturnLine
<1>2. /\ i \in Nat /\ v \in 0 .. Size /\ p \in i .. v - 1 /\ ucReadLineBuf[p] = NewLine
      /\ ucReadLineBuf \in [Place -> Nat]
  BY <1>1 DEF NewLines, IInv, TypeOK
<1>3. ASSUME NEW k \in i .. p - 1 PROVE ucReadLineBuf[k] # NewLine
  BY <1>1, <1>2 DEF NewLines
<1>4. /\ ucReadLineBuf' = Shifted(p) /\ lines' = Append(lines, l)
      /\ uiReadLineIdx' = Rest(p).idx /\ uiReadLineValidSize' = Rest(p).valid
      /\ pc' = "idle"
  BY DEF ReturnLine
<1> HIDE DEF p
<1>5. /\ Shifted(p) \in [Place -> Nat]
      /\ \A k \in 0 .. p - i : Shifted(p)[k] = ucReadLineBuf[k + i]
      /\ \A k \in p + 1 .. Size - 1 : Shifted(p)[k] = ucReadLineBuf[k]
  BY <1>2 DEF Shifted
<1> DEFINE m == p + 1 - i
           n == v - (p + 1)
<1>6. /\ m \in Nat \ {0} /\ n \in Nat /\ m + n = v - i /\ i + m = p + 1
      /\ \A k \in i .. v - 1 : ucReadLineBuf[k] \in Nat
  BY <1>2
<1>7. l = Window(ucReadLineBuf, i, m)
  <2>1. ASSUME NEW k \in 1 .. m PROVE Shifted(p)[k - 1] = ucReadLineBuf[i + k - 1]
    <3>1. k - 1 \in 0 .. p - i /\ (k - 1) + i = i + k - 1
      BY <1>2
    <3> QED BY <1>5, <3>1
  <2> QED BY <2>1 DEF Window
<1>8. /\ l \in Seq(Nat) /\ Len(l) = m
      /\ \A k \in 1 .. m : l[k] = ucReadLineBuf[i + k - 1]
  <2>1. i + m <= Size /\ m \in Nat
    BY <1>2, <1>6
  <2> HIDE DEF l, m, i, Place
  <2> QED BY <1>2, <1>7, <2>1, WindowType
<1> HIDE DEF l
<1>10. /\ uiReadLineIdx' \in 0 .. Size /\ uiReadLineValidSize' \in 0 .. Size
       /\ uiReadLineValidSize' - uiReadLineIdx' = n
       /\ (n # 0 => uiReadLineIdx' = p + 1)
  <2>1. CASE p + 1 >= v
    <3>1. uiReadLineIdx' = 0 /\ uiReadLineValidSize' = 0 /\ n = 0
      BY <1>2, <1>4, <2>1 DEF Rest
    <3> QED BY <3>1
  <2>2. CASE p + 1 < v
    <3>1. uiReadLineIdx' = p + 1 /\ uiReadLineValidSize' = v
      BY <1>2, <1>4, <2>2 DEF Rest
    <3> QED BY <1>2, <3>1
  <2> QED BY <1>2, <2>1, <2>2
<1>11. TypeOK' /\ PlacesInv'
  <2>1. lines' \in Seq(Seq(Nat))
    BY <1>4, <1>8 DEF IInv, TypeOK
  <2>2. uiReadLineIdx' <= uiReadLineValidSize'
    BY <1>6, <1>10
  <2> QED BY <1>4, <1>5, <1>10, <2>1, <2>2 DEF IInv, TypeOK, PlacesInv
<1>12. LinesAreLines'
  <2>1. ASSUME NEW k \in 1 .. m PROVE l[k] = NewLine <=> k = m
    <3>1. CASE k = m
      BY <1>2, <1>6, <1>8, <3>1
    <3>2. CASE k # m
      <4>1. i + k - 1 \in i .. p - 1
        BY <1>2, <3>2
      <4> QED BY <1>3, <1>8, <3>2, <4>1
    <3> QED BY <3>1, <3>2
  <2>2. DOMAIN l = 1 .. Len(l) /\ l # <<>>
    BY <1>6, <1>8
  <2>3. lines \in Seq(Seq(Nat)) /\ DOMAIN lines = 1 .. Len(lines) /\ Len(lines) \in Nat
    BY DEF IInv, TypeOK
  <2>4. ASSUME NEW x \in DOMAIN lines' PROVE lines'[x] = l \/ (x \in DOMAIN lines /\ lines'[x] = lines[x])
    BY <1>4, <1>8, <2>3
  <2>5. ASSUME NEW x \in DOMAIN lines'
        PROVE  lines'[x] # <<>> /\ \A k \in DOMAIN lines'[x] : lines'[x][k] = NewLine <=> k = Len(lines'[x])
    <3>1. CASE lines'[x] = l
      BY <1>8, <2>1, <2>2, <3>1
    <3>2. CASE x \in DOMAIN lines /\ lines'[x] = lines[x]
      BY <3>2 DEF IInv, LinesAreLines
    <3> QED BY <2>4, <3>1, <3>2
  <2> QED BY <2>5 DEF LinesAreLines
<1>13. Pending' = Window(ucReadLineBuf, p + 1, n)
  <2>1. ASSUME NEW k \in 1 .. n
        PROVE  ucReadLineBuf'[uiReadLineIdx' + k - 1] = ucReadLineBuf[(p + 1) + k - 1]
    <3>1. uiReadLineIdx' = p + 1 /\ (p + 1) + k - 1 \in p + 1 .. Size - 1
      BY <1>2, <1>10
    <3> QED BY <1>4, <1>5, <3>1
  <2>2. Pending' = [k \in 1 .. n |-> ucReadLineBuf'[uiReadLineIdx' + k - 1]]
    BY <1>10 DEF Pending
  <2> HIDE DEF n
  <2> QED BY <2>1, <2>2 DEF Window
<1>14. Pending = l \o Pending'
  <2>1. i + m + n <= Size /\ m \in Nat
    BY <1>2, <1>6
  <2>2. Pending = Window(ucReadLineBuf, i, m + n)
    BY <1>6 DEF Pending, Window
  <2> HIDE DEF m, n, i, Place
  <2>3. Window(ucReadLineBuf, i, m + n)
           = Window(ucReadLineBuf, i, m) \o Window(ucReadLineBuf, i + m, n)
    BY <1>2, <1>6, <2>1, WindowSplit
  <2> QED BY <1>6, <1>7, <1>13, <2>2, <2>3
<1>15. Pending' \in Seq(Nat)
  <2>1. p + 1 \in Nat /\ (p + 1) + n <= Size
    BY <1>2, <1>6
  <2> HIDE DEF n, Place
  <2> QED BY <1>2, <1>6, <1>13, <2>1, WindowType
<1>16. BytesConserved'
  <2> DEFINE a == FlattenSeq(lines)
             r == Pending'
  <2>1. FlattenSeq(lines') = a \o l
    BY <1>4, <1>8, FlattenAppend DEF IInv, TypeOK
  <2>2. a \in Seq(Nat)
    BY FlattenType DEF IInv, TypeOK
  <2>3. received = a \o (l \o r)
    BY <1>14 DEF IInv, BytesConserved
  <2>4. (a \o l) \o r = a \o (l \o r)
    <3>1. l \in Seq(Nat) /\ r \in Seq(Nat)
      BY <1>8, <1>15
    <3> HIDE DEF a, r
    <3> QED BY <2>2, <3>1, JoinBytes
  <2> QED BY <2>1, <2>3, <2>4 DEF BytesConserved
<1> QED BY <1>11, <1>12, <1>16 DEF IInv

(* Moving the bytes kept to the front changes none of them.                *)
LEMMA CompactIInv ==
    ASSUME IInv, Compact, UNCHANGED <<stream, arrived, received>>, pc' \in {"read", "idle"}
    PROVE  IInv'
<1> USE SizeAssumption DEF Place
<1>1. /\ uiReadLineIdx \in 0 .. Size /\ uiReadLineValidSize \in 0 .. Size
      /\ uiReadLineIdx <= uiReadLineValidSize /\ ucReadLineBuf \in [Place -> Nat]
  BY DEF IInv, TypeOK, PlacesInv
<1>2. /\ uiReadLineValidSize' = uiReadLineValidSize - uiReadLineIdx /\ uiReadLineIdx' = 0
      /\ uiReadLineValidSize' \in 0 .. Size /\ lines' = lines
  BY <1>1 DEF Compact, Remaining
<1>3. /\ ucReadLineBuf' \in [Place -> Nat]
      /\ \A k \in 0 .. uiReadLineValidSize' - 1 : ucReadLineBuf'[k] = ucReadLineBuf[k + uiReadLineIdx]
  BY <1>1, <1>2 DEF Compact
<1>4. Pending' = Pending
  <2>1. ASSUME NEW k \in 1 .. uiReadLineValidSize - uiReadLineIdx
        PROVE  ucReadLineBuf'[0 + k - 1] = ucReadLineBuf[uiReadLineIdx + k - 1]
    <3>1. k - 1 \in 0 .. uiReadLineValidSize' - 1 /\ 0 + k - 1 = k - 1
          /\ (k - 1) + uiReadLineIdx = uiReadLineIdx + k - 1
      BY <1>1, <1>2
    <3> QED BY <1>3, <3>1
  <2>2. uiReadLineValidSize' - uiReadLineIdx' = uiReadLineValidSize - uiReadLineIdx
    BY <1>1, <1>2
  <2> QED BY <1>2, <2>1, <2>2 DEF Pending
<1> QED BY <1>1, <1>2, <1>3, <1>4 DEF IInv, TypeOK, PlacesInv, BytesConserved, LinesAreLines

(* What is read is put behind the bytes kept.                              *)
LEMMA ReadBufferIInv ==
    ASSUME IInv, readBuffer
    PROVE  IInv'
<1> DEFINE n == Min({Len(stream), Free})
           v == uiReadLineValidSize
           b == ucReadLineBuf
           t == SubSeq(stream, 1, n)
<1> USE SizeAssumption DEF Place
<1>1. /\ uiReadLineIdx = 0 /\ v \in 0 .. Size /\ b \in [Place -> Nat]
      /\ stream \in Seq(Nat) /\ received \in Seq(Nat) /\ pc = "read"
  BY DEF IInv, TypeOK, PlacesInv, readBuffer
<1>2. Len(stream) \in Nat /\ Free \in Nat /\ Free = Size - v
  BY <1>1 DEF Free
<1>3. n \in Nat /\ n <= Len(stream) /\ n <= Size - v
  BY <1>2, MinOfTwo
<1>4. CASE pc' = "idle" /\ UNCHANGED <<ucReadLineBuf, uiReadLineValidSize, stream, received>>
  BY <1>1, <1>4 DEF readBuffer, IInv, TypeOK, PlacesInv, BytesConserved, LinesAreLines, Pending
<1>5. CASE /\ n > 0
           /\ received' = received \o t
           /\ stream' = SubSeq(stream, n + 1, Len(stream))
           /\ ucReadLineBuf' = [k \in Place |-> IF k \in v .. v + n - 1
                                                THEN stream[k - v + 1] ELSE b[k]]
           /\ uiReadLineValidSize' = v + n
           /\ pc' = "rescan"
  <2> HIDE DEF n
  <2>1. UNCHANGED <<uiReadLineIdx, arrived, lines>>
    BY DEF readBuffer
  <2>2. v \in Nat /\ v + n \in 0 .. Size
    BY <1>1, <1>3
  <2>3. t \in Seq(Nat) /\ Len(t) = n /\ \A k \in 1 .. n : t[k] = stream[k] /\ t[k] \in Nat
    BY <1>1, <1>2, <1>3
  <2>4. ASSUME NEW k \in 0 .. v + n - 1
        PROVE  /\ ucReadLineBuf'[k] = IF k < v THEN b[k] ELSE t[k - v + 1]
               /\ ucReadLineBuf'[k] \in Nat
    <3>1. k \in Place
      BY <1>1, <1>3
    <3>2. CASE k < v
      BY <1>1, <1>3, <1>5, <3>1, <3>2
    <3>3. CASE k >= v
      <4>1. k \in v .. v + n - 1 /\ k - v + 1 \in 1 .. n
        BY <1>3, <2>2, <3>3
      <4> QED BY <1>1, <1>5, <2>2, <2>3, <3>1, <3>3, <4>1
    <3>4. k < v \/ k >= v
      BY <2>2
    <3> QED BY <3>2, <3>3, <3>4, Zenon
  <2>5. ucReadLineBuf' \in [Place -> Nat]
    <3>1. ASSUME NEW k \in Place PROVE ucReadLineBuf'[k] \in Nat
      <4>1. CASE k \in 0 .. v + n - 1
        BY <2>4, <4>1
      <4>2. CASE k \notin 0 .. v + n - 1
        <5>1. ucReadLineBuf'[k] = b[k] /\ b[k] \in Nat
          BY <1>1, <1>3, <1>5, <2>2, <4>2
        <5> QED BY <5>1
      <4> QED BY <4>1, <4>2
    <3> QED BY <1>5, <3>1
  <2>6. TypeOK' /\ PlacesInv'
    <3>1. stream' \in Seq(Nat) /\ received' \in Seq(Nat)
      <4>1. stream' \in Seq(Nat)
        <5>1. n + 1 \in 1 .. Len(stream) + 1
          BY <1>2, <1>3
        <5>2. SubSeq(stream, n + 1, Len(stream)) \in Seq(Nat)
          BY <1>1, <5>1
        <5> QED BY <1>5, <5>2
      <4>2. t \in Seq(Nat)
        BY <2>3
      <4>3. received \o t \in Seq(Nat)
        <5> HIDE DEF t
        <5> QED BY <1>1, <4>2, ConcatProperties, Zenon
      <4> QED BY <1>5, <4>1, <4>3
    <3>2. uiReadLineIdx' <= uiReadLineValidSize'
      BY <1>1, <1>5, <2>1, <2>2
    <3> QED BY <1>1, <1>5, <2>1, <2>2, <2>5, <3>1, <3>2 DEF IInv, TypeOK, PlacesInv
  <2>7. Pending = Window(b, 0, v) /\ Pending' = Window(ucReadLineBuf', 0, v + n)
    <3>1. v - 0 = v /\ (v + n) - 0 = v + n
      BY <1>3, <2>2
    <3> QED BY <1>1, <1>5, <2>1, <3>1 DEF Pending, Window
  <2>8. Window(ucReadLineBuf', 0, v + n)
           = Window(ucReadLineBuf', 0, v) \o Window(ucReadLineBuf', 0 + v, n)
    <3>1. 0 + v + n <= Size
      BY <1>3, <2>2
    <3> HIDE DEF v, t, Place
    <3> QED BY <1>3, <2>2, <2>5, <3>1, WindowSplit
  <2>9. Window(ucReadLineBuf', 0, v) = Window(b, 0, v)
    <3>1. ASSUME NEW k \in 1 .. v PROVE ucReadLineBuf'[0 + k - 1] = b[0 + k - 1]
      <4>1. 0 + k - 1 \in 0 .. v + n - 1 /\ 0 + k - 1 < v
        BY <1>3, <2>2
      <4> QED BY <2>4, <4>1
    <3> QED BY <3>1 DEF Window
  <2>10. Window(ucReadLineBuf', 0 + v, n) = t
    <3> DEFINE w == Window(ucReadLineBuf', 0 + v, n)
    <3>1. 0 + v \in Nat /\ (0 + v) + n <= Size
      BY <1>3, <2>2
    <3>3. w \in Seq(Nat) /\ Len(w) = n /\ \A k \in 1 .. n : w[k] = ucReadLineBuf'[0 + v + k - 1]
      <4> HIDE DEF v, t, Place
      <4> QED BY <1>3, <2>5, <3>1, WindowType
    <3> HIDE DEF w
    <3>4. ASSUME NEW k \in 1 .. n PROVE w[k] = t[k]
      <4>1. 0 + v + k - 1 \in 0 .. v + n - 1 /\ ~(0 + v + k - 1 < v) /\ (0 + v + k - 1) - v + 1 = k
        BY <1>3, <2>2
      <4> QED BY <2>4, <3>3, <4>1
    <3> QED BY <2>3, <3>3, <3>4, SeqEqual DEF w
  <2>11. BytesConserved'
    <3> DEFINE a == FlattenSeq(lines)
               q == Pending
    <3>1. a \in Seq(Nat)
      BY FlattenType DEF IInv, TypeOK
    <3>2. received' = (a \o q) \o t
      BY <1>5 DEF IInv, BytesConserved
    <3>3. q \in Seq(Nat)
      <4>1. 0 + v <= Size
        BY <1>1
      <4> HIDE DEF v, b, Place
      <4> QED BY <1>1, <2>2, <2>7, <4>1, WindowType
    <3>4. (a \o q) \o t = a \o (q \o t)
      <4>1. t \in Seq(Nat)
        BY <2>3
      <4> HIDE DEF a, q, t
      <4> QED BY <3>1, <3>3, <4>1, JoinBytes
    <3>5. Pending' = q \o t
      BY <2>7, <2>8, <2>9, <2>10
    <3> QED BY <2>1, <3>2, <3>4, <3>5 DEF BytesConserved
  <2>12. LinesAreLines'
    BY <2>1 DEF IInv, LinesAreLines
  <2> QED BY <2>6, <2>11, <2>12 DEF IInv
<1> QED BY <1>4, <1>5 DEF readBuffer

(* The steps that do not move bytes about in the array. *)
LEMMA OtherIInv ==
    ASSUME IInv, readLine \/ (\E b \in 0 .. MaxBytes : Arrive(b)) \/ UNCHANGED vars
    PROVE  IInv'
<1> USE DEF IInv, TypeOK, PlacesInv, BytesConserved, LinesAreLines, Pending, bufVars
<1>1. CASE readLine
  BY <1>1 DEF readLine
<1>2. CASE \E b \in 0 .. MaxBytes : Arrive(b)
  BY <1>2, ReaderAssumption DEF Arrive
<1>3. CASE UNCHANGED vars
  BY <1>3 DEF vars
<1> QED BY <1>1, <1>2, <1>3

(* An empty array. *)
LEMMA InitIInv == Init => IInv
<1> SUFFICES ASSUME Init PROVE IInv
  OBVIOUS
<1> USE SizeAssumption DEF Place
<1>1. TypeOK /\ PlacesInv
  <2>1. [k \in Place |-> 0] \in [Place -> Nat]
    OBVIOUS
  <2>2. 0 \in 0 .. Size /\ 0 \in 0 .. MaxBytes
    BY ReaderAssumption
  <2> QED BY <2>1, <2>2 DEF Init, TypeOK, PlacesInv
<1>2. BytesConserved
  <2>1. Pending \in Seq(Nat) /\ Len(Pending) = 0
    BY DEF Init, Pending
  <2>2. Pending = <<>>
    BY <2>1
  <2>3. FlattenSeq(lines) = <<>> /\ received = <<>>
    BY DEF Init, FlattenSeq
  <2> QED BY <2>2, <2>3 DEF BytesConserved
<1>3. LinesAreLines
  BY DEF Init, LinesAreLines
<1> QED BY <1>1, <1>2, <1>3 DEF IInv

(* So it is an invariant. *)
LEMMA AlwaysIInv == Spec => []IInv
<1>1. IInv /\ [Next]_vars => IInv'
  <2> SUFFICES ASSUME IInv, [Next]_vars PROVE IInv'
    OBVIOUS
  <2>1. CASE Scan
    BY <2>1, ReturnLineIInv, CompactIInv DEF Scan
  <2>2. CASE Rescan
    BY <2>2, ReturnLineIInv, CompactIInv DEF Rescan
  <2> QED BY <2>1, <2>2, ReadBufferIInv, OtherIInv DEF Next, Reader
<1> QED BY InitIInv, <1>1, PTL DEF Spec

(* The index and the size of the kept bytes stay in the array, and the     *)
(* types, for every size of the array.                                     *)
THEOREM TypeCorrect == Spec => []TypeOK
<1>1. IInv => TypeOK
  BY DEF IInv
<1> QED BY AlwaysIInv, <1>1, PTL

(* The lines returned and the bytes kept are the bytes received: moving    *)
(* them about in the array loses, repeats and reorders nothing.            *)
THEOREM BytesCorrect == Spec => []BytesConserved
<1>1. IInv => BytesConserved
  BY DEF IInv
<1> QED BY AlwaysIInv, <1>1, PTL

(* What readLine returns has a newline at its end and nowhere else. *)
THEOREM LinesCorrect == Spec => []LinesAreLines
<1>1. IInv => LinesAreLines
  BY DEF IInv
<1> QED BY AlwaysIInv, <1>1, PTL

(* An array that is full without a newline stays so: no later call of      *)
(* readLine gets out of it.                                                *)
THEOREM FullCorrect == Spec => FullForEver
<1>1. IInv /\ [Next]_vars => [Full => Full']_vars
  <2> SUFFICES ASSUME IInv, Full, Next PROVE Full'
    OBVIOUS
  <2> USE SizeAssumption DEF Place
  <2>1. /\ uiReadLineValidSize = Size /\ uiReadLineIdx = 0 /\ NewLines = {}
        /\ ucReadLineBuf \in [Place -> Nat] /\ Len(stream) \in Nat
    BY DEF Full, IInv, TypeOK
  <2>2. CASE UNCHANGED bufVars
    BY <2>1, <2>2 DEF Full, NewLines, bufVars
  <2>3. CASE Compact
    <3>1. uiReadLineValidSize' = Size /\ uiReadLineIdx' = 0
      BY <2>1, <2>3 DEF Compact, Remaining
    <3>2. \A k \in Place : ucReadLineBuf'[k] = ucReadLineBuf[k]
      BY <2>1, <2>3, <3>1 DEF Compact
    <3> QED BY <2>1, <3>1, <3>2 DEF Full, NewLines
  <2>4. CASE readBuffer
    <3>1. Free = 0
      BY <2>1 DEF Free
    <3>2. ~(Min({Len(stream), Free}) > 0)
      BY <2>1, <3>1, MinOfTwo
    <3>3. UNCHANGED bufVars
      BY <2>4, <3>2 DEF readBuffer, bufVars
    <3> QED BY <2>2, <3>3
  <2> QED BY <2>1, <2>2, <2>3, <2>4 DEF Next, Reader, readLine, Scan, Rescan, ReturnLine, Arrive
<1> QED BY AlwaysIInv, <1>1, PTL DEF Spec, FullForEver

=============================================================================
