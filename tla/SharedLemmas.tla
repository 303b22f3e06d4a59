---------------------------- MODULE SharedLemmas ----------------------------
(***************************************************************************)
(* Facts about the library's operators that the proofs of the components   *)
(* share: induction over a set of natural numbers, its least and greatest  *)
(* elements, what FlattenSeq computes, and counting by pigeonholes; and    *)
(* what StrToUint returns for every text.                                  *)
(***************************************************************************)
EXTENDS Decimal, SequenceTheorems, TLAPS
LOCAL WF == INSTANCE WellFoundedInduction
LOCAL FS == INSTANCE FiniteSetTheorems

(* The order of the natural numbers, as a set of pairs. *)
LEMMA LessThanWellFounded == WF!IsWellFoundedOn({p \in Nat \X Nat : p[1] < p[2]}, Nat)
  BY WF!NatLessThanWellFounded DEF WF!OpToRel

(* A set of natural numbers has a least element, *)
LEMMA LeastElement ==
    ASSUME NEW T \in SUBSET Nat, T # {}
    PROVE  \E x \in T : \A y \in T : x <= y
<1> DEFINE R == {p \in Nat \X Nat : p[1] < p[2]}
<1>1. WF!IsWellFoundedOn(R, Nat)
  BY LessThanWellFounded
<1> HIDE DEF R
<1>2. PICK x \in T : \A y \in T : ~(<<y, x>> \in R)
  BY <1>1, WF!WFMin
<1>3. ASSUME NEW y \in T PROVE x <= y
  <2>1. x \in Nat /\ y \in Nat
    OBVIOUS
  <2>2. <<y, x>> \in Nat \X Nat /\ <<y, x>>[1] = y /\ <<y, x>>[2] = x
    BY <2>1
  <2>3. ~(y < x)
    BY <1>2, <2>2 DEF R
  <2> QED BY <2>1, <2>3
<1> QED BY <1>3

(* Min, of a set of natural numbers that has an element. *)
LEMMA MinType ==
    ASSUME NEW T \in SUBSET Nat, T # {}
    PROVE  Min(T) \in T /\ \A x \in T : Min(T) <= x
<1>1. \E x \in T : \A y \in T : x <= y
  BY LeastElement
<1> QED BY <1>1, Zenon DEF Min

(* and a bounded one a greatest. *)
LEMMA GreatestElement ==
    ASSUME NEW n \in Nat, NEW T \in SUBSET (0 .. n), T # {}
    PROVE  \E x \in T : \A y \in T : y <= x
<1> DEFINE U == {n - x : x \in T}
<1>1. U # {} /\ U \in SUBSET Nat
  <2>1. \A x \in T : n - x \in Nat
    OBVIOUS
  <2> QED BY <2>1
<1>2. PICK u \in U : \A v \in U : u <= v
  <2> HIDE DEF U
  <2> QED BY <1>1, LeastElement
<1>3. PICK x \in T : u = n - x
  OBVIOUS
<1>4. ASSUME NEW y \in T PROVE y <= x
  <2>1. n - y \in U
    OBVIOUS
  <2>2. u <= n - y
    BY <1>2, <2>1
  <2> QED BY <1>3, <2>2
<1> QED BY <1>4

(* Induction for a set: it takes no operator as a parameter, so that it    *)
(* can be cited.                                                           *)
LEMMA SetInduction ==
    ASSUME NEW S \in SUBSET Nat, 0 \in S, \A n \in S : n + 1 \in S
    PROVE  S = Nat
<1> SUFFICES ASSUME Nat \ S # {} PROVE FALSE
  OBVIOUS
<1>1. PICK x \in Nat \ S : \A y \in Nat \ S : x <= y
  BY LeastElement
<1>2. x - 1 \in S
  BY <1>1
<1> QED BY <1>1, <1>2

(* Induction up to a number. *)
LEMMA BoundedInduction ==
    ASSUME NEW m \in Nat, NEW S, 0 \in S, \A n \in 0 .. m - 1 : n \in S => n + 1 \in S
    PROVE  \A n \in 0 .. m : n \in S
<1> DEFINE T == {n \in Nat : n \in 0 .. m => n \in S}
<1>1. 0 \in T
  OBVIOUS
<1>2. ASSUME NEW n \in T PROVE n + 1 \in T
  <2>1. CASE n + 1 \in 0 .. m
    <3>1. n \in 0 .. m - 1 /\ n \in 0 .. m
      BY <2>1
    <3> QED BY <2>1, <3>1
  <2>2. CASE n + 1 \notin 0 .. m
    BY <2>2
  <2> QED BY <2>1, <2>2
<1>3. T = Nat
  <2> HIDE DEF T
  <2> T \subseteq Nat BY DEF T
  <2> QED BY <1>1, <1>2, SetInduction
<1> QED BY <1>3

(* The values of g begin with b and go on by the m functions in st. *)
Iterates(g, X, b, m, st) ==
    g \in [0 .. m -> X] /\ g[0] = b /\ \A n \in 1 .. m : g[n] = st[n][g[n - 1]]

(* There is such a g: what a recursive definition of a function needs. *)
LEMMA RecursionExists ==
    ASSUME NEW X, NEW b \in X, NEW m \in Nat, NEW st \in [1 .. m -> [X -> X]]
    PROVE  \E g : Iterates(g, X, b, m, st)
<1> DEFINE Up(g, k) == g[0] = b /\ \A n \in 1 .. k : g[n] = st[n][g[n - 1]]
           S == {k \in 0 .. m : \E g \in [0 .. k -> X] : Up(g, k)}
<1>1. 0 \in S
  <2> DEFINE g == [n \in 0 .. 0 |-> b]
  <2>1. g \in [0 .. 0 -> X] /\ g[0] = b
    OBVIOUS
  <2> HIDE DEF g
  <2>2. Up(g, 0)
    BY <2>1
  <2> HIDE DEF Up
  <2> QED BY <2>1, <2>2
<1>2. ASSUME NEW k \in 0 .. m - 1, k \in S PROVE k + 1 \in S
  <2>1. PICK g \in [0 .. k -> X] : Up(g, k)
    BY <1>2
  <2> DEFINE h == [n \in 0 .. k + 1 |-> IF n = k + 1 THEN st[n][g[k]] ELSE g[n]]
  <2>2. g[k] \in X /\ k + 1 \in 1 .. m /\ st[k + 1] \in [X -> X]
    OBVIOUS
  <2>3. h \in [0 .. k + 1 -> X]
    <3>1. ASSUME NEW n \in 0 .. k + 1 PROVE h[n] \in X
      <4>1. CASE n = k + 1
        BY <2>2, <4>1
      <4>2. CASE n # k + 1
        BY <4>2
      <4> QED BY <4>1, <4>2
    <3> QED BY <3>1
  <2>4. h[0] = b
    <3>1. 0 \in 0 .. k + 1 /\ 0 # k + 1
      OBVIOUS
    <3> QED BY <2>1, <3>1
  <2>5. ASSUME NEW n \in 1 .. k + 1 PROVE h[n] = st[n][h[n - 1]]
    <3>1. n \in 0 .. k + 1 /\ n - 1 \in 0 .. k + 1 /\ n - 1 # k + 1
      OBVIOUS
    <3>2. h[n - 1] = g[n - 1]
      BY <3>1
    <3>3. CASE n = k + 1
      <4>1. n - 1 = k
        BY <3>3
      <4> QED BY <3>1, <3>2, <3>3, <4>1
    <3>4. CASE n # k + 1
      <4>1. n \in 1 .. k
        BY <3>4
      <4> QED BY <2>1, <3>1, <3>2, <3>4, <4>1
    <3> QED BY <3>3, <3>4
  <2> HIDE DEF h
  <2>6. Up(h, k + 1)
    BY <2>4, <2>5
  <2>7. k + 1 \in 0 .. m
    OBVIOUS
  <2> HIDE DEF Up
  <2> QED BY <2>3, <2>6, <2>7
<1>3. m \in S
  <2>1. m \in 0 .. m
    OBVIOUS
  <2> HIDE DEF S
  <2> QED BY <1>1, <1>2, <2>1, BoundedInduction
<1> QED BY <1>3 DEF Iterates

(* The sums of FlattenSeq: its recursion as an equation. *)
Partial(g, ss, m) ==
    g = [i \in 1 .. m |-> IF i = 1 THEN ss[i] ELSE g[i - 1] \o ss[i]]

(* There are such sums, *)
LEMMA PartialExists ==
    ASSUME NEW ss, NEW m \in Nat
    PROVE  \E g : Partial(g, ss, m)
<1> DEFINE P == {n \in Nat : \E g : Partial(g, ss, n)}
<1>1. 0 \in P
  <2> DEFINE g == [i \in 1 .. 0 |-> IF i = 1 THEN ss[i] ELSE <<>>]
  <2>1. Partial(g, ss, 0)
    BY DEF Partial
  <2> QED BY <2>1
<1>2. ASSUME NEW n \in P PROVE n + 1 \in P
  <2>1. PICK g : Partial(g, ss, n)
    OBVIOUS
  <2> DEFINE h == [i \in 1 .. n + 1 |-> IF i = n + 1
                       THEN IF i = 1 THEN ss[i] ELSE g[i - 1] \o ss[i] ELSE g[i]]
  <2>2. Partial(h, ss, n + 1)
    <3>1. ASSUME NEW i \in 1 .. n + 1
          PROVE  h[i] = IF i = 1 THEN ss[i] ELSE h[i - 1] \o ss[i]
      <4> n \in Nat
        OBVIOUS
      <4>1. CASE i = n + 1
        <5>1. i # 1 => i - 1 \in 1 .. n + 1 /\ i - 1 # n + 1
          BY <4>1
        <5> QED BY <4>1, <5>1
      <4>2. CASE i # n + 1
        <5>1. i \in 1 .. n /\ (i # 1 => i - 1 \in 1 .. n + 1 /\ i - 1 # n + 1)
          BY <4>2
        <5>2. g[i] = IF i = 1 THEN ss[i] ELSE g[i - 1] \o ss[i]
          BY <2>1, <5>1 DEF Partial
        <5> QED BY <4>2, <5>1, <5>2
      <4> QED BY <4>1, <4>2
    <3> QED BY <3>1 DEF Partial
  <2> QED BY <2>2
<1>3. P = Nat
  <2> HIDE DEF P
  <2> P \subseteq Nat BY DEF P
  <2> QED BY <1>1, <1>2, SetInduction
<1> QED BY <1>3

(* and FlattenSeq is the last of them. *)
LEMMA FlattenIsPartial ==
    ASSUME NEW ss, Len(ss) \in Nat \ {0}
    PROVE  \E g : Partial(g, ss, Len(ss)) /\ FlattenSeq(ss) = g[Len(ss)]
<1> DEFINE F == CHOOSE g : g = [i \in 1 .. Len(ss) |-> IF i = 1 THEN ss[i] ELSE g[i - 1] \o ss[i]]
<1>1. FlattenSeq(ss) = F[Len(ss)]
  BY DEF FlattenSeq
<1>2. Partial(F, ss, Len(ss))
  BY PartialExists, Zenon DEF Partial
<1> QED BY <1>1, <1>2

(* One sum from the one before. *)
LEMMA PartialStep ==
    ASSUME NEW ss, NEW m \in Nat, NEW g, Partial(g, ss, m),
           NEW k \in Nat, k + 1 \in 1 .. m
    PROVE  g[k + 1] = IF k = 0 THEN ss[k + 1] ELSE g[k] \o ss[k + 1]
<1>1. g[k + 1] = IF k + 1 = 1 THEN ss[k + 1] ELSE g[(k + 1) - 1] \o ss[k + 1]
  BY Zenon DEF Partial
<1>2. (k + 1) - 1 = k /\ (k + 1 = 1 <=> k = 0)
  OBVIOUS
<1> QED BY <1>1, <1>2

(* They are sequences. *)
LEMMA PartialType ==
    ASSUME NEW S, NEW ss \in Seq(Seq(S)), NEW g, Partial(g, ss, Len(ss))
    PROVE  \A i \in 1 .. Len(ss) : g[i] \in Seq(S)
<1> DEFINE P == {n \in Nat : n \in 1 .. Len(ss) => g[n] \in Seq(S)}
<1>1. 0 \in P
  OBVIOUS
<1>2. ASSUME NEW n \in P PROVE n + 1 \in P
  <2> SUFFICES ASSUME n + 1 \in 1 .. Len(ss) PROVE g[n + 1] \in Seq(S)
    OBVIOUS
  <2>1. g[n + 1] = IF n = 0 THEN ss[n + 1] ELSE g[n] \o ss[n + 1]
    <3>1. Len(ss) \in Nat /\ n \in Nat
      OBVIOUS
    <3> QED BY <3>1, PartialStep
  <2>2. ss[n + 1] \in Seq(S)
    OBVIOUS
  <2>3. n # 0 => g[n] \in Seq(S)
    OBVIOUS
  <2> QED BY <2>1, <2>2, <2>3
<1>3. P = Nat
  <2> HIDE DEF P
  <2> P \subseteq Nat BY DEF P
  <2> QED BY <1>1, <1>2, SetInduction
<1> QED BY <1>3

(* The sums of a longer sequence begin with those of the shorter one. *)
LEMMA PartialAgree ==
    ASSUME NEW S, NEW ss \in Seq(Seq(S)), NEW s \in Seq(S),
           NEW g, Partial(g, ss, Len(ss)),
           NEW h, Partial(h, Append(ss, s), Len(ss) + 1)
    PROVE  \A i \in 1 .. Len(ss) : g[i] = h[i]
<1> DEFINE tt == Append(ss, s)
           P == {k \in Nat : k \in 1 .. Len(ss) => g[k] = h[k]}
<1>1. 0 \in P
  OBVIOUS
<1>2. ASSUME NEW k \in P PROVE k + 1 \in P
  <2> SUFFICES ASSUME k + 1 \in 1 .. Len(ss) PROVE g[k + 1] = h[k + 1]
    OBVIOUS
  <2>1. k \in Nat /\ Len(ss) \in Nat /\ k + 1 \in 1 .. Len(ss) + 1 /\ tt[k + 1] = ss[k + 1]
    OBVIOUS
  <2> HIDE DEF tt
  <2>2. g[k + 1] = IF k = 0 THEN ss[k + 1] ELSE g[k] \o ss[k + 1]
    BY <2>1, PartialStep
  <2>3. h[k + 1] = IF k = 0 THEN tt[k + 1] ELSE h[k] \o tt[k + 1]
    <3>1. Partial(h, tt, Len(ss) + 1)
      BY DEF tt
    <3> QED BY <2>1, <3>1, PartialStep
  <2>4. k # 0 => g[k] = h[k]
    BY <2>1
  <2> QED BY <2>1, <2>2, <2>3, <2>4
<1>3. P = Nat
  <2> HIDE DEF P
  <2> P \subseteq Nat BY DEF P
  <2> QED BY <1>1, <1>2, SetInduction
<1> QED BY <1>3

(* FlattenSeq returns a sequence, *)
LEMMA FlattenType ==
    ASSUME NEW S, NEW ss \in Seq(Seq(S))
    PROVE  FlattenSeq(ss) \in Seq(S)
<1>1. CASE Len(ss) = 0
  <2>1. ss = <<>>
    BY <1>1
  <2> QED BY <1>1, <2>1 DEF FlattenSeq
<1>2. CASE Len(ss) # 0
  <2>1. PICK g : Partial(g, ss, Len(ss)) /\ FlattenSeq(ss) = g[Len(ss)]
    BY <1>2, FlattenIsPartial
  <2> QED BY <1>2, <2>1, PartialType
<1> QED BY <1>1, <1>2

(* and one more sequence is joined at its end. *)
LEMMA FlattenAppend ==
    ASSUME NEW S, NEW ss \in Seq(Seq(S)), NEW s \in Seq(S)
    PROVE  FlattenSeq(Append(ss, s)) = FlattenSeq(ss) \o s
<1> DEFINE tt == Append(ss, s)
<1>1. tt \in Seq(Seq(S)) /\ Len(tt) = Len(ss) + 1 /\ tt[Len(tt)] = s
  OBVIOUS
<1>2. \A i \in 1 .. Len(ss) : ss[i] = tt[i]
  OBVIOUS
<1> HIDE DEF tt
<1>3. PICK h : Partial(h, tt, Len(tt)) /\ FlattenSeq(tt) = h[Len(tt)]
  BY <1>1, FlattenIsPartial
<1>4. h[Len(ss) + 1] = IF Len(ss) = 0 THEN tt[Len(ss) + 1] ELSE h[Len(ss)] \o tt[Len(ss) + 1]
  <2>1. Len(ss) + 1 \in 1 .. Len(tt) /\ Len(tt) \in Nat /\ Len(ss) \in Nat
    BY <1>1
  <2> QED BY <1>3, <2>1, PartialStep
<1>5. CASE Len(ss) = 0
  <2>1. ss = <<>> /\ FlattenSeq(ss) = <<>>
    BY <1>5 DEF FlattenSeq
  <2> QED BY <1>1, <1>3, <1>4, <1>5, <2>1 DEF tt
<1>6. CASE Len(ss) # 0
  <2>1. PICK g : Partial(g, ss, Len(ss)) /\ FlattenSeq(ss) = g[Len(ss)]
    BY <1>6, FlattenIsPartial
  <2>2. g[Len(ss)] = h[Len(ss)]
    <3>1. Partial(h, Append(ss, s), Len(ss) + 1) /\ Len(ss) \in 1 .. Len(ss)
      BY <1>1, <1>3, <1>6 DEF tt
    <3> QED BY <2>1, <3>1, PartialAgree
  <2> QED BY <1>1, <1>3, <1>4, <1>6, <2>1, <2>2 DEF tt
<1> QED BY <1>5, <1>6

(* FlattenSeq adds sequence by sequence: the sums on the way. *)
IsSums(g, ss) ==
    /\ g \in [0 .. Len(ss) -> Seq(Int)]
    /\ g[0] = <<>> /\ g[Len(ss)] = FlattenSeq(ss)
    /\ \A k \in 0 .. Len(ss) - 1 : g[k + 1] = g[k] \o ss[k + 1]
Sums(ss) == CHOOSE g : IsSums(g, ss)

(* There are such sums. *)
LEMMA SumsExist ==
    ASSUME NEW ss \in Seq(Seq(Int))
    PROVE  IsSums(Sums(ss), ss)
<1> DEFINE n == Len(ss)
<1>1. n \in Nat
  OBVIOUS
<1>2. CASE n = 0
  <2> DEFINE g == [k \in 0 .. n |-> <<>>]
  <2>1. ss = <<>> /\ FlattenSeq(ss) = <<>>
    BY <1>2 DEF FlattenSeq
  <2>2. g \in [0 .. n -> Seq(Int)] /\ g[0] = <<>> /\ g[n] = <<>>
    BY <1>1
  <2> HIDE DEF g
  <2>3. IsSums(g, ss)
    BY <1>2, <2>1, <2>2 DEF IsSums
  <2> QED BY <2>3, Zenon DEF Sums
<1>3. CASE n # 0
  <2>1. PICK f : Partial(f, ss, n) /\ FlattenSeq(ss) = f[n]
    BY <1>1, <1>3, FlattenIsPartial
  <2>2. \A k \in 1 .. n : f[k] \in Seq(Int)
    BY <2>1, PartialType
  <2> DEFINE g == [k \in 0 .. n |-> IF k = 0 THEN <<>> ELSE f[k]]
  <2>3. ASSUME NEW k \in 0 .. n
        PROVE  g[k] \in Seq(Int) /\ (k = 0 => g[k] = <<>>) /\ (k # 0 => g[k] = f[k])
    BY <1>1, <2>2
  <2>4. g \in [0 .. n -> Seq(Int)]
    BY <2>3
  <2> HIDE DEF g
  <2>5. ASSUME NEW k \in 0 .. n - 1 PROVE g[k + 1] = g[k] \o ss[k + 1]
    <3>1. k \in Nat /\ k + 1 \in 1 .. n /\ k + 1 \in 0 .. n /\ k \in 0 .. n /\ k + 1 # 0
      BY <1>1
    <3>2. f[k + 1] = IF k = 0 THEN ss[k + 1] ELSE f[k] \o ss[k + 1]
      <4> HIDE DEF n
      <4> QED BY <1>1, <2>1, <3>1, PartialStep
    <3>3. ss[k + 1] \in Seq(Int)
      BY <3>1
    <3>4. g[k + 1] = f[k + 1]
      BY <2>3, <3>1
    <3>5. CASE k = 0
      <4>1. g[k] = <<>>
        BY <2>3, <3>1, <3>5
      <4>2. <<>> \o ss[k + 1] = ss[k + 1]
        BY <3>3
      <4> QED BY <3>2, <3>4, <3>5, <4>1, <4>2
    <3>6. CASE k # 0
      BY <2>3, <3>1, <3>2, <3>4, <3>6
    <3> QED BY <3>5, <3>6
  <2>6. 0 \in 0 .. n /\ n \in 0 .. n
    BY <1>1
  <2>7. g[0] = <<>> /\ g[n] = FlattenSeq(ss)
    BY <1>3, <2>1, <2>3, <2>6
  <2>8. IsSums(g, ss)
    BY <2>4, <2>5, <2>7 DEF IsSums
  <2> QED BY <2>8, Zenon DEF Sums
<1> QED BY <1>2, <1>3

(* A sum begins with those before it. *)
LEMMA SumsGrow ==
    ASSUME NEW ss \in Seq(Seq(Int)), NEW g, IsSums(g, ss),
           NEW a \in 0 .. Len(ss), NEW b \in a .. Len(ss)
    PROVE  Len(g[a]) <= Len(g[b]) /\ \A y \in 1 .. Len(g[a]) : g[b][y] = g[a][y]
<1> DEFINE n == Len(ss)
           Grown(d) == Len(g[a]) <= Len(g[a + d]) /\ \A y \in 1 .. Len(g[a]) : g[a + d][y] = g[a][y]
           T == {d \in 0 .. n - a : Grown(d)}
<1>1. n \in Nat /\ a \in Nat /\ b \in Nat /\ n - a \in Nat
  <2>1. n \in Nat
    OBVIOUS
  <2> HIDE DEF n
  <2>2. a \in 0 .. n /\ b \in a .. n
    BY DEF n
  <2> QED BY <2>1, <2>2
<1>2. \A k \in 0 .. n : g[k] \in Seq(Int) /\ Len(g[k]) \in Nat
  <2>1. g \in [0 .. n -> Seq(Int)]
    BY DEF IsSums
  <2>2. ASSUME NEW k \in 0 .. n PROVE g[k] \in Seq(Int)
    BY <2>1
  <2>3. ASSUME NEW s \in Seq(Int) PROVE Len(s) \in Nat
    OBVIOUS
  <2> QED BY <2>2, <2>3
<1>3. 0 \in T
  <2>1. a + 0 = a /\ 0 \in 0 .. n - a
    BY <1>1
  <2>2. Grown(0)
    BY <1>2, <2>1
  <2> QED BY <2>1, <2>2
<1>4. ASSUME NEW d \in 0 .. n - a - 1, d \in T PROVE d + 1 \in T
  <2>1. a + d \in 0 .. n - 1 /\ a + d \in 0 .. n /\ a + (d + 1) = (a + d) + 1 /\ d + 1 \in 0 .. n - a
        /\ a + (d + 1) \in 0 .. n /\ (a + d) + 1 \in 1 .. n
    BY <1>1
  <2> DEFINE k == a + d
  <2>0. k \in 0 .. n - 1 /\ k \in 0 .. n /\ k + 1 \in 1 .. n /\ a \in 0 .. n
    BY <2>1
  <2>2. g[k + 1] = g[k] \o ss[k + 1] /\ ss[k + 1] \in Seq(Int) /\ g[k] \in Seq(Int) /\ g[a] \in Seq(Int)
        /\ Len(g[k]) \in Nat /\ Len(g[a]) \in Nat
    <3> HIDE DEF k
    <3>1. ss[k + 1] \in Seq(Int)
      BY <2>0, ElementOfSeq
    <3> QED BY <1>2, <2>0, <3>1 DEF IsSums
  <2>3. Len(g[a]) <= Len(g[k]) /\ \A y \in 1 .. Len(g[a]) : g[k][y] = g[a][y]
    BY <1>4
  <2> HIDE DEF k
  <2>4. Len(g[k + 1]) = Len(g[k]) + Len(ss[k + 1]) /\ Len(ss[k + 1]) \in Nat
    BY <2>2
  <2>5. Len(g[a]) <= Len(g[k + 1])
    <3> DEFINE x == Len(g[a])
               y == Len(g[k])
               z == Len(ss[k + 1])
    <3>1. x \in Nat /\ y \in Nat /\ z \in Nat /\ x <= y
      BY <2>2, <2>3, <2>4
    <3> HIDE DEF x, y, z
    <3>2. x <= y + z
      BY <3>1
    <3> QED BY <2>4, <3>2 DEF x, y, z
  <2>6. ASSUME NEW y \in 1 .. Len(g[a]) PROVE g[k + 1][y] = g[a][y]
    <3>1. y \in 1 .. Len(g[k])
      <4> DEFINE u == Len(g[a])
                 v == Len(g[k])
      <4>1. u \in Nat /\ v \in Nat /\ u <= v /\ y \in 1 .. u
        BY <2>2, <2>3
      <4> HIDE DEF u, v
      <4>2. y \in 1 .. v
        BY <4>1
      <4> QED BY <4>2 DEF v
    <3>2. (g[k] \o ss[k + 1])[y] = g[k][y]
      <4> DEFINE p == g[k]
                 q == ss[k + 1]
      <4>1. p \in Seq(Int) /\ q \in Seq(Int) /\ y \in 1 .. Len(p)
        BY <2>2, <3>1
      <4> HIDE DEF p, q
      <4>2. (p \o q)[y] = p[y]
        BY <4>1
      <4> QED BY <4>2 DEF p, q
    <3> QED BY <2>2, <2>3, <3>2
  <2>7. Grown(d + 1)
    BY <2>1, <2>5, <2>6 DEF k
  <2> QED BY <2>1, <2>7
<1>5. b - a \in T
  <2>1. b - a \in 0 .. n - a
    BY <1>1
  <2> DEFINE m == n - a
  <2>2. \A d \in 0 .. m - 1 : d \in T => d + 1 \in T
    BY <1>4
  <2> HIDE DEF T, m
  <2>3. \A d \in 0 .. m : d \in T
    BY <1>1, <1>3, <2>2, BoundedInduction DEF m
  <2> QED BY <2>1, <2>3 DEF m
<1>6. a + (b - a) = b
  BY <1>1
<1> QED BY <1>5, <1>6

(* A sequence is one of its own elements. *)
LEMMA IsSequence ==
    ASSUME NEW S, NEW s \in Seq(S)
    PROVE  s \in Seq(ToSet(s))
  BY DEF ToSet

(* The end of a sequence with one more element. *)
LEMMA SuffixAppend ==
    ASSUME NEW S, NEW s \in Seq(S), NEW e \in S, NEW m \in 1 .. Len(s) + 1
    PROVE  SubSeq(Append(s, e), m, Len(s) + 1) = Append(SubSeq(s, m, Len(s)), e)
<1> DEFINE t == SubSeq(Append(s, e), m, Len(s) + 1)
           u == Append(SubSeq(s, m, Len(s)), e)
<1>1. t \in Seq(S) /\ u \in Seq(S) /\ Len(t) = Len(s) + 2 - m /\ Len(u) = Len(s) + 2 - m
  OBVIOUS
<1>2. ASSUME NEW i \in 1 .. Len(t) PROVE t[i] = u[i]
  <2> DEFINE n == Len(s)
             v == SubSeq(s, m, n)
  <2>1. n \in Nat /\ m \in 1 .. n + 1 /\ i \in 1 .. n + 2 - m
    BY <1>1
  <2>2. v \in Seq(S) /\ Len(v) = n + 1 - m
    BY <2>1
  <2>3. t[i] = Append(s, e)[m + i - 1]
    BY <2>1
  <2>4. CASE i = n + 2 - m
    <3>1. m + i - 1 = n + 1 /\ i = Len(v) + 1
      BY <2>1, <2>2, <2>4
    <3> QED BY <2>2, <2>3, <3>1
  <2>5. CASE i # n + 2 - m
    <3>1. m + i - 1 \in 1 .. n /\ i \in 1 .. n + 1 - m
      BY <2>1, <2>5
    <3>2. Append(s, e)[m + i - 1] = s[m + i - 1]
      BY <3>1
    <3>3. v[i] = s[m + i - 1]
      BY <2>1, <3>1
    <3>4. u[i] = v[i]
      <4> HIDE DEF v
      <4> QED BY <2>2, <3>1 DEF v
    <3> QED BY <2>3, <3>2, <3>3, <3>4
  <2> QED BY <2>4, <2>5
<1> HIDE DEF t, u
<1>3. t = u
  BY <1>1, <1>2, SeqEqual
<1> QED BY <1>3 DEF t, u

(* The end of an end. *)
LEMMA SuffixOfSuffix ==
    ASSUME NEW S, NEW s \in Seq(S), NEW m \in 0 .. Len(s), NEW k \in 0 .. Len(s) - m
    PROVE  SubSeq(SubSeq(s, m + 1, Len(s)), k + 1, Len(s) - m) = SubSeq(s, m + k + 1, Len(s))
<1> DEFINE t == SubSeq(SubSeq(s, m + 1, Len(s)), k + 1, Len(s) - m)
           u == SubSeq(s, m + k + 1, Len(s))
<1>1. t \in Seq(S) /\ u \in Seq(S) /\ Len(t) = Len(s) - m - k /\ Len(u) = Len(s) - m - k
  OBVIOUS
<1>2. ASSUME NEW i \in 1 .. Len(t) PROVE t[i] = u[i]
  BY <1>1
<1> HIDE DEF t, u
<1>3. t = u
  BY <1>1, <1>2, SeqEqual
<1> QED BY <1>3 DEF t, u

(* One element more of what is appended. *)
LEMMA AppendNext ==
    ASSUME NEW S, NEW s \in Seq(S), NEW t \in Seq(S), NEW k \in 1 .. Len(t)
    PROVE  Append(s \o SubSeq(t, 1, k - 1), t[k]) = s \o SubSeq(t, 1, k)
<1> DEFINE u == Append(s \o SubSeq(t, 1, k - 1), t[k])
           v == s \o SubSeq(t, 1, k)
<1>1. SubSeq(t, 1, k - 1) \in Seq(S) /\ Len(SubSeq(t, 1, k - 1)) = k - 1
      /\ SubSeq(t, 1, k) \in Seq(S) /\ Len(SubSeq(t, 1, k)) = k
  OBVIOUS
<1>2. u \in Seq(S) /\ v \in Seq(S) /\ Len(u) = Len(s) + k /\ Len(v) = Len(s) + k
  BY <1>1
<1>3. ASSUME NEW i \in 1 .. Len(u) PROVE u[i] = v[i]
  BY <1>1, <1>2
<1> HIDE DEF u, v
<1>4. u = v
  BY <1>2, <1>3, SeqEqual
<1> QED BY <1>4 DEF u, v

(* Max, of a set with a known greatest element. *)
LEMMA MaxIs ==
    ASSUME NEW T \in SUBSET Nat, NEW m \in T, \A x \in T : x <= m
    PROVE  Max(T) = m
<1>1. \E x \in T : \A y \in T : x >= y
  OBVIOUS
<1>2. Max(T) \in T /\ \A y \in T : Max(T) >= y
  BY <1>1, Zenon DEF Max
<1>3. Max(T) \in Nat /\ m \in Nat /\ Max(T) >= m /\ Max(T) <= m
  BY <1>2
<1> QED BY <1>3

(* Min, of a set with a known least element. *)
LEMMA MinIs ==
    ASSUME NEW T \in SUBSET Nat, NEW m \in T, \A x \in T : m <= x
    PROVE  Min(T) = m
<1>1. Min(T) \in T /\ Min(T) <= m
  BY MinType
<1>2. m <= Min(T) /\ Min(T) \in Nat /\ m \in Nat
  BY <1>1
<1> QED BY <1>1, <1>2

(* A function onto 1 .. m is one to one just when it has m arguments. *)
LEMMA Pigeonhole ==
    ASSUME NEW n \in Nat, NEW m \in Nat, NEW f \in [1 .. n -> 1 .. m],
           \A y \in 1 .. m : \E x \in 1 .. n : f[x] = y
    PROVE  m = n <=> IsInjective(f)
<1>1. FS!IsFiniteSet(1 .. n) /\ FS!Cardinality(1 .. n) = n /\ FS!Cardinality(1 .. m) = m
  <2>1. ASSUME NEW k \in Nat PROVE FS!IsFiniteSet(1 .. k) /\ FS!Cardinality(1 .. k) = k
    <3>1. 1 \in Int /\ k \in Int
      OBVIOUS
    <3>2. FS!IsFiniteSet(1 .. k) /\ FS!Cardinality(1 .. k) = IF 1 > k THEN 0 ELSE k - 1 + 1
      BY <3>1, FS!FS_Interval
    <3> QED BY <3>2
  <2> QED BY <2>1
<1> DEFINE S == 1 .. n
           T == 1 .. m
<1>2. f \in FS!Surjection(S, T)
  BY DEF FS!Surjection
<1> HIDE DEF S, T
<1>3. FS!Cardinality(T) = FS!Cardinality(S) <=> f \in FS!Injection(S, T)
  BY <1>1, <1>2, FS!FS_Surjection DEF S
<1>4. f \in FS!Injection(S, T) <=> IsInjective(f)
  BY DEF FS!Injection, FS!IsInjective, IsInjective, S, T
<1> QED BY <1>1, <1>3, <1>4 DEF S, T

(* A character appended to the end of a concatenation. *)
LEMMA AppendConcat ==
    ASSUME NEW S, NEW a \in Seq(S), NEW b \in Seq(S), NEW c \in S
    PROVE  a \o Append(b, c) = Append(a \o b, c)
<1> DEFINE t == a \o Append(b, c)
           u == Append(a \o b, c)
<1>1. /\ t \in Seq(S) /\ u \in Seq(S) /\ Len(t) = Len(a) + Len(b) + 1 /\ Len(u) = Len(a) + Len(b) + 1
      /\ Len(a) \in Nat /\ Len(b) \in Nat
  OBVIOUS
<1>2. ASSUME NEW k \in 1 .. Len(a) + Len(b) + 1 PROVE t[k] = u[k]
  OBVIOUS
<1> HIDE DEF t, u
<1>3. t = [k \in 1 .. Len(t) |-> t[k]] /\ u = [k \in 1 .. Len(u) |-> u[k]]
  BY <1>1
<1>4. t = u
  BY <1>1, <1>2, <1>3
<1> QED BY <1>4 DEF t, u

(* The elements of a sequence with one more. *)
LEMMA ToSetAppend ==
    ASSUME NEW S, NEW s \in Seq(S), NEW c \in S
    PROVE  ToSet(Append(s, c)) = ToSet(s) \cup {c}
<1> DEFINE t == Append(s, c)
           n == Len(s)
<1>1. /\ n \in Nat /\ DOMAIN s = 1 .. n /\ DOMAIN t = 1 .. n + 1 /\ t[n + 1] = c
      /\ \A k \in 1 .. n : t[k] = s[k]
  OBVIOUS
<1> HIDE DEF t, n
<1>2. ToSet(s) = {s[k] : k \in 1 .. n} /\ ToSet(t) = {t[k] : k \in 1 .. n + 1}
  BY <1>1 DEF ToSet
<1>3. 1 .. n + 1 = (1 .. n) \cup {n + 1}
  BY <1>1
<1>4. ToSet(t) = ToSet(s) \cup {c}
  BY <1>1, <1>2, <1>3
<1> QED BY <1>4 DEF t

-----------------------------------------------------------------------------
(* StrToUint. *)

(* What StrToUint returns. *)
Number == [ok : BOOLEAN, uint : 0 .. UintMod - 1]

(* A turn of the loop of StrToUint, and what it has read before each       *)
(* character: the recursion in its definition as an equation.              *)
Turn(r, c) ==
    IF r.ok /\ IsDigit(c) THEN [ok |-> TRUE, uint |-> (r.uint * 10 + c - 48) % UintMod]
    ELSE [ok |-> FALSE, uint |-> r.uint]
IsRead(g, str) ==
    g = [n \in 0 .. Len(str) |-> IF n = 0 THEN [ok |-> TRUE, uint |-> 0]
                                 ELSE Turn(g[n - 1], str[n])]

(* A turn of the loop keeps the types. *)
LEMMA TurnType ==
    ASSUME NEW r \in Number, NEW c \in Int
    PROVE  Turn(r, c) \in Number
<1>1. IsDigit(c) => (r.uint * 10 + c - 48) \in Nat
  BY UintAssumption DEF Number, IsDigit
<1>2. IsDigit(c) => (r.uint * 10 + c - 48) % UintMod \in 0 .. UintMod - 1
  BY <1>1, UintAssumption
<1> QED BY <1>2 DEF Turn, Number

(* StrToUint is a sequence of such turns. *)
LEMMA StrToUintIsRead ==
    ASSUME NEW str \in Seq(Int)
    PROVE  \E g \in [0 .. Len(str) -> Number] :
              /\ g[0] = [ok |-> TRUE, uint |-> 0]
              /\ \A n \in 0 .. Len(str) - 1 : g[n + 1] = Turn(g[n], str[n + 1])
              /\ StrToUint(str) = g[Len(str)]
<1> DEFINE m == Len(str)
           zero == [ok |-> TRUE, uint |-> 0]
           F == CHOOSE g : IsRead(g, str)
<1>1. m \in Nat /\ zero \in Number /\ \A n \in 1 .. m : str[n] \in Int
  BY UintAssumption DEF Number
<1>2. \E g : IsRead(g, str)
  <2> DEFINE st == [n \in 1 .. m |-> [r \in Number |-> Turn(r, str[n])]]
  <2>1. st \in [1 .. m -> [Number -> Number]]
    BY <1>1, TurnType
  <2>2. \A r \in Number, n \in 1 .. m : st[n][r] = Turn(r, str[n])
    OBVIOUS
  <2> HIDE DEF st, m, zero
  <2>3. PICK g : Iterates(g, Number, zero, m, st)
    BY <1>1, <2>1, RecursionExists
  <2>4. ASSUME NEW n \in 0 .. m PROVE g[n] = IF n = 0 THEN zero ELSE Turn(g[n - 1], str[n])
    <3>1. CASE n = 0
      BY <2>3, <3>1 DEF Iterates
    <3>2. CASE n # 0
      <4>1. n \in 1 .. m /\ n - 1 \in 0 .. m
        BY <1>1, <3>2
      <4> QED BY <2>2, <2>3, <3>2, <4>1 DEF Iterates
    <3> QED BY <3>1, <3>2
  <2>5. IsRead(g, str)
    <3>1. g = [n \in 0 .. m |-> g[n]]
      BY <2>3 DEF Iterates
    <3> QED BY <2>4, <3>1 DEF IsRead, m, zero
  <2> QED BY <2>5
<1>3. IsRead(F, str)
  BY <1>2, Zenon
<1>4. StrToUint(str) = F[m]
  BY Zenon DEF StrToUint, IsRead, Turn
<1> HIDE DEF F
<1>5. F[0] = zero /\ DOMAIN F = 0 .. m
  BY <1>1, <1>3 DEF IsRead
<1>6. ASSUME NEW n \in 0 .. m - 1 PROVE F[n + 1] = Turn(F[n], str[n + 1])
  <2>1. n + 1 \in 0 .. m /\ n + 1 # 0 /\ (n + 1) - 1 = n
    BY <1>1
  <2>2. F[n + 1] = Turn(F[(n + 1) - 1], str[n + 1])
    BY <1>3, <2>1, Zenon DEF IsRead
  <2> QED BY <2>1, <2>2
<1>7. \A n \in 0 .. m : n \in {k \in 0 .. m : F[k] \in Number}
  <2> DEFINE S == {k \in 0 .. m : F[k] \in Number}
  <2>1. 0 \in S
    <3> HIDE DEF zero
    <3> QED BY <1>1, <1>5
  <2>2. ASSUME NEW n \in 0 .. m - 1, n \in S PROVE n + 1 \in S
    <3>1. n + 1 \in 1 .. m /\ n + 1 \in 0 .. m
      BY <1>1
    <3> QED BY <1>1, <1>6, <2>2, <3>1, TurnType
  <2> HIDE DEF S, m
  <2> QED BY <1>1, <2>1, <2>2, BoundedInduction DEF S
<1>8. F \in [0 .. m -> Number]
  <2>1. F = [n \in 0 .. m |-> F[n]]
    BY <1>3 DEF IsRead
  <2> QED BY <1>7, <2>1
<1> QED BY <1>4, <1>5, <1>6, <1>8

(* The same for the number that a text of digits means.                    *)
LEMMA DecimalValueIsRead ==
    ASSUME NEW str \in Seq(Int)
    PROVE  \E v \in [0 .. Len(str) -> Int] :
              /\ v[0] = 0
              /\ \A n \in 0 .. Len(str) - 1 : v[n + 1] = 10 * v[n] + (str[n + 1] - 48)
              /\ DecimalValue(str) = v[Len(str)]
<1> DEFINE m == Len(str)
           Eq(v) == v = [n \in 0 .. m |-> IF n = 0 THEN 0 ELSE 10 * v[n - 1] + (str[n] - 48)]
           F == CHOOSE v : Eq(v)
<1>1. m \in Nat /\ \A n \in 1 .. m : str[n] \in Int
  OBVIOUS
<1>2. \E v : Eq(v)
  <2> DEFINE st == [n \in 1 .. m |-> [x \in Int |-> 10 * x + (str[n] - 48)]]
  <2>1. st \in [1 .. m -> [Int -> Int]]
    BY <1>1
  <2>2. \A x \in Int, n \in 1 .. m : st[n][x] = 10 * x + (str[n] - 48)
    OBVIOUS
  <2> HIDE DEF st, m
  <2>3. PICK v : Iterates(v, Int, 0, m, st)
    <3> DEFINE X == Int
               b == 0
    <3>1. b \in X /\ m \in Nat /\ st \in [1 .. m -> [X -> X]]
      BY <1>1, <2>1
    <3> HIDE DEF X, b
    <3>2. \E v : Iterates(v, X, b, m, st)
      BY <3>1, RecursionExists
    <3> QED BY <3>2 DEF X, b
  <2>4. ASSUME NEW n \in 0 .. m PROVE v[n] = IF n = 0 THEN 0 ELSE 10 * v[n - 1] + (str[n] - 48)
    <3>1. CASE n = 0
      BY <2>3, <3>1 DEF Iterates
    <3>2. CASE n # 0
      <4>1. n \in 1 .. m /\ n - 1 \in 0 .. m
        BY <1>1, <3>2
      <4> QED BY <2>2, <2>3, <3>2, <4>1 DEF Iterates
    <3> QED BY <3>1, <3>2
  <2>5. Eq(v)
    <3>1. v = [n \in 0 .. m |-> v[n]]
      BY <2>3 DEF Iterates
    <3> QED BY <2>4, <3>1
  <2> QED BY <2>5
<1>3. Eq(F)
  BY <1>2, Zenon
<1>4. DecimalValue(str) = F[m]
  BY Zenon DEF DecimalValue
<1> HIDE DEF F
<1>5. F[0] = 0 /\ F = [n \in 0 .. m |-> F[n]]
  BY <1>1, <1>3
<1>6. ASSUME NEW n \in 0 .. m - 1 PROVE F[n + 1] = 10 * F[n] + (str[n + 1] - 48)
  <2>1. n + 1 \in 0 .. m /\ n + 1 # 0 /\ (n + 1) - 1 = n
    BY <1>1
  <2>2. F[n + 1] = 10 * F[(n + 1) - 1] + (str[n + 1] - 48)
    BY <1>3, <2>1, Zenon
  <2> QED BY <2>1, <2>2
<1>7. \A n \in 0 .. m : n \in {k \in 0 .. m : F[k] \in Int}
  <2> DEFINE S == {k \in 0 .. m : F[k] \in Int}
  <2>1. 0 \in S
    BY <1>1, <1>5
  <2>2. ASSUME NEW n \in 0 .. m - 1, n \in S PROVE n + 1 \in S
    <3>1. n + 1 \in 1 .. m /\ n + 1 \in 0 .. m
      BY <1>1
    <3> QED BY <1>1, <1>6, <2>2, <3>1
  <2> HIDE DEF S, m
  <2> QED BY <1>1, <2>1, <2>2, BoundedInduction DEF S
<1>8. F \in [0 .. m -> Int]
  BY <1>5, <1>7
<1> QED BY <1>4, <1>5, <1>6, <1>8

(* Division leaves one remainder. *)
LEMMA Distributes ==
    ASSUME NEW M \in Int, NEW x \in Int, NEW y \in Int
    PROVE  /\ M * (x - y) = M * x - M * y /\ M * (x + y) = M * x + M * y
           /\ M * (10 * x) = 10 * (M * x) /\ M * x \in Int
  OBVIOUS

(* The remainder and the quotient of a natural number. *)
LEMMA Remainder ==
    ASSUME NEW M \in Nat \ {0}, NEW a \in Nat
    PROVE  a = M * (a \div M) + (a % M) /\ a % M \in 0 .. M - 1 /\ a \div M \in Nat
<1>1. a % M \in 0 .. M - 1
  OBVIOUS
<1>2. a = M * (a \div M) + (a % M)
  OBVIOUS
<1>3. a \div M \in Nat
  OBVIOUS
<1> QED BY <1>1, <1>2, <1>3

(* A number has one remainder. *)
LEMMA OneRemainder ==
    ASSUME NEW M \in Nat \ {0}, NEW q \in Int, NEW p \in Int,
           NEW r \in 0 .. M - 1, NEW s \in 0 .. M - 1, M * q + r = M * p + s
    PROVE  r = s
<1>1. /\ M * q \in Int /\ M * p \in Int
      /\ M * (q - p) = M * q - M * p /\ M * (p - q) = M * p - M * q
  BY Distributes
<1>2. ASSUME NEW x \in Int, x >= 1 PROVE M * x >= M
  BY <1>2
<1>3. CASE q > p
  <2>1. M * (q - p) >= M
    BY <1>2, <1>3
  <2> QED BY <1>1, <2>1
<1>4. CASE q < p
  <2>1. M * (p - q) >= M
    BY <1>2, <1>4
  <2> QED BY <1>1, <2>1
<1>5. CASE q = p
  BY <1>1, <1>5
<1> QED BY <1>3, <1>4, <1>5

(* A digit may be added before or after the remainder is taken.            *)
LEMMA DigitRemainder ==
    ASSUME NEW M \in Nat \ {0}, NEW a \in Nat, NEW d \in Nat
    PROVE  ((a % M) * 10 + d) % M = (10 * a + d) % M
<1> DEFINE q == a \div M
           r == a % M
           b == r * 10 + d
           c == 10 * a + d
           x == b \div M
           y == c \div M
<1>1. a = M * q + r /\ r \in 0 .. M - 1 /\ q \in Nat
  BY Remainder
<1> HIDE DEF q, r
<1>2. b \in Nat /\ c \in Nat
  BY <1>1
<1> HIDE DEF b, c
<1>3. /\ b = M * x + (b % M) /\ b % M \in 0 .. M - 1 /\ x \in Nat
      /\ c = M * y + (c % M) /\ c % M \in 0 .. M - 1 /\ y \in Nat
  BY <1>2, Remainder
<1> HIDE DEF x, y
<1>4. M * q \in Int /\ M * (10 * q) = 10 * (M * q) /\ 10 * q \in Int
  BY <1>1, Distributes
<1>5. c = M * (10 * q) + b
  BY <1>1, <1>2, <1>4 DEF b, c
<1>6. M * (10 * q + x) = M * (10 * q) + M * x /\ M * x \in Int
  BY <1>3, <1>4, Distributes
<1>7. M * y + (c % M) = M * (10 * q + x) + (b % M)
  BY <1>2, <1>3, <1>4, <1>5, <1>6
<1>8. c % M = b % M
  <2> DEFINE z == 10 * q + x
             e == c % M
             f == b % M
  <2>1. z \in Int /\ y \in Int /\ e \in 0 .. M - 1 /\ f \in 0 .. M - 1 /\ M * y + e = M * z + f
    BY <1>3, <1>4, <1>7
  <2> HIDE DEF z, e, f
  <2>2. e = f
    BY <2>1, OneRemainder
  <2> QED BY <2>2 DEF e, f
<1> QED BY <1>8 DEF b, c, r

(* A number may be cut to a smaller range in two steps. *)
LEMMA RemainderOfRemainder ==
    ASSUME NEW M \in Nat \ {0}, NEW P \in Nat \ {0}, M % P = 0, NEW a \in Nat
    PROVE  (a % M) % P = a % P
<1> DEFINE q == a \div M
           r == a % M
           d == M \div P
           x == r \div P
           y == r % P
           z == a \div P
           w == a % P
<1>1. a = M * q + r /\ r \in Nat /\ q \in Nat
  <2>1. r \in 0 .. M - 1 /\ a = M * q + r /\ q \in Nat
    BY Remainder
  <2> QED BY <2>1
<1>2. M = P * d /\ d \in Nat
  <2>1. M = P * d + (M % P) /\ d \in Nat
    BY Remainder
  <2> HIDE DEF d
  <2> QED BY <2>1
<1>3. r = P * x + y /\ y \in 0 .. P - 1 /\ x \in Nat
  <2> HIDE DEF r
  <2> QED BY <1>1, Remainder
<1>4. a = P * z + w /\ w \in 0 .. P - 1 /\ z \in Nat
  BY Remainder
<1> HIDE DEF q, r, d, x, y, z, w
<1>5. M * q = P * (d * q) /\ d * q \in Nat
  BY <1>1, <1>2
<1>6. P * (d * q + x) = P * (d * q) + P * x
  BY <1>3, <1>5, Distributes
<1> DEFINE e == d * q
           u == e + x
<1>7. P * z + w = P * u + y /\ u \in Int
  <2>1. e \in Nat /\ M * q = P * e /\ P * (e + x) = P * e + P * x
    BY <1>5, <1>6
  <2>2. P * e \in Int /\ P * x \in Int /\ P * z \in Int /\ P * (e + x) \in Int
    BY <1>3, <1>4, <2>1
  <2> HIDE DEF e
  <2> QED BY <1>1, <1>3, <1>4, <2>1, <2>2
<1> HIDE DEF u
<1>8. w = y
  BY <1>3, <1>4, <1>7, OneRemainder
<1> QED BY <1>8 DEF w, y, r

(* StrToUint succeeds on texts of digits only, and the number it returns   *)
(* is the one the text means, modulo 2^32.                                 *)
THEOREM NumberCorrect ==
    ASSUME NEW str \in Seq(Int)
    PROVE  /\ StrToUint(str) \in Number
           /\ StrToUint(str).ok <=> \A k \in 1 .. Len(str) : IsDigit(str[k])
           /\ StrToUint(str).ok => /\ DecimalValue(str) \in Nat
                                   /\ StrToUint(str).uint = DecimalValue(str) % UintMod
<1> DEFINE m == Len(str)
<1>1. m \in Nat /\ \A n \in 1 .. m : str[n] \in Int
  OBVIOUS
<1>2. PICK g \in [0 .. m -> Number] :
              /\ g[0] = [ok |-> TRUE, uint |-> 0]
              /\ \A n \in 0 .. m - 1 : g[n + 1] = Turn(g[n], str[n + 1])
              /\ StrToUint(str) = g[m]
  BY StrToUintIsRead
<1>3. PICK v \in [0 .. m -> Int] :
              /\ v[0] = 0
              /\ \A n \in 0 .. m - 1 : v[n + 1] = 10 * v[n] + (str[n + 1] - 48)
              /\ DecimalValue(str) = v[m]
  BY DecimalValueIsRead
<1> DEFINE Good(n) == /\ g[n].ok <=> \A k \in 1 .. n : IsDigit(str[k])
                      /\ g[n].ok => v[n] \in Nat /\ g[n].uint = v[n] % UintMod
           S == {n \in 0 .. m : Good(n)}
<1> HIDE DEF m
<1>4. 0 \in S
  <2>1. 0 \in 0 .. m /\ 0 % UintMod = 0 /\ 1 .. 0 = {}
    BY <1>1, UintAssumption
  <2>2. g[0].ok = TRUE /\ g[0].uint = 0
    BY <1>2
  <2> QED BY <1>3, <2>1, <2>2
<1>5. ASSUME NEW n \in 0 .. m - 1, n \in S PROVE n + 1 \in S
  <2> DEFINE c == str[n + 1]
  <2>1. n + 1 \in 1 .. m /\ n + 1 \in 0 .. m /\ n \in 0 .. m /\ c \in Int
    BY <1>1
  <2>2. g[n + 1] = Turn(g[n], c) /\ v[n + 1] = 10 * v[n] + (c - 48) /\ g[n] \in Number
    BY <1>2, <1>3, <2>1
  <2>3. (\A k \in 1 .. n + 1 : IsDigit(str[k])) <=> (\A k \in 1 .. n : IsDigit(str[k])) /\ IsDigit(c)
    <3>1. 1 .. n + 1 = (1 .. n) \cup {n + 1}
      BY <2>1
    <3> QED BY <3>1, Zenon
  <2>4. CASE g[n].ok /\ IsDigit(c)
    <3>1. v[n] \in Nat /\ g[n].uint = v[n] % UintMod /\ c - 48 \in Nat
      <4>1. c - 48 \in Nat
        BY <2>1, <2>4 DEF IsDigit
      <4> HIDE DEF c
      <4>2. Good(n)
        BY <1>5
      <4> QED BY <2>4, <4>1, <4>2
    <3>2. g[n + 1].ok = TRUE /\ g[n + 1].uint = (g[n].uint * 10 + c - 48) % UintMod
      BY <2>2, <2>4 DEF Turn
    <3>3. g[n].uint \in Int /\ g[n].uint * 10 + c - 48 = g[n].uint * 10 + (c - 48)
      BY <2>1, <2>2, UintAssumption DEF Number
    <3>4. ((v[n] % UintMod) * 10 + (c - 48)) % UintMod = (10 * v[n] + (c - 48)) % UintMod
      BY <3>1, UintAssumption, DigitRemainder
    <3>5. v[n + 1] \in Nat
      BY <2>2, <3>1
    <3>6. g[n + 1].uint = v[n + 1] % UintMod
      BY <2>2, <3>1, <3>2, <3>3, <3>4
    <3>7. \A k \in 1 .. n + 1 : IsDigit(str[k])
      BY <1>5, <2>3, <2>4
    <3> QED BY <2>1, <3>2, <3>5, <3>6, <3>7
  <2>5. CASE ~(g[n].ok /\ IsDigit(c))
    <3>1. g[n + 1].ok = FALSE
      BY <2>2, <2>5 DEF Turn
    <3>2. ~\A k \in 1 .. n + 1 : IsDigit(str[k])
      BY <1>5, <2>3, <2>5
    <3> QED BY <2>1, <3>1, <3>2
  <2> QED BY <2>4, <2>5
<1>6. Good(m)
  <2>1. m \in 0 .. m
    BY <1>1
  <2>2. m \in S
    <3> HIDE DEF S
    <3> QED BY <1>1, <1>4, <1>5, <2>1, BoundedInduction
  <2> QED BY <2>2
<1>7. StrToUint(str) \in Number
  <2>1. m \in 0 .. m
    BY <1>1
  <2> QED BY <1>2, <2>1
<1> QED BY <1>2, <1>3, <1>6, <1>7 DEF m

=============================================================================
