--------------------------- MODULE CameraDbProofs ---------------------------
(***************************************************************************)
(* For every camera table and whichever call of MySQL fails: what          *)
(* ConnectDataBase leaves behind when it fails, that every camera it has   *)
(* read has its phones, and that the lookups return what the rows of the   *)
(* table say.                                                              *)
(***************************************************************************)
EXTENDS CameraDb, SharedLemmas

(* A key for which no field was found. *)
SomeMissing == \E k \in DOMAIN Keys : CameraInfoName[Keys[k]] = Missing

(* The types. *)
TypeInv ==
    /\ pc \in {"connect", "query", "fields", "rows", "phones", "done"}
    /\ ret \in BOOLEAN
    /\ pc # "connect" => CameraInfoName \in [ToSet(Keys) -> Nat \cup {Missing}]
    /\ CameraInfoFromDB \in Seq(ToSet(CameraInfoFromDB))
    /\ at \in Nat

(* A missing key shows at the first row, before any camera is kept. *)
CamerasInv ==
    /\ pc \in {"connect", "query", "fields"} => CameraInfoFromDB = <<>>
    /\ pc # "connect" /\ SomeMissing => CameraInfoFromDB = <<>>

(* The cameras gone through by the last loop have their phones. *)
HavePhones(n) ==
    \A k \in 1 .. n : CameraInfoFromDB[k]["ip"] \in DOMAIN IpWarnToPhoneFromDB

(* The phones are filled in camera by camera, and only when all rows are   *)
(* read; a call that fails has neither cameras nor phones.                 *)
PhonesInv ==
    /\ pc # "done" => ret = FALSE
    /\ pc \notin {"phones", "done"} => IpWarnToPhoneFromDB = NoPhones
    /\ pc = "phones" => at <= Len(CameraInfoFromDB) /\ HavePhones(at)
    /\ pc = "done" /\ ret => HavePhones(Len(CameraInfoFromDB))
    /\ pc = "done" /\ ~ret => CameraInfoFromDB = <<>> /\ IpWarnToPhoneFromDB = NoPhones

(* The inductive invariant. *)
IInv == TypeInv /\ CamerasInv /\ PhonesInv

-----------------------------------------------------------------------------

(* FirstStop is the first key that ends a row, if there is one. *)
LEMMA FirstStopIsLeast ==
    ASSUME NEW row
    PROVE  \/ FirstStop(row) = 0 /\ \A k \in DOMAIN Keys : ~Stops(row, k)
           \/ FirstStop(row) \in DOMAIN Keys /\ Stops(row, FirstStop(row))
<1> DEFINE S == {k \in DOMAIN Keys : Stops(row, k)}
<1>1. S \in SUBSET Nat
  BY DEF Keys
<1>2. CASE S = {}
  BY <1>2, Zenon DEF FirstStop
<1>3. CASE S # {}
  <2>1. \E k \in S : \A j \in S : k <= j
    <3> HIDE DEF S
    <3> QED BY <1>1, <1>3, LeastElement
  <2> DEFINE m == CHOOSE k \in S : \A j \in S : k <= j
  <2>2. m \in S
    BY <2>1, Zenon
  <2>3. FirstStop(row) = m
    BY <1>3, Zenon DEF FirstStop
  <2> QED BY <2>2, <2>3
<1> QED BY <1>2, <1>3

(* While a key is missing no row is kept, and only then does a row make    *)
(* the call fail.                                                          *)
LEMMA MissingStops ==
    ASSUME NEW row
    PROVE  (SomeMissing => Pushed(row) = <<>>) /\ (Fails(row) => SomeMissing)
<1>1. ASSUME SomeMissing PROVE Pushed(row) = <<>>
  <2>1. PICK k \in DOMAIN Keys : CameraInfoName[Keys[k]] = Missing
    BY <1>1 DEF SomeMissing
  <2>2. Stops(row, k)
    BY <2>1 DEF Stops
  <2>3. FirstStop(row) # 0
    <3>1. 0 \notin DOMAIN Keys
      BY DEF Keys
    <3> QED BY <2>2, <3>1, FirstStopIsLeast
  <2> QED BY <2>3 DEF Pushed
<1>2. ASSUME Fails(row) PROVE SomeMissing
  BY <1>2, FirstStopIsLeast DEF Fails, SomeMissing
<1> QED BY <1>1, <1>2

(* The cameras stay a sequence when a row is read. *)
LEMMA PushedIsSequence ==
    ASSUME CameraInfoFromDB \in Seq(ToSet(CameraInfoFromDB)), NEW row
    PROVE  LET s == CameraInfoFromDB \o Pushed(row) IN s \in Seq(ToSet(s))
<1> DEFINE cam == [key \in ToSet(Keys) |-> Value(row, key)]
           S == ToSet(CameraInfoFromDB) \cup {cam}
           s == CameraInfoFromDB \o Pushed(row)
<1>1. Pushed(row) \in {<<>>, <<cam>>}
  BY DEF Pushed
<1> HIDE DEF cam
<1>2. CameraInfoFromDB \in Seq(S) /\ Pushed(row) \in Seq(S)
  <2>1. ToSet(CameraInfoFromDB) \subseteq S /\ cam \in S
    OBVIOUS
  <2> HIDE DEF S
  <2>2. CameraInfoFromDB \in Seq(S)
    BY <2>1, SeqMonotonic
  <2>3. <<>> \in Seq(S) /\ <<cam>> \in Seq(S)
    BY <2>1
  <2> QED BY <1>1, <2>2, <2>3
<1> HIDE DEF S
<1>3. s \in Seq(S)
  BY <1>2
<1> HIDE DEF s
<1> QED BY <1>3, IsSequence DEF s

(* Before ConnectDataBase there is nothing. *)
LEMMA InitIInv == Init => IInv
<1> SUFFICES ASSUME Init PROVE IInv
  OBVIOUS
<1>1. TypeInv
  <2>1. CameraInfoFromDB \in Seq(ToSet(CameraInfoFromDB))
    BY DEF Init
  <2> QED BY <2>1 DEF Init, TypeInv
<1>2. CamerasInv /\ PhonesInv
  BY DEF Init, CamerasInv, PhonesInv
<1> QED BY <1>1, <1>2 DEF IInv

(* Connecting and asking for the table. *)
LEMMA ConnectIInv ==
    ASSUME IInv, ConnectDataBase \/ Query
    PROVE  IInv'
  BY DEF IInv, TypeInv, CamerasInv, PhonesInv, SomeMissing, HavePhones, ConnectDataBase,
         Query, Return, Missing

(* The fields of the table are matched with the keys. *)
LEMMA FetchFieldIInv ==
    ASSUME IInv, FetchField
    PROVE  IInv'
<1>1. TypeInv'
  BY DEF IInv, TypeInv, FetchField
<1>2. CamerasInv' /\ PhonesInv'
  BY DEF IInv, TypeInv, CamerasInv, PhonesInv, HavePhones, FetchField
<1> QED BY <1>1, <1>2 DEF IInv

(* A row adds its camera if no key stops it; after the last one the phones *)
(* follow.                                                                 *)
LEMMA FetchRowIInv ==
    ASSUME IInv, FetchRow
    PROVE  IInv'
<1> USE DEF IInv, FetchRow, Return
<1>1. CASE at < Len(table.rows)
  <2> DEFINE row == table.rows[at + 1]
  <2>1. /\ at' = at + 1 /\ CameraInfoFromDB' = CameraInfoFromDB \o Pushed(row)
        /\ IF Fails(row) THEN pc' = "done" /\ ret' = FALSE ELSE UNCHANGED <<pc, ret>>
        /\ UNCHANGED <<table, CameraInfoName, IpWarnToPhoneFromDB>> /\ pc = "rows"
    BY <1>1
  <2> HIDE DEF row
  <2>2. CameraInfoFromDB' \in Seq(ToSet(CameraInfoFromDB'))
    BY <2>1, PushedIsSequence DEF TypeInv
  <2>3. SomeMissing' = SomeMissing /\ (SomeMissing => CameraInfoFromDB' = <<>>)
    <3>1. SomeMissing' = SomeMissing
      BY <2>1 DEF SomeMissing
    <3>2. ASSUME SomeMissing PROVE CameraInfoFromDB' = <<>>
      <4>1. CameraInfoFromDB = <<>> /\ Pushed(row) = <<>>
        BY <2>1, <3>2, MissingStops DEF CamerasInv
      <4> QED BY <2>1, <4>1
    <3> QED BY <3>1, <3>2
  <2>4. TypeInv'
    <3>1. pc' \in {"rows", "done"} /\ ret' \in BOOLEAN
      BY <2>1 DEF TypeInv
    <3> QED BY <2>1, <2>2, <3>1 DEF TypeInv
  <2>5. CamerasInv'
    BY <2>1, <2>3 DEF CamerasInv
  <2>6. PhonesInv'
    <3>1. IpWarnToPhoneFromDB' = NoPhones /\ ret = FALSE
      BY <2>1 DEF PhonesInv, NoPhones
    <3>2. CASE Fails(row)
      <4>1. CameraInfoFromDB' = <<>>
        BY <2>3, <3>2, MissingStops
      <4> QED BY <2>1, <3>1, <3>2, <4>1 DEF PhonesInv
    <3>3. CASE ~Fails(row)
      BY <2>1, <3>1, <3>3 DEF PhonesInv
    <3> QED BY <3>2, <3>3
  <2> QED BY <2>4, <2>5, <2>6
<1>2. CASE ~(at < Len(table.rows))
  BY <1>2 DEF TypeInv, CamerasInv, PhonesInv, SomeMissing, HavePhones
<1> QED BY <1>1, <1>2

(* The phones of one more camera. *)
LEMMA SplitPhonesIInv ==
    ASSUME IInv, SplitPhones
    PROVE  IInv'
<1> USE DEF IInv
<1>1. Len(CameraInfoFromDB) \in Nat /\ DOMAIN CameraInfoFromDB = 1 .. Len(CameraInfoFromDB)
  BY DEF TypeInv
<1>2. CASE at < Len(CameraInfoFromDB)
  <2> DEFINE db == CameraInfoFromDB
             cam == db[at + 1]
             new == [k \in ToSet(Keys) \ {"phonenums"} |-> cam[k]]
  <2>1. /\ IpWarnToPhoneFromDB' = WithPhones(cam) /\ at' = at + 1
        /\ CameraInfoFromDB' = [db EXCEPT ![at + 1] = new]
        /\ UNCHANGED <<pc, ret, table, CameraInfoName>> /\ pc = "phones"
    BY <1>2 DEF SplitPhones
  <2>2. new["ip"] = cam["ip"]
    <3>1. "ip" \in ToSet(Keys) \ {"phonenums"}
      <4>1. 1 \in DOMAIN Keys /\ Keys[1] = "ip"
        BY DEF Keys
      <4> QED BY <4>1 DEF ToSet
    <3> QED BY <3>1
  <2>3. DOMAIN WithPhones(cam) = DOMAIN IpWarnToPhoneFromDB \cup {cam["ip"]}
    BY DEF WithPhones
  <2> HIDE DEF cam, new
  <2>4. at + 1 \in 1 .. Len(db) /\ at \in Nat
    BY <1>1, <1>2 DEF TypeInv
  <2>5. /\ Len(CameraInfoFromDB') = Len(db)
        /\ CameraInfoFromDB' \in Seq(ToSet(db) \cup {new})
        /\ \A k \in 1 .. Len(db) :
              CameraInfoFromDB'[k] = IF k = at + 1 THEN new ELSE db[k]
    BY <1>1, <2>1, <2>4 DEF TypeInv
  <2>6. CameraInfoFromDB' \in Seq(ToSet(CameraInfoFromDB'))
    BY <2>5, IsSequence
  <2>7. TypeInv'
    BY <2>1, <2>4, <2>6 DEF TypeInv
  <2>8. CamerasInv'
    <3>1. SomeMissing' = SomeMissing /\ db # <<>>
      BY <1>1, <2>1, <2>4 DEF SomeMissing
    <3> QED BY <2>1, <3>1 DEF CamerasInv
  <2>9. \A k \in 1 .. at + 1 : CameraInfoFromDB'[k]["ip"] = db[k]["ip"]
    BY <1>1, <2>2, <2>4, <2>5 DEF cam
  <2>10. HavePhones(at)
    BY <2>1 DEF PhonesInv
  <2>11. HavePhones(at)'
    <3>1. ASSUME NEW k \in 1 .. at + 1
          PROVE  CameraInfoFromDB'[k]["ip"] \in DOMAIN IpWarnToPhoneFromDB'
      <4>1. CASE k = at + 1
        BY <2>1, <2>3, <2>9, <4>1 DEF cam
      <4>2. CASE k \in 1 .. at
        BY <2>1, <2>3, <2>9, <2>10, <4>2 DEF HavePhones
      <4> QED BY <2>4, <4>1, <4>2
    <3> QED BY <2>1, <2>4, <3>1 DEF HavePhones
  <2>12. PhonesInv'
    BY <2>1, <2>4, <2>5, <2>11 DEF PhonesInv, HavePhones
  <2> QED BY <2>7, <2>8, <2>12
<1>3. CASE ~(at < Len(CameraInfoFromDB))
  <2>1. pc = "phones" /\ pc' = "done" /\ ret' = TRUE
        /\ UNCHANGED <<at, CameraInfoFromDB, IpWarnToPhoneFromDB, table, CameraInfoName>>
    BY <1>3 DEF SplitPhones, Return
  <2>2. at = Len(CameraInfoFromDB) /\ HavePhones(Len(CameraInfoFromDB))
    <3>1. at \in Nat /\ at <= Len(CameraInfoFromDB) /\ HavePhones(at)
      BY <2>1 DEF PhonesInv, TypeInv
    <3> DEFINE L == Len(CameraInfoFromDB)
    <3>2. L \in Nat /\ at <= L /\ ~(at < L)
      BY <1>1, <1>3, <3>1
    <3> HIDE DEF L
    <3>3. at = L
      BY <3>1, <3>2
    <3> QED BY <3>1, <3>3 DEF L
  <2> QED BY <2>1, <2>2 DEF TypeInv, CamerasInv, PhonesInv, SomeMissing, HavePhones
<1> QED BY <1>2, <1>3

(* So it is an invariant. *)
LEMMA AlwaysIInv == Spec => []IInv
<1>1. IInv /\ [Next]_vars => IInv'
  <2> SUFFICES ASSUME IInv, [Next]_vars PROVE IInv'
    OBVIOUS
  <2>1. CASE UNCHANGED vars
    BY <2>1 DEF vars, IInv, TypeInv, CamerasInv, PhonesInv, SomeMissing, HavePhones
  <2> QED BY <2>1, ConnectIInv, FetchFieldIInv, FetchRowIInv, SplitPhonesIInv DEF Next, Done
<1> QED BY InitIInv, <1>1, PTL DEF Spec

(* A ConnectDataBase that returns false leaves no camera and no phones     *)
(* behind, for every table and result of the client library.               *)
THEOREM FailureCorrect == Spec => []FailureLeavesNoCamera
<1>1. IInv => FailureLeavesNoCamera
  BY DEF IInv, PhonesInv, FailureLeavesNoCamera, GetCameraNum
<1> QED BY AlwaysIInv, <1>1, PTL

(* Every camera whose name main can find has phones: GetCameraWarnPhone    *)
(* does not fail in the alarm loop.                                        *)
THEOREM PhonesCorrect == Spec => []NamedMeansPhones
<1>1. IInv => NamedMeansPhones
  BY DEF IInv, TypeInv, PhonesInv, HavePhones, NamedMeansPhones, GetCameraWarnPhone
<1> QED BY AlwaysIInv, <1>1, PTL

-----------------------------------------------------------------------------
(* ExtractPhoneNumber. *)

(* A turn of ExtractPhoneNumber, and the recursion in Extract as an        *)
(* equation.                                                               *)
PhoneTurn(r, c) ==
    IF c # Comma THEN [vect |-> r.vect, PhoneNum |-> Append(r.PhoneNum, c)]
    ELSE [vect |-> Append(r.vect, r.PhoneNum), PhoneNum |-> <<>>]
IsSplit(g, s) ==
    g = [n \in 0 .. Len(s) |-> IF n = 0 THEN [vect |-> <<>>, PhoneNum |-> <<>>]
                               ELSE PhoneTurn(g[n - 1], s[n])]

(* The numbers found, and the one being read, with characters in S. *)
Numbers(S) == [vect : Seq(Seq(S)), PhoneNum : Seq(S)]

(* A turn keeps the types. *)
LEMMA PhoneTurnType ==
    ASSUME NEW S, NEW r \in Numbers(S), NEW c \in S
    PROVE  PhoneTurn(r, c) \in Numbers(S)
<1>1. r.vect \in Seq(Seq(S)) /\ r.PhoneNum \in Seq(S)
  BY DEF Numbers
<1>2. Append(r.PhoneNum, c) \in Seq(S)
  BY <1>1
<1>3. Append(r.vect, r.PhoneNum) \in Seq(Seq(S)) /\ <<>> \in Seq(S)
  <2> DEFINE X == Seq(S)
             v == r.vect
             p == r.PhoneNum
  <2>1. v \in Seq(X) /\ p \in X
    BY <1>1
  <2>2. <<>> \in X
    OBVIOUS
  <2> HIDE DEF X, v, p
  <2>3. Append(v, p) \in Seq(X)
    BY <2>1
  <2> QED BY <2>2, <2>3 DEF X, v, p
<1> QED BY <1>1, <1>2, <1>3 DEF PhoneTurn, Numbers

(* Extract is a sequence of such turns. *)
LEMMA ExtractIsSplit ==
    ASSUME NEW S, NEW s \in Seq(S)
    PROVE  \E g \in [0 .. Len(s) -> Numbers(S)] :
              /\ g[0] = [vect |-> <<>>, PhoneNum |-> <<>>]
              /\ \A n \in 0 .. Len(s) - 1 : g[n + 1] = PhoneTurn(g[n], s[n + 1])
              /\ Extract(s) = g[Len(s)]
<1> DEFINE m == Len(s)
           none == [vect |-> <<>>, PhoneNum |-> <<>>]
           X == Numbers(S)
           F == CHOOSE g : IsSplit(g, s)
<1>1. m \in Nat /\ none \in X /\ \A n \in 1 .. m : s[n] \in S
  <2>1. <<>> \in Seq(Seq(S)) /\ <<>> \in Seq(S)
    OBVIOUS
  <2> QED BY <2>1 DEF Numbers
<1>2. \A r \in X, c \in S : PhoneTurn(r, c) \in X
  BY PhoneTurnType
<1> HIDE DEF X
<1>3. \E g : IsSplit(g, s)
  <2> DEFINE st == [n \in 1 .. m |-> [r \in X |-> PhoneTurn(r, s[n])]]
  <2>1. st \in [1 .. m -> [X -> X]]
    BY <1>1, <1>2
  <2>2. \A r \in X, n \in 1 .. m : st[n][r] = PhoneTurn(r, s[n])
    OBVIOUS
  <2> HIDE DEF st, m, none
  <2>3. PICK g : Iterates(g, X, none, m, st)
    BY <1>1, <2>1, RecursionExists
  <2>4. ASSUME NEW n \in 0 .. m PROVE g[n] = IF n = 0 THEN none ELSE PhoneTurn(g[n - 1], s[n])
    <3>1. CASE n = 0
      BY <2>3, <3>1 DEF Iterates
    <3>2. CASE n # 0
      <4>1. n \in 1 .. m /\ n - 1 \in 0 .. m
        BY <1>1, <3>2
      <4> QED BY <2>2, <2>3, <3>2, <4>1 DEF Iterates
    <3> QED BY <3>1, <3>2
  <2>5. IsSplit(g, s)
    <3>1. g = [n \in 0 .. m |-> g[n]]
      BY <2>3 DEF Iterates
    <3> QED BY <2>4, <3>1 DEF IsSplit, m, none
  <2> QED BY <2>5
<1>4. IsSplit(F, s)
  BY <1>3, Zenon
<1>5. Extract(s) = F[m]
  BY Zenon DEF Extract, IsSplit, PhoneTurn
<1> HIDE DEF F
<1>6. F[0] = none /\ F = [n \in 0 .. m |-> F[n]]
  BY <1>1, <1>4 DEF IsSplit
<1>7. ASSUME NEW n \in 0 .. m - 1 PROVE F[n + 1] = PhoneTurn(F[n], s[n + 1])
  <2>1. n + 1 \in 0 .. m /\ n + 1 # 0 /\ (n + 1) - 1 = n
    BY <1>1
  <2>2. F[n + 1] = PhoneTurn(F[(n + 1) - 1], s[n + 1])
    BY <1>4, <2>1, Zenon DEF IsSplit
  <2> QED BY <2>1, <2>2
<1>8. \A n \in 0 .. m : F[n] \in X
  <2> DEFINE T == {k \in 0 .. m : F[k] \in X}
  <2>1. 0 \in T
    <3> HIDE DEF none
    <3> QED BY <1>1, <1>6
  <2>2. ASSUME NEW n \in 0 .. m - 1, n \in T PROVE n + 1 \in T
    <3>1. n + 1 \in 1 .. m /\ n + 1 \in 0 .. m
      BY <1>1
    <3>2. s[n + 1] \in S /\ F[n] \in X
      BY <1>1, <2>2, <3>1
    <3> QED BY <1>2, <1>7, <3>1, <3>2
  <2>3. \A n \in 0 .. m : n \in T
    <3> HIDE DEF T, m
    <3> QED BY <1>1, <2>1, <2>2, BoundedInduction
  <2> QED BY <2>3
<1>9. F \in [0 .. m -> X]
  BY <1>6, <1>8
<1> QED BY <1>5, <1>6, <1>7, <1>9 DEF X

(* A phone more, joined. *)
LEMMA JoinAppend ==
    ASSUME NEW S, Comma \in S, NEW v \in Seq(Seq(S)), NEW p \in Seq(S)
    PROVE  /\ CommaFirst(v) \in Seq(Seq(S))
           /\ FlattenSeq(CommaFirst(v)) \in Seq(S)
           /\ FlattenSeq(CommaFirst(Append(v, p))) = FlattenSeq(CommaFirst(v)) \o (<<Comma>> \o p)
<1> DEFINE X == Seq(S)
           w == CommaFirst(v)
           q == <<Comma>> \o p
<1>1. \A t \in X : <<Comma>> \o t \in X
  <2>1. <<Comma>> \in Seq(S)
    OBVIOUS
  <2> QED BY <2>1
<1>2. v \in Seq(X) /\ p \in X /\ q \in X
  BY <1>1
<1> HIDE DEF X
<1>3. w \in Seq(X) /\ Len(w) = Len(v) /\ \A k \in 1 .. Len(v) : w[k] = <<Comma>> \o v[k]
  <2>1. DOMAIN v = 1 .. Len(v) /\ Len(v) \in Nat
    BY <1>2
  <2>2. \A k \in 1 .. Len(v) : v[k] \in X
    BY <1>2, ElementOfSeq
  <2>3. w = [k \in 1 .. Len(v) |-> <<Comma>> \o v[k]]
    BY <2>1 DEF CommaFirst
  <2>4. ASSUME NEW k \in 1 .. Len(v) PROVE <<Comma>> \o v[k] \in X
    BY <1>1, <2>2
  <2> DEFINE n == Len(v)
             u(k) == <<Comma>> \o v[k]
  <2>5. n \in Nat /\ w = [k \in 1 .. n |-> u(k)] /\ \A k \in 1 .. n : u(k) \in X
    BY <2>1, <2>3, <2>4
  <2> HIDE DEF w, n, u
  <2>6. w \in Seq(X) /\ Len(w) = n /\ \A k \in 1 .. n : w[k] = u(k)
    BY <2>5
  <2> QED BY <2>6 DEF n, u
<1>4. CommaFirst(Append(v, p)) = Append(w, q)
  <2> DEFINE a == Append(v, p)
             n == Len(v)
  <2>1. /\ a \in Seq(X) /\ Len(a) = n + 1 /\ DOMAIN a = 1 .. n + 1 /\ n \in Nat /\ a[n + 1] = p
        /\ \A k \in 1 .. n : a[k] = v[k]
    <3> HIDE DEF w, q
    <3> QED BY <1>2
  <2> HIDE DEF a
  <2>2. CommaFirst(a) = [k \in 1 .. n + 1 |-> <<Comma>> \o a[k]]
    BY <2>1 DEF CommaFirst
  <2> HIDE DEF w, q
  <2>3. Append(w, q) = [k \in 1 .. n + 1 |-> IF k = n + 1 THEN q ELSE w[k]]
    <3>1. w \in Seq(X) /\ q \in X /\ Len(w) = n /\ n \in Nat
      BY <1>2, <1>3, <2>1
    <3> HIDE DEF n
    <3>2. /\ Append(w, q) \in Seq(X) /\ Len(Append(w, q)) = n + 1
          /\ \A k \in 1 .. n + 1 : Append(w, q)[k] = IF k = n + 1 THEN q ELSE w[k]
      BY <3>1
    <3> DEFINE t == Append(w, q)
    <3> HIDE DEF t
    <3>3. t \in Seq(X) /\ Len(t) = n + 1
      BY <3>2 DEF t
    <3>4. t = [k \in 1 .. Len(t) |-> t[k]]
      BY <3>3
    <3> QED BY <3>2, <3>3, <3>4 DEF t
  <2>4. \A k \in 1 .. n + 1 : k = n + 1 \/ k \in 1 .. n
    BY <2>1
  <2> QED BY <1>3, <2>1, <2>2, <2>3, <2>4 DEF a, q
<1> HIDE DEF w, q
<1>5. FlattenSeq(Append(w, q)) = FlattenSeq(w) \o q /\ FlattenSeq(w) \in Seq(S)
  BY <1>2, <1>3, FlattenAppend, FlattenType DEF X
<1> QED BY <1>3, <1>4, <1>5 DEF w, q, X

(* The numbers between the commas, joined with commas, are the text, and   *)
(* none of them contains one.                                              *)
LEMMA ExtractCorrect ==
    ASSUME NEW s, s \in Seq(ToSet(s))
    PROVE  /\ ExtractPhoneNumber(s) # <<>> /\ JoinPhones(ExtractPhoneNumber(s)) = s
           /\ \A p \in ToSet(ExtractPhoneNumber(s)) : Comma \notin ToSet(p)
<1> DEFINE S == ToSet(s) \cup {Comma}
           m == Len(s)
<1>1. s \in Seq(S) /\ Comma \in S
  <2>1. ToSet(s) \subseteq S /\ Comma \in S
    OBVIOUS
  <2> HIDE DEF S
  <2> QED BY <2>1, SeqMonotonic
<1> HIDE DEF S
<1>2. m \in Nat /\ (\A n \in 1 .. m : s[n] \in S) /\ <<Comma>> \in Seq(S)
  BY <1>1
<1>3. PICK g \in [0 .. m -> Numbers(S)] :
              /\ g[0] = [vect |-> <<>>, PhoneNum |-> <<>>]
              /\ \A n \in 0 .. m - 1 : g[n + 1] = PhoneTurn(g[n], s[n + 1])
              /\ Extract(s) = g[m]
  BY <1>1, ExtractIsSplit
<1> DEFINE All(n) == FlattenSeq(CommaFirst(g[n].vect)) \o (<<Comma>> \o g[n].PhoneNum)
           Clean(n) == /\ \A k \in 1 .. Len(g[n].vect) : Comma \notin ToSet(g[n].vect[k])
                       /\ Comma \notin ToSet(g[n].PhoneNum)
           T == {n \in 0 .. m : All(n) = <<Comma>> \o SubSeq(s, 1, n) /\ Clean(n)}
<1>4. \A n \in 0 .. m : g[n].vect \in Seq(Seq(S)) /\ g[n].PhoneNum \in Seq(S)
  BY <1>3 DEF Numbers
<1> HIDE DEF m
<1>5. 0 \in T
  <2>1. g[0].vect = <<>> /\ g[0].PhoneNum = <<>> /\ 0 \in 0 .. m
    BY <1>2, <1>3
  <2>2. FlattenSeq(CommaFirst(<<>>)) = <<>>
    <3>1. CommaFirst(<<>>) = <<>>
      BY DEF CommaFirst
    <3> QED BY <3>1 DEF FlattenSeq
  <2>3. SubSeq(s, 1, 0) = <<>>
    BY <1>1
  <2>4. ToSet(<<>>) = {} /\ 1 .. Len(<<>>) = {}
    BY DEF ToSet
  <2>5. All(0) = <<Comma>> \o <<>>
    <3> DEFINE x == <<Comma>> \o <<>>
    <3>1. All(0) = <<>> \o x
      BY <2>1, <2>2
    <3>2. x \in Seq(S)
      BY <1>2
    <3> HIDE DEF x, All
    <3>3. <<>> \o x = x
      BY <3>2
    <3> QED BY <3>1, <3>3 DEF x
  <2> HIDE DEF All
  <2>6. Clean(0)
    BY <2>1, <2>4
  <2> HIDE DEF Clean
  <2> QED BY <2>1, <2>3, <2>5, <2>6
<1>6. ASSUME NEW n \in 0 .. m - 1, n \in T PROVE n + 1 \in T
  <2> DEFINE c == s[n + 1]
             v == g[n].vect
             p == g[n].PhoneNum
             A == FlattenSeq(CommaFirst(v))
             B == <<Comma>> \o p
             r == <<Comma>> \o SubSeq(s, 1, n)
  <2>1. n \in 0 .. m /\ n + 1 \in 1 .. m /\ n + 1 \in 0 .. m /\ c \in S
    BY <1>2
  <2>2. v \in Seq(Seq(S)) /\ p \in Seq(S) /\ g[n + 1] = PhoneTurn(g[n], c)
    BY <1>3, <1>4, <2>1
  <2>3. A \o B = r /\ Clean(n)
    BY <1>6
  <2>4. <<Comma>> \o SubSeq(s, 1, n + 1) = Append(r, c)
    <3> DEFINE k == n + 1
    <3>1. k \in 1 .. Len(s) /\ k - 1 = n
      BY <2>1 DEF m
    <3> HIDE DEF k
    <3>2. Append(<<Comma>> \o SubSeq(s, 1, k - 1), s[k]) = <<Comma>> \o SubSeq(s, 1, k)
      BY <1>1, <1>2, <3>1, AppendNext
    <3> QED BY <3>1, <3>2 DEF k
  <2>5. A \in Seq(S) /\ FlattenSeq(CommaFirst(Append(v, p))) = A \o B
    <3> HIDE DEF v, p
    <3> QED BY <1>1, <2>2, JoinAppend
  <2>6. B \in Seq(S) /\ A \o B \in Seq(S)
    BY <1>2, <2>2, <2>5
  <2>7. CASE c # Comma
    <3>1. g[n + 1].vect = v /\ g[n + 1].PhoneNum = Append(p, c)
      BY <2>2, <2>7 DEF PhoneTurn
    <3>2. <<Comma>> \o Append(p, c) = Append(B, c)
      BY <1>2, <2>1, <2>2, AppendConcat
    <3>3. A \o Append(B, c) = Append(A \o B, c)
      <4> HIDE DEF A, B, c
      <4> QED BY <2>1, <2>5, <2>6, AppendConcat
    <3>4. All(n + 1) = Append(r, c)
      BY <2>3, <3>1, <3>2, <3>3
    <3>5. Clean(n + 1)
      <4>1. ToSet(Append(p, c)) = ToSet(p) \cup {c}
        <5> HIDE DEF p, c
        <5> QED BY <2>1, <2>2, ToSetAppend
      <4> QED BY <2>3, <2>7, <3>1, <4>1
    <3> QED BY <2>1, <2>4, <3>4, <3>5
  <2>8. CASE c = Comma
    <3>1. g[n + 1].vect = Append(v, p) /\ g[n + 1].PhoneNum = <<>>
      BY <2>2, <2>8 DEF PhoneTurn
    <3>2. All(n + 1) = (A \o B) \o (<<Comma>> \o <<>>)
      BY <2>5, <3>1
    <3>3. (A \o B) \o (<<Comma>> \o <<>>) = Append(A \o B, c)
      <4> DEFINE x == A \o B
      <4>1. x \in Seq(S)
        BY <2>6
      <4> HIDE DEF x
      <4>2. <<Comma>> \o <<>> = <<Comma>>
        BY <1>1
      <4>3. x \o <<Comma>> = Append(x, Comma)
        BY <1>1, <4>1
      <4> QED BY <2>8, <4>2, <4>3 DEF x
    <3>4. Clean(n + 1)
      <4>1. ToSet(<<>>) = {}
        BY DEF ToSet
      <4> DEFINE w == Append(v, p)
                 l == Len(v)
                 X == Seq(S)
      <4>2. v \in Seq(X) /\ p \in X
        BY <2>2
      <4> HIDE DEF v, p, X
      <4>3. /\ Len(w) = l + 1 /\ w[l + 1] = p /\ l \in Nat
            /\ \A k \in 1 .. l : w[k] = v[k]
        BY <4>2
      <4> HIDE DEF w
      <4>4. \A k \in 1 .. l + 1 : k = l + 1 \/ k \in 1 .. l
        BY <4>3
      <4>5. (\A k \in 1 .. l : Comma \notin ToSet(v[k])) /\ Comma \notin ToSet(p)
        BY <2>3 DEF v, p
      <4>6. \A k \in 1 .. Len(w) : Comma \notin ToSet(w[k])
        BY <4>3, <4>4, <4>5
      <4> QED BY <3>1, <4>1, <4>6 DEF w
    <3> QED BY <2>1, <2>3, <2>4, <3>2, <3>3, <3>4
  <2> QED BY <2>7, <2>8
<1>7. All(m) = <<Comma>> \o SubSeq(s, 1, m) /\ Clean(m) /\ m \in 0 .. m
  <2>1. m \in 0 .. m
    BY <1>2
  <2>2. m \in T
    <3> HIDE DEF T
    <3> QED BY <1>2, <1>5, <1>6, <2>1, BoundedInduction
  <2> QED BY <2>1, <2>2
<1> DEFINE v == g[m].vect
           p == g[m].PhoneNum
           e == Append(v, p)
           X == Seq(S)
<1>8. v \in Seq(Seq(S)) /\ p \in Seq(S) /\ ExtractPhoneNumber(s) = e
  BY <1>3, <1>4, <1>7 DEF ExtractPhoneNumber
<1>9. FlattenSeq(CommaFirst(e)) = <<Comma>> \o SubSeq(s, 1, m)
  <2>1. FlattenSeq(CommaFirst(e)) = FlattenSeq(CommaFirst(v)) \o (<<Comma>> \o p)
    <3> HIDE DEF v, p
    <3> QED BY <1>1, <1>8, JoinAppend
  <2> QED BY <1>7, <2>1
<1>10. JoinPhones(e) = s
  <2>1. SubSeq(s, 1, m) = s
    BY <1>1 DEF m
  <2>2. Tail(<<Comma>> \o s) = s
    BY <1>1
  <2> QED BY <1>9, <2>1, <2>2 DEF JoinPhones
<1>11. e # <<>> /\ \A q \in ToSet(e) : Comma \notin ToSet(q)
  <2>1. v \in Seq(X) /\ p \in X
    BY <1>8
  <2>2. (\A k \in 1 .. Len(v) : Comma \notin ToSet(v[k])) /\ Comma \notin ToSet(p)
    BY <1>7
  <2> HIDE DEF v, p, X
  <2>3. e # <<>>
    BY <2>1
  <2>4. ToSet(e) = {v[k] : k \in 1 .. Len(v)} \cup {p}
    <3>1. ToSet(e) = ToSet(v) \cup {p}
      BY <2>1, ToSetAppend
    <3>2. DOMAIN v = 1 .. Len(v)
      BY <2>1
    <3> QED BY <3>1, <3>2 DEF ToSet
  <2> QED BY <2>2, <2>3, <2>4
<1> QED BY <1>8, <1>10, <1>11

-----------------------------------------------------------------------------
(* The lookups. *)

(* The complete rows among the first n, and the recursion in Complete as   *)
(* an equation.                                                            *)
KeepTurn(kept, row) == IF IsComplete(row) THEN Append(kept, row) ELSE kept
IsKept(g) ==
    g = [n \in 0 .. Len(table.rows) |-> IF n = 0 THEN <<>> ELSE KeepTurn(g[n - 1], table.rows[n])]
Kept == CHOOSE g : IsKept(g)

(* The fields fetched so far, while ConnectDataBase has not failed. *)
Going == pc \in {"query", "fields", "rows", "phones"} \/ (pc = "done" /\ ret)
Seen == IF pc = "query" THEN 0 ELSE IF pc = "fields" THEN at ELSE Len(table.fields)
AllKeys == ToSet(Keys) \subseteq ToSet(table.fields)

(* A key has the place of its field, or the field has not been seen. *)
NamesInv ==
    /\ table \in Tables
    /\ pc \in {"connect", "query"} => at = 0
    /\ pc = "fields" => at <= Len(table.fields)
    /\ Going => \A key \in ToSet(Keys) :
          IF CameraInfoName[key] = Missing THEN \A f \in 1 .. Seen : table.fields[f] # key
          ELSE /\ CameraInfoName[key] + 1 \in 1 .. Len(table.fields)
               /\ table.fields[CameraInfoName[key] + 1] = key

(* The camera of a row. *)
Camera(row) == [key \in ToSet(Keys) |-> Field(row, key)]

(* Row by row the cameras are those of the complete rows. *)
RowsInv ==
    pc = "rows" /\ AllKeys =>
        /\ at <= Len(table.rows) /\ Len(CameraInfoFromDB) = Len(Kept[at])
        /\ \A k \in 1 .. Len(Kept[at]) : CameraInfoFromDB[k] = Camera(Kept[at][k])

(* Then they lose their phonenums, one after the other, to the map, where  *)
(* the last camera with an ip has its phones.                              *)
LookupInv ==
    (pc = "phones" \/ (pc = "done" /\ ret)) /\ AllKeys =>
        /\ Len(CameraInfoFromDB) = Len(Complete)
        /\ \A k \in 1 .. Len(Complete) : \A key \in ToSet(Keys) \ {"phonenums"} :
              CameraInfoFromDB[k][key] = Field(Complete[k], key)
        /\ pc = "phones" => \A k \in at + 1 .. Len(Complete) :
              CameraInfoFromDB[k]["phonenums"] = Field(Complete[k], "phonenums")
        /\ \A ip \in DOMAIN IpWarnToPhoneFromDB : \E k \in 1 .. Len(Complete) :
              /\ Field(Complete[k], "ip") = ip
              /\ IpWarnToPhoneFromDB[ip] = ExtractPhoneNumber(Field(Complete[k], "phonenums"))

(* The inductive invariant of the lookups. *)
TableInv == NamesInv /\ RowsInv /\ LookupInv

(* The table does not change, nor does what is said of it. *)
LEMMA SameTable ==
    ASSUME table' = table
    PROVE  /\ Complete' = Complete /\ Kept' = Kept /\ (AllKeys' <=> AllKeys)
           /\ \A row, name : Field(row, name)' = Field(row, name)
<1>1. \A row, name : Field(row, name)' = Field(row, name)
  BY DEF Field
<1>2. \A row : IsComplete(row)' <=> IsComplete(row)
  BY <1>1 DEF IsComplete
<1>3. AllKeys' <=> AllKeys
  BY DEF AllKeys
<1>4. Complete' = Complete
  BY DEF Complete, IsComplete, Field
<1>5. Kept' = Kept
  BY DEF Kept, IsKept, KeepTurn, IsComplete, Field
<1> QED BY <1>1, <1>3, <1>4, <1>5

(* The rows kept, one by one. *)
LEMMA KeptRows ==
    ASSUME table \in Tables
    PROVE  /\ Kept[0] = <<>> /\ Complete = Kept[Len(table.rows)] /\ Len(table.rows) \in Nat
           /\ \A n \in 0 .. Len(table.rows) - 1 : Kept[n + 1] = KeepTurn(Kept[n], table.rows[n + 1])
           /\ \A n \in 0 .. Len(table.rows) :
                 Kept[n] \in Seq({row \in ToSet(table.rows) : IsComplete(row)})
<1> DEFINE rows == table.rows
           m == Len(rows)
           R == ToSet(rows)
           C == {row \in R : IsComplete(row)}
           X == Seq(C)
<1>1. rows \in Seq(R)
  BY TablesAssumption
<1>2. m \in Nat /\ <<>> \in X /\ \A n \in 1 .. m : rows[n] \in R
  <2> HIDE DEF rows, R, C
  <2> QED BY <1>1, ElementOfSeq DEF m
<1>3. \A kept \in X, row \in R : KeepTurn(kept, row) \in X
  <2> SUFFICES ASSUME NEW kept \in X, NEW row \in R PROVE KeepTurn(kept, row) \in X
    OBVIOUS
  <2>1. IsComplete(row) => row \in C
    OBVIOUS
  <2> HIDE DEF R, C
  <2> QED BY <2>1 DEF KeepTurn
<1> HIDE DEF R, C, X
<1>4. \E g : IsKept(g)
  <2> DEFINE st == [n \in 1 .. m |-> [kept \in X |-> KeepTurn(kept, rows[n])]]
             none == <<>>
  <2>1. st \in [1 .. m -> [X -> X]]
    BY <1>2, <1>3
  <2>2. \A kept \in X, n \in 1 .. m : st[n][kept] = KeepTurn(kept, rows[n])
    OBVIOUS
  <2> HIDE DEF st, m, none, rows
  <2>3. PICK g : Iterates(g, X, none, m, st)
    <3>1. none \in X
      BY <1>2 DEF none
    <3> QED BY <1>2, <2>1, <3>1, RecursionExists
  <2>4. ASSUME NEW n \in 0 .. m PROVE g[n] = IF n = 0 THEN none ELSE KeepTurn(g[n - 1], rows[n])
    <3>1. CASE n = 0
      BY <2>3, <3>1 DEF Iterates
    <3>2. CASE n # 0
      <4>1. n \in 1 .. m /\ n - 1 \in 0 .. m
        BY <1>2, <3>2
      <4> QED BY <2>2, <2>3, <3>2, <4>1 DEF Iterates
    <3> QED BY <3>1, <3>2
  <2>5. IsKept(g)
    <3>1. g = [n \in 0 .. m |-> g[n]]
      BY <2>3 DEF Iterates
    <3> QED BY <2>4, <3>1 DEF IsKept, m, none, rows
  <2> QED BY <2>5
<1>5. IsKept(Kept)
  BY <1>4, Zenon DEF Kept
<1>6. Complete = Kept[m]
  BY Zenon DEF Complete, Kept, IsKept, KeepTurn
<1>7. Kept[0] = <<>>
  BY <1>2, <1>5 DEF IsKept
<1>8. ASSUME NEW n \in 0 .. m - 1 PROVE Kept[n + 1] = KeepTurn(Kept[n], rows[n + 1])
  <2>1. n + 1 \in 0 .. m /\ n + 1 # 0 /\ (n + 1) - 1 = n
    BY <1>2
  <2>2. Kept[n + 1] = KeepTurn(Kept[(n + 1) - 1], rows[n + 1])
    BY <1>5, <2>1, Zenon DEF IsKept
  <2> QED BY <2>1, <2>2
<1>9. \A n \in 0 .. m : Kept[n] \in X
  <2> DEFINE T == {k \in 0 .. m : Kept[k] \in X}
  <2>1. 0 \in T
    BY <1>2, <1>7
  <2>2. ASSUME NEW n \in 0 .. m - 1, n \in T PROVE n + 1 \in T
    <3>1. n + 1 \in 1 .. m /\ n + 1 \in 0 .. m
      BY <1>2
    <3>2. rows[n + 1] \in R /\ Kept[n] \in X
      BY <1>2, <2>2, <3>1
    <3> QED BY <1>3, <1>8, <3>1, <3>2
  <2>3. \A n \in 0 .. m : n \in T
    <3> HIDE DEF T, m
    <3> QED BY <1>2, <2>1, <2>2, BoundedInduction
  <2> QED BY <2>3
<1> QED BY <1>2, <1>6, <1>7, <1>8, <1>9 DEF X, C, R

(* The keys and the fields agree. *)
LEMMA NamesAgree ==
    ASSUME NamesInv, AllKeys, pc \in {"rows", "phones"} \/ (pc = "done" /\ ret)
    PROVE  \A key \in ToSet(Keys) : /\ CameraInfoName[key] # Missing
                                    /\ \A row : Value(row, key) = Field(row, key)
<1> SUFFICES ASSUME NEW key \in ToSet(Keys)
             PROVE  CameraInfoName[key] # Missing /\ \A row : Value(row, key) = Field(row, key)
  OBVIOUS
<1> DEFINE fields == table.fields
           j == CameraInfoName[key] + 1
           c == CHOOSE f \in DOMAIN fields : fields[f] = key
<1>1. fields \in Seq(ToSet(fields)) /\ IsInjective(fields)
  BY TablesAssumption DEF NamesInv
<1>2. DOMAIN fields = 1 .. Len(fields)
  BY <1>1
<1>3. PICK f \in DOMAIN fields : fields[f] = key
  BY DEF AllKeys, ToSet
<1>4. IF CameraInfoName[key] = Missing THEN \A h \in 1 .. Len(fields) : fields[h] # key
      ELSE j \in 1 .. Len(fields) /\ fields[j] = key
  BY DEF NamesInv, Going, Seen
<1>5. CameraInfoName[key] # Missing /\ j \in DOMAIN fields /\ fields[j] = key
  BY <1>2, <1>3, <1>4
<1>6. c \in DOMAIN fields /\ fields[c] = key
  BY <1>3, Zenon
<1>7. j = c
  <2> HIDE DEF j, c, fields
  <2> QED BY <1>1, <1>5, <1>6 DEF IsInjective
<1>8. \A row : Field(row, key) = row[c] /\ Value(row, key) = row[j]
  BY DEF Field, Value
<1> QED BY <1>5, <1>7, <1>8

(* At first nothing is read. *)
LEMMA InitTableInv == Init => TableInv
  BY DEF Init, TableInv, NamesInv, RowsInv, LookupInv, Going

(* The keys are set to Missing, and the table is asked for. *)
LEMMA ConnectTable ==
    ASSUME TableInv, ConnectDataBase \/ Query
    PROVE  TableInv'
<1> USE DEF TableInv
<1>1. CASE ConnectDataBase
  <2>1. /\ pc = "connect" /\ table' = table /\ at' = 0 /\ pc' \in {"query", "done"}
        /\ (pc' = "done" => ret' = FALSE) /\ CameraInfoName' = [k \in ToSet(Keys) |-> Missing]
    BY <1>1 DEF ConnectDataBase, Return, NamesInv
  <2>2. NamesInv'
    BY <2>1 DEF NamesInv, Going, Seen
  <2> QED BY <2>1, <2>2 DEF RowsInv, LookupInv
<1>2. CASE Query
  <2>1. /\ pc = "query" /\ at = 0 /\ UNCHANGED <<table, at, CameraInfoName>> /\ pc' \in {"fields", "done"}
        /\ (pc' = "done" => ret' = FALSE)
    BY <1>2 DEF Query, Return, NamesInv
  <2>2. table.fields \in Seq(ToSet(table.fields))
    BY TablesAssumption DEF NamesInv
  <2>3. NamesInv'
    BY <2>1, <2>2 DEF NamesInv, Going, Seen
  <2> QED BY <2>1, <2>3 DEF RowsInv, LookupInv
<1> QED BY <1>1, <1>2

(* A field gives its place to its key. *)
LEMMA FetchFieldTable ==
    ASSUME IInv, TableInv, FetchField
    PROVE  TableInv'
<1> USE DEF TableInv
<1> DEFINE fields == table.fields
<1>1. pc = "fields" /\ UNCHANGED <<table, ret, CameraInfoFromDB>> /\ table \in Tables
  BY DEF FetchField, NamesInv
<1>2. /\ fields \in Seq(ToSet(fields)) /\ Len(fields) \in Nat /\ at \in Nat /\ at <= Len(fields)
      /\ CameraInfoName \in [ToSet(Keys) -> Nat \cup {Missing}]
  <2>1. fields \in Seq(ToSet(fields))
    BY <1>1, TablesAssumption
  <2> QED BY <1>1, <2>1 DEF NamesInv, IInv, TypeInv
<1>3. \A key \in ToSet(Keys) :
          IF CameraInfoName[key] = Missing THEN \A f \in 1 .. at : fields[f] # key
          ELSE CameraInfoName[key] + 1 \in 1 .. Len(fields) /\ fields[CameraInfoName[key] + 1] = key
  BY <1>1 DEF NamesInv, Going, Seen
<1>4. CASE at < Len(fields)
  <2> DEFINE new == fields[at + 1]
  <2>1. /\ CameraInfoName' = IF new \in ToSet(Keys) THEN [CameraInfoName EXCEPT ![new] = at] ELSE CameraInfoName
        /\ at' = at + 1 /\ pc' = pc
    BY <1>2, <1>4 DEF FetchField
  <2>2. at + 1 \in 1 .. Len(fields) /\ at # Missing
    BY <1>2, <1>4 DEF Missing
  <2>3. ASSUME NEW key \in ToSet(Keys)
        PROVE  IF CameraInfoName'[key] = Missing THEN \A f \in 1 .. at + 1 : fields[f] # key
               ELSE /\ CameraInfoName'[key] + 1 \in 1 .. Len(fields)
                    /\ fields[CameraInfoName'[key] + 1] = key
    <3>1. CASE key = new
      <4>1. CameraInfoName'[key] = at
        BY <1>2, <2>1, <3>1
      <4> QED BY <2>2, <3>1, <4>1
    <3>2. CASE key # new
      <4>1. CameraInfoName'[key] = CameraInfoName[key]
        BY <1>2, <2>1, <3>2
      <4>2. \A f \in 1 .. at + 1 : f = at + 1 \/ f \in 1 .. at
        BY <1>2
      <4> QED BY <1>3, <3>2, <4>1, <4>2
    <3> QED BY <3>1, <3>2
  <2>4. at' <= Len(fields)
    BY <1>2, <1>4, <2>1
  <2>5. NamesInv'
    BY <1>1, <2>1, <2>3, <2>4 DEF NamesInv, Going, Seen
  <2> QED BY <1>1, <2>1, <2>5 DEF RowsInv, LookupInv
<1>5. CASE ~(at < Len(fields))
  <2>1. pc' = "rows" /\ at' = 0 /\ CameraInfoName' = CameraInfoName
    BY <1>5 DEF FetchField
  <2>2. at = Len(fields)
    BY <1>2, <1>5
  <2>3. NamesInv'
    BY <1>1, <1>3, <2>1, <2>2 DEF NamesInv, Going, Seen
  <2>4. Kept'[0] = <<>> /\ Kept' = Kept
    BY <1>1, KeptRows, SameTable
  <2>5. CameraInfoFromDB' = <<>>
    BY <1>1 DEF IInv, CamerasInv
  <2>6. RowsInv'
    <3>1. Len(table.rows) \in Nat
      BY <1>1, KeptRows
    <3>2. Len(<<>>) = 0 /\ 1 .. 0 = {}
      OBVIOUS
    <3> QED BY <1>1, <2>1, <2>4, <2>5, <3>1, <3>2 DEF RowsInv
  <2> QED BY <2>1, <2>3, <2>6 DEF LookupInv
<1> QED BY <1>4, <1>5

(* A key is one of six names. *)
LEMMA KeyNames ==
    /\ ToSet(Keys) = {Keys[k] : k \in DOMAIN Keys}
    /\ "ip" \in ToSet(Keys) \ {"phonenums"} /\ "login_port" \in ToSet(Keys) \ {"phonenums"}
    /\ "name" \in ToSet(Keys) \ {"phonenums"} /\ "password" \in ToSet(Keys) \ {"phonenums"}
    /\ "username" \in ToSet(Keys) \ {"phonenums"} /\ "phonenums" \in ToSet(Keys)
<1>1. ToSet(Keys) = {Keys[k] : k \in DOMAIN Keys}
  BY DEF ToSet
<1>2. \A k \in 1 .. 6 : Keys[k] \in ToSet(Keys)
  BY <1>1 DEF Keys
<1>3. /\ Keys[1] = "ip" /\ Keys[2] = "login_port" /\ Keys[3] = "name" /\ Keys[4] = "password"
      /\ Keys[5] = "phonenums" /\ Keys[6] = "username"
  BY DEF Keys
<1> HIDE DEF Keys
<1>4. 1 \in 1 .. 6 /\ 2 \in 1 .. 6 /\ 3 \in 1 .. 6 /\ 4 \in 1 .. 6 /\ 5 \in 1 .. 6 /\ 6 \in 1 .. 6
  OBVIOUS
<1> QED BY <1>1, <1>2, <1>3, <1>4

(* With all the fields there, no row makes the call fail, and a row gives  *)
(* its camera when it is complete.                                         *)
LEMMA PushedComplete ==
    ASSUME NamesInv, AllKeys, pc = "rows", NEW row
    PROVE  /\ ~Fails(row)
           /\ Pushed(row) = IF IsComplete(row) THEN <<Camera(row)>> ELSE <<>>
<1>1. \A key \in ToSet(Keys) : CameraInfoName[key] # Missing /\ Value(row, key) = Field(row, key)
  BY NamesAgree
<1>2. \A k \in DOMAIN Keys : Keys[k] \in ToSet(Keys)
  BY KeyNames
<1>3. ~Fails(row)
  BY <1>1, <1>2, MissingStops DEF SomeMissing
<1>4. FirstStop(row) = 0 <=> IsComplete(row)
  <2>1. \A k \in DOMAIN Keys : Stops(row, k) <=> Field(row, Keys[k]) = Null
    BY <1>1, <1>2 DEF Stops
  <2>2. 0 \notin DOMAIN Keys
    BY DEF Keys
  <2>3. IsComplete(row) <=> \A k \in DOMAIN Keys : Field(row, Keys[k]) # Null
    BY KeyNames DEF IsComplete
  <2> QED BY <2>1, <2>2, <2>3, FirstStopIsLeast
<1>5. Camera(row) = [key \in ToSet(Keys) |-> Value(row, key)]
  BY <1>1 DEF Camera
<1> QED BY <1>3, <1>4, <1>5 DEF Pushed

(* A row of the table. *)
LEMMA FetchRowTable ==
    ASSUME IInv, TableInv, FetchRow
    PROVE  TableInv'
<1> USE DEF TableInv
<1> DEFINE rows == table.rows
           db == CameraInfoFromDB
<1>1. /\ pc = "rows" /\ ret = FALSE /\ UNCHANGED <<table, CameraInfoName, IpWarnToPhoneFromDB>>
      /\ table \in Tables /\ IpWarnToPhoneFromDB = NoPhones
  BY DEF FetchRow, NamesInv, IInv, PhonesInv
<1>2. at \in Nat /\ Len(rows) \in Nat /\ db \in Seq(ToSet(db)) /\ Len(db) \in Nat
  <2>1. at \in Nat /\ Len(rows) \in Nat /\ db \in Seq(ToSet(db))
    BY <1>1, KeptRows DEF IInv, TypeInv
  <2> QED BY <2>1
<1>3. pc' \in {"rows", "phones", "done"} /\ ret' = FALSE
  BY <1>1 DEF FetchRow, Return
<1>4. NamesInv'
  BY <1>1, <1>3 DEF NamesInv, Going, Seen
<1>5. /\ Complete' = Complete /\ Kept' = Kept /\ (AllKeys' <=> AllKeys)
      /\ \A row, name : Field(row, name)' = Field(row, name)
  BY <1>1, SameTable
<1>6. ASSUME AllKeys, at < Len(rows) PROVE RowsInv' /\ LookupInv'
  <2> DEFINE row == rows[at + 1]
             K == Kept[at]
             L == Kept[at + 1]
             C == {r \in ToSet(rows) : IsComplete(r)}
  <2>1. ~Fails(row) /\ Pushed(row) = IF IsComplete(row) THEN <<Camera(row)>> ELSE <<>>
    BY <1>1, <1>6, PushedComplete
  <2>2. at' = at + 1 /\ db' = db \o Pushed(row) /\ pc' = "rows"
    BY <1>1, <1>6, <2>1 DEF FetchRow
  <2>3. at \in 0 .. Len(rows) - 1 /\ at \in 0 .. Len(rows) /\ at + 1 \in 0 .. Len(rows) /\ at + 1 <= Len(rows)
    BY <1>2, <1>6
  <2>4. K \in Seq(C) /\ L \in Seq(C) /\ L = KeepTurn(K, row)
    <3> HIDE DEF C
    <3> QED BY <1>1, <2>3, KeptRows DEF C
  <2>5. Len(db) = Len(K) /\ \A k \in 1 .. Len(K) : db[k] = Camera(K[k])
    BY <1>1, <1>6 DEF RowsInv
  <2> HIDE DEF K, L, C, row, db
  <2>6. Len(db') = Len(L) /\ \A k \in 1 .. Len(L) : db'[k] = Camera(L[k])
    <3>1. CASE IsComplete(row)
      <4> DEFINE n == Len(K)
                 D == ToSet(db) \cup {Camera(row)}
      <4>1. L = Append(K, row) /\ db' = db \o <<Camera(row)>> /\ n \in Nat
        BY <2>1, <2>2, <2>4, <3>1 DEF KeepTurn
      <4>2. /\ Len(L) = n + 1 /\ L[n + 1] = row
            /\ \A k \in 1 .. n : L[k] = K[k]
        <5>1. row \in C
          <6>1. at + 1 \in 1 .. Len(rows) /\ rows \in Seq(ToSet(rows))
            BY <1>1, <1>2, <1>6, TablesAssumption
          <6>2. row \in ToSet(rows)
            BY <6>1 DEF row, ToSet
          <6> QED BY <3>1, <6>2 DEF C
        <5> QED BY <2>4, <4>1, <5>1
      <4>3. db \in Seq(D) /\ Camera(row) \in D
        <5>1. ToSet(db) \subseteq D /\ Camera(row) \in D
          OBVIOUS
        <5> HIDE DEF D
        <5> QED BY <1>2, <5>1, SeqMonotonic
      <4> DEFINE a == Camera(row)
      <4>4. a \in D /\ db' = db \o <<a>> /\ Len(db) = n
        BY <2>5, <4>1, <4>3
      <4> HIDE DEF D, a, n
      <4>5. Len(db \o <<a>>) = n + 1 /\ (db \o <<a>>)[n + 1] = a /\ \A k \in 1 .. n : (db \o <<a>>)[k] = db[k]
        BY <4>1, <4>3, <4>4
      <4>6. \A k \in 1 .. n + 1 : k = n + 1 \/ k \in 1 .. n
        BY <4>1
      <4>7. \A k \in 1 .. n : db[k] = Camera(K[k])
        BY <2>5 DEF n
      <4> QED BY <4>2, <4>4, <4>5, <4>6, <4>7 DEF a
    <3>2. CASE ~IsComplete(row)
      <4>1. L = K /\ db' = db \o <<>>
        BY <2>1, <2>2, <2>4, <3>2 DEF KeepTurn
      <4>2. db \o <<>> = db
        BY <1>2
      <4> QED BY <2>5, <4>1, <4>2
    <3> QED BY <3>1, <3>2
  <2>7. \A r : Camera(r)' = Camera(r)
    BY <1>5 DEF Camera
  <2> QED BY <1>1, <1>5, <2>2, <2>3, <2>6, <2>7 DEF RowsInv, LookupInv, L, db
<1>7. ASSUME AllKeys, ~(at < Len(rows)) PROVE RowsInv' /\ LookupInv'
  <2>1. pc' = "phones" /\ at' = 0 /\ db' = db
    BY <1>1, <1>7 DEF FetchRow
  <2>2. at <= Len(rows) /\ Len(db) = Len(Kept[at]) /\ \A k \in 1 .. Len(Kept[at]) : db[k] = Camera(Kept[at][k])
    BY <1>1, <1>7 DEF RowsInv
  <2>3. Kept[at] = Complete
    <3>1. at = Len(rows)
      BY <1>2, <1>7, <2>2
    <3> QED BY <1>1, <3>1, KeptRows
  <2>4. Len(db) = Len(Complete) /\ \A k \in 1 .. Len(Complete) : db[k] = Camera(Complete[k])
    BY <2>2, <2>3
  <2>5. \A k \in 1 .. Len(Complete) : \A key \in ToSet(Keys) : db[k][key] = Field(Complete[k], key)
    BY <2>4 DEF Camera
  <2>6. DOMAIN IpWarnToPhoneFromDB' = {}
    BY <1>1 DEF NoPhones
  <2>7. \A k \in 0 + 1 .. Len(Complete) : db[k]["phonenums"] = Field(Complete[k], "phonenums")
    BY <2>5, KeyNames
  <2> QED BY <1>1, <1>5, <2>1, <2>4, <2>5, <2>6, <2>7 DEF RowsInv, LookupInv
<1>8. ASSUME ~AllKeys PROVE RowsInv' /\ LookupInv'
  BY <1>5, <1>8 DEF RowsInv, LookupInv
<1> QED BY <1>4, <1>6, <1>7, <1>8

(* The phones of a camera go to the map. *)
LEMMA SplitPhonesTable ==
    ASSUME IInv, TableInv, SplitPhones
    PROVE  TableInv'
<1> USE DEF TableInv
<1> DEFINE db == CameraInfoFromDB
           map == IpWarnToPhoneFromDB
           rest == ToSet(Keys) \ {"phonenums"}
           N == Len(Complete)
<1>1. pc = "phones" /\ UNCHANGED <<table, CameraInfoName>> /\ table \in Tables
  BY DEF SplitPhones, NamesInv
<1>2. at \in Nat /\ db \in Seq(ToSet(db)) /\ Len(db) \in Nat /\ at <= Len(db)
  <2>1. at \in Nat /\ db \in Seq(ToSet(db))
    BY DEF IInv, TypeInv
  <2>2. at <= Len(db)
    BY <1>1 DEF IInv, PhonesInv
  <2> QED BY <2>1, <2>2
<1>3. pc' = "phones" \/ (pc' = "done" /\ ret' = TRUE)
  BY <1>1 DEF SplitPhones, Return
<1>4. NamesInv'
  BY <1>1, <1>3 DEF NamesInv, Going, Seen
<1>5. /\ Complete' = Complete /\ (AllKeys' <=> AllKeys)
      /\ \A row, name : Field(row, name)' = Field(row, name)
  BY <1>1, SameTable
<1>6. RowsInv'
  BY <1>3 DEF RowsInv
<1>7. ASSUME AllKeys PROVE LookupInv'
  <2>1. /\ Len(db) = N
        /\ \A k \in 1 .. N : \A key \in rest : db[k][key] = Field(Complete[k], key)
        /\ \A k \in at + 1 .. N : db[k]["phonenums"] = Field(Complete[k], "phonenums")
        /\ \A ip \in DOMAIN map : \E k \in 1 .. N :
              Field(Complete[k], "ip") = ip /\ map[ip] = ExtractPhoneNumber(Field(Complete[k], "phonenums"))
    BY <1>1, <1>7 DEF LookupInv
  <2>2. CASE at < Len(db)
    <3> DEFINE cam == db[at + 1]
               new == [k \in rest |-> cam[k]]
    <3>1. /\ map' = WithPhones(cam) /\ at' = at + 1 /\ pc' = "phones"
          /\ db' = [db EXCEPT ![at + 1] = new]
      BY <1>1, <2>2 DEF SplitPhones
    <3>2. at + 1 \in 1 .. N /\ at + 1 \in at + 1 .. N /\ N \in Nat
      BY <1>2, <2>1, <2>2
    <3>3. "ip" \in rest
      BY KeyNames
    <3>4. cam["ip"] = Field(Complete[at + 1], "ip") /\ cam["phonenums"] = Field(Complete[at + 1], "phonenums")
      BY <2>1, <3>2, <3>3
    <3>5. Len(db') = N /\ \A k \in 1 .. N : db'[k] = IF k = at + 1 THEN new ELSE db[k]
      <4> HIDE DEF new, cam, N
      <4>1. DOMAIN db = 1 .. N
        BY <1>2, <2>1
      <4>2. db' = [k \in 1 .. N |-> IF k = at + 1 THEN new ELSE db[k]]
        BY <3>1, <4>1
      <4> QED BY <3>2, <4>2
    <3>6. \A k \in 1 .. N : \A key \in rest : db'[k][key] = Field(Complete[k], key)
      <4>1. \A key \in rest : new[key] = cam[key]
        OBVIOUS
      <4> HIDE DEF new
      <4>2. \A key \in rest : cam[key] = Field(Complete[at + 1], key)
        BY <2>1, <3>2
      <4> HIDE DEF cam, rest, N
      <4> QED BY <2>1, <3>5, <4>1, <4>2
    <3>7. \A k \in at' + 1 .. N : db'[k]["phonenums"] = Field(Complete[k], "phonenums")
      <4> SUFFICES ASSUME NEW k \in at' + 1 .. N
                   PROVE  db'[k]["phonenums"] = Field(Complete[k], "phonenums")
        OBVIOUS
      <4>1. k \in at + 1 .. N /\ k \in 1 .. N /\ k # at + 1
        BY <1>2, <3>1, <3>2
      <4> QED BY <2>1, <3>5, <4>1
    <3>8. ASSUME NEW ip \in DOMAIN map'
          PROVE  \E k \in 1 .. N : /\ Field(Complete[k], "ip") = ip
                                   /\ map'[ip] = ExtractPhoneNumber(Field(Complete[k], "phonenums"))
      <4> HIDE DEF cam, new, N
      <4>1. CASE ip = cam["ip"]
        <5>1. map'[ip] = ExtractPhoneNumber(cam["phonenums"])
          BY <3>1, <4>1 DEF WithPhones
        <5> QED BY <3>2, <3>4, <4>1, <5>1
      <4>2. CASE ip # cam["ip"]
        <5>1. ip \in DOMAIN map /\ map'[ip] = map[ip]
          BY <3>1, <3>8, <4>2 DEF WithPhones
        <5> QED BY <2>1, <5>1
      <4> QED BY <4>1, <4>2
    <3> HIDE DEF cam, new
    <3>9. (Len(db) = N)' /\ (\A k \in 1 .. N : \A key \in rest : db[k][key] = Field(Complete[k], key))'
      BY <1>5, <3>5, <3>6
    <3>10. (\A k \in at + 1 .. N : db[k]["phonenums"] = Field(Complete[k], "phonenums"))'
      BY <1>5, <3>7
    <3>11. (\A ip \in DOMAIN map : \E k \in 1 .. N :
              Field(Complete[k], "ip") = ip /\ map[ip] = ExtractPhoneNumber(Field(Complete[k], "phonenums")))'
      BY <1>5, <3>8
    <3> QED BY <3>9, <3>10, <3>11 DEF LookupInv
  <2>3. CASE ~(at < Len(db))
    <3>1. pc' = "done" /\ db' = db /\ map' = map
      BY <1>1, <2>3 DEF SplitPhones, Return
    <3> QED BY <1>5, <2>1, <3>1 DEF LookupInv
  <2> QED BY <2>2, <2>3
<1>8. ASSUME ~AllKeys PROVE LookupInv'
  BY <1>5, <1>8 DEF LookupInv
<1> QED BY <1>4, <1>6, <1>7, <1>8

(* So the lookups' invariant is one. *)
LEMMA AlwaysTableInv == Spec => []TableInv
<1>1. IInv /\ TableInv /\ [Next]_vars => TableInv'
  <2> SUFFICES ASSUME IInv, TableInv, [Next]_vars PROVE TableInv'
    OBVIOUS
  <2>1. CASE UNCHANGED vars
    <3>1. UNCHANGED <<table, pc, ret, CameraInfoName, CameraInfoFromDB, IpWarnToPhoneFromDB, at>>
      BY <2>1 DEF vars
    <3>2. /\ Complete' = Complete /\ Kept' = Kept /\ (AllKeys' <=> AllKeys)
          /\ \A row, name : Field(row, name)' = Field(row, name)
      BY <3>1, SameTable
    <3>3. NamesInv'
      BY <3>1 DEF TableInv, NamesInv, Going, Seen
    <3>4. RowsInv'
      <4>1. \A row : Camera(row)' = Camera(row)
        BY <3>2 DEF Camera
      <4> QED BY <3>1, <3>2, <4>1 DEF TableInv, RowsInv
    <3>5. LookupInv'
      BY <3>1, <3>2 DEF TableInv, LookupInv
    <3> QED BY <3>3, <3>4, <3>5 DEF TableInv
  <2> QED BY <2>1, ConnectTable, FetchFieldTable, FetchRowTable, SplitPhonesTable DEF Next, Done
<1> QED BY InitTableInv, AlwaysIInv, <1>1, PTL DEF Spec

(* The port and the phonenums of a complete row are texts. *)
LEMMA TextsOfRow ==
    ASSUME table \in Tables, AllKeys, NEW row \in ToSet(table.rows), IsComplete(row)
    PROVE  /\ Field(row, "login_port") \in Seq(Int)
           /\ Field(row, "phonenums") \in Seq(ToSet(Field(row, "phonenums")))
<1>1. ASSUME NEW key \in ToSet(Keys)
      PROVE  \E f \in DOMAIN table.fields : table.fields[f] = key /\ Field(row, key) = row[f] /\ row[f] # Null
  <2> DEFINE c == CHOOSE f \in DOMAIN table.fields : table.fields[f] = key
  <2>1. \E f \in DOMAIN table.fields : table.fields[f] = key
    BY <1>1 DEF AllKeys, ToSet
  <2>2. c \in DOMAIN table.fields /\ table.fields[c] = key
    BY <2>1, Zenon
  <2>3. Field(row, key) = row[c] /\ Field(row, key) # Null
    BY <1>1 DEF Field, IsComplete
  <2> QED BY <2>2, <2>3
<1>2. PICK f \in DOMAIN table.fields :
          table.fields[f] = "login_port" /\ Field(row, "login_port") = row[f] /\ row[f] # Null
  BY <1>1, KeyNames
<1>3. PICK h \in DOMAIN table.fields :
          table.fields[h] = "phonenums" /\ Field(row, "phonenums") = row[h] /\ row[h] # Null
  BY <1>1, KeyNames
<1>4. row[f] \in Seq(Int) /\ row[h] \in Seq(ToSet(row[h]))
  BY <1>2, <1>3, TablesAssumption
<1> QED BY <1>2, <1>3, <1>4

(* A camera is logged in to with the values of its row. *)
LEMMA LoginOfRow ==
    ASSUME table \in Tables, AllKeys, NEW row \in ToSet(table.rows), IsComplete(row),
           NEW n, \A key \in ToSet(Keys) \ {"phonenums"} : CameraInfoFromDB[n][key] = Field(row, key)
    PROVE  LoginMatches(n, row)
<1> DEFINE port == Field(row, "login_port")
           num == StrToUint(port)
           digits == \A c \in ToSet(port) : IsDigit(c)
<1>1. /\ GetCameraIp(n) = Field(row, "ip") /\ GetCameraPort(n) = num
      /\ GetCameraUserName(n) = Field(row, "username") /\ GetCameraPasswd(n) = Field(row, "password")
  BY KeyNames DEF GetCameraIp, GetCameraPort, GetCameraUserName, GetCameraPasswd
<1>2. port \in Seq(Int)
  BY TextsOfRow
<1> HIDE DEF port
<1>3. /\ num.ok <=> \A k \in 1 .. Len(port) : IsDigit(port[k])
      /\ num.ok => DecimalValue(port) \in Nat /\ num.uint = DecimalValue(port) % UintMod
  BY <1>2, NumberCorrect
<1>4. digits <=> num.ok
  <2>1. DOMAIN port = 1 .. Len(port)
    BY <1>2
  <2> QED BY <1>3, <2>1 DEF ToSet
<1> HIDE DEF num, digits
<1>5. num.ok => num.uint % PortMod = DecimalValue(port) % PortMod
  <2>1. PortMod \in Nat \ {0} /\ UintMod \in Nat \ {0} /\ UintMod % PortMod = 0
    BY TablesAssumption, UintAssumption
  <2> DEFINE a == DecimalValue(port)
  <2>2. ASSUME a \in Nat PROVE (a % UintMod) % PortMod = a % PortMod
    <3> HIDE DEF a
    <3> QED BY <2>1, <2>2, RemainderOfRemainder
  <2> QED BY <1>3, <2>2
<1>6. CASE Field(row, "ip") # NoIp /\ digits
  <2>1. HikDev(n) = [sDevIp |-> Field(row, "ip"), wDevPort |-> num.uint % PortMod,
                     sDevUserName |-> Field(row, "username"), sDevPassword |-> Field(row, "password")]
    BY <1>1, <1>4, <1>6 DEF HikDev
  <2>2. /\ HikDev(n).sDevIp = Field(row, "ip") /\ HikDev(n).wDevPort = num.uint % PortMod
        /\ HikDev(n).sDevUserName = Field(row, "username") /\ HikDev(n).sDevPassword = Field(row, "password")
    BY <2>1
  <2> QED BY <1>4, <1>5, <1>6, <2>2 DEF LoginMatches, digits, port
<1>7. CASE ~(Field(row, "ip") # NoIp /\ digits)
  <2>1. HikDev(n) = Null
    BY <1>1, <1>4, <1>7 DEF HikDev
  <2> QED BY <1>7, <2>1 DEF LoginMatches, digits, port
<1> QED BY <1>6, <1>7

(* Once read, the cameras are the complete rows of the table, in order: a  *)
(* camera is logged in to with the values of its own row, the port modulo  *)
(* 2^16, and one whose ip is in no other row has the name of that row and  *)
(* the phone numbers between its commas.                                   *)
THEOREM LookupCorrect == Spec => []LookupMatchesTable
<1>1. ASSUME IInv, TableInv PROVE LookupMatchesTable
  <2> DEFINE db == CameraInfoFromDB
             N == Len(Complete)
             Only(n) == \A m \in DOMAIN Complete \ {n} : Field(Complete[m], "ip") # Field(Complete[n], "ip")
  <2> SUFFICES ASSUME pc = "done", ret, AllKeys
               PROVE  /\ Len(db) = N
                      /\ \A n \in DOMAIN Complete : /\ LoginMatches(n, Complete[n])
                                                    /\ Only(n) => AlarmMatches(Complete[n])
    BY DEF LookupMatchesTable, AllKeys, GetCameraNum
  <2>1. table \in Tables
    BY <1>1 DEF TableInv, NamesInv
  <2>2. /\ Len(db) = N
        /\ \A k \in 1 .. N : \A key \in ToSet(Keys) \ {"phonenums"} : db[k][key] = Field(Complete[k], key)
        /\ \A ip \in DOMAIN IpWarnToPhoneFromDB : \E k \in 1 .. N :
              /\ Field(Complete[k], "ip") = ip
              /\ IpWarnToPhoneFromDB[ip] = ExtractPhoneNumber(Field(Complete[k], "phonenums"))
    BY <1>1 DEF TableInv, LookupInv
  <2>3. N \in Nat /\ DOMAIN Complete = 1 .. N /\ \A n \in 1 .. N : Complete[n] \in ToSet(table.rows) /\ IsComplete(Complete[n])
    <3> DEFINE C == {row \in ToSet(table.rows) : IsComplete(row)}
               L == Len(table.rows)
    <3>1. L \in 0 .. L
      BY <2>1, KeptRows
    <3>2. Complete \in Seq(C)
      <4> HIDE DEF C, L
      <4> QED BY <2>1, <3>1, KeptRows DEF C, L
    <3> HIDE DEF C
    <3>3. N \in Nat /\ DOMAIN Complete = 1 .. N
      BY <3>2
    <3>4. \A n \in 1 .. N : Complete[n] \in C
      BY <3>2, ElementOfSeq
    <3> QED BY <3>3, <3>4 DEF C
  <2>4. DOMAIN db = 1 .. N
    <3>1. db \in Seq(ToSet(db))
      BY <1>1 DEF IInv, TypeInv
    <3> QED BY <2>2, <3>1
  <2>5. ASSUME NEW n \in 1 .. N PROVE LoginMatches(n, Complete[n])
    <3> DEFINE row == Complete[n]
    <3>1. /\ row \in ToSet(table.rows) /\ IsComplete(row)
          /\ \A key \in ToSet(Keys) \ {"phonenums"} : db[n][key] = Field(row, key)
      BY <2>2, <2>3
    <3> HIDE DEF row
    <3>2. LoginMatches(n, row)
      BY <2>1, <3>1, LoginOfRow
    <3> QED BY <3>2 DEF row
  <2>6. ASSUME NEW n \in 1 .. N, Only(n) PROVE AlarmMatches(Complete[n])
    <3> DEFINE row == Complete[n]
               ip == Field(row, "ip")
               phones == ExtractPhoneNumber(Field(row, "phonenums"))
               I == {i \in DOMAIN db : db[i]["ip"] = ip}
    <3>1. \A k \in 1 .. N : Field(Complete[k], "ip") = ip => k = n
      BY <2>3, <2>6
    <3>2. \A k \in 1 .. N : db[k]["ip"] = Field(Complete[k], "ip") /\ db[k]["name"] = Field(Complete[k], "name")
      BY <2>2, KeyNames
    <3>3. ip \in DOMAIN IpWarnToPhoneFromDB
      <4>1. HavePhones(N)
        BY <1>1, <2>2 DEF IInv, PhonesInv
      <4>2. db[n]["ip"] \in DOMAIN IpWarnToPhoneFromDB
        BY <4>1 DEF HavePhones
      <4> QED BY <3>2, <4>2
    <3>4. IpWarnToPhoneFromDB[ip] = phones
      <4> HIDE DEF ip
      <4>1. PICK k \in 1 .. N :
                /\ Field(Complete[k], "ip") = ip
                /\ IpWarnToPhoneFromDB[ip] = ExtractPhoneNumber(Field(Complete[k], "phonenums"))
        BY <2>2, <3>3
      <4> QED BY <3>1, <4>1
    <3>5. GetCameraWarnPhone(ip).vecPhone = phones
      BY <3>3, <3>4 DEF GetCameraWarnPhone
    <3>6. I = {n}
      BY <2>4, <3>1, <3>2
    <3>7. GetCameraName(ip) = Field(row, "name")
      <4> DEFINE c == CHOOSE i \in I : \A j \in I : i <= j
      <4>1. GetCameraName(ip) = db[c]["name"]
        BY <3>6, Zenon DEF GetCameraName
      <4>2. c = n
        <5>1. n <= n
          BY <2>3
        <5>2. \E i \in I : \A j \in I : i <= j
          <6> HIDE DEF I
          <6> QED BY <3>6, <5>1
        <5>3. c \in I
          BY <5>2, Zenon
        <5> QED BY <3>6, <5>3
      <4> QED BY <3>2, <4>1, <4>2
    <3>8. Field(row, "phonenums") \in Seq(ToSet(Field(row, "phonenums")))
      <4>1. row \in ToSet(table.rows) /\ IsComplete(row)
        BY <2>3
      <4> HIDE DEF row
      <4> QED BY <2>1, <4>1, TextsOfRow
    <3>9. /\ phones # <<>> /\ JoinPhones(phones) = Field(row, "phonenums")
          /\ \A p \in ToSet(phones) : Comma \notin ToSet(p)
      <4> DEFINE s == Field(row, "phonenums")
      <4>1. s \in Seq(ToSet(s))
        BY <3>8
      <4> HIDE DEF s
      <4>2. /\ ExtractPhoneNumber(s) # <<>> /\ JoinPhones(ExtractPhoneNumber(s)) = s
            /\ \A p \in ToSet(ExtractPhoneNumber(s)) : Comma \notin ToSet(p)
        BY <4>1, ExtractCorrect
      <4> QED BY <4>2 DEF s
    <3> HIDE DEF phones
    <3> QED BY <3>5, <3>7, <3>9 DEF AlarmMatches
  <2> QED BY <2>2, <2>3, <2>5, <2>6
<1> QED BY <1>1, AlwaysIInv, AlwaysTableInv, PTL

=============================================================================
