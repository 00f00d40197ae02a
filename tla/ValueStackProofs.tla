--------------------------- MODULE ValueStackProofs ---------------------------
(***************************************************************************)
(* Proofs about the value stack and the conversion of terms: what the calls *)
(* of Duktape and the helpers of duk_util.c and duk_elm.c leave on a stack, *)
(* for every size of its reserve, and what duk_erlang_push_term and         *)
(* duk_erlang_get_term, one after the other, do to a term and to a value.   *)
(***************************************************************************)
EXTENDS ValueStack, SequenceTheorems, TLAPS

IsStack(s) == s \in Seq(Range(s))

LEMMA AnyStack ==
  ASSUME NEW S, NEW s \in Seq(S) PROVE IsStack(s)
BY SeqOfRange DEF IsStack

LEMMA NoValues == IsStack(<<>>) /\ Len(<<>>) = 0
BY AnyStack, EmptySeq

LEMMA OnTop ==
  ASSUME NEW s, IsStack(s), NEW v
  PROVE  /\ Len(s) \in Nat
         /\ IsStack(Append(s, v)) /\ Len(Append(s, v)) = Len(s) + 1
         /\ Append(s, v)[Len(s) + 1] = v
         /\ \A i \in 1..Len(s) : Append(s, v)[i] = s[i]
<1> DEFINE S == Range(s) \cup {v}
<1>1. s \in Seq(S)
  BY SeqMonotonic DEF IsStack
<1>2. Append(s, v) \in Seq(S)
  BY <1>1
<1>3. IsStack(Append(s, v))
  <2> HIDE DEF S
  <2> QED
    BY <1>2, AnyStack
<1> QED
  BY <1>1, <1>3

LEMMA OnTop2 ==
  ASSUME NEW s, IsStack(s), NEW a, NEW b
  PROVE  LET t == Append(Append(s, a), b)
         IN /\ Len(s) \in Nat /\ IsStack(t) /\ Len(t) = Len(s) + 2
            /\ t[Len(s) + 1] = a /\ t[Len(s) + 2] = b
            /\ \A i \in 1..Len(s) : t[i] = s[i]
<1> DEFINE r == Append(s, a)
           t == Append(r, b)
<1>1. /\ IsStack(r) /\ Len(r) = Len(s) + 1 /\ Len(s) \in Nat /\ r[Len(s) + 1] = a
      /\ \A i \in 1..Len(s) : r[i] = s[i]
  BY OnTop
<1> HIDE DEF r
<1>2. /\ IsStack(t) /\ Len(t) = Len(r) + 1 /\ t[Len(r) + 1] = b /\ \A i \in 1..Len(r) : t[i] = r[i]
  BY <1>1, OnTop
<1> HIDE DEF t
<1>3. /\ Len(t) = Len(s) + 2 /\ t[Len(s) + 1] = a /\ t[Len(s) + 2] = b
      /\ \A i \in 1..Len(s) : t[i] = s[i]
  BY <1>1, <1>2
<1> QED
  BY <1>1, <1>2, <1>3 DEF r, t

LEMMA OnTop3 ==
  ASSUME NEW s, IsStack(s), NEW a, NEW b, NEW c
  PROVE  LET u == Append(Append(Append(s, a), b), c)
         IN /\ Len(s) \in Nat /\ IsStack(u) /\ Len(u) = Len(s) + 3
            /\ u[Len(s) + 1] = a /\ u[Len(s) + 2] = b /\ u[Len(s) + 3] = c
            /\ \A i \in 1..Len(s) : u[i] = s[i]
<1> DEFINE t == Append(Append(s, a), b)
           u == Append(t, c)
<1>1. /\ Len(s) \in Nat /\ IsStack(t) /\ Len(t) = Len(s) + 2
      /\ t[Len(s) + 1] = a /\ t[Len(s) + 2] = b /\ \A i \in 1..Len(s) : t[i] = s[i]
  BY OnTop2
<1> HIDE DEF t
<1>2. /\ IsStack(u) /\ Len(u) = Len(t) + 1 /\ u[Len(t) + 1] = c /\ \A i \in 1..Len(t) : u[i] = t[i]
  BY <1>1, OnTop
<1> HIDE DEF u
<1>3. /\ Len(u) = Len(s) + 3 /\ u[Len(s) + 1] = a /\ u[Len(s) + 2] = b /\ u[Len(s) + 3] = c
      /\ \A i \in 1..Len(s) : u[i] = s[i]
  BY <1>1, <1>2
<1> QED
  BY <1>1, <1>2, <1>3 DEF t, u

LEMMA SameStack ==
  ASSUME NEW s, NEW t, IsStack(s), IsStack(t), Len(s) = Len(t),
         \A i \in 1..Len(s) : s[i] = t[i]
  PROVE  s = t
<1> DEFINE S == Range(s) \cup Range(t)
<1>1. s \in Seq(S) /\ t \in Seq(S)
  BY SeqMonotonic DEF IsStack
<1> HIDE DEF S
<1> QED
  BY <1>1, SeqEqual

LEMMA Below ==
  ASSUME NEW s, IsStack(s), NEW n \in 0..Len(s)
  PROVE  /\ IsStack(SubSeq(s, 1, n)) /\ Len(SubSeq(s, 1, n)) = n
         /\ \A i \in 1..n : SubSeq(s, 1, n)[i] = s[i]
<1>1. Len(s) \in Nat /\ \A i \in 1..n : s[i] \in Range(s)
  BY ElementOfSeq DEF IsStack
<1>2. SubSeq(s, 1, n) \in Seq(Range(s))
  BY <1>1, SubSeqProperties
<1>3. Len(SubSeq(s, 1, n)) = n /\ \A i \in 1..n : SubSeq(s, 1, n)[i] = s[i]
  BY <1>1, SubSeqProperties
<1> QED
  BY <1>2, <1>3, AnyStack

LEMMA Tops ==
  ASSUME NEW a, NEW b PROVE Append(<<>>, a) = <<a>> /\ Append(<<a>>, b) = <<a, b>>
<1> DEFINE S == {a, b}
<1>1. <<>> \in Seq(S) /\ <<a>> \in Seq(S) /\ <<a, b>> \in Seq(S)
  OBVIOUS
<1>2. a \in S /\ b \in S
  OBVIOUS
<1>3. Len(<<>>) = 0 /\ Len(<<a>>) = 1 /\ <<a>>[1] = a
      /\ Len(<<a, b>>) = 2 /\ <<a, b>>[1] = a /\ <<a, b>>[2] = b
  OBVIOUS
<1> HIDE DEF S
<1>4. Append(<<>>, a) = <<a>>
  BY <1>1, <1>2, <1>3, AppendProperties, SeqEqual
<1>5. Append(<<a>>, b) = <<a, b>>
  <2> DEFINE t == Append(<<a>>, b)
  <2>1. t \in Seq(S) /\ Len(t) = 2 /\ t[1] = a /\ t[2] = b
    BY <1>1, <1>2, <1>3, AppendProperties
  <2> HIDE DEF t
  <2>2. \A i \in 1..2 : i = 1 \/ i = 2
    OBVIOUS
  <2>3. t = <<a, b>>
    BY <1>1, <1>3, <2>1, <2>2, SeqEqual
  <2> QED
    BY <2>3 DEF t
<1> QED
  BY <1>4, <1>5

LEMMA MachineIs ==
  ASSUME NEW s
  PROVE Machine(s).stack = s /\ ~Machine(s).thrown /\ Height(Machine(s)) = Len(s)
BY DEF Machine, Height

LEMMA ReserveFacts == Reserve \in Nat /\ Reserve >= 5
BY ReserveAssumption

(* There is room for n more values.                                        *)
Fits(s, n) == IsStack(s) /\ Len(s) + n <= Reserve

LEMMA Room ==
  ASSUME NEW s, NEW v
  PROVE  /\ Fits(s, 5) => Fits(s, 4) /\ Fits(Append(s, v), 4)
         /\ Fits(s, 4) => Fits(s, 3) /\ Fits(Append(s, v), 3)
         /\ Fits(s, 3) => Fits(s, 2) /\ Fits(Append(s, v), 2)
         /\ Fits(s, 2) => Fits(s, 1) /\ Fits(Append(s, v), 1)
         /\ Fits(s, 1) => IsStack(s) /\ IsStack(Append(s, v))
<1>1. CASE IsStack(s)
  <2>1. Len(s) \in Nat /\ IsStack(Append(s, v)) /\ Len(Append(s, v)) = Len(s) + 1
    BY <1>1, OnTop
  <2> QED
    BY <1>1, <2>1, ReserveFacts DEF Fits
<1>2. CASE ~IsStack(s)
  BY <1>2 DEF Fits
<1> QED
  BY <1>1, <1>2

LEMMA Empty == Fits(<<>>, 5)
BY NoValues, ReserveFacts DEF Fits

LEMMA Push ==
  ASSUME NEW s, Fits(s, 1), NEW v
  PROVE  duk_push(Machine(s), v) = Machine(Append(s, v))
<1>1. ~(Len(s) >= Reserve)
  <2>1. Len(s) \in Nat
    BY OnTop DEF Fits
  <2> QED
    BY <2>1, ReserveFacts DEF Fits
<1> QED
  BY <1>1, MachineIs DEF duk_push

LEMMA Pop1 ==
  ASSUME NEW s, IsStack(s), NEW a
  PROVE  duk_pop_n(Machine(Append(s, a)), 1) = Machine(s)
<1> DEFINE t == Append(s, a)
<1>1. IsStack(t) /\ Len(t) = Len(s) + 1 /\ Len(s) \in Nat /\ \A i \in 1..Len(s) : t[i] = s[i]
  BY OnTop
<1> HIDE DEF t
<1>2. /\ IsStack(SubSeq(t, 1, Len(s))) /\ Len(SubSeq(t, 1, Len(s))) = Len(s)
      /\ \A i \in 1..Len(s) : SubSeq(t, 1, Len(s))[i] = t[i]
  BY <1>1, Below
<1>3. SubSeq(t, 1, Len(s)) = s
  BY <1>1, <1>2, SameStack
<1>4. duk_pop_n(Machine(t), 1) = Machine(SubSeq(t, 1, Len(s)))
  <2>1. Len(t) - 1 = Len(s) /\ ~(Len(t) < 1)
    BY <1>1
  <2> QED
    BY <2>1, MachineIs DEF duk_pop_n
<1> QED
  BY <1>1, <1>3, <1>4 DEF t

LEMMA Pop2 ==
  ASSUME NEW s, IsStack(s), NEW a, NEW b
  PROVE  duk_pop_n(Machine(Append(Append(s, a), b)), 2) = Machine(s)
<1> DEFINE t == Append(Append(s, a), b)
<1>1. /\ IsStack(t) /\ Len(t) = Len(s) + 2 /\ Len(s) \in Nat
      /\ \A i \in 1..Len(s) : t[i] = s[i]
  BY OnTop2
<1> HIDE DEF t
<1>2. /\ IsStack(SubSeq(t, 1, Len(s))) /\ Len(SubSeq(t, 1, Len(s))) = Len(s)
      /\ \A i \in 1..Len(s) : SubSeq(t, 1, Len(s))[i] = t[i]
  BY <1>1, Below
<1>3. SubSeq(t, 1, Len(s)) = s
  BY <1>1, <1>2, SameStack
<1>4. duk_pop_n(Machine(t), 2) = Machine(SubSeq(t, 1, Len(s)))
  <2>1. Len(t) - 2 = Len(s) /\ ~(Len(t) < 2)
    BY <1>1
  <2> QED
    BY <2>1, MachineIs DEF duk_pop_n
<1> QED
  BY <1>1, <1>3, <1>4 DEF t

LEMMA TopIs ==
  ASSUME NEW s, IsStack(s), NEW a
  PROVE  At(Machine(Append(s, a)), -1) = a
<1>1. Len(Append(s, a)) + 1 + (-1) = Len(s) + 1 /\ Append(s, a)[Len(s) + 1] = a
  BY OnTop
<1> QED
  BY <1>1, MachineIs DEF At, Position

LEMMA SecondIs ==
  ASSUME NEW s, IsStack(s), NEW a, NEW b
  PROVE  At(Machine(Append(Append(s, a), b)), -2) = a
<1> DEFINE t == Append(s, a)
<1>1. IsStack(t) /\ Len(s) \in Nat /\ Len(t) = Len(s) + 1 /\ t[Len(t)] = a
  BY OnTop
<1> HIDE DEF t
<1>2. Len(Append(t, b)) + 1 + (-2) = Len(t) /\ Append(t, b)[Len(t)] = t[Len(t)]
  BY <1>1, OnTop
<1>3. At(Machine(Append(t, b)), -2) = a
  BY <1>1, <1>2, MachineIs DEF At, Position
<1> QED
  BY <1>3 DEF t

LEMMA ReplaceTop ==
  ASSUME NEW s, IsStack(s), NEW a, NEW b
  PROVE  [Append(s, a) EXCEPT ![Len(s) + 1] = b] = Append(s, b)
<1> DEFINE S == Range(s) \cup {a, b}
           t == Append(s, a)
           u == Append(s, b)
<1>1. s \in Seq(S) /\ a \in S /\ b \in S
  BY SeqMonotonic DEF IsStack
<1>2. t \in Seq(S) /\ u \in Seq(S) /\ Len(t) = Len(s) + 1 /\ Len(u) = Len(s) + 1
      /\ Len(s) \in Nat /\ u[Len(s) + 1] = b /\ \A i \in 1..Len(s) : t[i] = s[i] /\ u[i] = s[i]
  <2> HIDE DEF S
  <2> QED
    BY <1>1, AppendProperties
<1> HIDE DEF t, u, S
<1>3. /\ [t EXCEPT ![Len(s) + 1] = b] \in Seq(S)
      /\ Len([t EXCEPT ![Len(s) + 1] = b]) = Len(t)
      /\ \A j \in 1..Len(t) : [t EXCEPT ![Len(s) + 1] = b][j] = IF j = Len(s) + 1 THEN b ELSE t[j]
  BY <1>1, <1>2, ExceptSeq
<1>4. [t EXCEPT ![Len(s) + 1] = b] = u
  BY <1>2, <1>3, SeqEqual
<1> QED
  BY <1>4 DEF t, u

LEMMA Thrown ==
  ASSUME NEW m, m.thrown
  PROVE  /\ \A v : duk_push(m, v).thrown
         /\ \A n : duk_pop_n(m, n).thrown
         /\ \A i : duk_insert(m, i).thrown
         /\ \A i : duk_remove(m, i).thrown
         /\ \A name : duk_get_prop_string(m, name).thrown
         /\ \A i : duk_get_prop(m, i).thrown
         /\ \A pairs : duk_enum(m, pairs).thrown
         /\ \A i : ~HasNext(m, i)
         /\ Throw(m).thrown
BY DEF duk_push, duk_pop_n, duk_insert, duk_remove, duk_get_prop_string, duk_get_prop,
       duk_enum, HasNext, Throw

LEMMA Lookup ==
  ASSUME NEW s, Fits(s, 2), NEW v, NEW name
  PROVE  /\ v.type \notin {"undefined", "null"} =>
              duk_get_prop_string(Machine(Append(s, v)), name)
                = Machine(Append(Append(s, v), Property(v, name)))
         /\ v.type \in {"undefined", "null"} =>
              duk_get_prop_string(Machine(Append(s, v)), name).thrown
<1> DEFINE t == Append(s, v)
<1>1. Fits(t, 1) /\ At(Machine(t), -1) = v
  BY Room, TopIs
<1> HIDE DEF t
<1>2. ~Machine(t).thrown
  BY MachineIs
<1>3. duk_push(Machine(t), Property(v, name)) = Machine(Append(t, Property(v, name)))
  BY <1>1, Push
<1>4. CASE v.type \notin {"undefined", "null"}
  <2>1. duk_get_prop_string(Machine(t), name) = duk_push(Machine(t), Property(v, name))
    BY <1>1, <1>2, <1>4 DEF duk_get_prop_string
  <2> QED
    BY <1>3, <1>4, <2>1 DEF t
<1>5. CASE v.type \in {"undefined", "null"}
  <2>1. duk_get_prop_string(Machine(t), name).thrown
    BY <1>1, <1>5 DEF duk_get_prop_string, Throw
  <2> QED
    BY <1>5, <2>1 DEF t
<1> QED
  BY <1>4, <1>5

LEMMA InsertIs ==
  ASSUME NEW s, IsStack(s), NEW p \in 1..Len(s) + 1, NEW e
  PROVE  /\ IsStack(InsertAt(s, p, e)) /\ Len(InsertAt(s, p, e)) = Len(s) + 1
         /\ \A i \in 1..Len(s) + 1 :
              InsertAt(s, p, e)[i] = IF i < p THEN s[i] ELSE IF i = p THEN e ELSE s[i - 1]
<1> DEFINE S == Range(s) \cup {e}
           a == SubSeq(s, 1, p - 1)
           b == SubSeq(s, p, Len(s))
           ae == a \o <<e>>
<1>1. s \in Seq(S) /\ e \in S /\ <<e>> \in Seq(S) /\ Len(<<e>>) = 1 /\ <<e>>[1] = e
  BY SeqMonotonic DEF IsStack
<1> HIDE DEF S
<1>2. Len(s) \in Nat /\ p \in Int /\ p - 1 \in Int /\ \A i \in 1..Len(s) : s[i] \in S
  BY <1>1, LenProperties, ElementOfSeq
<1>3. a \in Seq(S) /\ Len(a) = p - 1 /\ \A i \in 1..p - 1 : a[i] = s[i]
  <2>1. \A i \in 1..p - 1 : s[i] \in S
    BY <1>2
  <2>2. \A i \in 1..p - 1 - 1 + 1 : a[i] = s[1 + i - 1]
    BY <1>2, <2>1, SubSeqProperties
  <2>3. a \in Seq(S) /\ Len(a) = IF 1 <= p - 1 THEN p - 1 - 1 + 1 ELSE 0
    BY <1>2, <2>1, SubSeqProperties
  <2> HIDE DEF a
  <2> QED
    BY <1>2, <2>2, <2>3
<1>4. b \in Seq(S) /\ Len(b) = Len(s) - p + 1 /\ \A i \in 1..Len(s) - p + 1 : b[i] = s[p + i - 1]
  <2>1. \A i \in p..Len(s) : s[i] \in S
    BY <1>2
  <2>2. \A i \in 1..Len(s) - p + 1 : b[i] = s[p + i - 1]
    BY <1>2, <2>1, SubSeqProperties
  <2>3. b \in Seq(S) /\ Len(b) = IF p <= Len(s) THEN Len(s) - p + 1 ELSE 0
    BY <1>2, <2>1, SubSeqProperties
  <2> HIDE DEF b
  <2> QED
    BY <1>2, <2>2, <2>3
<1> HIDE DEF a, b
<1>5. ae \in Seq(S) /\ Len(ae) = p /\ ae[p] = e /\ \A i \in 1..p - 1 : ae[i] = s[i]
  <2>1. ae \in Seq(S) /\ Len(ae) = Len(a) + Len(<<e>>)
        /\ \A i \in 1..Len(a) + Len(<<e>>) : ae[i] = IF i <= Len(a) THEN a[i] ELSE <<e>>[i - Len(a)]
    BY <1>1, <1>3, ConcatProperties
  <2> HIDE DEF ae
  <2> QED
    BY <1>1, <1>2, <1>3, <2>1
<1> HIDE DEF ae
<1>6. ae \o b \in Seq(S) /\ Len(ae \o b) = Len(s) + 1
      /\ \A i \in 1..Len(s) + 1 : (ae \o b)[i] = IF i <= p THEN ae[i] ELSE b[i - p]
  <2>1. ae \o b \in Seq(S) /\ Len(ae \o b) = Len(ae) + Len(b)
        /\ \A i \in 1..Len(ae) + Len(b) :
                (ae \o b)[i] = IF i <= Len(ae) THEN ae[i] ELSE b[i - Len(ae)]
    BY <1>4, <1>5, ConcatProperties
  <2> QED
    BY <1>2, <1>4, <1>5, <2>1
<1>7. InsertAt(s, p, e) = ae \o b
  BY DEF InsertAt, ae, a, b
<1> DEFINE r == ae \o b
<1>8. /\ IsStack(r) /\ Len(r) = Len(s) + 1
      /\ \A i \in 1..Len(s) + 1 : r[i] = IF i < p THEN s[i] ELSE IF i = p THEN e ELSE s[i - 1]
  <2>1. r \in Seq(S) /\ Len(r) = Len(s) + 1
        /\ \A i \in 1..Len(s) + 1 : r[i] = IF i <= p THEN ae[i] ELSE b[i - p]
    BY <1>6
  <2> HIDE DEF r
  <2>2. IsStack(r)
    BY <2>1, AnyStack
  <2>3. ASSUME NEW i \in 1..Len(s) + 1
        PROVE  r[i] = IF i < p THEN s[i] ELSE IF i = p THEN e ELSE s[i - 1]
    <3>1. CASE i < p
      BY <1>2, <1>5, <2>1, <3>1
    <3>2. CASE i = p
      BY <1>2, <1>5, <2>1, <3>2
    <3>3. CASE i > p
      <4>1. i - p \in 1..Len(s) - p + 1 /\ p + (i - p) - 1 = i - 1 /\ ~(i <= p)
        BY <1>2, <3>3
      <4>2. b[i - p] = s[p + (i - p) - 1]
        BY <1>4, <4>1
      <4> QED
        BY <1>2, <2>1, <3>3, <4>1, <4>2
    <3> QED
      BY <1>2, <3>1, <3>2, <3>3
  <2> QED
    BY <2>1, <2>2, <2>3
<1> QED
  BY <1>7, <1>8

LEMMA FrontIs ==
  ASSUME NEW s, IsStack(s), NEW a
  PROVE  Front(Append(s, a)) = s
<1> DEFINE t == Append(s, a)
<1>1. IsStack(t) /\ Len(t) = Len(s) + 1 /\ Len(s) \in Nat /\ \A i \in 1..Len(s) : t[i] = s[i]
  BY OnTop
<1> HIDE DEF t
<1>2. /\ IsStack(SubSeq(t, 1, Len(s))) /\ Len(SubSeq(t, 1, Len(s))) = Len(s)
      /\ \A i \in 1..Len(s) : SubSeq(t, 1, Len(s))[i] = t[i]
  BY <1>1, Below
<1>3. SubSeq(t, 1, Len(s)) = s
  BY <1>1, <1>2, SameStack
<1>4. Len(t) - 1 = Len(s)
  BY <1>1
<1>5. Front(t) = s
  BY <1>3, <1>4 DEF Front
<1> QED
  BY <1>5 DEF t

LEMMA Insert2 ==
  ASSUME NEW s, IsStack(s), NEW a, NEW b
  PROVE  duk_insert(Machine(Append(Append(s, a), b)), -2) = Machine(Append(Append(s, b), a))
<1> DEFINE t == Append(s, a)
           u == Append(t, b)
           r == InsertAt(t, Len(s) + 1, b)
           w == Append(Append(s, b), a)
<1>1. /\ IsStack(t) /\ Len(t) = Len(s) + 1 /\ Len(s) \in Nat /\ t[Len(s) + 1] = a
      /\ \A i \in 1..Len(s) : t[i] = s[i]
  BY OnTop
<1>2. IsStack(w) /\ Len(w) = Len(s) + 2 /\ w[Len(s) + 2] = a /\ w[Len(s) + 1] = b
      /\ \A i \in 1..Len(s) : w[i] = s[i]
  BY OnTop2
<1> HIDE DEF t, w
<1>3. /\ IsStack(r) /\ Len(r) = Len(t) + 1
      /\ \A i \in 1..Len(t) + 1 :
           r[i] = IF i < Len(s) + 1 THEN t[i] ELSE IF i = Len(s) + 1 THEN b ELSE t[i - 1]
  BY <1>1, InsertIs
<1>4. r = w
  <2> HIDE DEF r
  <2> QED
    BY <1>1, <1>2, <1>3, SameStack
<1>5. Front(u) = t /\ At(Machine(u), -1) = b /\ Len(u) + 1 + (-2) = Len(s) + 1 /\ ~(Len(s) + 1 < 1)
  BY <1>1, FrontIs, TopIs, OnTop
<1>6. duk_insert(Machine(u), -2) = Machine(r)
  BY <1>5, MachineIs DEF duk_insert, Position
<1> QED
  BY <1>4, <1>6 DEF t, w

LEMMA Insert3 ==
  ASSUME NEW s, IsStack(s), NEW a, NEW b, NEW c
  PROVE  duk_insert(Machine(Append(Append(Append(s, a), b), c)), -3)
           = Machine(Append(Append(Append(s, c), a), b))
<1> DEFINE t == Append(Append(s, a), b)
           u == Append(t, c)
           r == InsertAt(t, Len(s) + 1, c)
           w == Append(Append(Append(s, c), a), b)
<1>1. /\ Len(s) \in Nat /\ IsStack(t) /\ Len(t) = Len(s) + 2
      /\ t[Len(s) + 1] = a /\ t[Len(s) + 2] = b /\ \A i \in 1..Len(s) : t[i] = s[i]
  BY OnTop2
<1>2. IsStack(w) /\ Len(w) = Len(s) + 3 /\ w[Len(s) + 3] = b /\ w[Len(s) + 2] = a
      /\ w[Len(s) + 1] = c /\ \A i \in 1..Len(s) : w[i] = s[i]
  BY OnTop3
<1> HIDE DEF t, w
<1>3. /\ IsStack(r) /\ Len(r) = Len(t) + 1
      /\ \A i \in 1..Len(t) + 1 :
           r[i] = IF i < Len(s) + 1 THEN t[i] ELSE IF i = Len(s) + 1 THEN c ELSE t[i - 1]
  BY <1>1, InsertIs
<1>4. r = w
  <2> HIDE DEF r
  <2>1. \A i \in 1..Len(r) : \/ i \in 1..Len(s) \/ i = Len(s) + 1 \/ i = Len(s) + 2
                                  \/ i = Len(s) + 3
    BY <1>1, <1>3
  <2> QED
    BY <1>1, <1>2, <1>3, <2>1, SameStack
<1>5. Front(u) = t /\ At(Machine(u), -1) = c /\ Len(u) + 1 + (-3) = Len(s) + 1 /\ ~(Len(s) + 1 < 1)
  BY <1>1, FrontIs, TopIs, OnTop
<1>6. duk_insert(Machine(u), -3) = Machine(r)
  BY <1>5, MachineIs DEF duk_insert, Position
<1> QED
  BY <1>4, <1>6 DEF t, w

LEMMA Pop0 ==
  ASSUME NEW s, IsStack(s) PROVE duk_pop_n(Machine(s), 0) = Machine(s)
<1>1. Len(s) \in Nat /\ Len(s) - 0 = Len(s) /\ ~(Len(s) < 0)
  BY LenProperties DEF IsStack
<1>2. SubSeq(s, 1, Len(s)) = s
  BY SubSeqFull DEF IsStack
<1> QED
  BY <1>1, <1>2, MachineIs DEF duk_pop_n

-----------------------------------------------------------------------------
LEMMA Exported ==
  ASSUME NEW exports
  PROVE  duk_util_peval_commonjs_file(Machine(<<>>), exports) = Machine(Append(<<>>, exports))
<1> DEFINE M == Object(<< <<"exports", exports>> >>)
<1>0. Fits(<<>>, 5) /\ Fits(<<>>, 1) /\ Fits(<<>>, 2) /\ IsStack(<<>>) /\ IsStack(Append(<<>>, exports))
  BY Empty, Room, Zenon
<1>1. duk_pop_n(duk_push(Machine(<<>>), Undefined), 1) = Machine(<<>>)
  <2>1. duk_push(Machine(<<>>), Undefined) = Machine(Append(<<>>, Undefined))
    BY <1>0, Push, Zenon
  <2> QED
    BY <2>1, <1>0, Pop1
<1>3. Property(M, "exports") = exports /\ M.type = "object"
  <2> DEFINE s == << <<"exports", exports>> >>
  <2>1. Properties(M) = s /\ M.type = "object"
    BY DEF Properties, Object
  <2>2. DOMAIN s = {1} /\ s[1] = <<"exports", exports>>
    OBVIOUS
  <2> HIDE DEF s, M
  <2>3. {i \in DOMAIN Properties(M) : Properties(M)[i][1] = "exports"} = {1}
    BY <2>1, <2>2
  <2>4. Max({1}) = 1
    BY DEF Max
  <2> QED
    BY <2>1, <2>2, <2>3, <2>4 DEF Property
<1> HIDE DEF M
<1>2. duk_push(Machine(<<>>), M) = Machine(Append(<<>>, M))
  BY <1>0, Push, Zenon
<1>4. duk_get_prop_string(Machine(Append(<<>>, M)), "exports")
        = Machine(Append(Append(<<>>, M), exports))
  BY <1>0, <1>3, Lookup
<1>5. duk_insert(Machine(Append(Append(<<>>, M), exports)), -2)
        = Machine(Append(Append(<<>>, exports), M))
  BY <1>0, Insert2
<1>6. duk_pop_n(Machine(Append(Append(<<>>, exports), M)), 1) = Machine(Append(<<>>, exports))
  BY <1>0, Pop1
<1> QED
  BY <1>1, <1>2, <1>4, <1>5, <1>6 DEF duk_util_peval_commonjs_file, M

(* duk_next on an enumerator on the top: it loses its first property.      *)
LEMMA Enumerated ==
  ASSUME NEW s, Fits(s, 3), NEW left, left # <<>>
  PROVE  LET m == Machine(Append(s, Enumerator(left)))
             rest == Append(s, Enumerator(Tail(left)))
         IN /\ HasNext(m, Height(m))
            /\ duk_next(m, Height(m), FALSE) = Machine(Append(rest, Name(Head(left)[1])))
            /\ duk_next(m, Height(m), TRUE)
                 = Machine(Append(Append(rest, Name(Head(left)[1])), Head(left)[2]))
<1> DEFINE t == Append(s, Enumerator(left))
           m == Machine(t)
           rest == Append(s, Enumerator(Tail(left)))
           name == Name(Head(left)[1])
<1>0. IsStack(s) /\ Fits(rest, 2) /\ Fits(rest, 1) /\ Fits(Append(rest, name), 1)
  BY Room
<1>1. Height(m) = Len(s) + 1 /\ t[Len(s) + 1] = Enumerator(left)
  <2>1. Len(t) = Len(s) + 1 /\ t[Len(s) + 1] = Enumerator(left)
    BY <1>0, OnTop
  <2> HIDE DEF t
  <2> QED
    BY <2>1, MachineIs
<1>2. Enumerator(left).left = left /\ ~m.thrown /\ m.stack = t
  BY MachineIs DEF Enumerator
<1>3. HasNext(m, Height(m))
  BY <1>1, <1>2 DEF HasNext
<1>5. [t EXCEPT ![Len(s) + 1] = Enumerator(Tail(left))] = rest
  BY <1>0, ReplaceTop
<1> HIDE DEF rest, name, t
<1>6. duk_push(Machine(rest), name) = Machine(Append(rest, name))
  BY <1>0, Push
<1>7. duk_push(Machine(Append(rest, name)), Head(left)[2])
        = Machine(Append(Append(rest, name), Head(left)[2]))
  BY <1>0, Push
<1>8. duk_next(m, Height(m), FALSE) = Machine(Append(rest, name))
  BY <1>1, <1>2, <1>5, <1>6 DEF duk_next, name
<1>9. duk_next(m, Height(m), TRUE) = Machine(Append(Append(rest, name), Head(left)[2]))
  BY <1>1, <1>2, <1>5, <1>6, <1>7 DEF duk_next, name
<1> QED
  BY <1>3, <1>8, <1>9 DEF t, rest, name

(* duk_enum of the value on the top.                                       *)
LEMMA EnumPushed ==
  ASSUME NEW s, Fits(s, 2), NEW v, NEW left
  PROVE  /\ IsObject(v) => duk_enum(Machine(Append(s, v)), left)
                             = Machine(Append(Append(s, v), Enumerator(left)))
         /\ ~IsObject(v) => duk_enum(Machine(Append(s, v)), left).thrown
<1> DEFINE t == Append(s, v)
           m == Machine(t)
<1>1. Fits(t, 1) /\ At(m, -1) = v /\ ~m.thrown
  BY Room, TopIs, MachineIs
<1>2. IsObject(v) => duk_enum(m, left) = duk_push(m, Enumerator(left))
  BY <1>1 DEF duk_enum
<1>3. ~IsObject(v) => duk_enum(m, left).thrown
  BY <1>1 DEF duk_enum, Throw
<1> HIDE DEF t
<1>4. duk_push(m, Enumerator(left)) = Machine(Append(t, Enumerator(left)))
  BY <1>1, Push
<1> QED
  BY <1>2, <1>3, <1>4 DEF t

LEMMA Evaluated ==
  ASSUME NEW exports, Properties(exports) # <<>>, NEW app
  PROVE  duk_elm_peval_file(Machine(<<>>), exports, app) = Machine(Append(<<>>, app))
<1> DEFINE e == Append(<<>>, exports)
           left == Properties(exports)
           name == Name(Head(left)[1])
           enum == Enumerator(Tail(left))
           found == Property(exports, name.name)
           worker == Name("worker")
<1>0. Fits(<<>>, 2) /\ IsStack(<<>>) /\ Fits(e, 4) /\ Fits(e, 3) /\ Fits(e, 1) /\ IsStack(e)
  BY Empty, Room
<1>2. IsObject(exports)
  BY DEF Properties, IsObject
<1>3. ~Machine(e).thrown /\ At(Machine(e), -1) = exports
  BY <1>0, MachineIs, TopIs
<1>4. duk_enum(Machine(e), left) = Machine(Append(e, Enumerator(left)))
  BY <1>0, <1>2, EnumPushed
<1>9. At(Machine(Append(e, name)), -2) = exports
  BY <1>0, SecondIs
<1>10. duk_insert(Machine(Append(Append(e, found), app)), -3)
         = Machine(Append(Append(Append(<<>>, app), exports), found))
  <2>1. \A a, b, c : duk_insert(Machine(Append(Append(Append(<<>>, a), b), c)), -3)
                       = Machine(Append(Append(Append(<<>>, c), a), b))
    BY <1>0, Insert3, Zenon
  <2> HIDE DEF found
  <2> QED
    BY <2>1
<1>11. Len(e) = 1
  BY <1>0, NoValues, OnTop
<1>12. duk_util_peval_commonjs_file(Machine(<<>>), exports) = Machine(e)
  BY Exported
<1> HIDE DEF e
<1>5. /\ HasNext(Machine(Append(e, Enumerator(left))), Height(Machine(Append(e, Enumerator(left)))))
      /\ duk_next(Machine(Append(e, Enumerator(left))),
                  Height(Machine(Append(e, Enumerator(left)))), FALSE)
           = Machine(Append(Append(e, enum), name))
  BY <1>0, Enumerated
<1> HIDE DEF left, name, enum, found, worker
<1>6. duk_insert(Machine(Append(Append(e, enum), name)), -2)
        = Machine(Append(Append(e, name), enum))
  BY <1>0, Insert2
<1>7. IsStack(Append(e, name)) /\ Fits(Append(e, found), 3) /\ Fits(Append(e, found), 1)
      /\ IsStack(Append(e, found)) /\ IsStack(Append(<<>>, app))
  BY <1>0, Room
<1>8. duk_util_put_first_prop_name(Machine(e)) = Machine(Append(e, name))
  <2>1. duk_pop_n(Machine(Append(Append(e, name), enum)), 1) = Machine(Append(e, name))
    BY <1>7, Pop1
  <2> QED
    BY <1>3, <1>4, <1>5, <1>6, <2>1 DEF duk_util_put_first_prop_name, left
<1>13. duk_get_prop(Machine(Append(e, name)), -2) = Machine(Append(e, found))
  <2>1. At(Machine(Append(e, name)), -1) = name
    BY <1>0, TopIs
  <2>3. Position(Machine(Append(e, name)), -2) = 1 /\ ~Machine(Append(e, name)).thrown
    <3> DEFINE t == Append(e, name)
    <3>1. Len(t) = Len(e) + 1
      BY <1>0, OnTop
    <3> HIDE DEF t
    <3>2. Position(Machine(t), -2) = 1 /\ ~Machine(t).thrown
      <4>1. Position(Machine(t), -2) = Len(t) + 1 + -2 /\ ~Machine(t).thrown
        BY MachineIs DEF Position
      <4>2. Len(t) + 1 + -2 = 1
        BY <1>11, <3>1
      <4> QED
        BY <4>1, <4>2
    <3> QED
      BY <3>2 DEF t
  <2>4. duk_pop_n(Machine(Append(e, name)), 1) = Machine(e)
    BY <1>0, Pop1
  <2>5. duk_push(Machine(e), found) = Machine(Append(e, found))
    BY <1>0, Push
  <2> QED
    BY <1>9, <2>1, <2>3, <2>4, <2>5 DEF duk_get_prop, found
<1>14. duk_push(Machine(Append(e, found)), worker) = Machine(Append(Append(e, found), worker))
  BY <1>7, Push
<1>15. duk_pcall(Machine(Append(Append(e, found), worker)), 0, app)
         = Machine(Append(Append(e, found), app))
  <2>2. duk_pop_n(Machine(Append(Append(e, found), worker)), 1) = Machine(Append(e, found))
    BY <1>7, Pop1
  <2>3. duk_push(Machine(Append(e, found)), app) = Machine(Append(Append(e, found), app))
    BY <1>7, Push
  <2> QED
    BY <2>2, <2>3 DEF duk_pcall
<1>16. duk_pop_n(Machine(Append(Append(Append(<<>>, app), exports), found)), 2)
         = Machine(Append(<<>>, app))
  BY <1>7, Pop2
<1> QED
  BY <1>8, <1>10, <1>12, <1>13, <1>14, <1>15, <1>16 DEF duk_elm_peval_file, worker

LEMMA NotEvaluated ==
  ASSUME NEW exports, Properties(exports) = <<>>, NEW app
  PROVE  duk_elm_peval_file(Machine(<<>>), exports, app).thrown
<1> DEFINE e == Append(<<>>, exports)
           put == duk_util_put_first_prop_name(Machine(e))
           enum == Enumerator(<<>>)
<1>0. Fits(<<>>, 2) /\ IsStack(<<>>) /\ IsStack(e) /\ IsStack(Append(<<>>, enum))
  BY Empty, Room
<1>1. At(Machine(e), -1) = exports /\ ~Machine(e).thrown
  BY <1>0, TopIs, MachineIs
<1>2. duk_get_prop(put, -2).thrown
  <2>1. CASE ~IsObject(exports)
    <3>1. duk_enum(Machine(e), <<>>).thrown
      BY <1>0, <2>1, EnumPushed
    <3>2. put.thrown
      BY <1>1, <3>1, Thrown DEF duk_util_put_first_prop_name
    <3> QED
      BY <3>2, Thrown
  <2>2. CASE IsObject(exports)
    <3>1. duk_enum(Machine(e), <<>>) = Machine(Append(e, enum))
      BY <1>0, <2>2, EnumPushed
    <3>2. ~HasNext(Machine(Append(e, enum)), Height(Machine(Append(e, enum))))
      <4> HIDE DEF e
      <4> DEFINE t == Append(e, enum)
      <4>1. t[Len(t)] = enum
        BY <1>0, OnTop
      <4>2. enum.left = <<>>
        BY DEF Enumerator
      <4> HIDE DEF t, enum
      <4>3. ~HasNext(Machine(t), Height(Machine(t)))
        BY <4>1, <4>2, MachineIs DEF HasNext
      <4> QED
        BY <4>3 DEF t
    <3>3. put = Machine(Append(<<>>, enum))
      <4>1. duk_insert(Machine(Append(e, enum)), -2) = Machine(Append(Append(<<>>, enum), exports))
        BY <1>0, Insert2
      <4>2. duk_pop_n(Machine(Append(Append(<<>>, enum), exports)), 1) = Machine(Append(<<>>, enum))
        BY <1>0, Pop1
      <4> HIDE DEF e, enum
      <4> QED
        BY <1>1, <3>1, <3>2, <4>1, <4>2 DEF duk_util_put_first_prop_name
    <3>4. Position(put, -2) < 1
      <4>1. Len(Append(<<>>, enum)) + 1 + -2 < 1
        BY <1>0, NoValues, OnTop
      <4> HIDE DEF put
      <4> QED
        BY <3>3, <4>1, MachineIs DEF Position
    <3> HIDE DEF put
    <3> QED
      BY <3>4 DEF duk_get_prop, Throw
  <2> QED
    BY <2>1, <2>2
<1>3. duk_util_put_first_prop_name(duk_util_peval_commonjs_file(Machine(<<>>), exports)) = put
  BY Exported
<1> HIDE DEF put
<1> QED
  BY <1>2, <1>3, Thrown DEF duk_elm_peval_file, duk_pcall

-----------------------------------------------------------------------------
Previous(n) == IF n = 0 THEN {} ELSE {n - 1}

(* All that is in a term, or in a value.                                   *)
Subterms(t) == Within(TermParts, t)
Subvalues(v) == Within(ValueParts, v)

(* duk_erlang_push_term pushes the values of pairs, the parts of parts.    *)
NearParts(t) == TermParts(t) \cup UNION {TermParts(u) : u \in TermParts(t)}

(* One step of each recursion.                                             *)
SupportDef(p, f, t) == IsSupported(f, t)
IolistDef(p, f, t)  == IsIolist(f, t)
TextDef(p, f, t)    == TextOf(f, t)
PushDef(p, f, t)    == PushOf(f, t)
EchoDef(p, f, t)    == EchoOf(f, t)
GetDef(p, f, v)     == TermOf(f, v)
TextsDef(p, f, v)   == TextOrTexts(f, v)
StableDef(p, f, v)  == StableOf(f, v)

Supporting == INSTANCE RecursionTheorems WITH Parts <- TermParts, Def <- SupportDef
Iolists    == INSTANCE RecursionTheorems WITH Parts <- TermParts, Def <- IolistDef
Texts      == INSTANCE RecursionTheorems WITH Parts <- TermParts, Def <- TextDef
Pushing    == INSTANCE RecursionTheorems WITH Parts <- NearParts, Def <- PushDef
Echoing    == INSTANCE RecursionTheorems WITH Parts <- TermParts, Def <- EchoDef
Getting    == INSTANCE RecursionTheorems WITH Parts <- ValueParts, Def <- GetDef
ArraysOf   == INSTANCE RecursionTheorems WITH Parts <- ValueParts, Def <- TextsDef
Stabilities == INSTANCE RecursionTheorems WITH Parts <- ValueParts, Def <- StableDef

LEMMA SubtermsAre ==
  ASSUME NEW t
  PROVE  /\ Subterms(t) = Supporting!All(MaxNesting, t)
         /\ Nested(TermParts, t) <=> Supporting!Nests(MaxNesting, t)
<1>1. Layers(TermParts, t) = Supporting!LayersOf(MaxNesting, t)
  BY Zenon DEF Layers, Supporting!LayersOf
<1>2. Subterms(t) = UNION {Layers(TermParts, t)[n] : n \in 0..MaxNesting}
  BY Zenon DEF Subterms, Within
<1>3. Nested(TermParts, t) <=> \A y \in Layers(TermParts, t)[MaxNesting] : TermParts(y) = {}
  BY Zenon DEF Nested
<1> QED
  BY <1>1, <1>2, <1>3, Zenon DEF Supporting!All, Supporting!Nests

LEMMA SubvaluesAre ==
  ASSUME NEW v
  PROVE  /\ Subvalues(v) = Getting!All(MaxNesting, v)
         /\ Nested(ValueParts, v) <=> Getting!Nests(MaxNesting, v)
<1>1. Layers(ValueParts, v) = Getting!LayersOf(MaxNesting, v)
  BY Zenon DEF Layers, Getting!LayersOf
<1>2. Subvalues(v) = UNION {Layers(ValueParts, v)[n] : n \in 0..MaxNesting}
  BY Zenon DEF Subvalues, Within
<1>3. Nested(ValueParts, v) <=> \A y \in Layers(ValueParts, v)[MaxNesting] : ValueParts(y) = {}
  BY Zenon DEF Nested
<1> QED
  BY <1>1, <1>2, <1>3, Zenon DEF Getting!All, Getting!Nests

LEMMA NestedTerm ==
  ASSUME NEW t, Nested(TermParts, t)
  PROVE  /\ t \in Subterms(t)
         /\ \E rank : /\ Supporting!Ranked(Subterms(t), rank)
                      /\ \A u \in Subterms(t) : rank[u] <= MaxNesting
         /\ \A u \in Subterms(t) :
              /\ Nested(TermParts, u) /\ u \in Subterms(u)
              /\ Subterms(u) \subseteq Subterms(t)
              /\ TermParts(u) \subseteq Subterms(t)
<1> DEFINE W == Supporting!All(MaxNesting, t)
<1>1. /\ t \in W
      /\ \E rank : Supporting!Ranked(W, rank) /\ \A u \in W : rank[u] <= MaxNesting
      /\ \A u \in W : /\ Supporting!Nests(MaxNesting, u) /\ u \in Supporting!All(MaxNesting, u)
                     /\ Supporting!All(MaxNesting, u) \subseteq W
                     /\ TermParts(u) \subseteq W
  <2>1. Supporting!Nests(MaxNesting, t)
    BY SubtermsAre
  <2> QED
    BY <2>1, NestingAssumption, Supporting!NestedParts
<1>2. \A u : /\ Subterms(u) = Supporting!All(MaxNesting, u)
             /\ Nested(TermParts, u) <=> Supporting!Nests(MaxNesting, u)
  BY SubtermsAre
<1>3. Subterms(t) = W
  BY <1>2
<1> HIDE DEF W
<1> QED
  BY <1>1, <1>2, <1>3, Zenon

LEMMA NestedValue ==
  ASSUME NEW v, Nested(ValueParts, v)
  PROVE  /\ v \in Subvalues(v)
         /\ \E rank : /\ Getting!Ranked(Subvalues(v), rank)
                      /\ \A w \in Subvalues(v) : rank[w] <= MaxNesting
         /\ \A w \in Subvalues(v) :
              /\ Nested(ValueParts, w) /\ w \in Subvalues(w)
              /\ Subvalues(w) \subseteq Subvalues(v)
              /\ ValueParts(w) \subseteq Subvalues(v)
<1> DEFINE W == Getting!All(MaxNesting, v)
<1>1. /\ v \in W
      /\ \E rank : Getting!Ranked(W, rank) /\ \A w \in W : rank[w] <= MaxNesting
      /\ \A w \in W : /\ Getting!Nests(MaxNesting, w) /\ w \in Getting!All(MaxNesting, w)
                     /\ Getting!All(MaxNesting, w) \subseteq W
                     /\ ValueParts(w) \subseteq W
  <2>1. Getting!Nests(MaxNesting, v)
    BY SubvaluesAre
  <2> QED
    BY <2>1, NestingAssumption, Getting!NestedParts
<1>2. \A w : /\ Subvalues(w) = Getting!All(MaxNesting, w)
             /\ Nested(ValueParts, w) <=> Getting!Nests(MaxNesting, w)
  BY SubvaluesAre
<1>3. Subvalues(v) = W
  BY <1>2
<1> HIDE DEF W
<1> QED
  BY <1>1, <1>2, <1>3, Zenon

LEMMA IolistsAre ==
  ASSUME NEW t
  PROVE  /\ Subterms(t) = Iolists!All(MaxNesting, t)
         /\ Nested(TermParts, t) <=> Iolists!Nests(MaxNesting, t)
BY SubtermsAre, Zenon
   DEF Supporting!All, Supporting!Nests, Supporting!LayersOf, Iolists!All, Iolists!Nests,
       Iolists!LayersOf

LEMMA TextsAre ==
  ASSUME NEW t
  PROVE  /\ Subterms(t) = Texts!All(MaxNesting, t)
         /\ Nested(TermParts, t) <=> Texts!Nests(MaxNesting, t)
BY SubtermsAre, Zenon
   DEF Supporting!All, Supporting!Nests, Supporting!LayersOf, Texts!All, Texts!Nests, Texts!LayersOf

LEMMA EchoingAre ==
  ASSUME NEW t
  PROVE  /\ Subterms(t) = Echoing!All(MaxNesting, t)
         /\ Nested(TermParts, t) <=> Echoing!Nests(MaxNesting, t)
BY SubtermsAre, Zenon
   DEF Supporting!All, Supporting!Nests, Supporting!LayersOf, Echoing!All, Echoing!Nests,
       Echoing!LayersOf

LEMMA ArraysOfAre ==
  ASSUME NEW v
  PROVE  /\ Subvalues(v) = ArraysOf!All(MaxNesting, v)
         /\ Nested(ValueParts, v) <=> ArraysOf!Nests(MaxNesting, v)
BY SubvaluesAre, Zenon
   DEF Getting!All, Getting!Nests, Getting!LayersOf, ArraysOf!All, ArraysOf!Nests, ArraysOf!LayersOf

LEMMA StabilitiesAre ==
  ASSUME NEW v
  PROVE  /\ Subvalues(v) = Stabilities!All(MaxNesting, v)
         /\ Nested(ValueParts, v) <=> Stabilities!Nests(MaxNesting, v)
BY SubvaluesAre, Zenon
   DEF Getting!All, Getting!Nests, Getting!LayersOf, Stabilities!All, Stabilities!Nests,
       Stabilities!LayersOf

LEMMA ElementsAreParts ==
  /\ \A t : t.term \in {"tuple", "list"}
          => \A i \in DOMAIN t.elements : t.elements[i] \in TermParts(t)
  /\ \A v : v.type = "array" => \A i \in DOMAIN v.elements : v.elements[i] \in ValueParts(v)
  /\ \A v : v.type = "object" => \A i \in DOMAIN v.properties : v.properties[i][2] \in ValueParts(v)
BY DEF TermParts, ValueParts, Range

LEMMA SupportedUnfolds ==
  ASSUME NEW t, Nested(TermParts, t)
  PROVE  \A u \in Subterms(t) : Supported(u) = IsSupported([z \in Subterms(t) |-> Supported(z)], u)
<1>1. Supporting!Local(0, Subterms(t))
  <2>1. ASSUME NEW f, NEW g, NEW y, \A z \in TermParts(y) : f[z] = g[z]
        PROVE  IsSupported(f, y) = IsSupported(g, y)
    BY <2>1 DEF IsSupported
  <2> QED
    BY <2>1 DEF Supporting!Local, SupportDef
<1>2. \A u : Supported(u) = Supporting!Value(0, Subterms(u), u)
  BY Zenon DEF Supported, Recursively, Subterms, Supporting!Value, SupportDef
<1>3. \A u \in Supporting!All(MaxNesting, t) :
        Supporting!Value(0, Supporting!All(MaxNesting, u), u)
          = SupportDef(0, [z \in Supporting!All(MaxNesting, t) |->
                             Supporting!Value(0, Supporting!All(MaxNesting, z), z)], u)
  BY <1>1, NestingAssumption, SubtermsAre, Supporting!NestedUnfolds, Zenon
<1> QED
  BY <1>2, <1>3, SubtermsAre, Zenon DEF SupportDef

LEMMA IolistUnfolds ==
  ASSUME NEW t, Nested(TermParts, t)
  PROVE  \A u \in Subterms(t) :
            erl_is_iolist(u) = IsIolist([z \in Subterms(t) |-> erl_is_iolist(z)], u)
<1>1. Iolists!Local(0, Subterms(t))
  <2>1. ASSUME NEW f, NEW g, NEW y, \A z \in TermParts(y) : f[z] = g[z]
        PROVE  IsIolist(f, y) = IsIolist(g, y)
    BY <2>1, ElementsAreParts DEF IsIolist
  <2> QED
    BY <2>1 DEF Iolists!Local, IolistDef
<1>2. \A u : erl_is_iolist(u) = Iolists!Value(0, Subterms(u), u)
  BY Zenon DEF erl_is_iolist, Recursively, Subterms, Iolists!Value, IolistDef
<1>3. \A u \in Iolists!All(MaxNesting, t) :
        Iolists!Value(0, Iolists!All(MaxNesting, u), u)
          = IolistDef(0, [z \in Iolists!All(MaxNesting, t) |->
                             Iolists!Value(0, Iolists!All(MaxNesting, z), z)], u)
  BY <1>1, NestingAssumption, IolistsAre, Iolists!NestedUnfolds, Zenon
<1> QED
  BY <1>2, <1>3, IolistsAre, Zenon DEF IolistDef

LEMMA TextUnfolds ==
  ASSUME NEW t, Nested(TermParts, t)
  PROVE  \A u \in Subterms(t) :
            IolistBytes(u) = TextOf([z \in Subterms(t) |-> IolistBytes(z)], u)
<1>1. Texts!Local(0, Subterms(t))
  <2>1. ASSUME NEW f, NEW g, NEW y, \A z \in TermParts(y) : f[z] = g[z]
        PROVE  TextOf(f, y) = TextOf(g, y)
    <3>1. y.term = "list" => [i \in DOMAIN y.elements |-> f[y.elements[i]]]
            = [i \in DOMAIN y.elements |-> g[y.elements[i]]]
      BY <2>1, ElementsAreParts
    <3> QED
      BY <3>1 DEF TextOf
  <2> QED
    BY <2>1 DEF Texts!Local, TextDef
<1>2. \A u : IolistBytes(u) = Texts!Value(0, Subterms(u), u)
  BY Zenon DEF IolistBytes, Recursively, Subterms, Texts!Value, TextDef
<1>3. \A u \in Texts!All(MaxNesting, t) :
        Texts!Value(0, Texts!All(MaxNesting, u), u)
          = TextDef(0, [z \in Texts!All(MaxNesting, t) |->
                             Texts!Value(0, Texts!All(MaxNesting, z), z)], u)
  BY <1>1, NestingAssumption, TextsAre, Texts!NestedUnfolds, Zenon
<1> QED
  BY <1>2, <1>3, TextsAre, Zenon DEF TextDef

LEMMA EchoUnfolds ==
  ASSUME NEW t, Nested(TermParts, t)
  PROVE  \A u \in Subterms(t) : Echoed(u) = EchoOf([z \in Subterms(t) |-> Echoed(z)], u)
<1>1. Echoing!Local(0, Subterms(t))
  <2>1. ASSUME NEW f, NEW g, NEW y, \A z \in TermParts(y) : f[z] = g[z]
        PROVE  EchoOf(f, y) = EchoOf(g, y)
    <3>1. y.term \in {"tuple", "list"}
            => [i \in DOMAIN y.elements |-> f[y.elements[i]]] = [i \in DOMAIN y.elements |-> g[y.elements[i]]]
      BY <2>1, ElementsAreParts
    <3> QED
      BY <3>1 DEF EchoOf
  <2> QED
    BY <2>1 DEF Echoing!Local, EchoDef
<1>2. \A u : Echoed(u) = Echoing!Value(0, Subterms(u), u)
  BY Zenon DEF Echoed, Recursively, Subterms, Echoing!Value, EchoDef
<1>3. \A u \in Echoing!All(MaxNesting, t) :
        Echoing!Value(0, Echoing!All(MaxNesting, u), u)
          = EchoDef(0, [z \in Echoing!All(MaxNesting, t) |->
                             Echoing!Value(0, Echoing!All(MaxNesting, z), z)], u)
  BY <1>1, NestingAssumption, EchoingAre, Echoing!NestedUnfolds, Zenon
<1> QED
  BY <1>2, <1>3, EchoingAre, Zenon DEF EchoDef

LEMMA GetUnfolds ==
  ASSUME NEW v, Nested(ValueParts, v)
  PROVE  \A w \in Subvalues(v) :
            duk_erlang_get_term(w) = TermOf([z \in Subvalues(v) |-> duk_erlang_get_term(z)], w)
<1>1. Getting!Local(0, Subvalues(v))
  <2>1. ASSUME NEW f, NEW g, NEW y, \A z \in ValueParts(y) : f[z] = g[z]
        PROVE  TermOf(f, y) = TermOf(g, y)
    <3>1. y.type = "array" => [i \in DOMAIN y.elements |-> f[y.elements[i]]]
            = [i \in DOMAIN y.elements |-> g[y.elements[i]]]
      BY <2>1, ElementsAreParts
    <3>2. y.type = "object" =>
            [i \in DOMAIN y.properties |-> Tuple(<<ErlangString(y.properties[i][1]), f[y.properties[i][2]]>>)]
              = [i \in DOMAIN y.properties |-> Tuple(<<ErlangString(y.properties[i][1]), g[y.properties[i][2]]>>)]
      BY <2>1, ElementsAreParts
    <3> QED
      BY <3>1, <3>2 DEF TermOf
  <2> QED
    BY <2>1 DEF Getting!Local, GetDef
<1>2. \A w : duk_erlang_get_term(w) = Getting!Value(0, Subvalues(w), w)
  BY Zenon DEF duk_erlang_get_term, Recursively, Subvalues, Getting!Value, GetDef
<1>3. \A w \in Getting!All(MaxNesting, v) :
        Getting!Value(0, Getting!All(MaxNesting, w), w)
          = GetDef(0, [z \in Getting!All(MaxNesting, v) |->
                             Getting!Value(0, Getting!All(MaxNesting, z), z)], w)
  BY <1>1, NestingAssumption, SubvaluesAre, Getting!NestedUnfolds, Zenon
<1> QED
  BY <1>2, <1>3, SubvaluesAre, Zenon DEF GetDef

LEMMA IsTextUnfolds ==
  ASSUME NEW v, Nested(ValueParts, v)
  PROVE  \A w \in Subvalues(v) : IsText(w) = TextOrTexts([z \in Subvalues(v) |-> IsText(z)], w)
<1>1. ArraysOf!Local(0, Subvalues(v))
  <2>1. ASSUME NEW f, NEW g, NEW y, \A z \in ValueParts(y) : f[z] = g[z]
        PROVE  TextOrTexts(f, y) = TextOrTexts(g, y)
    BY <2>1, ElementsAreParts DEF TextOrTexts
  <2> QED
    BY <2>1 DEF ArraysOf!Local, TextsDef
<1>2. \A w : IsText(w) = ArraysOf!Value(0, Subvalues(w), w)
  BY Zenon DEF IsText, Recursively, Subvalues, ArraysOf!Value, TextsDef
<1>3. \A w \in ArraysOf!All(MaxNesting, v) :
        ArraysOf!Value(0, ArraysOf!All(MaxNesting, w), w)
          = TextsDef(0, [z \in ArraysOf!All(MaxNesting, v) |->
                             ArraysOf!Value(0, ArraysOf!All(MaxNesting, z), z)], w)
  BY <1>1, NestingAssumption, ArraysOfAre, ArraysOf!NestedUnfolds, Zenon
<1> QED
  BY <1>2, <1>3, ArraysOfAre, Zenon DEF TextsDef

LEMMA StableUnfolds ==
  ASSUME NEW v, Nested(ValueParts, v)
  PROVE  \A w \in Subvalues(v) : Stable(w) = StableOf([z \in Subvalues(v) |-> Stable(z)], w)
<1>1. Stabilities!Local(0, Subvalues(v))
  <2>1. ASSUME NEW f, NEW g, NEW y, \A z \in ValueParts(y) : f[z] = g[z]
        PROVE  StableOf(f, y) = StableOf(g, y)
    BY <2>1, ElementsAreParts DEF StableOf
  <2> QED
    BY <2>1 DEF Stabilities!Local, StableDef
<1>2. \A w : Stable(w) = Stabilities!Value(0, Subvalues(w), w)
  BY Zenon DEF Stable, Recursively, Subvalues, Stabilities!Value, StableDef
<1>3. \A w \in Stabilities!All(MaxNesting, v) :
        Stabilities!Value(0, Stabilities!All(MaxNesting, w), w)
          = StableDef(0, [z \in Stabilities!All(MaxNesting, v) |->
                             Stabilities!Value(0, Stabilities!All(MaxNesting, z), z)], w)
  BY <1>1, NestingAssumption, StabilitiesAre, Stabilities!NestedUnfolds, Zenon
<1> QED
  BY <1>2, <1>3, StabilitiesAre, Zenon DEF StableDef

LEMMA PushLocal ==
  ASSUME NEW f, NEW g, NEW t, \A y \in NearParts(t) : f[y] = g[y]
  PROVE  PushOf(f, t) = PushOf(g, t)
<1>1. ASSUME t.term \in {"tuple", "list"} PROVE PushElements(f, t) = PushElements(g, t)
  <2>1. \A i \in DOMAIN t.elements : t.elements[i] \in TermParts(t)
    BY <1>1 DEF TermParts, Range
  <2>2. [i \in DOMAIN t.elements |-> f[t.elements[i]]]
          = [i \in DOMAIN t.elements |-> g[t.elements[i]]]
    BY <2>1 DEF NearParts
  <2> QED
    BY <2>2 DEF PushElements
<1>2. ASSUME t.term = "list", duk_erlang_is_object_alike(t) PROVE PushPairs(f, t) = PushPairs(g, t)
  <2>1. ASSUME NEW i \in DOMAIN t.elements
        PROVE  t.elements[i].elements[2] \in NearParts(t)
    <3>1. t.elements[i] \in TermParts(t)
      BY <1>2 DEF TermParts, Range
    <3>2. t.elements[i].term = "tuple" /\ 2 \in DOMAIN t.elements[i].elements
      BY <1>2 DEF duk_erlang_is_object_alike
    <3>3. t.elements[i].elements[2] \in TermParts(t.elements[i])
      BY <3>2 DEF TermParts, Range
    <3> QED
      BY <3>1, <3>3 DEF NearParts
  <2>2. [i \in DOMAIN t.elements |-> f[t.elements[i].elements[2]]]
          = [i \in DOMAIN t.elements |-> g[t.elements[i].elements[2]]]
    BY <2>1
  <2> QED
    BY <2>2 DEF PushPairs
<1> QED
  BY <1>1, <1>2 DEF PushOf

LEMMA NearRanked ==
  ASSUME NEW t, Nested(TermParts, t)
  PROVE  \E rank : /\ Supporting!Ranked(Subterms(t), rank)
                   /\ Pushing!Ranked(Subterms(t), rank)
                   /\ \A u \in Subterms(t) : rank[u] <= MaxNesting
<1>1. PICK rank : /\ Supporting!Ranked(Subterms(t), rank)
                  /\ \A u \in Subterms(t) : rank[u] <= MaxNesting
  BY NestedTerm
<1>2. Pushing!Ranked(Subterms(t), rank)
  BY <1>1 DEF Supporting!Ranked, Pushing!Ranked, NearParts
<1> QED
  BY <1>1, <1>2

LEMMA PushUnfolds ==
  ASSUME NEW t, Nested(TermParts, t)
  PROVE  \A u \in Subterms(t) :
           duk_erlang_push_term(u) = PushOf([z \in Subterms(t) |-> duk_erlang_push_term(z)], u)
<1> DEFINE W == Subterms(t)
           Own == [u \in W |-> Subterms(u)]
<1>1. Pushing!Local(0, W)
  BY PushLocal DEF Pushing!Local, PushDef
<1>2. \A u : duk_erlang_push_term(u) = Pushing!Value(0, Subterms(u), u)
  BY Zenon DEF duk_erlang_push_term, Recursively, Subterms, Pushing!Value, PushDef
<1>3. \A u \in W : /\ u \in Subterms(u) /\ Subterms(u) \subseteq W
                   /\ \A w \in Subterms(u) : TermParts(w) \subseteq Subterms(u)
  BY NestedTerm
<1> HIDE DEF W
<1>4. \A u \in W : /\ u \in Own[u] /\ Own[u] \subseteq W
                   /\ \A w \in Own[u] : NearParts(w) \subseteq Own[u]
  BY <1>3 DEF NearParts
<1>5. PICK rank : Pushing!Ranked(W, rank)
  BY NearRanked DEF W
<1> HIDE DEF Own
<1>6. \A u \in W : Pushing!Value(0, Own[u], u)
                   = PushDef(0, [z \in W |-> Pushing!Value(0, Own[z], z)], u)
  BY <1>1, <1>4, <1>5, Pushing!RecursionUnfolds
<1>7. \A u \in W : Pushing!Value(0, Own[u], u) = duk_erlang_push_term(u)
  BY <1>2 DEF Own
<1>8. [z \in W |-> Pushing!Value(0, Own[z], z)] = [z \in W |-> duk_erlang_push_term(z)]
  BY <1>7
<1> QED
  BY <1>6, <1>7, <1>8 DEF PushDef, W

LEMMA UptoInduction ==
  ASSUME NEW N \in Nat, NEW S, 0 \in S, \A n \in 0..N - 1 : n \in S => n + 1 \in S
  PROVE  \A n \in 0..N : n \in S
<1> DEFINE T == {n \in Nat : n <= N => n \in S}
<1>1. 0 \in T /\ T \in SUBSET Nat
  OBVIOUS
<1>2. \A n \in T : n + 1 \in T
  OBVIOUS
<1>3. T = Nat
  <2> HIDE DEF T
  <2> QED
    BY <1>1, <1>2, Supporting!Induction
<1> QED
  BY <1>3

-----------------------------------------------------------------------------
(* What the recursive functions are, from what they are for the parts.     *)
LEMMA SupportedIs ==
  ASSUME NEW t, Nested(TermParts, t)
  PROVE  Supported(t) <=> t.term # "pid" /\ \A u \in TermParts(t) : Supported(u)
<1>1. t \in Subterms(t) /\ TermParts(t) \subseteq Subterms(t)
  BY NestedTerm
<1>2. Supported(t) = IsSupported([z \in Subterms(t) |-> Supported(z)], t)
  BY <1>1, SupportedUnfolds
<1> QED
  BY <1>1, <1>2 DEF IsSupported

LEMMA IolistIs ==
  ASSUME NEW t, Nested(TermParts, t)
  PROVE  erl_is_iolist(t) <=>
           /\ t.term = "list"
           /\ \A i \in DOMAIN t.elements :
                \/ t.elements[i].term = "integer" /\ t.elements[i].int \in Octets
                \/ t.elements[i].term = "binary"
                \/ erl_is_iolist(t.elements[i])
<1>1. t \in Subterms(t) /\ TermParts(t) \subseteq Subterms(t)
  BY NestedTerm
<1>2. erl_is_iolist(t) = IsIolist([z \in Subterms(t) |-> erl_is_iolist(z)], t)
  BY <1>1, IolistUnfolds
<1>3. t.term = "list" => \A i \in DOMAIN t.elements : t.elements[i] \in Subterms(t)
  BY <1>1, ElementsAreParts
<1> QED
  BY <1>2, <1>3 DEF IsIolist

LEMMA TextIs ==
  ASSUME NEW t, Nested(TermParts, t)
  PROVE  /\ t.term = "integer" => IolistBytes(t) = <<t.int>>
         /\ t.term = "binary"  => IolistBytes(t) = t.text
         /\ t.term = "list"    =>
              IolistBytes(t)
                = FlattenSeq([i \in DOMAIN t.elements |-> IolistBytes(t.elements[i])])
<1> DEFINE text == [z \in Subterms(t) |-> IolistBytes(z)]
<1>1. t \in Subterms(t) /\ TermParts(t) \subseteq Subterms(t)
  BY NestedTerm
<1>2. IolistBytes(t) = TextOf(text, t)
  BY <1>1, TextUnfolds
<1>3. t.term = "list" =>
        [i \in DOMAIN t.elements |-> text[t.elements[i]]]
          = [i \in DOMAIN t.elements |-> IolistBytes(t.elements[i])]
  BY <1>1, ElementsAreParts
<1> HIDE DEF text
<1> QED
  BY <1>2, <1>3 DEF TextOf

LEMMA PushIs ==
  ASSUME NEW t, Nested(TermParts, t)
  PROVE  LET push(u) == duk_erlang_push_term(u)
             elements == Array([i \in DOMAIN t.elements |-> push(t.elements[i])])
         IN /\ t.term = "integer"  => push(t) = Number(t.int)
            /\ t.term = "unsigned" => push(t) = Number(t.int - Word)
            /\ t.term = "float"    => push(t) = Number(t.float)
            /\ t.term \in {"atom", "binary"} => push(t) = String(t.text)
            /\ t.term = "tuple" => push(t) = elements
            /\ t.term = "list" =>
                 IF erl_is_iolist(t) THEN push(t) = PushIolist(t)
                 ELSE IF duk_erlang_is_object_alike(t)
                 THEN push(t) = NamedArray(NamedBy(t.elements,
                                  [i \in DOMAIN t.elements |-> push(t.elements[i].elements[2])]))
                 ELSE push(t) = elements
<1> DEFINE push == [z \in Subterms(t) |-> duk_erlang_push_term(z)]
<1>1. /\ t \in Subterms(t) /\ TermParts(t) \subseteq Subterms(t)
      /\ \A u \in Subterms(t) : TermParts(u) \subseteq Subterms(t)
  BY NestedTerm
<1>2. duk_erlang_push_term(t) = PushOf(push, t)
  BY <1>1, PushUnfolds
<1>3. t.term \in {"tuple", "list"} =>
        PushElements(push, t)
          = Array([i \in DOMAIN t.elements |-> duk_erlang_push_term(t.elements[i])])
  <2>1. t.term \in {"tuple", "list"} =>
          [i \in DOMAIN t.elements |-> push[t.elements[i]]]
            = [i \in DOMAIN t.elements |-> duk_erlang_push_term(t.elements[i])]
    BY <1>1, ElementsAreParts
  <2> QED
    BY <2>1 DEF PushElements
<1>4. t.term = "list" /\ duk_erlang_is_object_alike(t) =>
        PushPairs(push, t)
          = NamedArray(NamedBy(t.elements,
              [i \in DOMAIN t.elements |-> duk_erlang_push_term(t.elements[i].elements[2])]))
  <2> SUFFICES ASSUME t.term = "list", duk_erlang_is_object_alike(t)
               PROVE  [i \in DOMAIN t.elements |-> push[t.elements[i].elements[2]]]
                        = [i \in DOMAIN t.elements |-> duk_erlang_push_term(t.elements[i].elements[2])]
    BY DEF PushPairs
  <2>1. ASSUME NEW i \in DOMAIN t.elements PROVE t.elements[i].elements[2] \in Subterms(t)
    <3>1. /\ t.elements[i] \in Subterms(t) /\ t.elements[i].term = "tuple"
          /\ 2 \in DOMAIN t.elements[i].elements
      BY <1>1, ElementsAreParts DEF duk_erlang_is_object_alike
    <3> QED
      BY <1>1, <3>1, ElementsAreParts
  <2> QED
    BY <2>1
<1> HIDE DEF push
<1> QED
  BY <1>2, <1>3, <1>4 DEF PushOf

LEMMA GetIs ==
  ASSUME NEW v, Nested(ValueParts, v)
  PROVE  LET get(w) == duk_erlang_get_term(w)
         IN /\ v.type = "undefined" => get(v) = Atom(Spelled["undefined"])
            /\ v.type = "null"      => get(v) = Atom(Spelled["null"])
            /\ v.type = "boolean"   => get(v) = Atom(Spelled[IF v.boolean THEN "true" ELSE "false"])
            /\ v.type = "number"    => get(v) = Float(v.number)
            /\ v.type = "string"    => get(v) = ErlangString(v.text)
            /\ v.type = "array"     =>
                 get(v) = List([i \in DOMAIN v.elements |-> get(v.elements[i])])
            /\ v.type = "object"    =>
                 get(v) = List(Reverse([i \in DOMAIN v.properties |->
                            Tuple(<<ErlangString(v.properties[i][1]), get(v.properties[i][2])>>)]))
<1> DEFINE term == [z \in Subvalues(v) |-> duk_erlang_get_term(z)]
<1>1. v \in Subvalues(v) /\ ValueParts(v) \subseteq Subvalues(v)
  BY NestedValue
<1>2. duk_erlang_get_term(v) = TermOf(term, v)
  BY <1>1, GetUnfolds
<1>3. v.type = "array" =>
        [i \in DOMAIN v.elements |-> term[v.elements[i]]]
          = [i \in DOMAIN v.elements |-> duk_erlang_get_term(v.elements[i])]
  BY <1>1, ElementsAreParts
<1>4. v.type = "object" =>
        [i \in DOMAIN v.properties |->
           Tuple(<<ErlangString(v.properties[i][1]), term[v.properties[i][2]]>>)]
          = [i \in DOMAIN v.properties |->
               Tuple(<<ErlangString(v.properties[i][1]), duk_erlang_get_term(v.properties[i][2])>>)]
  BY <1>1, ElementsAreParts
<1> HIDE DEF term
<1> QED
  BY <1>2, <1>3, <1>4 DEF TermOf

LEMMA EchoIs ==
  ASSUME NEW t, Nested(TermParts, t)
  PROVE  /\ t.term = "integer"  => Echoed(t) = Float(t.int)
         /\ t.term = "unsigned" => Echoed(t) = Float(t.int - Word)
         /\ t.term = "float"    => Echoed(t) = t
         /\ t.term \in {"atom", "binary"} => Echoed(t) = ErlangString(t.text)
         /\ t.term \in {"tuple", "list"} =>
              IF erl_is_iolist(t) THEN Echoed(t) = EchoIolist(t)
              ELSE IF duk_erlang_is_object_alike(t) THEN Echoed(t) = List(<<>>)
              ELSE Echoed(t) = List([i \in DOMAIN t.elements |-> Echoed(t.elements[i])])
<1> DEFINE echoed == [z \in Subterms(t) |-> Echoed(z)]
<1>1. t \in Subterms(t) /\ TermParts(t) \subseteq Subterms(t)
  BY NestedTerm
<1>2. Echoed(t) = EchoOf(echoed, t)
  BY <1>1, EchoUnfolds
<1>3. t.term \in {"tuple", "list"} =>
        [i \in DOMAIN t.elements |-> echoed[t.elements[i]]]
          = [i \in DOMAIN t.elements |-> Echoed(t.elements[i])]
  BY <1>1, ElementsAreParts
<1> HIDE DEF echoed
<1> QED
  BY <1>2, <1>3 DEF EchoOf

LEMMA IsTextIs ==
  ASSUME NEW v, Nested(ValueParts, v)
  PROVE  IsText(v) <=>
           \/ v.type = "string"
           \/ /\ v.type = "array" /\ v.named = <<>>
              /\ \A i \in DOMAIN v.elements : IsText(v.elements[i])
<1>1. v \in Subvalues(v) /\ ValueParts(v) \subseteq Subvalues(v)
  BY NestedValue
<1>2. IsText(v) = TextOrTexts([z \in Subvalues(v) |-> IsText(z)], v)
  BY <1>1, IsTextUnfolds
<1>3. v.type = "array" => \A i \in DOMAIN v.elements : v.elements[i] \in Subvalues(v)
  BY <1>1, ElementsAreParts
<1> QED
  BY <1>2, <1>3 DEF TextOrTexts

LEMMA StableIs ==
  ASSUME NEW v, Nested(ValueParts, v)
  PROVE  /\ Stable(v) \in BOOLEAN
         /\ Stable(v) <=>
              \/ v.type \in {"number", "string"}
              \/ /\ v.type = "array" /\ v.named = <<>> /\ ~IsText(v)
                 /\ \A i \in DOMAIN v.elements : Stable(v.elements[i])
<1>1. v \in Subvalues(v) /\ ValueParts(v) \subseteq Subvalues(v)
  BY NestedValue
<1>2. Stable(v) = StableOf([z \in Subvalues(v) |-> Stable(z)], v)
  BY <1>1, StableUnfolds
<1>3. v.type = "array" => \A i \in DOMAIN v.elements : v.elements[i] \in Subvalues(v)
  BY <1>1, ElementsAreParts
<1> QED
  BY <1>2, <1>3 DEF StableOf

-----------------------------------------------------------------------------
Before(n) == IF n = 1 THEN {} ELSE {n - 1}
FlattenDef(p, f, n) == IF n = 1 THEN p[n] ELSE f[n - 1] \o p[n]

Flattening == INSTANCE RecursionTheorems WITH Parts <- Before, Def <- FlattenDef

(* f is the text so far, after each of the parts put together.             *)
IsFlattening(f, q) ==
  /\ f[1] = q[1]
  /\ \A n \in 2..Len(q) : f[n] = f[n - 1] \o q[n]
  /\ FlattenSeq(q) = f[Len(q)]

LEMMA FlattenLoop ==
  ASSUME NEW q, Len(q) \in Nat, Len(q) # 0
  PROVE  \E f : IsFlattening(f, q)
<1> DEFINE N == Len(q)
           Is(f) == f = [n \in 1..N |-> IF n = 1 THEN q[n] ELSE f[n - 1] \o q[n]]
           f == CHOOSE f : Is(f)
<1>1. Flattening!Local(q, 1..N)
  BY DEF Flattening!Local, Before, FlattenDef
<1>2. Flattening!Ranked(1..N, [n \in 1..N |-> n])
  BY DEF Flattening!Ranked, Before
<1>3. PICK g : g = [n \in 1..N |-> FlattenDef(q, g, n)]
  BY <1>1, <1>2, Flattening!RecursionExists
<1>4. Is(g)
  BY <1>3 DEF FlattenDef
<1>5. Is(f)
  <2> HIDE DEF Is
  <2> QED
    BY <1>4
<1>6. FlattenSeq(q) = f[N]
  BY Zenon DEF FlattenSeq
<1>7. f[1] = q[1] /\ \A n \in 2..N : f[n] = f[n - 1] \o q[n]
  <2> HIDE DEF f
  <2>1. 1 \in 1..N /\ \A n \in 2..N : n \in 1..N /\ n # 1
    OBVIOUS
  <2> QED
    BY <1>5, <2>1
<1> HIDE DEF f
<1>8. IsFlattening(f, q)
  BY <1>6, <1>7 DEF IsFlattening
<1> QED
  BY <1>8

(* FlattenSeq of the empty sequence is that.                               *)
LEMMA FlattenEmpty ==
  ASSUME NEW q, Len(q) = 0 PROVE FlattenSeq(q) = q
BY DEF FlattenSeq

LEMMA FlattenIn ==
  ASSUME NEW q, IsStack(q), NEW S, \A i \in 1..Len(q) : q[i] \in Seq(S)
  PROVE  FlattenSeq(q) \in Seq(S)
<1> DEFINE N == Len(q)
<1>0. N \in Nat
  BY LenProperties DEF IsStack
<1>1. CASE N = 0
  <2>1. q = <<>>
    BY <1>1, EmptySeq DEF IsStack
  <2> QED
    BY <1>1, <2>1, FlattenEmpty, EmptySeq
<1>2. CASE N # 0
  <2>1. PICK f : IsFlattening(f, q)
    BY <1>0, <1>2, FlattenLoop
  <2> DEFINE T == {n \in 0..N : n # 0 => f[n] \in Seq(S)}
  <2>2. 0 \in T
    BY <1>0
  <2>3. ASSUME NEW n \in 0..N - 1, n \in T PROVE n + 1 \in T
    <3>1. CASE n = 0
      <4>1. f[1] \in Seq(S)
        BY <1>0, <1>2, <2>1 DEF IsFlattening
      <4> QED
        BY <1>0, <1>2, <3>1, <4>1
    <3>2. CASE n # 0
      <4>1. n + 1 \in 2..N /\ n + 1 - 1 = n /\ n + 1 \in 1..N
        BY <1>0, <3>2
      <4>2. f[n + 1] = f[n] \o q[n + 1]
        <5>1. \A k \in 2..N : f[k] = f[k - 1] \o q[k]
          BY <2>1 DEF IsFlattening
        <5>2. f[n + 1] = f[(n + 1) - 1] \o q[n + 1]
          BY <4>1, <5>1
        <5>3. (n + 1) - 1 = n
          BY <1>0
        <5> QED
          BY <5>2, <5>3
      <4>3. f[n] \in Seq(S) /\ q[n + 1] \in Seq(S)
        BY <2>3, <3>2, <4>1
      <4>4. f[n + 1] \in Seq(S)
        BY <4>2, <4>3, ConcatProperties
      <4> QED
        BY <4>1, <4>4
    <3> QED
      BY <3>1, <3>2
  <2>4. \A n \in 0..N : n \in T
    <3> HIDE DEF T
    <3> QED
      BY <1>0, <2>2, <2>3, UptoInduction
  <2>5. f[N] \in Seq(S)
    BY <1>0, <1>2, <2>4
  <2> QED
    BY <2>1, <2>5 DEF IsFlattening
<1> QED
  BY <1>1, <1>2

LEMMA MapIs ==
  ASSUME NEW e, IsStack(e), NEW m, m = [i \in DOMAIN e |-> m[i]]
  PROVE  /\ Len(e) \in Nat /\ DOMAIN e = 1..Len(e)
         /\ IsStack(m) /\ Len(m) = Len(e)
<1>1. Len(e) \in Nat /\ DOMAIN e = 1..Len(e)
  BY LenProperties DEF IsStack
<1>2. m \in [1..Len(e) -> Range(m)]
  <2>1. DOMAIN m = 1..Len(e)
    BY <1>1
  <2> QED
    BY <1>1, <2>1 DEF Range
<1>3. m \in Seq(Range(m))
  BY <1>1, <1>2, SeqDef
<1>4. Len(m) = Len(e)
  BY <1>1, <1>2, <1>3, LenProperties
<1> QED
  BY <1>1, <1>3, <1>4 DEF IsStack

LEMMA FlattenSingles ==
  ASSUME NEW S, NEW s \in Seq(S), NEW q, q = [i \in DOMAIN s |-> <<s[i]>>]
  PROVE  FlattenSeq(q) = s
<1> DEFINE N == Len(s)
<1>0. N \in Nat /\ DOMAIN s = 1..N /\ Len(q) = N /\ \A i \in 1..N : q[i] = <<s[i]>>
  <2>1. q = [i \in DOMAIN s |-> q[i]]
    OBVIOUS
  <2> QED
    BY <2>1, AnyStack, MapIs
<1>1. CASE N = 0
  <2>1. s = <<>> /\ q = <<>>
    <3>1. s = <<>>
      BY <1>1, EmptySeq
    <3>2. IsStack(q) /\ Len(q) = 0
      BY <1>1, <1>0, AnyStack, MapIs
    <3> QED
      BY <3>1, <3>2, EmptySeq DEF IsStack
  <2> QED
    BY <1>0, <1>1, <2>1, FlattenEmpty
<1>2. CASE N # 0
  <2>1. PICK f : IsFlattening(f, q)
    BY <1>0, <1>2, FlattenLoop
  <2> DEFINE T == {n \in 0..N : n # 0 => f[n] = SubSeq(s, 1, n)}
  <2>2. 0 \in T
    BY <1>0
  <2>3. ASSUME NEW n \in 0..N - 1, n \in T PROVE n + 1 \in T
    <3>0. n + 1 \in 1..N /\ n + 1 - 1 = n /\ 1 \in 1..N /\ n + 1 \in 1..Len(s)
      BY <1>0, <1>2
    <3>1. SubSeq(s, 1, n + 1) = SubSeq(s, 1, n) \o <<s[n + 1]>>
      BY <3>0, SubSeqRecursiveSecond
    <3>2. CASE n = 0
      <4>1. SubSeq(s, 1, 0) = <<>>
        BY SubSeqEmpty
      <4>2. <<>> \o <<s[1]>> = <<s[1]>>
        BY ConcatEmptySeq
      <4>3. f[1] = <<s[1]>>
        BY <1>0, <2>1, <3>0 DEF IsFlattening
      <4> QED
        BY <3>0, <3>1, <3>2, <4>1, <4>2, <4>3
    <3>3. CASE n # 0
      <4>1. n + 1 \in 2..N
        BY <3>0, <3>3
      <4>2. f[n + 1] = f[n] \o q[n + 1]
        <5>1. \A k \in 2..N : f[k] = f[k - 1] \o q[k]
          BY <1>0, <2>1 DEF IsFlattening
        <5>2. f[n + 1] = f[(n + 1) - 1] \o q[n + 1]
          BY <4>1, <5>1
        <5>3. (n + 1) - 1 = n
          BY <1>0
        <5> QED
          BY <5>2, <5>3
      <4>3. f[n + 1] = SubSeq(s, 1, n + 1)
        BY <1>0, <2>3, <3>0, <3>1, <3>3, <4>2
      <4> QED
        BY <3>0, <4>3
    <3> QED
      BY <3>2, <3>3
  <2>4. \A n \in 0..N : n \in T
    <3> HIDE DEF T
    <3> QED
      BY <1>0, <2>2, <2>3, UptoInduction
  <2>5. f[N] = SubSeq(s, 1, N)
    BY <1>0, <1>2, <2>4
  <2> QED
    BY <1>0, <2>1, <2>5, SubSeqFull DEF IsFlattening
<1> QED
  BY <1>1, <1>2

-----------------------------------------------------------------------------
LEMMA MaxIs ==
  ASSUME NEW n \in Nat, NEW I \in SUBSET (1..n), I # {}
  PROVE  Max(I) \in I
<1> DEFINE T == {n - i : i \in I}
<1>0. \A i \in I : i \in Int /\ n - i \in Nat
  OBVIOUS
<1>1. T \in SUBSET Nat /\ T # {}
  BY <1>0
<1>2. PICK k \in T : \A j \in T : k <= j
  <2> HIDE DEF T
  <2> QED
    BY <1>1, Supporting!Least
<1>3. PICK i \in I : k = n - i
  BY <1>2
<1>4. ASSUME NEW j \in I PROVE i >= j
  <2>1. n - i <= n - j
    BY <1>2, <1>3
  <2> QED
    BY <1>0, <2>1
<1> QED
  BY <1>3, <1>4 DEF Max

(* The kinds of a term, and of what is in it.                              *)
LEMMA TermKinds ==
  ASSUME NEW t, IsTerm(t)
  PROVE  /\ Nested(TermParts, t) /\ t \in Subterms(t)
         /\ \A u \in Subterms(t) :
              /\ IsTerm(u) /\ WellFormed(u)
              /\ u.term \in {"integer", "unsigned", "float", "atom", "binary", "tuple", "list", "pid"}
              /\ u.term \in {"tuple", "list"} => IsStack(u.elements)
<1>1. Nested(TermParts, t) /\ \A u \in Subterms(t) : WellFormed(u) /\ NamesNoElement(u)
  BY DEF IsTerm, Subterms
<1>2. /\ t \in Subterms(t)
      /\ \A u \in Subterms(t) : Nested(TermParts, u) /\ Subterms(u) \subseteq Subterms(t)
  BY <1>1, NestedTerm
<1>3. \A u \in Subterms(t) : IsTerm(u)
  BY <1>1, <1>2 DEF IsTerm, Subterms
<1>4. ASSUME NEW u, WellFormed(u)
      PROVE  /\ u.term \in {"integer", "unsigned", "float", "atom", "binary", "tuple", "list", "pid"}
             /\ u.term \in {"tuple", "list"} => IsStack(u.elements)
  BY <1>4 DEF WellFormed, IsStack, Pid
<1> QED
  BY <1>1, <1>2, <1>3, <1>4

LEMMA SupportedParts ==
  ASSUME NEW t, Nested(TermParts, t), Supported(t)
  PROVE  \A u \in Subterms(t) : Supported(u)
<1> DEFINE S == {u \in Subterms(t) : Supported(u)}
<1>1. t \in S
  BY NestedTerm
<1>2. ASSUME NEW u \in S PROVE TermParts(u) \subseteq S
  <2>1. Nested(TermParts, u) /\ TermParts(u) \subseteq Subterms(t)
    BY NestedTerm
  <2>2. \A w \in TermParts(u) : Supported(w)
    BY <2>1, SupportedIs
  <2> QED
    BY <2>1, <2>2
<1>3. Supporting!All(MaxNesting, t) \subseteq S
  <2> HIDE DEF S
  <2> QED
    BY <1>1, <1>2, NestingAssumption, Supporting!Closed
<1> QED
  BY <1>3, SubtermsAre

(* The text of an iolist, or of a part of one.                             *)
IsTextual(t) ==
  \/ erl_is_iolist(t)
  \/ t.term = "binary"
  \/ t.term = "integer" /\ t.int \in Octets

LEMMA TextOfIolist ==
  ASSUME NEW t, IsTerm(t)
  PROVE  \A u \in Subterms(t) : IsTextual(u) => IolistBytes(u) \in Seq(Octets)
<1> DEFINE W == Subterms(t)
           S == {u \in W : IsTextual(u) => IolistBytes(u) \in Seq(Octets)}
<1>1. PICK rank : Supporting!Ranked(W, rank)
  BY TermKinds, NestedTerm
<1>2. ASSUME NEW u \in W, \A w \in TermParts(u) : w \in S, IsTextual(u)
      PROVE  IolistBytes(u) \in Seq(Octets)
  <2>1. Nested(TermParts, u) /\ WellFormed(u)
    BY TermKinds DEF IsTerm
  <2>2. CASE u.term = "binary"
    <3>1. u.text \in Seq(Bytes) /\ Bytes \subseteq Octets
      BY <2>1, <2>2 DEF WellFormed, Octets
    <3>2. u.text \in Seq(Octets)
      BY <3>1
    <3> QED
      BY <2>1, <2>2, <3>2, TextIs
  <2>3. CASE u.term = "integer" /\ u.int \in Octets
    <3>1. <<u.int>> \in Seq(Octets)
      BY <2>3
    <3> QED
      BY <2>1, <2>3, <3>1, TextIs
  <2>4. CASE erl_is_iolist(u)
    <3> DEFINE q == [i \in DOMAIN u.elements |-> IolistBytes(u.elements[i])]
    <3>1. /\ u.term = "list"
          /\ \A i \in DOMAIN u.elements : IsTextual(u.elements[i])
      BY <2>1, <2>4, IolistIs DEF IsTextual
    <3>2. IsStack(u.elements)
      BY <3>1, TermKinds
    <3>3. /\ IsStack(q) /\ Len(q) = Len(u.elements) /\ DOMAIN u.elements = 1..Len(u.elements)
      <4>1. q = [i \in DOMAIN u.elements |-> q[i]]
        OBVIOUS
      <4> HIDE DEF q
      <4> QED
        BY <3>2, <4>1, MapIs
    <3>4. \A i \in 1..Len(q) : q[i] \in Seq(Octets)
      <4>1. \A i \in DOMAIN u.elements : u.elements[i] \in TermParts(u)
        BY <3>1, ElementsAreParts
      <4> QED
        BY <1>2, <3>1, <3>3, <4>1
    <3>5. FlattenSeq(q) \in Seq(Octets)
      <4> HIDE DEF q
      <4> QED
        BY <3>3, <3>4, FlattenIn
    <3> QED
      BY <2>1, <3>1, <3>5, TextIs
  <2> QED
    BY <1>2, <2>2, <2>3, <2>4 DEF IsTextual
<1>3. \A u \in W : u \in S
  <2>1. \A u \in W : (\A w \in TermParts(u) : w \in S) => u \in S
    BY <1>2
  <2> HIDE DEF S, W
  <2> QED
    BY <1>1, <2>1, Supporting!PartsInduction
<1> QED
  BY <1>3

(* An iolist is pushed as null if there is a byte 0 in it, or as its text. *)
LEMMA IolistPushed ==
  ASSUME NEW t, IsTerm(t), erl_is_iolist(t)
  PROVE  \/ PushIolist(t) = Null /\ EchoIolist(t) = Atom(Spelled["null"])
         \/ \E s \in Seq(Bytes) : PushIolist(t) = String(s) /\ EchoIolist(t) = ErlangString(s)
<1> DEFINE s == IolistBytes(t)
<1>1. s \in Seq(Octets)
  BY TermKinds, TextOfIolist DEF IsTextual
<1> HIDE DEF s
<1>2. CASE 0 \in Range(s)
  BY <1>2 DEF PushIolist, EchoIolist, s
<1>3. CASE 0 \notin Range(s)
  <2>1. Len(s) \in Nat /\ DOMAIN s = 1..Len(s) /\ \A i \in 1..Len(s) : s[i] \in Octets
    BY <1>1, ElementOfSeq, LenProperties
  <2>2. \A i \in 1..Len(s) : s[i] \in Bytes
    BY <1>3, <2>1 DEF Octets, Range
  <2>3. s \in Seq(Bytes)
    <3>1. s = [i \in 1..Len(s) |-> s[i]]
      BY <1>1, <2>1
    <3>2. [i \in 1..Len(s) |-> s[i]] \in Seq(Bytes)
      BY <2>1, <2>2
    <3> QED
      BY <3>1, <3>2
  <2>4. PushIolist(t) = String(s) /\ EchoIolist(t) = ErlangString(s)
    BY <1>3 DEF PushIolist, EchoIolist, s
  <2> QED
    BY <2>3, <2>4
<1> QED
  BY <1>2, <1>3

(* The values of NamedBy are among those given.                            *)
LEMMA NamedAmong ==
  ASSUME NEW pairs, IsStack(pairs), NEW values, DOMAIN values = DOMAIN pairs
  PROVE  Range(NamedBy(pairs, values)) \subseteq Range(values)
<1> DEFINE I(name) == {i \in DOMAIN pairs : pairs[i].elements[1].text = name}
           names == {pairs[i].elements[1].text : i \in DOMAIN pairs}
<1>1. Len(pairs) \in Nat /\ DOMAIN pairs = 1..Len(pairs)
  BY LenProperties DEF IsStack
<1>2. ASSUME NEW name \in names PROVE values[Max(I(name))] \in Range(values)
  <2>1. I(name) # {} /\ I(name) \in SUBSET (1..Len(pairs))
    BY <1>1
  <2>2. Max(I(name)) \in I(name)
    <3> HIDE DEF I
    <3> QED
      BY <1>1, <2>1, MaxIs
  <2>3. Max(I(name)) \in DOMAIN values
    BY <2>2
  <2> QED
    BY <2>3 DEF Range
<1>3. NamedBy(pairs, values) = [name \in names |-> values[Max(I(name))]]
  BY DEF NamedBy
<1> HIDE DEF names, I
<1> QED
  BY <1>2, <1>3 DEF Range

-----------------------------------------------------------------------------
(* What a term becomes is a value made of what is in the term.             *)
LEMMA PushParts ==
  ASSUME NEW t, IsTerm(t), Supported(t)
  PROVE  LET v == duk_erlang_push_term(t)
         IN /\ WellFormedValue(v)
            /\ \A y \in ValueParts(v) : \E u \in NearParts(t) : y = duk_erlang_push_term(u)
<1> DEFINE v == duk_erlang_push_term(t)
           elements == [i \in DOMAIN t.elements |-> duk_erlang_push_term(t.elements[i])]
           fields == [i \in DOMAIN t.elements |-> duk_erlang_push_term(t.elements[i].elements[2])]
           Good(y) == \E u \in NearParts(t) : y = duk_erlang_push_term(u)
<1>1. /\ Nested(TermParts, t) /\ t \in Subterms(t) /\ WellFormed(t)
      /\ t.term \in {"integer", "unsigned", "float", "atom", "binary", "tuple", "list"}
      /\ t.term \in {"tuple", "list"} => IsStack(t.elements)
  <2>1. t.term # "pid"
    BY TermKinds, SupportedIs
  <2> QED
    BY <2>1, TermKinds
<1> SUFFICES WellFormedValue(v) /\ \A y \in ValueParts(v) : Good(y)
  OBVIOUS
<1>2. ASSUME NEW n PROVE WellFormedValue(Number(n)) /\ ValueParts(Number(n)) = {}
  BY DEF WellFormedValue, ValueParts, Number
<1>3. /\ \A s \in Seq(Bytes) : WellFormedValue(String(s)) /\ ValueParts(String(s)) = {}
      /\ WellFormedValue(Null) /\ ValueParts(Null) = {}
  BY DEF WellFormedValue, ValueParts, String, Null
<1>4. Range(<<>>) = {}
  BY DEF Range
<1>5. ASSUME t.term \in {"tuple", "list"}
      PROVE  WellFormedValue(Array(elements)) /\ \A y \in ValueParts(Array(elements)) : Good(y)
  <2>1. IsStack(elements)
    <3>1. elements = [i \in DOMAIN t.elements |-> elements[i]]
      OBVIOUS
    <3> HIDE DEF elements
    <3> QED
      BY <1>1, <1>5, <3>1, MapIs
  <2>2. WellFormedValue(Array(elements)) /\ ValueParts(Array(elements)) = Range(elements)
    <3> HIDE DEF elements
    <3> QED
      BY <1>4, <2>1 DEF WellFormedValue, ValueParts, Array, IsStack
  <2>3. \A i \in DOMAIN t.elements : Good(elements[i])
    BY <1>5, ElementsAreParts DEF NearParts
  <2>4. \A y \in Range(elements) : Good(y)
    <3> HIDE DEF Good
    <3> QED
      BY <2>3 DEF Range
  <2> QED
    BY <2>2, <2>4
<1>6. ASSUME t.term = "list", duk_erlang_is_object_alike(t)
      PROVE  LET named == NamedArray(NamedBy(t.elements, fields))
             IN WellFormedValue(named) /\ \A y \in ValueParts(named) : Good(y)
  <2> DEFINE f == NamedBy(t.elements, fields)
  <2>1. WellFormedValue(NamedArray(f)) /\ ValueParts(NamedArray(f)) = Range(f)
    <3> HIDE DEF f
    <3>1. <<>> \in Seq(Range(<<>>))
      BY EmptySeq
    <3> QED
      BY <1>4, <3>1 DEF WellFormedValue, ValueParts, NamedArray
  <2>2. Range(f) \subseteq Range(fields)
    <3>1. DOMAIN fields = DOMAIN t.elements
      OBVIOUS
    <3> HIDE DEF fields
    <3> QED
      BY <1>1, <1>6, <3>1, NamedAmong
  <2>3. ASSUME NEW i \in DOMAIN t.elements PROVE Good(fields[i])
    <3>1. /\ t.elements[i] \in TermParts(t) /\ t.elements[i].term = "tuple"
          /\ 2 \in DOMAIN t.elements[i].elements
      BY <1>6, ElementsAreParts DEF duk_erlang_is_object_alike
    <3>2. t.elements[i].elements[2] \in TermParts(t.elements[i])
      BY <3>1, ElementsAreParts
    <3>3. t.elements[i].elements[2] \in NearParts(t)
      BY <3>1, <3>2 DEF NearParts
    <3> QED
      BY <3>3
  <2>4. \A y \in Range(fields) : Good(y)
    <3> HIDE DEF Good
    <3> QED
      BY <2>3 DEF Range
  <2> HIDE DEF f, Good
  <2> QED
    BY <2>1, <2>2, <2>4 DEF f
<1> HIDE DEF Good, elements, fields
<1>7. CASE t.term \in {"integer", "unsigned", "float"}
  <2>1. \E n : v = Number(n)
    BY <1>1, <1>7, PushIs
  <2> QED
    BY <1>2, <2>1
<1>8. CASE t.term \in {"atom", "binary"}
  <2>1. v = String(t.text) /\ t.text \in Seq(Bytes)
    BY <1>1, <1>8, PushIs DEF WellFormed
  <2> QED
    BY <1>3, <2>1
<1>9. CASE t.term = "tuple"
  <2>1. v = Array(elements)
    BY <1>1, <1>9, PushIs DEF elements
  <2> QED
    BY <1>5, <1>9, <2>1
<1>10. CASE t.term = "list"
  <2>1. CASE erl_is_iolist(t)
    <3>1. v = PushIolist(t)
      BY <1>1, <1>10, <2>1, PushIs
    <3>2. v = Null \/ \E s \in Seq(Bytes) : v = String(s)
      BY <2>1, <3>1, IolistPushed
    <3> HIDE DEF v
    <3> QED
      BY <1>3, <3>2
  <2>2. CASE ~erl_is_iolist(t) /\ duk_erlang_is_object_alike(t)
    <3>1. v = NamedArray(NamedBy(t.elements, fields))
      BY <1>1, <1>10, <2>2, PushIs DEF fields
    <3> QED
      BY <1>6, <1>10, <2>2, <3>1
  <2>3. CASE ~erl_is_iolist(t) /\ ~duk_erlang_is_object_alike(t)
    <3>1. v = Array(elements)
      BY <1>1, <1>10, <2>3, PushIs DEF elements
    <3> QED
      BY <1>5, <1>10, <3>1
  <2> QED
    BY <2>1, <2>2, <2>3
<1> QED
  BY <1>1, <1>7, <1>8, <1>9, <1>10

LEMMA PushIsValue ==
  ASSUME NEW t, IsTerm(t), Supported(t)
  PROVE  IsValue(duk_erlang_push_term(t))
<1> DEFINE W == Subterms(t)
           image == [u \in W |-> duk_erlang_push_term(u)]
           S == {image[u] : u \in W}
           v == duk_erlang_push_term(t)
<1>1. /\ Nested(TermParts, t) /\ t \in W
      /\ \A u \in W : /\ IsTerm(u) /\ Supported(u)
                      /\ TermParts(u) \subseteq W
                      /\ NearParts(u) \subseteq W
  <2>1. Nested(TermParts, t) /\ t \in W /\ \A u \in W : IsTerm(u) /\ Supported(u)
    BY TermKinds, SupportedParts
  <2>2. \A u \in W : TermParts(u) \subseteq W
    BY <2>1, NestedTerm
  <2> HIDE DEF W
  <2> QED
    BY <2>1, <2>2 DEF NearParts
<1>2. PICK rank : /\ Pushing!Ranked(W, rank)
                  /\ \A u \in W : rank[u] <= MaxNesting
  BY <1>1, NearRanked
<1>3. ASSUME NEW u \in W
      PROVE  /\ rank[u] \in Nat
             /\ WellFormedValue(image[u])
             /\ \A y \in ValueParts(image[u]) : \E w \in W : y = image[w] /\ rank[w] < rank[u]
  <2>1. rank[u] \in Nat /\ \A w \in NearParts(u) : w \in W /\ rank[w] < rank[u]
    BY <1>2 DEF Pushing!Ranked
  <2>2. /\ WellFormedValue(duk_erlang_push_term(u))
        /\ \A y \in ValueParts(duk_erlang_push_term(u)) :
             \E w \in NearParts(u) : y = duk_erlang_push_term(w)
    BY <1>1, PushParts
  <2> QED
    BY <2>1, <2>2
<1>4. v = image[t] /\ v \in S
  BY <1>1
<1> HIDE DEF W, image
<1>5. PICK r : Getting!Ranked(S, r) /\ \A u \in W : r[image[u]] <= rank[u]
  BY <1>3, Getting!ImageRanked
<1>6. r[v] <= MaxNesting
  <2>1. r[v] \in Nat /\ r[v] <= rank[t] /\ rank[t] <= MaxNesting /\ rank[t] \in Nat
    BY <1>1, <1>2, <1>3, <1>4, <1>5 DEF Getting!Ranked
  <2> QED
    BY <2>1, NestingAssumption
<1>7. \A y \in S : WellFormedValue(y)
  BY <1>3
<1>8. Getting!Nests(MaxNesting, v) /\ Getting!All(MaxNesting, v) \subseteq S
  <2> HIDE DEF S, v
  <2> QED
    BY <1>4, <1>5, <1>6, NestingAssumption, Getting!RankedNests
<1> HIDE DEF S, v
<1>9. Nested(ValueParts, v) /\ Within(ValueParts, v) \subseteq S
  BY <1>8, SubvaluesAre DEF Subvalues
<1> QED
  BY <1>7, <1>9 DEF IsValue, v

(* What Erlang gets for a term that goes through the program.              *)
LEMMA EchoIsPush ==
  ASSUME NEW t, IsTerm(t), Supported(t)
  PROVE  duk_erlang_get_term(duk_erlang_push_term(t)) = Echoed(t)
<1> DEFINE W == Subterms(t)
           push(u) == duk_erlang_push_term(u)
           get(v) == duk_erlang_get_term(v)
           S == {u \in W : get(push(u)) = Echoed(u)}
<1>1. /\ Nested(TermParts, t) /\ t \in W
      /\ \A u \in W : /\ IsTerm(u) /\ Supported(u) /\ Nested(TermParts, u)
                      /\ TermParts(u) \subseteq W
  BY TermKinds, SupportedParts, NestedTerm DEF IsTerm
<1>2. PICK rank : Supporting!Ranked(W, rank)
  BY <1>1, NestedTerm
<1>3. ASSUME NEW u \in W, \A w \in TermParts(u) : w \in S
      PROVE  get(push(u)) = Echoed(u)
  <2>1. /\ Nested(TermParts, u) /\ WellFormed(u) /\ Nested(ValueParts, push(u))
        /\ u.term \in {"integer", "unsigned", "float", "atom", "binary", "tuple", "list"}
    <3>1. u.term # "pid"
      BY <1>1, SupportedIs
    <3> QED
      BY <1>1, <3>1, TermKinds, PushIsValue DEF IsValue
  <2>2. ASSUME NEW n, push(u) = Number(n) PROVE get(push(u)) = Float(n)
    <3>1. push(u).type = "number" /\ push(u).number = n
      <4> HIDE DEF push
      <4> QED
        BY <2>2 DEF Number
    <3>2. get(push(u)) = Float(push(u).number)
      BY <2>1, <3>1, GetIs
    <3> QED
      BY <3>1, <3>2
  <2>3. ASSUME NEW s, push(u) = String(s) PROVE get(push(u)) = ErlangString(s)
    <3>1. push(u).type = "string" /\ push(u).text = s
      <4> HIDE DEF push
      <4> QED
        BY <2>3 DEF String
    <3>2. get(push(u)) = ErlangString(push(u).text)
      BY <2>1, <3>1, GetIs
    <3> QED
      BY <3>1, <3>2
  <2>12. ASSUME push(u) = Null PROVE get(push(u)) = Atom(Spelled["null"])
    <3>1. push(u).type = "null"
      <4> HIDE DEF push
      <4> QED
        BY <2>12 DEF Null
    <3> QED
      BY <2>1, <3>1, GetIs
  <2> DEFINE elements == [i \in DOMAIN u.elements |-> push(u.elements[i])]
             echoes == List([i \in DOMAIN u.elements |-> Echoed(u.elements[i])])
  <2>4. ASSUME u.term \in {"tuple", "list"}, push(u) = Array(elements)
        PROVE  get(push(u)) = echoes
    <3>1. push(u).type = "array" /\ push(u).elements = elements
      <4> HIDE DEF elements, push
      <4> QED
        BY <2>4 DEF Array
    <3>2. get(push(u)) = List([i \in DOMAIN elements |-> get(elements[i])])
      <4> HIDE DEF elements
      <4> QED
        BY <2>1, <3>1, GetIs
    <3>3. \A i \in DOMAIN u.elements : get(push(u.elements[i])) = Echoed(u.elements[i])
      BY <1>3, <2>4, ElementsAreParts
    <3>4. [i \in DOMAIN elements |-> get(elements[i])]
            = [i \in DOMAIN u.elements |-> Echoed(u.elements[i])]
      <4> HIDE DEF push, get
      <4> QED
        BY <3>3
    <3> QED
      BY <3>2, <3>4
  <2>5. ASSUME NEW f, push(u) = NamedArray(f) PROVE get(push(u)) = List(<<>>)
    <3>1. push(u).type = "array" /\ push(u).elements = <<>>
      BY <2>5 DEF NamedArray
    <3>2. get(push(u)) = List([i \in DOMAIN <<>> |-> get(<<>>[i])])
      BY <2>1, <3>1, GetIs
    <3>3. [i \in DOMAIN <<>> |-> get(<<>>[i])] = <<>>
      <4> HIDE DEF get
      <4> QED
        OBVIOUS
    <3> QED
      BY <3>2, <3>3
  <2>6. CASE u.term = "integer"
    BY <2>1, <2>2, <2>6, PushIs, EchoIs
  <2>7. CASE u.term = "unsigned"
    BY <2>1, <2>2, <2>7, PushIs, EchoIs
  <2>8. CASE u.term = "float"
    BY <2>1, <2>2, <2>8, PushIs, EchoIs DEF WellFormed
  <2>9. CASE u.term \in {"atom", "binary"}
    BY <2>1, <2>3, <2>9, PushIs, EchoIs
  <2>10. CASE u.term = "tuple"
    <3>1. ~erl_is_iolist(u) /\ ~duk_erlang_is_object_alike(u)
      BY <2>1, <2>10, IolistIs DEF duk_erlang_is_object_alike
    <3>2. push(u) = Array(elements)
      BY <2>1, <2>10, PushIs
    <3>3. Echoed(u) = echoes
      BY <2>1, <2>10, <3>1, EchoIs
    <3> HIDE DEF push, get, elements, echoes
    <3> QED
      BY <2>4, <2>10, <3>2, <3>3
  <2>11. CASE u.term = "list"
    <3>1. CASE erl_is_iolist(u)
      <4>1. push(u) = PushIolist(u)
        BY <2>1, <2>11, <3>1, PushIs
      <4>2. Echoed(u) = EchoIolist(u)
        BY <2>1, <2>11, <3>1, EchoIs
      <4>3. IsTerm(u)
        BY <1>1
      <4> HIDE DEF push, get
      <4> QED
        BY <2>3, <2>12, <3>1, <4>1, <4>2, <4>3, IolistPushed
    <3>2. CASE ~erl_is_iolist(u) /\ duk_erlang_is_object_alike(u)
      <4>1. \E f : push(u) = NamedArray(f)
        BY <2>1, <2>11, <3>2, PushIs
      <4>2. Echoed(u) = List(<<>>)
        BY <2>1, <2>11, <3>2, EchoIs
      <4> HIDE DEF push, get
      <4> QED
        BY <2>5, <4>1, <4>2
    <3>3. CASE ~erl_is_iolist(u) /\ ~duk_erlang_is_object_alike(u)
      <4>1. push(u) = Array(elements)
        BY <2>1, <2>11, <3>3, PushIs
      <4>2. Echoed(u) = echoes
        BY <2>1, <2>11, <3>3, EchoIs
      <4> HIDE DEF push, get, elements, echoes
      <4> QED
        BY <2>4, <2>11, <4>1, <4>2
    <3> QED
      BY <3>1, <3>2, <3>3
  <2> QED
    BY <2>1, <2>6, <2>7, <2>8, <2>9, <2>10, <2>11
<1>4. \A u \in W : u \in S
  <2>1. \A u \in W : (\A w \in TermParts(u) : w \in S) => u \in S
    BY <1>3
  <2> HIDE DEF S, W
  <2> QED
    BY <1>2, <2>1, Supporting!PartsInduction
<1> QED
  BY <1>1, <1>4

-----------------------------------------------------------------------------
(* The kinds of a value, and of what is in it.                             *)
LEMMA ValueKinds ==
  ASSUME NEW v, IsValue(v)
  PROVE  /\ Nested(ValueParts, v) /\ v \in Subvalues(v)
         /\ \A w \in Subvalues(v) :
              /\ IsValue(w) /\ WellFormedValue(w) /\ ValueParts(w) \subseteq Subvalues(v)
              /\ w.type \in {"undefined", "null", "boolean", "number", "string", "array", "object"}
              /\ w.type = "array" => IsStack(w.elements)
              /\ w.type = "object" =>
                   /\ IsStack(w.properties)
                   /\ \A i \in DOMAIN w.properties : w.properties[i][1] \in Seq(Bytes)
<1>1. Nested(ValueParts, v) /\ \A w \in Subvalues(v) : WellFormedValue(w)
  BY DEF IsValue, Subvalues
<1>2. /\ v \in Subvalues(v)
      /\ \A w \in Subvalues(v) :
           /\ Nested(ValueParts, w) /\ Subvalues(w) \subseteq Subvalues(v)
           /\ ValueParts(w) \subseteq Subvalues(v)
  BY <1>1, NestedValue
<1>3. \A w \in Subvalues(v) : IsValue(w)
  BY <1>1, <1>2 DEF IsValue, Subvalues
<1>4. ASSUME NEW w, WellFormedValue(w)
      PROVE  /\ w.type \in {"undefined", "null", "boolean", "number", "string", "array", "object"}
             /\ w.type = "array" => IsStack(w.elements)
             /\ w.type = "object" =>
                  /\ IsStack(w.properties)
                  /\ \A i \in DOMAIN w.properties : w.properties[i][1] \in Seq(Bytes)
  BY <1>4 DEF WellFormedValue, IsStack, Range
<1> QED
  BY <1>1, <1>2, <1>3, <1>4

(* A list that erl_mk_string makes.                                        *)
LEMMA StringIs ==
  ASSUME NEW s \in Seq(Bytes)
  PROVE  /\ ErlangString(s).term = "list" /\ DOMAIN ErlangString(s).elements = DOMAIN s
         /\ IsStack(ErlangString(s).elements) /\ WellFormed(ErlangString(s))
         /\ \A i \in DOMAIN s : /\ s[i] \in Bytes
                                /\ ErlangString(s).elements[i] = Integer(s[i])
         /\ \A y \in TermParts(ErlangString(s)) : \E b \in Bytes : y = Integer(b)
<1> DEFINE e == [i \in DOMAIN s |-> Integer(s[i])]
           t == ErlangString(s)
<1>1. t.term = "list" /\ t.elements = e
  <2> HIDE DEF e
  <2>1. t = List(e)
    BY DEF ErlangString, e
  <2> HIDE DEF t
  <2> QED
    BY <2>1 DEF List
<1>2. IsStack(e)
  <2>1. e = [i \in DOMAIN s |-> e[i]]
    OBVIOUS
  <2> HIDE DEF e
  <2> QED
    BY <2>1, AnyStack, MapIs
<1>3. \A i \in DOMAIN s : s[i] \in Bytes /\ e[i] = Integer(s[i])
  OBVIOUS
<1>4. DOMAIN e = DOMAIN s
  OBVIOUS
<1> HIDE DEF e, t
<1>5. WellFormed(t)
  BY <1>1, <1>2 DEF WellFormed, IsStack
<1>6. \A y \in TermParts(t) : \E b \in Bytes : y = Integer(b)
  BY <1>1, <1>3, <1>4 DEF TermParts, Range
<1> QED
  BY <1>1, <1>2, <1>3, <1>4, <1>5, <1>6 DEF t

LEMMA ByteIs ==
  ASSUME NEW b \in Bytes
  PROVE  /\ Integer(b).term = "integer" /\ Integer(b).int = b
         /\ WellFormed(Integer(b)) /\ TermParts(Integer(b)) = {}
<1>1. b \in Int /\ Word \in Nat /\ b < Word \div 2
  BY ConversionAssumption
<1>2. Integer(b) = [term |-> "integer", int |-> b]
  BY <1>1 DEF Integer
<1>3. Integer(b).term = "integer" /\ Integer(b).int = b
  BY <1>2
<1> QED
  BY <1>3 DEF WellFormed, TermParts

(* A tuple of one term, and a pair.                                        *)
LEMMA TupleIs ==
  ASSUME NEW y
  PROVE  /\ Tuple(<<y>>).term = "tuple" /\ Tuple(<<y>>).elements = <<y>>
         /\ WellFormed(Tuple(<<y>>)) /\ TermParts(Tuple(<<y>>)) = {y}
<1>1. IsStack(<<y>>)
  <2>1. <<y>> \in Seq({y})
    OBVIOUS
  <2> QED
    BY <2>1, AnyStack
<1>2. Range(<<y>>) = {y}
  BY DEF Range
<1>3. Tuple(<<y>>).term = "tuple" /\ Tuple(<<y>>).elements = <<y>>
  BY DEF Tuple
<1> QED
  BY <1>1, <1>2, <1>3 DEF WellFormed, TermParts, IsStack

LEMMA PairIs ==
  ASSUME NEW y, NEW z, NEW u, u = Tuple(<<y, z>>)
  PROVE  /\ u.term = "tuple" /\ u.elements = <<y, z>>
         /\ WellFormed(u) /\ TermParts(u) = {y, z}
<1>1. IsStack(<<y, z>>)
  <2>1. <<y, z>> \in Seq({y, z})
    OBVIOUS
  <2> QED
    BY <2>1, AnyStack
<1>2. Range(<<y, z>>) = {y, z}
  BY DEF Range
<1>3. u.term = "tuple" /\ u.elements = <<y, z>>
  BY DEF Tuple
<1> QED
  BY <1>1, <1>2, <1>3 DEF WellFormed, TermParts, IsStack

LEMMA ReverseIs ==
  ASSUME NEW s, IsStack(s)
  PROVE  /\ IsStack(Reverse(s)) /\ Len(Reverse(s)) = Len(s)
         /\ DOMAIN Reverse(s) = DOMAIN s
         /\ \A i \in DOMAIN s : \E j \in DOMAIN s : Reverse(s)[i] = s[j]
<1> DEFINE r == Reverse(s)
<1>1. Len(s) \in Nat /\ DOMAIN s = 1..Len(s)
  BY LenProperties DEF IsStack
<1>2. DOMAIN r = DOMAIN s /\ \A i \in DOMAIN s : r[i] = s[(Len(s) - i) + 1]
  BY <1>1 DEF Reverse
<1>3. \A i \in 1..Len(s) : (Len(s) - i) + 1 \in 1..Len(s)
  BY <1>1
<1>4. r = [i \in DOMAIN s |-> r[i]]
  BY <1>1 DEF Reverse
<1> HIDE DEF r
<1>5. IsStack(r) /\ Len(r) = Len(s)
  BY <1>4, MapIs
<1> QED
  BY <1>1, <1>2, <1>3, <1>5 DEF r

(* The term of a value is well formed and made of those of its parts.      *)
MadeOf(y, v) ==
  \/ \E w \in ValueParts(v) : y = duk_erlang_get_term(w)
  \/ \E b \in Bytes : y = Integer(b)
  \/ \E s \in Seq(Bytes), w \in ValueParts(v) :
       y = Tuple(<<ErlangString(s), duk_erlang_get_term(w)>>)

LEMMA GetParts ==
  ASSUME NEW v, IsValue(v)
  PROVE  LET g == duk_erlang_get_term(v)
         IN WellFormed(g) /\ \A y \in TermParts(g) : MadeOf(y, v)
<1> DEFINE g == duk_erlang_get_term(v)
<1>0. /\ Nested(ValueParts, v) /\ WellFormedValue(v)
      /\ v.type \in {"undefined", "null", "boolean", "number", "string", "array", "object"}
      /\ v.type = "array" => IsStack(v.elements)
      /\ v.type = "object" => IsStack(v.properties)
                              /\ \A i \in DOMAIN v.properties : v.properties[i][1] \in Seq(Bytes)
  BY ValueKinds
<1>1. CASE v.type \in {"undefined", "null", "boolean"}
  <2>1. \E x \in {"undefined", "null", "true", "false"} : g = Atom(Spelled[x])
    BY <1>0, <1>1, GetIs
  <2>2. PICK s \in Seq(Bytes) : g = Atom(s)
    BY <2>1, ConversionAssumption
  <2>3. g.term = "atom" /\ g.text = s
    <3> HIDE DEF g
    <3> QED
      BY <2>2 DEF Atom
  <2> HIDE DEF g
  <2>4. WellFormed(g) /\ TermParts(g) = {}
    BY <2>3 DEF WellFormed, TermParts
  <2> QED
    BY <2>4 DEF g
<1>2. CASE v.type = "number"
  <2>1. g = Float(v.number)
    BY <1>0, <1>2, GetIs
  <2>2. WellFormed(g) /\ TermParts(g) = {}
    <3> HIDE DEF g
    <3>1. g.term = "float" /\ g.float = v.number
      BY <2>1 DEF Float
    <3> QED
      BY <2>1, <3>1 DEF WellFormed, TermParts
  <2> QED
    BY <2>2
<1>3. CASE v.type = "string"
  <2>1. g = ErlangString(v.text) /\ v.text \in Seq(Bytes)
    BY <1>0, <1>3, GetIs DEF WellFormedValue
  <2>2. WellFormed(g) /\ \A y \in TermParts(g) : \E b \in Bytes : y = Integer(b)
    <3> HIDE DEF g
    <3> QED
      BY <2>1, StringIs
  <2> QED
    BY <2>2 DEF MadeOf
<1>4. CASE v.type = "array"
  <2> DEFINE e == [i \in DOMAIN v.elements |-> duk_erlang_get_term(v.elements[i])]
  <2>1. g = List(e)
    BY <1>0, <1>4, GetIs
  <2>2. IsStack(e)
    <3>1. e = [i \in DOMAIN v.elements |-> e[i]]
      OBVIOUS
    <3> HIDE DEF e
    <3> QED
      BY <1>0, <1>4, <3>1, MapIs
  <2>3. \A i \in DOMAIN e : MadeOf(e[i], v)
    BY <1>4, ElementsAreParts DEF MadeOf
  <2> HIDE DEF e, g
  <2>4. g.term = "list" /\ g.elements = e
    BY <2>1 DEF List
  <2>5. WellFormed(g) /\ \A y \in TermParts(g) : MadeOf(y, v)
    BY <2>2, <2>3, <2>4 DEF WellFormed, TermParts, IsStack, Range
  <2> QED
    BY <2>5 DEF g
<1>5. CASE v.type = "object"
  <2> DEFINE e == [i \in DOMAIN v.properties |->
                     Tuple(<<ErlangString(v.properties[i][1]),
                             duk_erlang_get_term(v.properties[i][2])>>)]
  <2>1. g = List(Reverse(e))
    BY <1>0, <1>5, GetIs
  <2>2. IsStack(e)
    <3>1. e = [i \in DOMAIN v.properties |-> e[i]]
      OBVIOUS
    <3> HIDE DEF e
    <3> QED
      BY <1>0, <1>5, <3>1, MapIs
  <2>3. \A i \in DOMAIN e : MadeOf(e[i], v)
    BY <1>0, <1>5, ElementsAreParts DEF MadeOf
  <2> HIDE DEF e, g
  <2>4. g.term = "list" /\ g.elements = Reverse(e)
    BY <2>1 DEF List
  <2>5. IsStack(Reverse(e)) /\ \A i \in DOMAIN Reverse(e) : MadeOf(Reverse(e)[i], v)
    BY <2>2, <2>3, ReverseIs
  <2>6. WellFormed(g) /\ \A y \in TermParts(g) : MadeOf(y, v)
    BY <2>4, <2>5 DEF WellFormed, TermParts, IsStack, Range
  <2> QED
    BY <2>6 DEF g
<1> QED
  BY <1>0, <1>1, <1>2, <1>3, <1>4, <1>5

-----------------------------------------------------------------------------
(* No value is an integer, a binary, a tuple or a pid to Erlang.           *)
LEMMA GetKinds ==
  ASSUME NEW v, IsValue(v)
  PROVE  /\ duk_erlang_get_term(v).term \in {"atom", "float", "list"}
         /\ duk_erlang_get_term(v).term = "list" => v.type \in {"string", "array", "object"}
<1> DEFINE g == duk_erlang_get_term(v)
<1>1. /\ Nested(ValueParts, v)
      /\ v.type \in {"undefined", "null", "boolean", "number", "string", "array", "object"}
  BY ValueKinds
<1>2. v.type \in {"undefined", "null", "boolean"} => \E s : g = Atom(s)
  BY <1>1, GetIs
<1>3. v.type = "number" => g = Float(v.number)
  BY <1>1, GetIs
<1>4. v.type \in {"string", "array", "object"} => \E s : g = List(s)
  <2>1. v.type = "string" => g = ErlangString(v.text)
    BY <1>1, GetIs
  <2>2. v.type = "array" => \E s : g = List(s)
    BY <1>1, GetIs
  <2>3. v.type = "object" => \E s : g = List(s)
    BY <1>1, GetIs
  <2>4. v.type = "string" => \E s : g = List(s)
    <3> HIDE DEF g
    <3> QED
      BY <2>1 DEF ErlangString
  <2> HIDE DEF g
  <2> QED
    BY <2>2, <2>3, <2>4
<1> HIDE DEF g
<1>5. /\ \A s : g = Atom(s) => g.term = "atom"
      /\ \A s : g = List(s) => g.term = "list"
      /\ \A n : g = Float(n) => g.term = "float"
  BY DEF Atom, List, Float
<1> QED
  BY <1>1, <1>2, <1>3, <1>4, <1>5 DEF g

(* No term in these is a list of pairs with atoms for names.               *)
LEMMA NoNames ==
  ASSUME NEW u, \A y \in TermParts(u) : y.term = "tuple" => y.elements[1].term # "atom"
  PROVE  NamesNoElement(u)
<1> SUFFICES ASSUME duk_erlang_is_object_alike(u), NEW i \in DOMAIN u.elements
             PROVE  FALSE
  BY DEF NamesNoElement
<1>1. /\ u.term = "list" /\ u.elements[i].term = "tuple"
      /\ u.elements[i].elements[1].term = "atom"
  BY DEF duk_erlang_is_object_alike
<1>2. u.elements[i] \in TermParts(u)
  BY <1>1, ElementsAreParts
<1> QED
  BY <1>1, <1>2

(* What JavaScript sends is a term Erlang may send back.                   *)
LEMMA GetIsTerm ==
  ASSUME NEW v, IsValue(v), Nested(TermParts, Tuple(<<duk_erlang_get_term(v)>>))
  PROVE  IsTerm(Tuple(<<duk_erlang_get_term(v)>>))
<1> DEFINE W == Subvalues(v)
           get(w) == duk_erlang_get_term(w)
           gets == {get(w) : w \in W}
           ints == {Integer(b) : b \in Bytes}
           strings == {ErlangString(s) : s \in Seq(Bytes)}
           pairs == {Tuple(<<ErlangString(s), get(w)>>) : s \in Seq(Bytes), w \in W}
           t == Tuple(<<get(v)>>)
           T == gets \cup ints \cup strings \cup pairs
           S == T \cup {t}
<1>1. v \in W /\ \A w \in W : IsValue(w) /\ ValueParts(w) \subseteq W
  BY ValueKinds
<1> HIDE DEF W
<1>2. ASSUME NEW u \in gets PROVE WellFormed(u) /\ TermParts(u) \subseteq T
  <2>1. PICK w \in W : u = duk_erlang_get_term(w)
    BY <1>2
  <2>2. WellFormed(u) /\ \A y \in TermParts(u) : MadeOf(y, w)
    BY <1>1, <2>1, GetParts
  <2>3. ASSUME NEW y, MadeOf(y, w) PROVE y \in gets \cup ints \cup pairs
    BY <1>1, <2>3 DEF MadeOf
  <2> QED
    BY <2>2, <2>3
<1>3. ASSUME NEW u \in ints PROVE WellFormed(u) /\ TermParts(u) \subseteq T
  BY <1>3, ByteIs
<1>4. ASSUME NEW u \in strings PROVE WellFormed(u) /\ TermParts(u) \subseteq T
  <2>1. WellFormed(u) /\ \A y \in TermParts(u) : \E b \in Bytes : y = Integer(b)
    BY <1>4, StringIs
  <2> QED
    BY <2>1
<1>5. ASSUME NEW u \in pairs PROVE WellFormed(u) /\ TermParts(u) \subseteq T
  <2>1. PICK s \in Seq(Bytes), w \in W : u = Tuple(<<ErlangString(s), get(w)>>)
    BY <1>5
  <2>2. WellFormed(u) /\ TermParts(u) = {ErlangString(s), get(w)}
    BY <2>1, PairIs
  <2>3. ErlangString(s) \in strings /\ get(w) \in gets
    OBVIOUS
  <2> QED
    BY <2>2, <2>3
<1>6. WellFormed(t) /\ TermParts(t) \subseteq T
  <2>1. WellFormed(t) /\ TermParts(t) = {get(v)}
    BY TupleIs
  <2>2. get(v) \in gets
    BY <1>1
  <2> QED
    BY <2>1, <2>2
<1>7. t \in S /\ \A u \in S : WellFormed(u) /\ TermParts(u) \subseteq T
  BY <1>2, <1>3, <1>4, <1>5, <1>6
<1>8. ASSUME NEW y \in T PROVE y.term = "tuple" => y.elements[1].term # "atom"
  <2>1. \A w \in W : get(w).term # "tuple"
    BY <1>1, GetKinds
  <2>2. \A s \in Seq(Bytes) : ErlangString(s).term = "list"
    BY StringIs
  <2>3. \A b \in Bytes : Integer(b).term # "tuple"
    BY ByteIs
  <2>4. ASSUME y \in pairs PROVE y.elements[1].term # "atom"
    <3>1. PICK s \in Seq(Bytes), w \in W : y = Tuple(<<ErlangString(s), get(w)>>)
      BY <2>4
    <3>2. y.elements = <<ErlangString(s), get(w)>>
      BY <3>1, PairIs
    <3> QED
      BY <2>2, <3>2
  <2> QED
    BY <1>8, <2>1, <2>2, <2>3, <2>4
<1>9. \A u \in S : NamesNoElement(u)
  <2> HIDE DEF S, T
  <2> QED
    BY <1>7, <1>8, NoNames
<1>10. T \subseteq S
  OBVIOUS
<1>11. Supporting!All(MaxNesting, t) \subseteq S
  <2> HIDE DEF S, T, t
  <2> QED
    BY <1>7, <1>10, NestingAssumption, Supporting!Closed
<1>12. \A u \in Subterms(t) : WellFormed(u) /\ NamesNoElement(u)
  <2> HIDE DEF S, T, t
  <2> QED
    BY <1>7, <1>11, <1>9, SubtermsAre
<1> QED
  BY <1>12 DEF IsTerm, Subterms

(* The elements of an array are those of its list.                         *)
LEMMA GetElements ==
  ASSUME NEW v, IsValue(v), v.type = "array", IsTerm(duk_erlang_get_term(v))
  PROVE  LET g == duk_erlang_get_term(v)
         IN /\ g.term = "list" /\ DOMAIN g.elements = DOMAIN v.elements /\ IsStack(v.elements)
            /\ g.elements = [i \in DOMAIN v.elements |-> duk_erlang_get_term(v.elements[i])]
            /\ \A i \in DOMAIN v.elements :
                 /\ v.elements[i] \in ValueParts(v) /\ IsValue(v.elements[i])
                 /\ g.elements[i] = duk_erlang_get_term(v.elements[i]) /\ IsTerm(g.elements[i])
<1> DEFINE g == duk_erlang_get_term(v)
           e == [i \in DOMAIN v.elements |-> duk_erlang_get_term(v.elements[i])]
<1>1. /\ Nested(ValueParts, v) /\ v \in Subvalues(v) /\ IsStack(v.elements)
      /\ \A w \in Subvalues(v) : IsValue(w) /\ ValueParts(w) \subseteq Subvalues(v)
  BY ValueKinds
<1>2. \A i \in DOMAIN v.elements : v.elements[i] \in ValueParts(v) /\ IsValue(v.elements[i])
  BY <1>1, ElementsAreParts
<1>3. g = List(e)
  BY <1>1, GetIs
<1>4. \A i \in DOMAIN v.elements : e[i] = duk_erlang_get_term(v.elements[i])
  OBVIOUS
<1>5. DOMAIN e = DOMAIN v.elements
  OBVIOUS
<1> HIDE DEF e, g
<1>6. g.term = "list" /\ g.elements = e
  BY <1>3 DEF List
<1>7. \A i \in DOMAIN e : IsTerm(e[i])
  <2>1. IsTerm(g)
    BY DEF g
  <2>2. TermParts(g) \subseteq Subterms(g)
    BY <2>1, TermKinds, NestedTerm
  <2>3. \A i \in DOMAIN e : e[i] \in TermParts(g)
    BY <1>6, ElementsAreParts
  <2> QED
    BY <2>1, <2>2, <2>3, TermKinds
<1>8. e = [i \in DOMAIN v.elements |-> duk_erlang_get_term(v.elements[i])]
  BY DEF e
<1> QED
  BY <1>1, <1>2, <1>4, <1>5, <1>6, <1>7, <1>8 DEF g

(* A text comes back as it was.                                            *)
LEMMA TextReturns ==
  ASSUME NEW s \in Seq(Bytes), NEW g, g = ErlangString(s), IsTerm(g)
  PROVE  erl_is_iolist(g) /\ IolistBytes(g) = s
<1>1. /\ g.term = "list" /\ DOMAIN g.elements = DOMAIN s
      /\ \A i \in DOMAIN s : s[i] \in Bytes /\ g.elements[i] = Integer(s[i])
  BY StringIs
<1>2. /\ Nested(TermParts, g)
      /\ \A i \in DOMAIN g.elements : Nested(TermParts, g.elements[i])
  <2>1. Nested(TermParts, g) /\ g \in Subterms(g) /\ TermParts(g) \subseteq Subterms(g)
    BY TermKinds, NestedTerm
  <2>2. \A i \in DOMAIN g.elements : g.elements[i] \in Subterms(g)
    BY <1>1, <2>1, ElementsAreParts
  <2>3. \A u \in Subterms(g) : Nested(TermParts, u)
    BY <2>1, NestedTerm
  <2> QED
    BY <2>1, <2>2, <2>3
<1>3. \A i \in DOMAIN s : g.elements[i].term = "integer" /\ g.elements[i].int = s[i]
  BY <1>1, ByteIs
<1>4. erl_is_iolist(g)
  BY <1>1, <1>2, <1>3, IolistIs DEF Octets
<1>5. \A i \in DOMAIN s : IolistBytes(g.elements[i]) = <<s[i]>>
  BY <1>1, <1>2, <1>3, TextIs
<1>6. [i \in DOMAIN g.elements |-> IolistBytes(g.elements[i])]
        = [i \in DOMAIN s |-> <<s[i]>>]
  BY <1>1, <1>5
<1>7. IolistBytes(g) = FlattenSeq([i \in DOMAIN s |-> <<s[i]>>])
  BY <1>1, <1>2, <1>6, TextIs
<1> QED
  BY <1>4, <1>7, FlattenSingles

(* The arrays that are iolists to Erlang.                                  *)
TextSound(w) ==
  IsTerm(duk_erlang_get_term(w)) =>
    /\ IsText(w) => erl_is_iolist(duk_erlang_get_term(w))
    /\ erl_is_iolist(duk_erlang_get_term(w)) /\ Stable(w) => IsText(w)

LEMMA TextsAreIolists ==
  ASSUME NEW v, IsValue(v)
  PROVE  \A w \in Subvalues(v) : TextSound(w)
<1> DEFINE W == Subvalues(v)
           S == {w \in W : TextSound(w)}
<1>1. PICK rank : Getting!Ranked(W, rank)
  BY ValueKinds, NestedValue
<1>2. ASSUME NEW w \in W, \A y \in ValueParts(w) : y \in S,
             IsTerm(duk_erlang_get_term(w))
      PROVE  TextSound(w)
  <2> DEFINE g == duk_erlang_get_term(w)
  <2>1. /\ IsValue(w) /\ Nested(ValueParts, w) /\ WellFormedValue(w)
        /\ w.type \in {"undefined", "null", "boolean", "number", "string", "array", "object"}
    BY ValueKinds DEF IsValue
  <2>2. Nested(TermParts, g)
    BY <1>2 DEF IsTerm
  <2>3. CASE w.type = "string"
    <3>1. g = ErlangString(w.text) /\ w.text \in Seq(Bytes)
      BY <2>1, <2>3, GetIs DEF WellFormedValue
    <3>2. erl_is_iolist(g)
      BY <1>2, <3>1, TextReturns
    <3> QED
      BY <2>1, <2>3, <3>2, IsTextIs DEF TextSound
  <2>4. CASE w.type = "array"
    <3>1. /\ g.term = "list" /\ DOMAIN g.elements = DOMAIN w.elements
          /\ \A i \in DOMAIN w.elements :
               /\ w.elements[i] \in ValueParts(w) /\ IsValue(w.elements[i])
               /\ g.elements[i] = duk_erlang_get_term(w.elements[i]) /\ IsTerm(g.elements[i])
      BY <1>2, <2>1, <2>4, GetElements
    <3>2. \A i \in DOMAIN w.elements :
            /\ IsText(w.elements[i]) => erl_is_iolist(g.elements[i])
            /\ erl_is_iolist(g.elements[i]) /\ Stable(w.elements[i]) => IsText(w.elements[i])
      BY <1>2, <3>1 DEF TextSound
    <3>3. \A i \in DOMAIN w.elements : g.elements[i].term \notin {"integer", "binary"}
      BY <3>1, GetKinds
    <3>4. erl_is_iolist(g) <=> \A i \in DOMAIN w.elements : erl_is_iolist(g.elements[i])
      <4> HIDE DEF g
      <4> QED
        BY <2>2, <3>1, <3>3, IolistIs
    <3>5. /\ IsText(w) => w.named = <<>> /\ \A i \in DOMAIN w.elements : IsText(w.elements[i])
          /\ w.named = <<>> /\ (\A i \in DOMAIN w.elements : IsText(w.elements[i])) => IsText(w)
          /\ Stable(w) => w.named = <<>> /\ \A i \in DOMAIN w.elements : Stable(w.elements[i])
      BY <2>1, <2>4, IsTextIs, StableIs
    <3> HIDE DEF g
    <3>6. (IsText(w) => erl_is_iolist(g)) /\ (erl_is_iolist(g) /\ Stable(w) => IsText(w))
      BY <3>2, <3>4, <3>5
    <3> QED
      BY <3>6 DEF TextSound, g
  <2>5. CASE w.type \notin {"string", "array"}
    <3>1. ~IsText(w)
      BY <2>1, <2>5, IsTextIs
    <3>2. erl_is_iolist(g) => w.type = "object"
      <4>1. erl_is_iolist(g) => g.term = "list"
        BY <2>2, IolistIs
      <4> QED
        BY <2>1, <2>5, <4>1, GetKinds
    <3>3. w.type = "object" => ~Stable(w)
      BY <2>1, StableIs
    <3> QED
      BY <3>1, <3>2, <3>3 DEF TextSound
  <2> QED
    BY <2>3, <2>4, <2>5
<1>3. \A w \in W : w \in S
  <2>1. \A w \in W : (\A y \in ValueParts(w) : y \in S) => w \in S
    BY <1>2 DEF TextSound
  <2> HIDE DEF S, W
  <2> QED
    BY <1>1, <2>1, Getting!PartsInduction
<1> QED
  BY <1>3

(* What JavaScript gets back of a value it sends, when Erlang sends it back.*)
Returns(w) ==
  IsTerm(duk_erlang_get_term(w)) =>
    (duk_erlang_push_term(duk_erlang_get_term(w)) = w) = Stable(w)

LEMMA ReturnIsStable ==
  ASSUME NEW v, IsValue(v)
  PROVE  \A w \in Subvalues(v) : Returns(w)
<1> DEFINE W == Subvalues(v)
           S == {w \in W : Returns(w)}
<1>1. PICK rank : Getting!Ranked(W, rank)
  BY ValueKinds, NestedValue
<1>2. ASSUME NEW w \in W, \A y \in ValueParts(w) : y \in S,
             IsTerm(duk_erlang_get_term(w))
      PROVE  (duk_erlang_push_term(duk_erlang_get_term(w)) = w) = Stable(w)
  <2> DEFINE g == duk_erlang_get_term(w)
             p == duk_erlang_push_term(g)
  <2>1. /\ IsValue(w) /\ Nested(ValueParts, w) /\ WellFormedValue(w) /\ w \in Subvalues(w)
        /\ w.type \in {"undefined", "null", "boolean", "number", "string", "array", "object"}
    BY ValueKinds DEF IsValue
  <2>2. Nested(TermParts, g)
    BY <1>2 DEF IsTerm
  <2>3. Stable(w) \in BOOLEAN /\ (w.type \in {"number", "string"} => Stable(w))
        /\ (w.type \in {"undefined", "null", "boolean", "object"} => ~Stable(w))
    BY <2>1, StableIs
  <2>4. CASE w.type = "number"
    <3>1. g = Float(w.number)
      BY <2>1, <2>4, GetIs
    <3>2. g.term = "float" /\ g.float = w.number
      <4> HIDE DEF g
      <4> QED
        BY <3>1 DEF Float
    <3>3. p = Number(w.number)
      <4> HIDE DEF g
      <4> QED
        BY <2>2, <3>2, PushIs
    <3>4. p = w
      BY <2>1, <2>4, <3>3 DEF WellFormedValue
    <3> QED
      BY <2>3, <2>4, <3>4
  <2>5. CASE w.type = "string"
    <3>1. g = ErlangString(w.text) /\ w.text \in Seq(Bytes) /\ w = String(w.text)
      BY <2>1, <2>5, GetIs DEF WellFormedValue
    <3>2. erl_is_iolist(g) /\ IolistBytes(g) = w.text
      BY <1>2, <3>1, TextReturns
    <3>3. p = String(w.text)
      <4>1. PushIolist(g) = String(w.text)
        <5> HIDE DEF g
        <5>1. 0 \notin Bytes
          BY ConversionAssumption
        <5>2. 0 \notin Range(w.text)
          BY <3>1, <5>1 DEF Range
        <5> QED
          BY <3>2, <5>2 DEF PushIolist
      <4> HIDE DEF g
      <4>2. g.term = "list"
        BY <2>2, <3>2, IolistIs
      <4> QED
        BY <2>2, <3>2, <4>1, <4>2, PushIs
    <3> QED
      BY <2>3, <2>5, <3>1, <3>3
  <2>6. CASE w.type \in {"undefined", "null", "boolean", "object"}
    <3>1. p.type \in {"number", "string", "array"} \/ (p.type = "null" /\ w.type = "object")
      <4>1. g.term \in {"atom", "float", "list"} /\ (g.term = "list" => w.type = "object")
        BY <2>1, <2>6, GetKinds
      <4>3. \A u : PushIolist(u).type \in {"string", "null"}
        BY DEF PushIolist, Null, String
      <4>2. /\ \A n : Number(n).type = "number"
            /\ \A s : String(s).type = "string" /\ Array(s).type = "array"
            /\ \A f : NamedArray(f).type = "array"
        BY DEF Number, String, Array, NamedArray
      <4> HIDE DEF g, p
      <4>4. CASE g.term \in {"atom", "float"}
        <5>1. (\E n : p = Number(n)) \/ \E s : p = String(s)
          BY <2>2, <4>4, PushIs DEF p
        <5> QED
          BY <4>2, <5>1
      <4>5. CASE g.term = "list"
        <5>1. p = PushIolist(g) \/ (\E f : p = NamedArray(f)) \/ \E s : p = Array(s)
          BY <2>2, <4>5, PushIs DEF p
        <5> QED
          BY <4>1, <4>2, <4>3, <4>5, <5>1
      <4> QED
        BY <4>1, <4>4, <4>5
    <3> HIDE DEF p
    <3>2. p # w
      BY <2>6, <3>1
    <3> QED
      BY <2>3, <2>6, <3>2 DEF p
  <2>7. CASE w.type = "array"
    <3> DEFINE m == [i \in DOMAIN g.elements |-> duk_erlang_push_term(g.elements[i])]
               e == w.elements
    <3>1. /\ g.term = "list" /\ DOMAIN g.elements = DOMAIN e /\ IsStack(e)
          /\ \A i \in DOMAIN e :
               /\ e[i] \in ValueParts(w) /\ IsValue(e[i])
               /\ g.elements[i] = duk_erlang_get_term(e[i]) /\ IsTerm(g.elements[i])
      BY <1>2, <2>1, <2>7, GetElements
    <3>2. /\ IsText(w) => erl_is_iolist(g)
          /\ erl_is_iolist(g) /\ Stable(w) => IsText(w)
      <4>1. TextSound(w)
        BY <2>1, TextsAreIolists
      <4> QED
        BY <1>2, <4>1 DEF TextSound
    <3>3. Stable(w) <=> w.named = <<>> /\ ~IsText(w) /\ \A i \in DOMAIN e : Stable(e[i])
      BY <2>1, <2>7, StableIs
    <3>4. \A i \in DOMAIN e : (duk_erlang_push_term(g.elements[i]) = e[i]) = Stable(e[i])
      BY <1>2, <3>1 DEF Returns
    <3>5. CASE erl_is_iolist(g)
      <4>1. p = PushIolist(g)
        <5> HIDE DEF g
        <5> QED
          BY <2>2, <3>1, <3>5, PushIs
      <4>2. p.type \in {"string", "null"}
        <5> HIDE DEF p, g
        <5> QED
          BY <4>1 DEF PushIolist, String, Null
      <4>3. p # w
        <5> HIDE DEF p
        <5> QED
          BY <2>7, <4>2
      <4>4. ~Stable(w)
        BY <3>2, <3>3, <3>5
      <4> QED
        BY <2>3, <4>3, <4>4
    <3>6. CASE ~erl_is_iolist(g)
      <4>1. ~duk_erlang_is_object_alike(g)
        <5>1. PICK i \in DOMAIN e : TRUE
          <6>1. ~erl_is_iolist(g) => DOMAIN g.elements # {}
            <7> HIDE DEF g
            <7> QED
              BY <2>2, <3>1, IolistIs
          <6> QED
            BY <3>1, <3>6, <6>1
        <5>2. g.elements[i].term # "tuple" /\ i \in DOMAIN g.elements
          BY <3>1, GetKinds
        <5> HIDE DEF g
        <5> QED
          BY <5>2 DEF duk_erlang_is_object_alike
      <4>2. p = Array(m)
        <5> HIDE DEF g
        <5> QED
          BY <2>2, <3>1, <3>6, <4>1, PushIs
      <4>3. w = [type |-> "array", elements |-> e, named |-> w.named]
        BY <2>1, <2>7 DEF WellFormedValue
      <4>4. p = w <=> m = e /\ w.named = <<>>
        <5> HIDE DEF p, m, e
        <5>1. p = w => p.elements = w.elements /\ p.named = w.named
          OBVIOUS
        <5>2. p.elements = m /\ p.named = <<>>
          BY <4>2 DEF Array
        <5>3. w.elements = e
          BY DEF e
        <5>4. m = e /\ w.named = <<>> => p = w
          BY <4>2, <4>3 DEF Array
        <5> QED
          BY <5>1, <5>2, <5>3, <5>4
      <4>5. m = e <=> \A i \in DOMAIN e : Stable(e[i])
        <5>1. DOMAIN m = DOMAIN e
          BY <3>1
        <5>2. \A i \in DOMAIN e : (m[i] = e[i]) = Stable(e[i])
          <6> HIDE DEF g, e
          <6> QED
            BY <3>1, <3>4
        <5>3. e = [i \in DOMAIN e |-> e[i]]
          <6>1. e \in Seq(Range(e))
            BY <3>1 DEF IsStack
          <6> HIDE DEF e
          <6> QED
            BY <6>1, LenProperties
        <5>4. m = [i \in DOMAIN m |-> m[i]]
          OBVIOUS
        <5>5. \A i \in DOMAIN e : Stable(e[i]) \in BOOLEAN
          BY <3>1, ValueKinds, StableIs
        <5> HIDE DEF m, e
        <5>6. m = e => \A i \in DOMAIN e : Stable(e[i])
          BY <5>2, <5>5
        <5>7. (\A i \in DOMAIN e : Stable(e[i])) => m = e
          <6>1. (\A i \in DOMAIN e : Stable(e[i])) => \A i \in DOMAIN e : m[i] = e[i]
            BY <5>2, <5>5
          <6> QED
            BY <5>1, <5>3, <5>4, <6>1
        <5> QED
          BY <5>6, <5>7
      <4> HIDE DEF p, m, e
      <4>6. p = w <=> Stable(w)
        <5>1. ~IsText(w)
          BY <3>2, <3>6
        <5> QED
          BY <3>3, <4>4, <4>5, <5>1
      <4> QED
        BY <2>3, <4>6 DEF p
    <3> QED
      BY <3>5, <3>6
  <2> QED
    BY <2>1, <2>4, <2>5, <2>6, <2>7
<1>3. \A w \in W : w \in S
  <2>1. \A w \in W : (\A y \in ValueParts(w) : y \in S) => w \in S
    BY <1>2 DEF Returns
  <2> HIDE DEF S, W
  <2> QED
    BY <1>1, <2>1, Getting!PartsInduction
<1> QED
  BY <1>3

(* The terms that are messages.                                            *)
Message(t) == IsTerm(t) \/ (Nested(TermParts, t) /\ \E p : t = Tuple(<<p>>))

LEMMA PushedIs ==
  ASSUME NEW t, Message(t), Supported(t)
  PROVE  LET v == duk_erlang_push_term(t)
         IN \/ v.type = "array" /\ IsStack(v.elements)
            \/ v.type \in {"number", "string", "null"}
<1> DEFINE v == duk_erlang_push_term(t)
           e == [i \in DOMAIN t.elements |-> duk_erlang_push_term(t.elements[i])]
<1>1. Nested(TermParts, t)
  BY DEF Message, IsTerm
<1>2. t.term # "pid"
  BY <1>1, SupportedIs
<1>3. /\ t.term \in {"integer", "unsigned", "float", "atom", "binary", "tuple", "list"}
      /\ t.term \in {"tuple", "list"} => IsStack(t.elements)
  <2>1. CASE IsTerm(t)
    BY <1>2, <2>1, TermKinds
  <2>2. ASSUME NEW p, t = Tuple(<<p>>)
        PROVE  t.term = "tuple" /\ IsStack(t.elements)
    <3>1. t.term = "tuple" /\ t.elements = <<p>>
      BY <2>2, TupleIs
    <3>2. <<p>> \in Seq({p})
      OBVIOUS
    <3> QED
      BY <3>1, <3>2, AnyStack
  <2> QED
    BY <2>1, <2>2 DEF Message
<1>4. t.term \in {"tuple", "list"} => IsStack(e)
  <2>1. e = [i \in DOMAIN t.elements |-> e[i]]
    OBVIOUS
  <2> HIDE DEF e
  <2> QED
    BY <1>3, <2>1, MapIs
<1>5. \/ v = Array(e) /\ t.term \in {"tuple", "list"}
      \/ \E f : v = NamedArray(f)
      \/ \E n : v = Number(n)
      \/ (\E s : v = String(s)) \/ v = Null
  <2>1. PushIolist(t) = Null \/ \E s : PushIolist(t) = String(s)
    BY DEF PushIolist
  <2> QED
    BY <1>1, <1>3, <2>1, PushIs
<1> HIDE DEF v, e
<1>6. \/ v.type = "array" /\ IsStack(v.elements)
      \/ v.type \in {"number", "string", "null"}
  BY <1>4, <1>5, NoValues DEF Array, NamedArray, Number, String, Null
<1> QED
  BY <1>6 DEF v

-----------------------------------------------------------------------------
LEMMA RemoveIs ==
  ASSUME NEW s, IsStack(s), NEW p \in 1..Len(s)
  PROVE  LET r == RemoveAt(s, p)
         IN /\ duk_remove(Machine(s), p) = Machine(r)
            /\ IsStack(r) /\ Len(r) = Len(s) - 1
            /\ \A i \in 1..Len(s) - 1 : r[i] = IF i < p THEN s[i] ELSE s[i + 1]
<1> DEFINE S == Range(s)
           a == SubSeq(s, 1, p - 1)
           b == SubSeq(s, p + 1, Len(s))
           r == a \o b
<1>1. s \in Seq(S) /\ Len(s) \in Nat /\ DOMAIN s = 1..Len(s)
  BY LenProperties DEF IsStack
<1> HIDE DEF S
<1>2. p \in Int /\ p - 1 \in Int /\ p + 1 \in Int /\ \A i \in 1..Len(s) : s[i] \in S
  BY <1>1, ElementOfSeq
<1>3. a \in Seq(S) /\ Len(a) = p - 1 /\ \A i \in 1..p - 1 : a[i] = s[i]
  <2>1. \A i \in 1..p - 1 : s[i] \in S
    BY <1>1, <1>2
  <2>2. \A i \in 1..p - 1 - 1 + 1 : a[i] = s[1 + i - 1]
    BY <1>2, <2>1, SubSeqProperties
  <2>3. a \in Seq(S) /\ Len(a) = IF 1 <= p - 1 THEN p - 1 - 1 + 1 ELSE 0
    BY <1>2, <2>1, SubSeqProperties
  <2> HIDE DEF a
  <2> QED
    BY <1>1, <1>2, <2>2, <2>3
<1>4. b \in Seq(S) /\ Len(b) = Len(s) - p /\ \A i \in 1..Len(s) - p : b[i] = s[p + i]
  <2>1. \A i \in p + 1..Len(s) : s[i] \in S
    BY <1>1, <1>2
  <2>2. \A i \in 1..Len(s) - (p + 1) + 1 : b[i] = s[p + 1 + i - 1]
    BY <1>1, <1>2, <2>1, SubSeqProperties
  <2>3. b \in Seq(S) /\ Len(b) = IF p + 1 <= Len(s) THEN Len(s) - (p + 1) + 1 ELSE 0
    BY <1>1, <1>2, <2>1, SubSeqProperties
  <2>4. Len(s) - (p + 1) + 1 = Len(s) - p /\ \A i \in Int : p + 1 + i - 1 = p + i
    BY <1>1, <1>2
  <2>5. Len(b) = Len(s) - p
    <3>1. CASE p + 1 <= Len(s)
      BY <2>3, <2>4, <3>1
    <3>2. CASE ~(p + 1 <= Len(s))
      <4>1. Len(s) - p = 0
        <5>1. p <= Len(s) /\ Len(s) < p + 1
          BY <1>1, <1>2, <3>2
        <5> DEFINE n == Len(s)
        <5>2. n \in Int /\ p \in Int /\ p <= n /\ n < p + 1
          BY <1>1, <1>2, <5>1
        <5> HIDE DEF n
        <5>3. n - p = 0
          BY <5>2
        <5> QED
          BY <5>3 DEF n
      <4> QED
        BY <2>3, <3>2, <4>1
    <3> QED
      BY <3>1, <3>2
  <2>6. \A i \in 1..Len(s) - p : b[i] = s[p + i]
    <3> SUFFICES ASSUME NEW i \in 1..Len(s) - p PROVE b[i] = s[p + i]
      OBVIOUS
    <3>1. i \in Int
      OBVIOUS
    <3> HIDE DEF b
    <3> QED
      BY <2>2, <2>4, <3>1
  <2> QED
    BY <2>3, <2>5, <2>6
<1> HIDE DEF a, b
<1>5. /\ r \in Seq(S) /\ Len(r) = Len(a) + Len(b)
      /\ \A i \in 1..Len(a) + Len(b) : r[i] = IF i <= Len(a) THEN a[i] ELSE b[i - Len(a)]
  BY <1>3, <1>4, ConcatProperties
<1> HIDE DEF r
<1>6. /\ IsStack(r) /\ Len(r) = Len(s) - 1
      /\ \A i \in 1..Len(s) - 1 : r[i] = IF i < p THEN s[i] ELSE s[i + 1]
  <2>1. IsStack(r)
    BY <1>5, AnyStack
  <2>2. Len(r) = Len(s) - 1
    BY <1>1, <1>2, <1>3, <1>4, <1>5
  <2>3. ASSUME NEW i \in 1..Len(s) - 1
        PROVE  r[i] = IF i < p THEN s[i] ELSE s[i + 1]
    <3>1. r[i] = IF i <= p - 1 THEN a[i] ELSE b[i - (p - 1)]
      BY <1>1, <1>2, <1>3, <1>4, <1>5
    <3>2. CASE i < p
      BY <1>2, <1>3, <3>1, <3>2
    <3>3. CASE ~(i < p)
      <4>1. i - (p - 1) \in 1..Len(s) - p /\ p + (i - (p - 1)) = i + 1 /\ ~(i <= p - 1)
        BY <1>1, <1>2, <3>3
      <4>2. b[i - (p - 1)] = s[p + (i - (p - 1))]
        BY <1>4, <4>1
      <4> QED
        BY <3>1, <3>3, <4>1, <4>2
    <3> QED
      BY <3>2, <3>3
  <2> QED
    BY <2>1, <2>2, <2>3
<1>7. RemoveAt(s, p) = r
  BY DEF RemoveAt, r, a, b
<1>8. duk_remove(Machine(s), p) = Machine(r)
  BY <1>1, <1>7, MachineIs DEF duk_remove
<1> QED
  BY <1>6, <1>7, <1>8

LEMMA Remove2 ==
  ASSUME NEW s, IsStack(s), NEW a, NEW b
  PROVE  duk_remove(Machine(Append(Append(s, a), b)), Len(s) + 1) = Machine(Append(s, b))
<1> DEFINE t == Append(Append(s, a), b)
           u == Append(s, b)
           r == RemoveAt(t, Len(s) + 1)
<1>1. /\ Len(s) \in Nat /\ IsStack(t) /\ Len(t) = Len(s) + 2
      /\ t[Len(s) + 2] = b /\ \A i \in 1..Len(s) : t[i] = s[i]
  BY OnTop2
<1>2. IsStack(u) /\ Len(u) = Len(s) + 1 /\ u[Len(s) + 1] = b /\ \A i \in 1..Len(s) : u[i] = s[i]
  BY OnTop
<1> HIDE DEF t, u
<1>3. /\ duk_remove(Machine(t), Len(s) + 1) = Machine(r)
      /\ IsStack(r) /\ Len(r) = Len(t) - 1
      /\ \A i \in 1..Len(t) - 1 : r[i] = IF i < Len(s) + 1 THEN t[i] ELSE t[i + 1]
  <2>1. Len(s) + 1 \in 1..Len(t)
    BY <1>1
  <2> QED
    BY <1>1, <2>1, RemoveIs
<1> HIDE DEF r
<1>4. r = u
  <2>1. Len(r) = Len(u) /\ \A i \in 1..Len(r) : r[i] = u[i]
    BY <1>1, <1>2, <1>3
  <2> QED
    BY <1>2, <1>3, <2>1, SameStack
<1> QED
  BY <1>3, <1>4 DEF t, u

-----------------------------------------------------------------------------

UnrollDef(p, f, n) == IF n = 0 THEN p.first ELSE UnrollTurn(f[n - 1], p.position)

Unrolling == INSTANCE RecursionTheorems WITH Parts <- Previous, Def <- UnrollDef

LEMMA UnrollCountdown ==
  ASSUME NEW N \in Nat
  PROVE  Unrolling!Ranked(0..N, [n \in 0..N |-> n])
BY DEF Unrolling!Ranked, Previous

(* f is the machine after each turn of the loop of duk_util_unroll_array.  *)
IsUnrolling(f, m, position, N) ==
  /\ f[0] = m
  /\ \A n \in 1..N : f[n] = UnrollTurn(f[n - 1], position)
  /\ UnrollTurns(m, position, N) = f[N]

LEMMA UnrollLoop ==
  ASSUME NEW m, NEW position, NEW N \in Nat
  PROVE  \E f : IsUnrolling(f, m, position, N)
<1> DEFINE p == [first |-> m, position |-> position]
           Is(f) == f = [n \in 0..N |-> IF n = 0 THEN m ELSE UnrollTurn(f[n - 1], position)]
           f == CHOOSE f : Is(f)
<1>1. Unrolling!Local(p, 0..N)
  BY DEF Unrolling!Local, Previous, UnrollDef
<1>2. \E g : g = [n \in 0..N |-> UnrollDef(p, g, n)]
  <2> HIDE DEF p
  <2> QED
    BY <1>1, UnrollCountdown, Unrolling!RecursionExists
<1>3. PICK g : g = [n \in 0..N |-> UnrollDef(p, g, n)]
  BY <1>2
<1>4. Is(g)
  BY <1>3 DEF UnrollDef
<1>5. Is(f)
  <2> HIDE DEF Is
  <2> QED
    BY <1>4
<1>6. UnrollTurns(m, position, N) = f[N]
  BY Zenon DEF UnrollTurns, Iterate
<1>7. f[0] = m /\ \A n \in 1..N : f[n] = UnrollTurn(f[n - 1], position)
  <2> HIDE DEF f
  <2> QED
    BY <1>5
<1> HIDE DEF f
<1>8. IsUnrolling(f, m, position, N)
  BY <1>6, <1>7 DEF IsUnrolling
<1> QED
  BY <1>8

-----------------------------------------------------------------------------
(* What an enumerator has left after k turns.                              *)
Rest(props, k) == Enumerator(SubSeq(props, k + 1, Len(props)))

LEMMA RestStep ==
  ASSUME NEW props, IsStack(props), NEW k \in 0..Len(props) - 1
  PROVE  LET left == SubSeq(props, k + 1, Len(props))
         IN /\ left # <<>> /\ Head(left) = props[k + 1]
            /\ Enumerator(Tail(left)) = Rest(props, k + 1)
<1> DEFINE left == SubSeq(props, k + 1, Len(props))
<1>1. Len(props) \in Nat /\ k + 1 \in 1..Len(props) /\ Len(props) \in k + 1..Len(props)
      /\ props \in Seq(Range(props))
  BY LenProperties DEF IsStack
<1>2. Head(left) = props[k + 1] /\ Tail(left) = SubSeq(props, k + 1 + 1, Len(props))
  BY <1>1, HeadTailOfSubSeq
<1>3. left # <<>>
  <2>1. \A i \in k + 1..Len(props) : props[i] \in Range(props)
    BY <1>1, ElementOfSeq
  <2>2. Len(left) = Len(props) - (k + 1) + 1
    BY <1>1, <2>1, SubSeqProperties
  <2> HIDE DEF left
  <2> QED
    BY <1>1, <2>2, EmptySeq
<1> QED
  BY <1>2, <1>3 DEF Rest

Indexed(e) == [i \in DOMAIN e |-> <<"index", e[i]>>]

(* An array is unrolled above q: after k turns, its first k elements are   *)
(* above the enumerator of the others, or there was no room for them.      *)
Unrolls(r, q, e, k) ==
  /\ IsStack(r) /\ Len(r) = Len(q) + 1 + k
  /\ \A i \in 1..Len(q) : r[i] = q[i]
  /\ r[Len(q) + 1] = Enumerator(SubSeq(Indexed(e), k + 1, Len(Indexed(e))))
  /\ \A j \in 1..k : r[Len(q) + 1 + j] = e[j]

UnrollsSoFar(m, q, e, k) ==
  \/ m.thrown /\ k >= 1 /\ Len(q) + 2 + k > Reserve
  \/ (k = 0 \/ Len(q) + 2 + k <= Reserve) /\ \E r : m = Machine(r) /\ Unrolls(r, q, e, k)

LEMMA PushFull ==
  ASSUME NEW s, Len(s) >= Reserve, NEW v
  PROVE  duk_push(Machine(s), v).thrown
BY MachineIs DEF duk_push, Throw

LEMMA LenIs ==
  ASSUME NEW S, NEW d \in Seq(S), NEW n \in Nat, DOMAIN d = 1..n
  PROVE  Len(d) = n
<1>1. 1..Len(d) = 1..n /\ Len(d) \in Nat
  BY LenProperties
<1>2. CASE Len(d) < n
  <2>1. n \in 1..n /\ n \notin 1..Len(d)
    BY <1>1, <1>2
  <2> QED
    BY <1>1, <2>1
<1>3. CASE n < Len(d)
  <2>1. Len(d) \notin 1..n /\ Len(d) \in 1..Len(d)
    BY <1>1, <1>3
  <2> QED
    BY <1>1, <2>1
<1> QED
  BY <1>1, <1>2, <1>3

LEMMA IndexedIs ==
  ASSUME NEW e, IsStack(e)
  PROVE  /\ IsStack(Indexed(e)) /\ Len(Indexed(e)) = Len(e) /\ Len(e) \in Nat
         /\ \A i \in 1..Len(e) : Indexed(e)[i] = <<"index", e[i]>>
<1> DEFINE S == {<<"index", x>> : x \in Range(e)}
           d == Indexed(e)
<1>1. DOMAIN e = 1..Len(e) /\ Len(e) \in Nat
  BY LenProperties DEF IsStack
<1>2. \A i \in 1..Len(e) : d[i] = <<"index", e[i]>> /\ d[i] \in S
  BY <1>1 DEF Indexed, Range
<1>3. d \in [1..Len(e) -> S]
  <2>1. d = [i \in 1..Len(e) |-> d[i]]
    BY <1>1 DEF Indexed
  <2> HIDE DEF S, d
  <2> QED
    BY <1>2, <2>1
<1>4. d \in Seq(S)
  <2> HIDE DEF S, d
  <2> QED
    BY <1>1, <1>3, SeqDef
<1>5. Len(d) = Len(e)
  <2>1. DOMAIN d = 1..Len(e)
    BY <1>1 DEF Indexed
  <2> HIDE DEF S, d
  <2> QED
    BY <1>1, <1>4, <2>1, LenIs
<1> HIDE DEF S
<1>6. IsStack(d)
  <2> HIDE DEF d
  <2> QED
    BY <1>4, AnyStack
<1> QED
  BY <1>1, <1>2, <1>5, <1>6

LEMMA UnrollStep ==
  ASSUME NEW q, IsStack(q), NEW e, IsStack(e), NEW k \in 0..Len(e) - 1,
         NEW m, UnrollsSoFar(m, q, e, k)
  PROVE  UnrollsSoFar(UnrollTurn(m, Len(q) + 1), q, e, k + 1)
<1> DEFINE p == Len(q) + 1
           after == UnrollTurn(m, p)
           left == SubSeq(Indexed(e), k + 1, Len(Indexed(e)))
           others == SubSeq(Indexed(e), k + 1 + 1, Len(Indexed(e)))
           name == Name("index")
           v == e[k + 1]
<1>0. Len(q) \in Nat /\ Len(e) \in Nat /\ k \in Nat /\ k + 1 \in Nat /\ p \in Nat
  BY LenProperties DEF IsStack
<1>1. CASE m.thrown
  <2>1. after = m
    BY <1>1, Thrown DEF UnrollTurn
  <2>2. Len(q) + 2 + (k + 1) > Reserve
    <3>1. Len(q) + 2 + k > Reserve
      <4>1. \A r : ~Machine(r).thrown
        BY MachineIs
      <4> QED
        BY <1>1, <4>1 DEF UnrollsSoFar
    <3> QED
      BY <1>0, <3>1, ReserveFacts
  <2>3. k + 1 >= 1
    BY <1>0
  <2> QED
    BY <1>1, <2>1, <2>2, <2>3 DEF UnrollsSoFar
<1>2. CASE ~m.thrown
  <2>1. PICK r : m = Machine(r) /\ Unrolls(r, q, e, k)
    BY <1>2 DEF UnrollsSoFar
  <2>2. left # <<>> /\ Head(left) = <<"index", v>> /\ Enumerator(Tail(left)) = Enumerator(others)
    <3>1. IsStack(Indexed(e)) /\ Len(Indexed(e)) = Len(e) /\ Indexed(e)[k + 1] = <<"index", v>>
      BY <1>0, IndexedIs
    <3>2. k \in 0..Len(Indexed(e)) - 1
      BY <3>1
    <3> QED
      BY <3>1, <3>2, RestStep DEF Rest
  <2>3. IsStack(r) /\ Len(r) = p + k /\ r[p] = Enumerator(left)
    BY <2>1 DEF Unrolls
  <2> HIDE DEF left, others, v, p
  <2> DEFINE rest == [r EXCEPT ![p] = Enumerator(others)]
             key == duk_push(Machine(rest), name)
             next == duk_push(key, v)
  <2>4. HasNext(m, p) /\ duk_next(m, p, TRUE) = next
    <3>1. m.stack = r /\ ~m.thrown
      BY <2>1, MachineIs
    <3>2. m.stack[p].left = left
      BY <2>3, <3>1 DEF Enumerator
    <3>3. Head(left)[1] = "index" /\ Head(left)[2] = v
      BY <2>2
    <3>4. duk_next(m, p, TRUE) = next
      <4> HIDE DEF next
      <4>1. [m.stack EXCEPT ![p] = Enumerator(Tail(left))] = rest
        BY <2>2, <3>1
      <4> HIDE DEF rest
      <4> QED
        BY <3>2, <3>3, <4>1 DEF duk_next, next
    <3> QED
      BY <2>2, <3>1, <3>2, <3>4 DEF HasNext
  <2>5. /\ IsStack(rest) /\ Len(rest) = p + k /\ rest[p] = Enumerator(others)
        /\ \A i \in 1..p + k : i # p => rest[i] = r[i]
    <3> DEFINE S == Range(r) \cup {Enumerator(others)}
    <3>1. r \in Seq(S) /\ p \in 1..Len(r) /\ Enumerator(others) \in S
      <4>1. r \in Seq(S)
        BY <2>3, SeqMonotonic DEF IsStack
      <4>2. p \in 1..Len(r)
        BY <1>0, <2>3 DEF p
      <4> QED
        BY <4>1, <4>2
    <3> HIDE DEF S
    <3>2. /\ rest \in Seq(S) /\ Len(rest) = Len(r)
          /\ \A j \in 1..Len(r) : rest[j] = IF j = p THEN Enumerator(others) ELSE r[j]
      BY <3>1, ExceptSeq
    <3> HIDE DEF rest
    <3>3. IsStack(rest)
      BY <3>2, AnyStack
    <3> QED
      BY <2>3, <3>1, <3>2, <3>3
  <2> HIDE DEF rest, next
  <2>6. after = duk_remove(next, Height(next) - 1)
    BY <2>4 DEF UnrollTurn
  <2>7. CASE Len(rest) + 2 <= Reserve
    <3> DEFINE t == Append(rest, v)
    <3>1. Fits(rest, 1) /\ Fits(Append(rest, name), 1)
      <4>1. Fits(rest, 2)
        BY <2>5, <2>7 DEF Fits
      <4> QED
        BY <4>1, Room
    <3>2. next = Machine(Append(Append(rest, name), v))
      BY <3>1, Push DEF next
    <3>3. Height(next) - 1 = Len(rest) + 1
      <4>1. Len(Append(Append(rest, name), v)) = Len(rest) + 2 /\ Len(rest) \in Nat
        BY <2>5, OnTop2
      <4>2. Height(next) = Len(rest) + 2
        BY <3>2, <4>1, MachineIs
      <4> QED
        BY <4>1, <4>2
    <3>4. after = Machine(t)
      BY <2>5, <2>6, <3>2, <3>3, Remove2
    <3>5. /\ IsStack(t) /\ Len(t) = Len(rest) + 1 /\ t[Len(rest) + 1] = v
          /\ \A i \in 1..Len(rest) : t[i] = rest[i]
      BY <2>5, OnTop
    <3> HIDE DEF t, after
    <3>6. /\ Len(t) = Len(q) + 1 + (k + 1)
          /\ \A i \in 1..Len(q) : t[i] = q[i]
          /\ t[Len(q) + 1] = Enumerator(others)
      BY <1>0, <2>1, <2>5, <3>5 DEF Unrolls, p
    <3>7. \A j \in 1..k + 1 : t[Len(q) + 1 + j] = e[j]
      <4> SUFFICES ASSUME NEW j \in 1..k + 1 PROVE t[p + j] = e[j]
        BY DEF p
      <4>1. CASE j = k + 1
        <5>1. p + j = Len(rest) + 1
          BY <1>0, <2>5, <4>1
        <5> QED
          BY <3>5, <4>1, <5>1 DEF v
      <4>2. CASE j # k + 1
        <5>1. j \in 1..k /\ p + j \in 1..p + k /\ p + j # p
          BY <1>0, <4>2
        <5>2. r[p + j] = e[j]
          BY <2>1, <5>1 DEF Unrolls, p
        <5> QED
          BY <2>5, <3>5, <5>1, <5>2
      <4> QED
        BY <4>1, <4>2
    <3>8. Unrolls(t, q, e, k + 1)
      BY <3>5, <3>6, <3>7 DEF Unrolls, others
    <3>9. Len(q) + 2 + (k + 1) <= Reserve
      BY <1>0, <2>5, <2>7, ReserveFacts DEF p
    <3>10. UnrollsSoFar(after, q, e, k + 1)
      BY <3>4, <3>8, <3>9 DEF UnrollsSoFar
    <3> QED
      BY <3>10 DEF after, p
  <2>8. CASE ~(Len(rest) + 2 <= Reserve)
    <3>1. next.thrown
      <4>1. CASE Len(rest) >= Reserve
        <5>1. key.thrown
          BY <4>1, PushFull
        <5> HIDE DEF key
        <5> QED
          BY <5>1, Thrown DEF next
      <4>2. CASE ~(Len(rest) >= Reserve)
        <5>1. Len(rest) \in Nat /\ Len(rest) + 1 <= Reserve
          BY <1>0, <2>5, <4>2, ReserveFacts
        <5>2. key = Machine(Append(rest, name))
          BY <2>5, <5>1, Push DEF Fits
        <5>3. Len(Append(rest, name)) = Len(rest) + 1
          BY <2>5, OnTop
        <5>4. Len(Append(rest, name)) >= Reserve
          BY <2>8, <5>1, <5>3, ReserveFacts
        <5>5. duk_push(Machine(Append(rest, name)), v).thrown
          BY <5>4, PushFull
        <5> QED
          BY <5>2, <5>5 DEF next
      <4> QED
        BY <4>1, <4>2
    <3>2. after.thrown
      BY <2>6, <3>1, Thrown
    <3>3. Len(q) + 2 + (k + 1) > Reserve /\ k + 1 >= 1
      BY <1>0, <2>5, <2>8, ReserveFacts DEF p
    <3> HIDE DEF after
    <3>4. UnrollsSoFar(after, q, e, k + 1)
      BY <3>2, <3>3 DEF UnrollsSoFar
    <3> QED
      BY <3>4 DEF after, p
  <2> QED
    BY <2>7, <2>8
<1> QED
  BY <1>1, <1>2

LEMMA UnrollAll ==
  ASSUME NEW q, IsStack(q), NEW e, IsStack(e), NEW m,
         m = Machine(Append(q, Enumerator(Indexed(e))))
  PROVE  UnrollsSoFar(UnrollTurns(m, Len(q) + 1, Len(e)), q, e, Len(e))
<1> DEFINE N == Len(e)
           p == Len(q) + 1
<1>1. N \in Nat
  BY LenProperties DEF IsStack
<1>2. PICK f : IsUnrolling(f, m, p, N)
  BY <1>1, UnrollLoop
<1> DEFINE S == {n \in 0..N : UnrollsSoFar(f[n], q, e, n)}
<1>3. 0 \in S
  <2> DEFINE r == Append(q, Enumerator(Indexed(e)))
  <2>1. SubSeq(Indexed(e), 0 + 1, Len(Indexed(e))) = Indexed(e)
    BY IndexedIs, SubSeqFull DEF IsStack
  <2>2. /\ IsStack(r) /\ Len(r) = Len(q) + 1 /\ Len(q) \in Nat
        /\ r[Len(q) + 1] = Enumerator(Indexed(e)) /\ \A i \in 1..Len(q) : r[i] = q[i]
    BY OnTop
  <2> HIDE DEF r
  <2>3. Unrolls(r, q, e, 0)
    <3>1. Len(q) + 1 + 0 = Len(q) + 1 /\ \A j : j \notin 1..0
      BY <2>2
    <3> QED
      BY <2>1, <2>2, <3>1 DEF Unrolls
  <2>4. UnrollsSoFar(f[0], q, e, 0)
    BY <1>2, <2>3 DEF UnrollsSoFar, IsUnrolling, r
  <2> QED
    BY <1>1, <2>4
<1>4. \A n \in 0..N - 1 : n \in S => n + 1 \in S
  <2> SUFFICES ASSUME NEW n \in 0..N - 1, n \in S PROVE n + 1 \in S
    OBVIOUS
  <2>1. f[n + 1] = UnrollTurn(f[n], p)
    <3>1. n + 1 \in 1..N /\ n + 1 - 1 = n
      BY <1>1
    <3> QED
      BY <1>2, <3>1 DEF IsUnrolling
  <2>2. UnrollsSoFar(f[n + 1], q, e, n + 1)
    BY <2>1, UnrollStep
  <2> QED
    BY <1>1, <2>2
<1>5. \A n \in 0..N : n \in S
  <2> HIDE DEF S
  <2> QED
    BY <1>1, <1>3, <1>4, UptoInduction
<1>6. UnrollsSoFar(f[N], q, e, N)
  BY <1>1, <1>5
<1> QED
  BY <1>2, <1>6 DEF IsUnrolling

-----------------------------------------------------------------------------
(* The elements e are above the values s.                                  *)
ArgsOn(w, s, e) ==
  /\ IsStack(w) /\ Len(w) = Len(s) + Len(e)
  /\ \A i \in 1..Len(s) : w[i] = s[i]
  /\ \A j \in 1..Len(e) : w[Len(s) + j] = e[j]

LEMMA UnrollTurnsThrown ==
  ASSUME NEW m, m.thrown, NEW p, NEW N \in Nat
  PROVE  UnrollTurns(m, p, N) = m
<1>0. PICK f : IsUnrolling(f, m, p, N)
  BY UnrollLoop
<1>1. /\ f[0] = m
      /\ \A n \in 1..N : f[n] = UnrollTurn(f[n - 1], p)
      /\ UnrollTurns(m, p, N) = f[N]
  BY <1>0 DEF IsUnrolling
<1> DEFINE S == {n \in 0..N : f[n] = m}
<1>2. 0 \in S
  BY <1>1
<1>3. \A n \in 0..N - 1 : n \in S => n + 1 \in S
  <2> SUFFICES ASSUME NEW n \in 0..N - 1, n \in S PROVE n + 1 \in S
    OBVIOUS
  <2>1. f[n + 1] = UnrollTurn(f[n], p)
    <3>1. n + 1 \in 1..N /\ n + 1 - 1 = n
      OBVIOUS
    <3> QED
      BY <1>1, <3>1
  <2>2. UnrollTurn(m, p) = m
    BY Thrown DEF UnrollTurn
  <2> QED
    BY <2>1, <2>2
<1>4. \A n \in 0..N : n \in S
  <2> HIDE DEF S
  <2> QED
    BY <1>2, <1>3, UptoInduction
<1> QED
  BY <1>1, <1>4

LEMMA UnrollEnded ==
  ASSUME NEW s, IsStack(s), NEW v, NEW e, IsStack(e), NEW r,
         Unrolls(r, Append(s, v), e, Len(e))
  PROVE  \E w : UnrollEnds(Machine(r), Len(s) + 2) = Machine(w) /\ ArgsOn(w, s, e)
<1> DEFINE q == Append(s, v)
           H == Len(s)
           N == Len(e)
           r1 == RemoveAt(r, H + 2)
           w == RemoveAt(r1, H + 1)
<1>1. IsStack(q) /\ Len(q) = H + 1 /\ H \in Nat /\ N \in Nat /\ \A i \in 1..H : q[i] = s[i]
  BY OnTop, LenProperties DEF IsStack
<1> HIDE DEF q
<1>2. /\ IsStack(r) /\ Len(r) = H + 2 + N
      /\ \A i \in 1..H : r[i] = s[i]
      /\ \A j \in 1..N : r[H + 2 + j] = e[j]
  <2>1. Unrolls(r, q, e, N)
    BY DEF q
  <2>2. Len(q) + 1 + N = H + 2 + N /\ \A j \in 1..N : Len(q) + 1 + j = H + 2 + j
    BY <1>1
  <2>3. \A i \in 1..H : i \in 1..Len(q)
    BY <1>1
  <2> QED
    BY <1>1, <2>1, <2>2, <2>3 DEF Unrolls
<1>3. /\ duk_remove(Machine(r), H + 2) = Machine(r1)
      /\ IsStack(r1) /\ Len(r1) = H + 1 + N
      /\ \A i \in 1..H + 1 + N : r1[i] = IF i < H + 2 THEN r[i] ELSE r[i + 1]
  <2>1. H + 2 \in 1..Len(r) /\ Len(r) - 1 = H + 1 + N
    BY <1>1, <1>2
  <2> QED
    BY <1>2, <2>1, RemoveIs
<1> HIDE DEF r1
<1>4. /\ duk_remove(Machine(r1), H + 1) = Machine(w)
      /\ IsStack(w) /\ Len(w) = H + N
      /\ \A i \in 1..H + N : w[i] = IF i < H + 1 THEN r1[i] ELSE r1[i + 1]
  <2>1. H + 1 \in 1..Len(r1) /\ Len(r1) - 1 = H + N
    BY <1>1, <1>3
  <2> QED
    BY <1>3, <2>1, RemoveIs
<1> HIDE DEF w
<1>5. \A i \in 1..H : w[i] = s[i]
  BY <1>1, <1>2, <1>3, <1>4
<1>6. ASSUME NEW j \in 1..N PROVE w[H + j] = e[j]
  <2>1. /\ H + j \in 1..H + N /\ ~(H + j < H + 1)
        /\ H + j + 1 \in 1..H + 1 + N /\ ~(H + j + 1 < H + 2)
        /\ H + j + 1 + 1 = H + 2 + j
    BY <1>1
  <2>2. w[H + j] = r1[H + j + 1]
    BY <1>4, <2>1
  <2>3. r1[H + j + 1] = r[H + j + 1 + 1]
    BY <1>3, <2>1
  <2> QED
    BY <1>2, <2>1, <2>2, <2>3
<1>7. ArgsOn(w, s, e)
  BY <1>4, <1>5, <1>6 DEF ArgsOn
<1>8. UnrollEnds(Machine(r), H + 2) = Machine(w)
  <2>1. H + 2 - 1 = H + 1
    BY <1>1
  <2> QED
    BY <1>3, <1>4, <2>1 DEF UnrollEnds
<1> QED
  BY <1>7, <1>8

(* duk_util_unroll_array of an array above s.                              *)
LEMMA UnrolledArray ==
  ASSUME NEW s, IsStack(s), Len(s) + 1 <= Reserve,
         NEW v, v.type = "array", IsStack(v.elements)
  PROVE  LET a == duk_util_unroll_array(Machine(Append(s, v)))
             long == \/ Len(s) + 2 > Reserve
                     \/ v.elements # <<>> /\ Len(s) + 3 + Len(v.elements) > Reserve
         IN /\ long => a.thrown
            /\ ~long => \E w : a = Machine(w) /\ ArgsOn(w, s, v.elements)
<1> DEFINE e == v.elements
           q == Append(s, v)
           m == Machine(q)
           p == Len(s) + 2
           N == Len(e)
           enum == duk_enum(m, Indexed(e))
           a == duk_util_unroll_array(m)
<1>1. IsStack(q) /\ Len(q) = Len(s) + 1 /\ Len(s) \in Nat /\ N \in Nat /\ Len(q) + 1 = p
  <2>1. IsStack(q) /\ Len(q) = Len(s) + 1 /\ Len(s) \in Nat
    BY OnTop
  <2>2. N \in Nat
    BY LenProperties DEF IsStack
  <2> HIDE DEF q
  <2> QED
    BY <2>1, <2>2
<1>2. ~m.thrown /\ At(m, -1) = v /\ Height(m) + 1 = p
  BY <1>1, TopIs, MachineIs
<1>3. a = UnrollEnds(UnrollTurns(enum, p, N), p)
  <2> HIDE DEF m, p
  <2> QED
    BY <1>2 DEF duk_util_unroll_array, Indexed
<1>4. enum = duk_push(m, Enumerator(Indexed(e)))
  <2>1. IsObject(v)
    BY DEF IsObject
  <2> HIDE DEF m
  <2> QED
    BY <1>2, <2>1 DEF duk_enum
<1>5. (e # <<>>) <=> N >= 1
  BY <1>1, EmptySeq DEF IsStack
<1> HIDE DEF a, enum, p, q
<1>6. CASE Len(s) + 2 > Reserve
  <2>1. Len(q) >= Reserve
    BY <1>1, <1>6, ReserveFacts
  <2>2. enum.thrown
    BY <1>4, <2>1, PushFull
  <2>3. UnrollTurns(enum, p, N) = enum
    BY <1>1, <2>2, UnrollTurnsThrown
  <2>4. a.thrown
    BY <1>3, <2>2, <2>3, Thrown DEF UnrollEnds
  <2> QED
    BY <1>6, <2>4 DEF a, q
<1>7. CASE ~(Len(s) + 2 > Reserve)
  <2> DEFINE u == UnrollTurns(enum, p, N)
  <2>1. Fits(q, 1)
    BY <1>1, <1>7, ReserveFacts DEF Fits
  <2>2. enum = Machine(Append(q, Enumerator(Indexed(e))))
    BY <1>4, <2>1, Push
  <2>3. UnrollsSoFar(u, q, e, N)
    BY <1>1, <2>2, UnrollAll
  <2>4. Len(q) + 2 + N = Len(s) + 3 + N
    BY <1>1
  <2> HIDE DEF u
  <2>5. CASE u.thrown
    <3>1. N >= 1 /\ Len(s) + 3 + N > Reserve
      <4>1. \A r : ~Machine(r).thrown
        BY MachineIs
      <4> QED
        BY <2>3, <2>4, <2>5, <4>1 DEF UnrollsSoFar
    <3>2. a.thrown
      BY <1>3, <2>5, Thrown DEF UnrollEnds, u
    <3> QED
      BY <1>5, <3>1, <3>2 DEF a, q
  <2>6. CASE ~u.thrown
    <3>1. PICK r : u = Machine(r) /\ Unrolls(r, q, e, N)
      BY <2>3, <2>6 DEF UnrollsSoFar
    <3>2. N = 0 \/ Len(s) + 3 + N <= Reserve
      BY <2>3, <2>4, <2>6 DEF UnrollsSoFar
    <3>3. PICK w : UnrollEnds(Machine(r), Len(s) + 2) = Machine(w) /\ ArgsOn(w, s, e)
      BY <3>1, UnrollEnded DEF q
    <3>4. a = Machine(w)
      BY <1>3, <3>1, <3>3 DEF u, p
    <3>5. ~(e # <<>> /\ Len(s) + 3 + N > Reserve)
      <4>1. N = 0 => ~(e # <<>>)
        BY <1>5
      <4>2. Len(s) + 3 + N <= Reserve => ~(Len(s) + 3 + N > Reserve)
        <5>1. \A x, y \in Int : x <= y => ~(x > y)
          OBVIOUS
        <5>2. Len(s) + 3 + N \in Int /\ Reserve \in Int
          <6>1. Len(s) \in Int /\ N \in Int
            BY <1>1
          <6> HIDE DEF N
          <6> QED
            BY <6>1, ReserveFacts
        <5> QED
          BY <5>1, <5>2
      <4> QED
        BY <3>2, <4>1, <4>2
    <3> QED
      BY <1>7, <3>3, <3>4, <3>5 DEF a, q
  <2> QED
    BY <2>5, <2>6
<1> QED
  BY <1>6, <1>7

LEMMA Pop3 ==
  ASSUME NEW s, IsStack(s), NEW a, NEW b, NEW c
  PROVE  duk_pop_n(Machine(Append(Append(Append(s, a), b), c)), 3) = Machine(s)
<1> DEFINE t == Append(Append(Append(s, a), b), c)
<1>1. /\ IsStack(t) /\ Len(t) = Len(s) + 3 /\ Len(s) \in Nat
      /\ \A i \in 1..Len(s) : t[i] = s[i]
  BY OnTop3
<1> HIDE DEF t
<1>2. /\ IsStack(SubSeq(t, 1, Len(s))) /\ Len(SubSeq(t, 1, Len(s))) = Len(s)
      /\ \A i \in 1..Len(s) : SubSeq(t, 1, Len(s))[i] = t[i]
  BY <1>1, Below
<1>3. SubSeq(t, 1, Len(s)) = s
  BY <1>1, <1>2, SameStack
<1>4. duk_pop_n(Machine(t), 3) = Machine(SubSeq(t, 1, Len(s)))
  <2>1. Len(t) - 3 = Len(s) /\ ~(Len(t) < 3)
    BY <1>1
  <2> QED
    BY <2>1, MachineIs DEF duk_pop_n
<1> QED
  BY <1>1, <1>3, <1>4 DEF t

(* A call of the value below the arguments.                                *)
LEMMA CallArgs ==
  ASSUME NEW t, IsStack(t), NEW send, NEW e, IsStack(e), NEW w, ArgsOn(w, Append(t, send), e)
  PROVE  /\ duk_pop_n(Machine(w), Len(e) + 1) = Machine(t)
         /\ At(Machine(w), -Len(e) - 1) = send
<1> DEFINE s == Append(t, send)
           H == Len(t)
           N == Len(e)
<1>1. /\ IsStack(s) /\ Len(s) = H + 1 /\ H \in Nat /\ s[H + 1] = send
      /\ \A i \in 1..H : s[i] = t[i]
  BY OnTop
<1>2. N \in Nat
  BY LenProperties DEF IsStack
<1> HIDE DEF s
<1>3. IsStack(w) /\ Len(w) = H + 1 + N /\ \A i \in 1..H + 1 : w[i] = s[i]
  <2>1. ArgsOn(w, s, e)
    BY DEF s
  <2> QED
    BY <1>1, <2>1 DEF ArgsOn
<1>4. SubSeq(w, 1, H) = t
  <2>1. H \in 0..Len(w)
    BY <1>1, <1>2, <1>3
  <2>2. /\ IsStack(SubSeq(w, 1, H)) /\ Len(SubSeq(w, 1, H)) = H
        /\ \A i \in 1..H : SubSeq(w, 1, H)[i] = w[i]
    BY <1>3, <2>1, Below
  <2>3. \A i \in 1..H : w[i] = t[i]
    BY <1>1, <1>3
  <2> QED
    BY <2>2, <2>3, SameStack
<1>5. duk_pop_n(Machine(w), N + 1) = Machine(t)
  <2>1. Len(w) - (N + 1) = H /\ ~(Len(w) < N + 1)
    BY <1>1, <1>2, <1>3
  <2> QED
    BY <1>4, <2>1, MachineIs DEF duk_pop_n
<1>6. At(Machine(w), -N - 1) = send
  <2>1. Len(w) + 1 + (-N - 1) = H + 1 /\ H + 1 \in 1..H + 1
    BY <1>1, <1>2, <1>3
  <2> QED
    BY <1>1, <1>3, <2>1, MachineIs DEF At, Position
<1> QED
  BY <1>5, <1>6
=============================================================================
