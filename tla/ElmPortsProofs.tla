---------------------------- MODULE ElmPortsProofs ----------------------------
(***************************************************************************)
(* Proofs about do_something, for every program, and about the handling of *)
(* messages, for every port and parameter: the loop is reached exactly     *)
(* with ports that can be listed, and then each message does what          *)
(* InputCall, and with it Erlm, says.  A term that goes through a program, *)
(* and a value that goes through Erlang, come back as EchoIsRecognizable   *)
(* and ReturnsIffStable say.  The last part is about main and the command  *)
(* line, of any length: OptionsAsAsked.                                    *)
(***************************************************************************)
EXTENDS ElmPorts, ValueStackProofs, FiniteSetTheorems

LEMMA MaxPortsFacts == MaxPorts \in Nat /\ MaxPorts >= 1
BY PortsAssumption

ListDef(p, f, n) == IF n = 0 THEN p.first ELSE ListTurn(f[n - 1], p.kind, p.dropped)

Listing == INSTANCE RecursionTheorems WITH Parts <- Previous, Def <- ListDef

LEMMA Countdown ==
  ASSUME NEW N \in Nat
  PROVE  Listing!Ranked(0..N, [n \in 0..N |-> n])
BY DEF Listing!Ranked, Previous

(* f is what is known after each turn of the loop of ListFrom.             *)
IsListing(f, m, kind, left, dropped) ==
  /\ f[0] = [machine |-> m, ports |-> <<>>, over |-> FALSE]
  /\ \A n \in 1..Len(left) : f[n] = ListTurn(f[n - 1], kind, dropped)
  /\ ListFrom(m, kind, left, dropped)
       = [machine |-> duk_pop_n(f[Len(left)].machine, 2), ports |-> f[Len(left)].ports]

LEMMA ListLoop ==
  ASSUME NEW m, NEW kind, NEW left, NEW dropped, Len(left) \in Nat
  PROVE  \E f : IsListing(f, m, kind, left, dropped)
<1> DEFINE first == [machine |-> m, ports |-> <<>>, over |-> FALSE]
           p == [first |-> first, kind |-> kind, dropped |-> dropped]
           N == Len(left)
           Is(f) == f = [n \in 0..N |-> IF n = 0 THEN first
                                        ELSE ListTurn(f[n - 1], kind, dropped)]
           f == CHOOSE f : Is(f)
<1>1. Listing!Local(p, 0..N)
  BY DEF Listing!Local, Previous, ListDef
<1>2. \E g : g = [n \in 0..N |-> ListDef(p, g, n)]
  <2> HIDE DEF p
  <2> QED
    BY <1>1, Countdown, Listing!RecursionExists
<1>3. PICK g : g = [n \in 0..N |-> ListDef(p, g, n)]
  BY <1>2
<1>4. Is(g)
  BY <1>3 DEF ListDef
<1>5. Is(f)
  <2> HIDE DEF Is
  <2> QED
    BY <1>4
<1>6. ListFrom(m, kind, left, dropped)
        = [machine |-> duk_pop_n(f[N].machine, 2), ports |-> f[N].ports]
  BY Zenon DEF ListFrom, Iterate
<1>7. f[0] = first /\ \A n \in 1..N : f[n] = ListTurn(f[n - 1], kind, dropped)
  <2> HIDE DEF f, first
  <2> QED
    BY <1>5
<1> HIDE DEF f
<1>8. IsListing(f, m, kind, left, dropped)
  BY <1>6, <1>7 DEF IsListing
<1> QED
  BY <1>8

-----------------------------------------------------------------------------
KindUpto(kind, props, i) == {j \in 1..i : IsPort(kind, props[j][2])}

LEMMA CountStep ==
  ASSUME NEW kind, NEW props, NEW i \in Nat
  PROVE  /\ IsFiniteSet(KindUpto(kind, props, i)) /\ Cardinality(KindUpto(kind, props, i)) \in Nat
         /\ Cardinality(KindUpto(kind, props, 0)) = 0 /\ KindUpto(kind, props, 0) = {}
         /\ IsPort(kind, props[i + 1][2]) =>
              /\ KindUpto(kind, props, i + 1) = KindUpto(kind, props, i) \cup {i + 1}
              /\ Cardinality(KindUpto(kind, props, i + 1))
                      = Cardinality(KindUpto(kind, props, i)) + 1
         /\ ~IsPort(kind, props[i + 1][2]) =>
              KindUpto(kind, props, i + 1) = KindUpto(kind, props, i)
<1> DEFINE K(n) == KindUpto(kind, props, n)
<1>1. \A n \in Nat : IsFiniteSet(K(n))
  <2> SUFFICES ASSUME NEW n \in Nat PROVE IsFiniteSet(K(n))
    OBVIOUS
  <2>1. IsFiniteSet(1..n) /\ K(n) \subseteq 1..n
    BY FS_Interval DEF KindUpto
  <2> QED
    BY <2>1, FS_Subset
<1>2. K(0) = {}
  BY DEF KindUpto
<1>3. IsPort(kind, props[i + 1][2]) => K(i + 1) = K(i) \cup {i + 1}
  BY DEF KindUpto
<1>4. ~IsPort(kind, props[i + 1][2]) => K(i + 1) = K(i)
  BY DEF KindUpto
<1>5. i + 1 \notin K(i)
  BY DEF KindUpto
<1> HIDE DEF K
<1>6. Cardinality(K(i)) \in Nat /\ Cardinality(K(0)) = 0
  BY <1>1, <1>2, FS_CardinalityType, FS_EmptySet
<1>7. IsPort(kind, props[i + 1][2]) => Cardinality(K(i + 1)) = Cardinality(K(i)) + 1
  BY <1>1, <1>3, <1>5, FS_AddElement
<1> QED
  BY <1>1, <1>2, <1>3, <1>4, <1>6, <1>7 DEF K

LEMMA CountMonotonic ==
  ASSUME NEW kind, NEW props, NEW i \in Nat, NEW k \in Nat, i <= k
  PROVE  /\ Cardinality(KindUpto(kind, props, i)) <= Cardinality(KindUpto(kind, props, k))
         /\ i \in KindUpto(kind, props, k) => Cardinality(KindUpto(kind, props, i)) >= 1
<1> DEFINE K(n) == KindUpto(kind, props, n)
<1>1. K(i) \subseteq K(k) /\ (i \in K(k) => i \in K(i))
  BY DEF KindUpto
<1>2. IsFiniteSet(K(i)) /\ IsFiniteSet(K(k)) /\ Cardinality(K(i)) \in Nat
  BY CountStep
<1> HIDE DEF K
<1>3. Cardinality(K(i)) <= Cardinality(K(k))
  BY <1>1, <1>2, FS_Subset
<1>4. i \in K(k) => Cardinality(K(i)) >= 1
  <2>1. i \in K(k) => Cardinality(K(i)) # 0
    BY <1>1, <1>2, FS_EmptySet
  <2> QED
    BY <1>2, <2>1
<1> QED
  BY <1>3, <1>4 DEF K

(* The names listed after k properties: those of the ports among them.     *)
Listed(ports, kind, props, k) ==
  /\ IsStack(ports) /\ Len(ports) = Cardinality(KindUpto(kind, props, k))
  /\ \A i \in KindUpto(kind, props, k) :
       ports[Cardinality(KindUpto(kind, props, i))] = props[i][1]
  /\ \A j \in 1..Len(ports) : \E i \in KindUpto(kind, props, k) : ports[j] = props[i][1]

LEMMA ListedFirst ==
  ASSUME NEW kind, NEW props PROVE Listed(<<>>, kind, props, 0)
BY CountStep, NoValues DEF Listed

LEMMA ListedStep ==
  ASSUME NEW ports, NEW kind, NEW props, NEW k \in Nat, Listed(ports, kind, props, k)
  PROVE  /\ IsPort(kind, props[k + 1][2]) =>
              Listed(Append(ports, props[k + 1][1]), kind, props, k + 1)
         /\ ~IsPort(kind, props[k + 1][2]) => Listed(ports, kind, props, k + 1)
<1> DEFINE K(n) == KindUpto(kind, props, n)
           r == Append(ports, props[k + 1][1])
<1>1. CASE ~IsPort(kind, props[k + 1][2])
  BY <1>1, CountStep DEF Listed
<1>2. CASE IsPort(kind, props[k + 1][2])
  <2>1. K(k + 1) = K(k) \cup {k + 1} /\ Cardinality(K(k + 1)) = Cardinality(K(k)) + 1
        /\ Cardinality(K(k)) \in Nat
    <3>1. /\ Cardinality(K(k)) \in Nat
          /\ IsPort(kind, props[k + 1][2]) =>
               /\ K(k + 1) = K(k) \cup {k + 1}
               /\ Cardinality(K(k + 1)) = Cardinality(K(k)) + 1
      BY CountStep
    <3> QED
      BY <1>2, <3>1
  <2>2. /\ IsStack(r) /\ Len(r) = Len(ports) + 1 /\ r[Len(ports) + 1] = props[k + 1][1]
        /\ \A i \in 1..Len(ports) : r[i] = ports[i]
    BY OnTop DEF Listed
  <2>3. \A i \in K(k) : Cardinality(K(i)) \in 1..Cardinality(K(k))
    <3> SUFFICES ASSUME NEW i \in K(k) PROVE Cardinality(K(i)) \in 1..Cardinality(K(k))
      OBVIOUS
    <3>1. i \in Nat /\ i <= k
      BY DEF KindUpto
    <3>2. Cardinality(K(i)) \in Nat
      BY <3>1, CountStep
    <3> QED
      BY <2>1, <3>1, <3>2, CountMonotonic
  <2>4. /\ Len(ports) = Cardinality(K(k))
        /\ \A i \in K(k) : ports[Cardinality(K(i))] = props[i][1]
        /\ \A j \in 1..Len(ports) : \E i \in K(k) : ports[j] = props[i][1]
    BY DEF Listed
  <2> HIDE DEF K, r
  <2>5. \A i \in K(k + 1) : r[Cardinality(K(i))] = props[i][1]
    BY <2>1, <2>2, <2>3, <2>4
  <2>6. \A j \in 1..Len(r) : \E i \in K(k + 1) : r[j] = props[i][1]
    BY <2>1, <2>2, <2>4
  <2>7. Len(r) = Cardinality(K(k + 1))
    BY <2>1, <2>2, <2>4
  <2>8. Listed(r, kind, props, k + 1)
    BY <2>2, <2>5, <2>6, <2>7 DEF Listed, K
  <2> QED
    BY <1>2, <2>8 DEF r
<1> QED
  BY <1>1, <1>2

-----------------------------------------------------------------------------
(* Some property comes after the last port there is room for.              *)
Full(kind, props, k) ==
  \E i \in 1..k : Cardinality(KindUpto(kind, props, i - 1)) >= MaxPorts

ListsSoFar(listing, b, kind, props, dropped, k) ==
  \/ /\ ~listing.over /\ ~Full(kind, props, k)
     /\ listing.machine = Machine(Append(b, Rest(props, k)))
     /\ Listed(listing.ports, kind, props, k)
  \/ /\ listing.over /\ Full(kind, props, k)
     /\ Len(listing.ports) \in Nat /\ Len(listing.ports) >= 1
     /\ \E rest, name, v :
          listing.machine
            = duk_pop_n(Machine(Append(Append(Append(b, Enumerator(rest)), name), v)), dropped)

LEMMA ListStep ==
  ASSUME NEW b, Fits(b, 3), NEW kind, NEW props, IsStack(props), NEW dropped,
         NEW k \in 0..Len(props) - 1, NEW listing,
         ListsSoFar(listing, b, kind, props, dropped, k)
  PROVE  ListsSoFar(ListTurn(listing, kind, dropped), b, kind, props, dropped, k + 1)
<1> DEFINE after == ListTurn(listing, kind, dropped)
           left == SubSeq(props, k + 1, Len(props))
           m == Machine(Append(b, Enumerator(left)))
           r == Append(b, Rest(props, k + 1))
           name == Name(props[k + 1][1])
           value == props[k + 1][2]
           next == Machine(Append(Append(r, name), value))
<1>0. Len(props) \in Nat /\ k \in Nat /\ k + 1 \in Nat
  BY LenProperties DEF IsStack
<1>1. Full(kind, props, k + 1) <=>
        Full(kind, props, k) \/ Cardinality(KindUpto(kind, props, k)) >= MaxPorts
  <2>1. 1..k + 1 = (1..k) \cup {k + 1} /\ k + 1 - 1 = k
    BY <1>0
  <2> QED
    BY <2>1 DEF Full
<1>2. CASE listing.over
  <2>1. after = listing
    BY <1>2 DEF ListTurn
  <2> QED
    BY <1>1, <1>2, <2>1 DEF ListsSoFar
<1>3. CASE ~listing.over
  <2>1. /\ ~Full(kind, props, k) /\ listing.machine = m
        /\ Listed(listing.ports, kind, props, k)
    BY <1>3 DEF ListsSoFar, Rest
  <2>2. left # <<>> /\ Head(left) = props[k + 1] /\ Enumerator(Tail(left)) = Rest(props, k + 1)
    BY RestStep
  <2>3. HasNext(m, Height(m)) /\ duk_next(m, Height(m), TRUE) = next
    <3> HIDE DEF left
    <3> QED
      BY <2>2, Enumerated
  <2>4. IsStack(r) /\ IsStack(b)
    BY Room
  <2>5. At(next, -1) = value /\ At(next, -2) = name /\ duk_pop_n(next, 2) = Machine(r)
        /\ name.name = props[k + 1][1]
    <3> HIDE DEF r, value
    <3>1. IsStack(Append(r, name))
      BY <2>4, OnTop
    <3> QED
      BY <2>4, <3>1, TopIs, SecondIs, Pop2 DEF Name
  <2>6. Len(listing.ports) = Cardinality(KindUpto(kind, props, k)) /\ Len(listing.ports) \in Nat
    BY <1>0, <2>1, CountStep DEF Listed
  <2>7. CASE Len(listing.ports) >= MaxPorts
    <3>1. after = [machine |-> duk_pop_n(next, dropped), ports |-> listing.ports, over |-> TRUE]
      <4> HIDE DEF m, next
      <4> QED
        BY <1>3, <2>1, <2>3, <2>7 DEF ListTurn
    <3>2. /\ after.over /\ after.ports = listing.ports
          /\ after.machine = duk_pop_n(Machine(Append(Append(Append(b,
               Enumerator(SubSeq(props, k + 1 + 1, Len(props)))), name), value)), dropped)
      BY <3>1 DEF Rest
    <3>3. Full(kind, props, k + 1) /\ Len(listing.ports) >= 1
      BY <1>1, <2>6, <2>7, MaxPortsFacts
    <3> HIDE DEF after
    <3>4. ListsSoFar(after, b, kind, props, dropped, k + 1)
      BY <2>6, <3>2, <3>3 DEF ListsSoFar
    <3> QED
      BY <3>4 DEF after
  <2>8. CASE ~(Len(listing.ports) >= MaxPorts)
    <3>1. after = [machine |-> Machine(r),
                   ports   |-> IF IsPort(kind, value) THEN Append(listing.ports, props[k + 1][1])
                               ELSE listing.ports,
                   over    |-> FALSE]
      <4> HIDE DEF m, next, name, value, r
      <4> QED
        BY <1>3, <2>1, <2>3, <2>5, <2>8 DEF ListTurn
    <3>2. Listed(after.ports, kind, props, k + 1)
      BY <1>0, <2>1, <3>1, ListedStep
    <3>3. ~after.over /\ after.machine = Machine(Append(b, Rest(props, k + 1)))
      BY <3>1
    <3>4. ~Full(kind, props, k + 1)
      BY <1>1, <2>1, <2>6, <2>8, MaxPortsFacts
    <3> HIDE DEF after
    <3>5. ListsSoFar(after, b, kind, props, dropped, k + 1)
      BY <3>2, <3>3, <3>4 DEF ListsSoFar
    <3> QED
      BY <3>5 DEF after
  <2> QED
    BY <2>7, <2>8
<1> QED
  BY <1>2, <1>3

LEMMA ListsAll ==
  ASSUME NEW b, Fits(b, 3), NEW kind, NEW props, IsStack(props), NEW dropped
  PROVE  \E listing : /\ ListsSoFar(listing, b, kind, props, dropped, Len(props))
                      /\ ListFrom(Machine(Append(b, Enumerator(props))), kind, props, dropped)
                           = [machine |-> duk_pop_n(listing.machine, 2), ports |-> listing.ports]
<1> DEFINE N == Len(props)
           m == Machine(Append(b, Enumerator(props)))
<1>1. N \in Nat /\ SubSeq(props, 0 + 1, N) = props
  BY LenProperties, SubSeqFull DEF IsStack
<1>0. PICK f : IsListing(f, m, kind, props, dropped)
  BY <1>1, ListLoop
<1>2. /\ f[0] = [machine |-> m, ports |-> <<>>, over |-> FALSE]
      /\ \A n \in 1..N : f[n] = ListTurn(f[n - 1], kind, dropped)
      /\ ListFrom(m, kind, props, dropped)
           = [machine |-> duk_pop_n(f[N].machine, 2), ports |-> f[N].ports]
  <2> HIDE DEF m
  <2> QED
    BY <1>0 DEF IsListing
<1> DEFINE S == {n \in 0..N : ListsSoFar(f[n], b, kind, props, dropped, n)}
<1>3. 0 \in S
  <2>1. ~Full(kind, props, 0)
    BY DEF Full
  <2>2. f[0].machine = Machine(Append(b, Rest(props, 0)))
    <3>1. f[0].machine = m
      BY <1>2
    <3>2. m = Machine(Append(b, Rest(props, 0)))
      BY <1>1 DEF Rest
    <3> QED
      BY <3>1, <3>2
  <2>3. ~f[0].over /\ Listed(f[0].ports, kind, props, 0)
    BY <1>2, ListedFirst
  <2> QED
    BY <1>1, <2>1, <2>2, <2>3 DEF ListsSoFar
<1>4. \A n \in 0..N - 1 : n \in S => n + 1 \in S
  <2> SUFFICES ASSUME NEW n \in 0..N - 1, n \in S PROVE n + 1 \in S
    OBVIOUS
  <2>1. f[n + 1] = ListTurn(f[n], kind, dropped)
    <3>1. n + 1 \in 1..N /\ n + 1 - 1 = n
      BY <1>1
    <3> QED
      BY <1>2, <3>1
  <2>2. ListsSoFar(f[n + 1], b, kind, props, dropped, n + 1)
    BY <2>1, ListStep
  <2> QED
    BY <1>1, <2>2
<1>5. \A n \in 0..N : n \in S
  <2> HIDE DEF S
  <2> QED
    BY <1>1, <1>3, <1>4, UptoInduction
<1>6. ListsSoFar(f[N], b, kind, props, dropped, N)
  BY <1>1, <1>5
<1> QED
  BY <1>2, <1>6

-----------------------------------------------------------------------------
EnumeratorLeft(m, app, ports) ==
  \E rest : m = Machine(Append(Append(Append(<<>>, app), ports), Enumerator(rest)))

(* What ListPorts does with an app on the stack.                           *)
LEMMA ListPortsIs ==
  ASSUME NEW app, NEW kind, NEW dropped, dropped \in {0, 2},
         IsStack(Properties(Property(app, "ports")))
  PROVE  LET L     == ListPorts(Machine(Append(<<>>, app)), kind, dropped)
             ports == Property(app, "ports")
             props == Properties(ports)
         IN /\ ~IsObject(app) =>
                 L = [machine |-> Machine(Append(<<>>, app)), ports |-> <<>>]
            /\ IsObject(app) /\ ~IsObject(ports) =>
                 L = [machine |-> Machine(Append(Append(<<>>, app), ports)), ports |-> <<>>]
            /\ IsObject(app) /\ IsObject(ports) /\ ~Full(kind, props, Len(props)) =>
                 /\ L.machine = Machine(Append(<<>>, app))
                 /\ Listed(L.ports, kind, props, Len(props))
            /\ IsObject(app) /\ IsObject(ports) /\ Full(kind, props, Len(props)) =>
                 /\ Len(L.ports) \in Nat /\ Len(L.ports) >= 1
                 /\ dropped = 2 => L.machine = Machine(Append(<<>>, app))
                 /\ dropped = 0 => EnumeratorLeft(L.machine, app, ports)
<1> DEFINE s == Append(<<>>, app)
           ports == Property(app, "ports")
           props == Properties(ports)
           b == Append(s, ports)
           L == ListPorts(Machine(s), kind, dropped)
<1>0. IsStack(<<>>) /\ Fits(s, 2) /\ IsStack(s) /\ Fits(b, 3) /\ Fits(b, 2) /\ IsStack(b)
  BY Empty, Room
<1>1. At(Machine(s), -1) = app /\ ~Machine(s).thrown
  BY <1>0, TopIs, MachineIs
<1>2. CASE ~IsObject(app)
  BY <1>1, <1>2 DEF ListPorts
<1>3. CASE IsObject(app)
  <2>1. duk_get_prop_string(Machine(s), "ports") = Machine(b)
    <3>1. app.type \notin {"undefined", "null"}
      BY <1>3 DEF IsObject
    <3>2. Fits(<<>>, 2)
      BY Empty, Room
    <3> QED
      BY <3>1, <3>2, Lookup
  <2>2. At(Machine(b), -1) = ports
    BY <1>0, TopIs
  <2>3. CASE ~IsObject(ports)
    <3>1. L = [machine |-> Machine(b), ports |-> <<>>]
      <4> HIDE DEF s, b, ports
      <4> QED
        BY <1>1, <1>3, <2>1, <2>2, <2>3 DEF ListPorts
    <3> QED
      BY <1>3, <2>3, <3>1
  <2>4. CASE IsObject(ports)
    <3>1. duk_enum(Machine(b), props) = Machine(Append(b, Enumerator(props)))
      <4> HIDE DEF s, props, ports
      <4> QED
        BY <1>0, <2>4, EnumPushed
    <3>2. L = ListFrom(Machine(Append(b, Enumerator(props))), kind, props, dropped)
      <4> HIDE DEF s, b, ports
      <4> QED
        BY <1>1, <1>3, <2>1, <2>2, <2>4, <3>1 DEF ListPorts
    <3>3. PICK listing : /\ ListsSoFar(listing, b, kind, props, dropped, Len(props))
                         /\ L = [machine |-> duk_pop_n(listing.machine, 2), ports |-> listing.ports]
      <4> HIDE DEF b, L
      <4>1. Fits(b, 3)
        BY <1>0
      <4> HIDE DEF props
      <4>2. IsStack(props)
        BY DEF props
      <4> QED
        BY <3>2, <4>1, <4>2, ListsAll
    <3>4. \A rest : duk_pop_n(Machine(Append(b, Enumerator(rest))), 2) = Machine(s)
      BY <1>0, Pop2
    <3> HIDE DEF L, b, props
    <3>5. CASE ~Full(kind, props, Len(props))
      <4>1. listing.machine = Machine(Append(b, Rest(props, Len(props))))
            /\ Listed(listing.ports, kind, props, Len(props))
        BY <3>3, <3>5 DEF ListsSoFar
      <4>2. L.machine = Machine(s) /\ Listed(L.ports, kind, props, Len(props))
        BY <3>3, <3>4, <4>1 DEF Rest
      <4> QED
        BY <1>3, <2>4, <3>5, <4>2 DEF L, props
    <3>6. CASE Full(kind, props, Len(props))
      <4>1. Len(listing.ports) \in Nat /\ Len(listing.ports) >= 1
        BY <3>3, <3>6 DEF ListsSoFar
      <4>2. PICK rest, name, v :
              listing.machine = duk_pop_n(Machine(Append(Append(Append(b, Enumerator(rest)), name), v)), dropped)
        BY <3>3, <3>6 DEF ListsSoFar
      <4> DEFINE e == Append(b, Enumerator(rest))
      <4>3. IsStack(e) /\ IsStack(Append(e, name)) /\ IsStack(Append(Append(e, name), v))
        BY <1>0, OnTop
      <4>4. dropped = 2 => L.machine = Machine(s)
        <5>1. dropped = 2 => listing.machine = Machine(e)
          BY <4>2, <4>3, Pop2
        <5> QED
          BY <3>3, <3>4, <5>1
      <4>5. dropped = 0 => L.machine = Machine(e)
        <5>1. dropped = 0 => listing.machine = Machine(Append(Append(e, name), v))
          BY <4>2, <4>3, Pop0
        <5>2. duk_pop_n(Machine(Append(Append(e, name), v)), 2) = Machine(e)
          BY <4>3, Pop2
        <5> QED
          BY <3>3, <5>1, <5>2
      <4>6. L.ports = listing.ports
        BY <3>3
      <4>7. dropped = 0 => EnumeratorLeft(L.machine, app, ports)
        <5> HIDE DEF ports
        <5> QED
          BY <4>5 DEF EnumeratorLeft, b
      <4> QED
        BY <1>3, <2>4, <3>6, <4>1, <4>4, <4>6, <4>7 DEF L, props, b
    <3> QED
      BY <3>5, <3>6 DEF props
  <2> QED
    BY <2>3, <2>4
<1> QED
  BY <1>2, <1>3

-----------------------------------------------------------------------------
SubscribeDef(p, f, n) == IF n = 0 THEN p.first ELSE SubscribePort(f[n - 1], p.names[n])

Subscribing == INSTANCE RecursionTheorems WITH Parts <- Previous, Def <- SubscribeDef

(* f is the machine after each turn of the loop of SubscribePorts.         *)
IsSubscribing(f, m, names) ==
  /\ f[0] = m
  /\ \A n \in 1..Len(names) : f[n] = SubscribePort(f[n - 1], names[n])
  /\ SubscribePorts(m, names) = f[Len(names)]

LEMMA SubscribeLoop ==
  ASSUME NEW m, NEW names, Len(names) \in Nat
  PROVE  \E f : IsSubscribing(f, m, names)
<1> DEFINE p == [first |-> m, names |-> names]
           N == Len(names)
           Is(f) == f = [n \in 0..N |-> IF n = 0 THEN m ELSE SubscribePort(f[n - 1], names[n])]
           f == CHOOSE f : Is(f)
<1>1. Subscribing!Local(p, 0..N)
  BY DEF Subscribing!Local, Previous, SubscribeDef
<1>2. \E g : g = [n \in 0..N |-> SubscribeDef(p, g, n)]
  <2>1. Subscribing!Ranked(0..N, [n \in 0..N |-> n])
    BY DEF Subscribing!Ranked, Previous
  <2> HIDE DEF p
  <2> QED
    BY <1>1, <2>1, Subscribing!RecursionExists
<1>3. PICK g : g = [n \in 0..N |-> SubscribeDef(p, g, n)]
  BY <1>2
<1>4. Is(g)
  BY <1>3 DEF SubscribeDef
<1>5. Is(f)
  <2> HIDE DEF Is
  <2> QED
    BY <1>4
<1>6. SubscribePorts(m, names) = f[N]
  BY Zenon DEF SubscribePorts, Iterate
<1>7. f[0] = m /\ \A n \in 1..N : f[n] = SubscribePort(f[n - 1], names[n])
  <2> HIDE DEF f
  <2> QED
    BY <1>5
<1> HIDE DEF f
<1>8. IsSubscribing(f, m, names)
  BY <1>6, <1>7 DEF IsSubscribing
<1> QED
  BY <1>8

(* One turn of it with the ports on the top.                               *)
LEMMA SubscribeStep ==
  ASSUME NEW s, Fits(s, 4), NEW ports, ports.type = "object",
         NEW name, Property(ports, name).type \notin {"undefined", "null"}
  PROVE  SubscribePort(Machine(Append(s, ports)), name) = Machine(Append(s, ports))
<1> DEFINE b == Append(s, ports)
           port == Property(ports, name)
           bp == Append(b, port)
           send == Property(port, "subscribe")
           bps == Append(bp, send)
           handler == Function("erlm_output_port_handler")
<1>1. Fits(s, 2) /\ Fits(s, 3) /\ Fits(b, 3) /\ Fits(b, 2) /\ IsStack(b)
      /\ Fits(bp, 2) /\ IsStack(bp) /\ Fits(bps, 1) /\ IsStack(bps)
      /\ Fits(bp, 1)
  BY Room
<1>2. duk_get_prop_string(Machine(b), name) = Machine(bp)
  <2>1. ports.type \notin {"undefined", "null"}
    OBVIOUS
  <2> QED
    BY <1>1, <2>1, Lookup
<1>3. duk_get_prop_string(Machine(bp), "subscribe") = Machine(bps)
  <2> HIDE DEF b, port
  <2>1. port.type \notin {"undefined", "null"}
    BY DEF port
  <2> QED
    BY <1>1, <2>1, Lookup
<1> HIDE DEF bps, bp
<1>4. duk_push(Machine(bps), handler) = Machine(Append(bps, handler))
  BY <1>1, Push
<1>5. duk_pop_n(Machine(Append(bps, handler)), 1 + 1) = Machine(bp)
  BY <1>1, Pop2 DEF bps
<1>6. duk_push(Machine(bp), Undefined) = Machine(Append(bp, Undefined))
  BY <1>1, Push
<1>7. duk_call(Machine(Append(bps, handler)), 1, Undefined) = Machine(Append(bp, Undefined))
  <2>1. Undefined # Error
    BY DEF Undefined, Error
  <2> QED
    BY <1>5, <1>6, <2>1 DEF duk_call, duk_pcall
<1>8. duk_pop_n(Machine(Append(bp, Undefined)), 2) = Machine(b)
  BY <1>1, Pop2 DEF bp
<1> HIDE DEF b
<1>9. SubscribePort(Machine(b), name) = Machine(b)
  BY <1>2, <1>3, <1>4, <1>7, <1>8 DEF SubscribePort, bps
<1> QED
  BY <1>9 DEF b

LEMMA SubscribeUndefined ==
  ASSUME NEW m, NEW name, m.thrown \/ At(m, -1) = Undefined
  PROVE  SubscribePort(m, name).thrown
<1>1. duk_get_prop_string(m, name).thrown
  <2>1. Undefined.type \in {"undefined", "null"}
    BY DEF Undefined
  <2> QED
    BY <2>1 DEF duk_get_prop_string, Throw
<1> DEFINE a == duk_get_prop_string(m, name)
           b == duk_get_prop_string(a, "subscribe")
           c == duk_push(b, Function("erlm_output_port_handler"))
<1>2. b.thrown
  <2> HIDE DEF a
  <2>1. a.thrown
    BY <1>1 DEF a
  <2> QED
    BY <2>1, Thrown
<1>3. c.thrown
  <2> HIDE DEF b
  <2> QED
    BY <1>2, Thrown
<1>4. duk_call(c, 1, Undefined).thrown
  <2> HIDE DEF c
  <2> QED
    BY <1>3, Thrown DEF duk_call, duk_pcall
<1> QED
  <2> HIDE DEF c
  <2> QED
    BY <1>4, Thrown DEF SubscribePort, c, b, a

LEMMA SubscribeAll ==
  ASSUME NEW s, Fits(s, 4), NEW ports, ports.type = "object",
         NEW names, IsStack(names),
         \A j \in 1..Len(names) : Property(ports, names[j]).type \notin {"undefined", "null"}
  PROVE  SubscribePorts(Machine(Append(s, ports)), names) = Machine(Append(s, ports))
<1> DEFINE m == Machine(Append(s, ports))
           N == Len(names)
<1>1. N \in Nat
  BY LenProperties DEF IsStack
<1>0. PICK f : IsSubscribing(f, m, names)
  BY <1>1, SubscribeLoop
<1>2. /\ f[0] = m
      /\ \A n \in 1..N : f[n] = SubscribePort(f[n - 1], names[n])
      /\ SubscribePorts(m, names) = f[N]
  <2> HIDE DEF m
  <2> QED
    BY <1>0 DEF IsSubscribing
<1> DEFINE S == {n \in 0..N : f[n] = m}
<1>3. 0 \in S
  BY <1>1, <1>2
<1>4. \A n \in 0..N - 1 : n \in S => n + 1 \in S
  <2> SUFFICES ASSUME NEW n \in 0..N - 1, n \in S PROVE n + 1 \in S
    OBVIOUS
  <2>1. f[n + 1] = SubscribePort(f[n], names[n + 1]) /\ n + 1 \in 1..N
    <3>1. n + 1 \in 1..N /\ n + 1 - 1 = n
      BY <1>1
    <3> QED
      BY <1>2, <3>1
  <2>2. SubscribePort(m, names[n + 1]) = m
    BY <2>1, SubscribeStep
  <2>3. n + 1 \in 0..N
    BY <1>1
  <2> HIDE DEF m
  <2> QED
    BY <2>1, <2>2, <2>3
<1>5. \A n \in 0..N : n \in S
  <2> HIDE DEF S
  <2> QED
    BY <1>1, <1>3, <1>4, UptoInduction
<1> HIDE DEF m
<1>6. SubscribePorts(m, names) = m
  BY <1>1, <1>2, <1>5
<1> QED
  BY <1>6 DEF m

LEMMA SubscribeThrown ==
  ASSUME NEW m, NEW names, Len(names) \in Nat,
         m.thrown \/ (At(m, -1) = Undefined /\ Len(names) >= 1)
  PROVE  SubscribePorts(m, names).thrown
<1> DEFINE N == Len(names)
<1>0. PICK f : IsSubscribing(f, m, names)
  BY SubscribeLoop
<1>2. /\ f[0] = m
      /\ \A n \in 1..N : f[n] = SubscribePort(f[n - 1], names[n])
      /\ SubscribePorts(m, names) = f[N]
  BY <1>0 DEF IsSubscribing
<1> DEFINE S == {n \in 0..N : n >= 1 => f[n].thrown}
<1>3. 0 \in S
  BY <1>2
<1>4. \A n \in 0..N - 1 : n \in S => n + 1 \in S
  <2> SUFFICES ASSUME NEW n \in 0..N - 1, n \in S PROVE n + 1 \in S
    OBVIOUS
  <2>1. f[n + 1] = SubscribePort(f[n], names[n + 1])
    <3>1. n + 1 \in 1..N /\ n + 1 - 1 = n
      OBVIOUS
    <3> QED
      BY <1>2, <3>1
  <2>2. f[n].thrown \/ At(f[n], -1) = Undefined
    BY <1>2
  <2>3. f[n + 1].thrown
    BY <2>1, <2>2, SubscribeUndefined
  <2> QED
    BY <2>3
<1>5. \A n \in 0..N : n \in S
  <2> HIDE DEF S
  <2> QED
    BY <1>3, <1>4, UptoInduction
<1>6. N \in S
  BY <1>5
<1> QED
  BY <1>2, <1>6

-----------------------------------------------------------------------------
Evaluable ==
  /\ program \in Programs
  /\ program.file = "evaluates" /\ program.app # Error
  /\ Properties(program.exports) # <<>>

App == program.app
AppOnly == Append(<<>>, App)
AppAndPorts == Append(AppOnly, Ports)

(* A value without ports is above the app.                                 *)
PortsLost(m) ==
  \/ m = Machine(AppAndPorts) /\ ~IsObject(Ports)
  \/ \E rest : m = Machine(Append(AppAndPorts, Enumerator(rest)))

StartInv ==
  /\ pc \in {"main", "eval"} => machine = Machine(<<>>)
  /\ pc = "eval" => program \in Programs
  /\ calls \in Nat
  /\ pc \in {"main", "eval", "print", "evaluated"} => calls = 0
  /\ pc \in {"print", "evaluated", "loop", "send"} => Evaluable
  /\ pc = "print" => machine = Machine(AppOnly)
  /\ pc = "evaluated" => machine = Machine(AppOnly) \/ (~Listable /\ PortsLost(machine))
  /\ pc \in {"loop", "send"} =>
       /\ Listable
       /\ machine \in {Machine(AppOnly), Machine(AppAndPorts)}
       /\ calls = 0 => pc = "loop" /\ OutputsSubscribed /\ machine = Machine(AppOnly)
  /\ pc = "fatal" /\ calls = 0 => ~Listable

-----------------------------------------------------------------------------
LEMMA NothingOf ==
  ASSUME NEW v, v.type # "object"
  PROVE  Properties(v) = <<>> /\ \A name : Property(v, name) = Undefined
<1>1. Properties(v) = <<>>
  BY DEF Properties
<1>2. DOMAIN Properties(v) = {}
  BY <1>1
<1>3. ASSUME NEW name PROVE Property(v, name) = Undefined
  <2>1. {i \in DOMAIN Properties(v) : Properties(v)[i][1] = name} = {}
    BY <1>2
  <2> QED
    BY <2>1 DEF Property
<1> QED
  BY <1>1, <1>3

LEMMA AppIs ==
  ASSUME program \in Programs
  PROVE  /\ App \in {Undefined, Error} \/ App.type = "object"
         /\ App \in {Undefined, Error} => Ports = Undefined
         /\ Ports = Undefined \/ (Ports.type = "object" /\ Ports # App)
         /\ IsStack(Properties(Ports))
         /\ \A i \in DOMAIN Properties(Ports) :
              /\ Properties(Ports)[i][1] # "ports"
              /\ Properties(Ports)[i][2].type \notin {"undefined", "null"}
         /\ \A i, j \in DOMAIN Properties(Ports) :
              Properties(Ports)[i][1] = Properties(Ports)[j][1] => i = j
<1> DEFINE named == Properties(Ports)
<1>1. IsApp(App)
  BY PortsAssumption DEF App
<1>2. Ports = Property(App, "ports")
  BY DEF Ports, App
<1>3. CASE App \in {Undefined, Error}
  <2>1. App.type # "object"
    BY <1>3 DEF Undefined, Error
  <2>2. Ports = Undefined
    BY <1>2, <2>1, NothingOf
  <2>3. Undefined.type # "object"
    BY DEF Undefined
  <2>4. named = <<>>
    BY <2>2, <2>3, NothingOf
  <2>5. IsStack(named) /\ DOMAIN named = {}
    BY <2>4, NoValues
  <2> QED
    BY <1>3, <2>2, <2>5
<1>4. CASE App \notin {Undefined, Error}
  <2> QED
    BY <1>1, <1>2, <1>4 DEF IsApp, IsStack
<1> QED
  BY <1>3, <1>4

(* A property is found under its name.                                     *)
LEMMA PropertyIs ==
  ASSUME program \in Programs, NEW i \in DOMAIN Properties(Ports)
  PROVE  Property(Ports, Properties(Ports)[i][1]) = Properties(Ports)[i][2]
<1> DEFINE named == Properties(Ports)
           found == {j \in DOMAIN named : named[j][1] = named[i][1]}
<1>1. found = {i}
  BY AppIs
<1>2. i \in Int
  <2>1. DOMAIN named = 1..Len(named) /\ Len(named) \in Nat
    BY AppIs, LenProperties DEF IsStack
  <2> HIDE DEF named
  <2> QED
    BY <2>1 DEF named
<1>3. Max({i}) = i
  BY <1>2 DEF Max
<1> QED
  BY <1>1, <1>3 DEF Property

LEMMA OutputsAre == \A i : OutputsUpto(i) = KindUpto("output", Properties(Ports), i)
BY DEF OutputsUpto, KindUpto, IsPort

LEMMA ListableIs ==
  ASSUME Evaluable
  PROVE  Listable <=> /\ IsObject(App) /\ IsObject(Ports)
                      /\ ~Full("output", Properties(Ports), Len(Properties(Ports)))
<1> DEFINE named == Properties(Ports)
<1>1. DOMAIN named = 1..Len(named) /\ Len(named) \in Nat
  BY AppIs, LenProperties DEF IsStack, Evaluable
<1>2. \A i \in 1..Len(named) : /\ Cardinality(OutputsUpto(i - 1)) \in Nat
                               /\ OutputsUpto(i - 1) = KindUpto("output", named, i - 1)
  <2> SUFFICES ASSUME NEW i \in 1..Len(named)
               PROVE /\ Cardinality(OutputsUpto(i - 1)) \in Nat
                     /\ OutputsUpto(i - 1) = KindUpto("output", named, i - 1)
    OBVIOUS
  <2>1. i - 1 \in Nat
    BY <1>1
  <2> QED
    BY <2>1, OutputsAre, CountStep
<1> HIDE DEF named
<1>3. (\A i \in 1..Len(named) : Cardinality(OutputsUpto(i - 1)) < MaxPorts)
        <=> ~Full("output", named, Len(named))
  BY <1>2, MaxPortsFacts DEF Full
<1> QED
  BY <1>1, <1>3 DEF Listable, Evaluable, App, named

LEMMA Unlisted ==
  ASSUME program.app # App \/ ~IsObject(App) \/ ~IsObject(Ports)
  PROVE  ~Listable
BY DEF Listable, App

-----------------------------------------------------------------------------
LEMMA InputPortsAre ==
  ASSUME Evaluable
  PROVE  LET a == duk_elm_get_input_ports(Machine(AppOnly)).machine
         IN /\ ~IsObject(App) => a = Machine(AppOnly)
            /\ IsObject(App) /\ ~IsObject(Ports) => a = Machine(AppAndPorts)
            /\ IsObject(App) /\ IsObject(Ports) => a = Machine(AppOnly)
<1> DEFINE L == ListPorts(Machine(AppOnly), "input", 2)
<1>1. IsStack(Properties(Property(App, "ports"))) /\ Ports = Property(App, "ports")
  BY AppIs DEF Ports, App, Evaluable
<1>2. 2 \in {0, 2}
  OBVIOUS
<1>3. /\ ~IsObject(App) => L = [machine |-> Machine(AppOnly), ports |-> <<>>]
      /\ IsObject(App) /\ ~IsObject(Ports) =>
           L = [machine |-> Machine(AppAndPorts), ports |-> <<>>]
  BY <1>1, <1>2, ListPortsIs, Zenon DEF AppOnly, AppAndPorts
<1>4. IsObject(App) /\ IsObject(Ports) => L.machine = Machine(AppOnly)
  <2>1. CASE Full("input", Properties(Ports), Len(Properties(Ports)))
    BY <1>1, <1>2, <2>1, ListPortsIs, Zenon DEF AppOnly
  <2>2. CASE ~Full("input", Properties(Ports), Len(Properties(Ports)))
    BY <1>1, <1>2, <2>2, ListPortsIs, Zenon DEF AppOnly
  <2> QED
    BY <2>1, <2>2
<1> HIDE DEF L
<1> QED
  BY <1>3, <1>4 DEF duk_elm_get_input_ports, L

(* The output ports are listed unless one of them is not there.            *)
LEMMA OutputPortsAre ==
  ASSUME Evaluable
  PROVE  LET L     == duk_elm_get_output_ports(Machine(AppOnly))
             props == Properties(Ports)
         IN /\ ~IsObject(App) => L = [machine |-> Machine(AppOnly), ports |-> <<>>]
            /\ IsObject(App) /\ ~IsObject(Ports) =>
                 L = [machine |-> Machine(AppAndPorts), ports |-> <<>>]
            /\ Listable => /\ L.machine = Machine(AppOnly)
                           /\ Listed(L.ports, "output", props, Len(props))
            /\ IsObject(App) /\ IsObject(Ports) /\ ~Listable =>
                 /\ Len(L.ports) \in Nat /\ Len(L.ports) >= 1
                 /\ \E rest : L.machine = Machine(Append(AppAndPorts, Enumerator(rest)))
<1> DEFINE L == ListPorts(Machine(AppOnly), "output", 0)
           props == Properties(Ports)
<1>1. IsStack(Properties(Property(App, "ports"))) /\ Ports = Property(App, "ports")
  BY AppIs DEF Ports, App, Evaluable
<1>2. 0 \in {0, 2} /\ 0 = 0
  OBVIOUS
<1>3. /\ ~IsObject(App) => L = [machine |-> Machine(AppOnly), ports |-> <<>>]
      /\ IsObject(App) /\ ~IsObject(Ports) =>
           L = [machine |-> Machine(AppAndPorts), ports |-> <<>>]
  BY <1>1, <1>2, ListPortsIs, Zenon DEF AppOnly, AppAndPorts
<1>4. IsObject(App) /\ IsObject(Ports) /\ ~Full("output", props, Len(props)) =>
        L.machine = Machine(AppOnly) /\ Listed(L.ports, "output", props, Len(props))
  BY <1>1, <1>2, ListPortsIs, Zenon DEF AppOnly
<1>5. IsObject(App) /\ IsObject(Ports) /\ Full("output", props, Len(props)) =>
        /\ Len(L.ports) \in Nat /\ Len(L.ports) >= 1
        /\ \E rest : L.machine = Machine(Append(AppAndPorts, Enumerator(rest)))
  <2> SUFFICES ASSUME IsObject(App), IsObject(Ports), Full("output", props, Len(props))
               PROVE  /\ Len(L.ports) \in Nat /\ Len(L.ports) >= 1
                      /\ \E rest : L.machine = Machine(Append(AppAndPorts, Enumerator(rest)))
    OBVIOUS
  <2>1. Len(L.ports) \in Nat /\ Len(L.ports) >= 1
    BY <1>1, <1>2, ListPortsIs, Zenon DEF AppOnly
  <2>2. \E rest : L.machine = Machine(Append(AppAndPorts, Enumerator(rest)))
    <3>1. EnumeratorLeft(L.machine, App, Property(App, "ports"))
      BY <1>1, <1>2, ListPortsIs, Zenon DEF AppOnly
    <3> HIDE DEF L
    <3> QED
      BY <1>1, <3>1 DEF AppOnly, AppAndPorts, EnumeratorLeft
  <2> HIDE DEF L
  <2> QED
    BY <2>1, <2>2
<1>6. duk_elm_get_output_ports(Machine(AppOnly)) = L
  BY DEF duk_elm_get_output_ports
<1> HIDE DEF L, props
<1> QED
  BY <1>3, <1>4, <1>5, <1>6, ListableIs DEF props

(* What erlm_print_ports_info leaves.                                      *)
LEMMA PrintStep ==
  ASSUME Evaluable
  PROVE  LET m == duk_elm_get_output_ports(
                    duk_elm_get_input_ports(Machine(AppOnly)).machine).machine
         IN /\ ~m.thrown
            /\ m = Machine(AppOnly) \/ (~Listable /\ PortsLost(m))
<1> DEFINE a == duk_elm_get_input_ports(Machine(AppOnly)).machine
           m == duk_elm_get_output_ports(a).machine
<1>1. m = Machine(AppOnly) \/ (~Listable /\ PortsLost(m))
  <2>1. CASE IsObject(App) /\ ~IsObject(Ports)
    <3>1. a = Machine(AppAndPorts)
      BY <2>1, InputPortsAre
    <3>2. At(Machine(AppAndPorts), -1) = Ports
      <4>1. IsStack(AppOnly)
        BY Empty, Room DEF AppOnly
      <4> QED
        BY <4>1, TopIs DEF AppAndPorts
    <3>3. duk_elm_get_output_ports(Machine(AppAndPorts)).machine = Machine(AppAndPorts)
      BY <2>1, <3>2 DEF duk_elm_get_output_ports, ListPorts
    <3>4. ~Listable
      BY <2>1, Unlisted
    <3> HIDE DEF a
    <3> QED
      BY <2>1, <3>1, <3>3, <3>4 DEF PortsLost
  <2>2. CASE ~IsObject(App) \/ IsObject(Ports)
    <3>1. a = Machine(AppOnly)
      BY <2>2, InputPortsAre
    <3> HIDE DEF a
    <3> QED
      BY <2>2, <3>1, OutputPortsAre DEF PortsLost
  <2> QED
    BY <2>1, <2>2
<1> HIDE DEF m
<1>2. ~m.thrown
  BY <1>1, MachineIs DEF PortsLost
<1> QED
  BY <1>1, <1>2 DEF m

-----------------------------------------------------------------------------
(* What erlm_subscribe_all_output_ports makes of the ports it lists.       *)
Subscribed(listed) ==
  duk_pop_n(SubscribePorts(duk_get_prop_string(listed.machine, "ports"), listed.ports), 1)

LEMMA SubscribedThrown ==
  ASSUME NEW listed, Len(listed.ports) \in Nat,
         LET m == duk_get_prop_string(listed.machine, "ports")
         IN m.thrown \/ (At(m, -1) = Undefined /\ Len(listed.ports) >= 1)
  PROVE  Subscribed(listed).thrown
BY SubscribeThrown, Thrown DEF Subscribed

LEMMA OnUndefined ==
  ASSUME NEW s, IsStack(s), NEW name
  PROVE  duk_get_prop_string(Machine(Append(s, Undefined)), name).thrown
<1>1. At(Machine(Append(s, Undefined)), -1) = Undefined
  BY TopIs
<1>2. Undefined.type = "undefined"
  BY DEF Undefined
<1> QED
  BY <1>1, <1>2 DEF duk_get_prop_string, Throw

LEMMA Stacks ==
  ASSUME NEW v
  PROVE  /\ Fits(AppOnly, 4) /\ Fits(AppOnly, 3) /\ Fits(AppOnly, 2) /\ IsStack(AppOnly)
         /\ Fits(AppAndPorts, 3) /\ Fits(AppAndPorts, 2) /\ IsStack(AppAndPorts)
         /\ Fits(Append(AppAndPorts, v), 2) /\ IsStack(Append(AppAndPorts, v))
BY Empty, Room DEF AppOnly, AppAndPorts

LEMMA NoneListed == Len(<<>>) \in Nat
BY NoValues

LEMMA OnEnumerator ==
  ASSUME NEW rest
  PROVE  duk_get_prop_string(Machine(Append(AppAndPorts, Enumerator(rest))), "ports")
           = Machine(Append(Append(AppAndPorts, Enumerator(rest)), Undefined))
<1> DEFINE e == Enumerator(rest)
<1>1. e.type = "enumerator"
  BY DEF Enumerator
<1>2. Fits(AppAndPorts, 2)
  BY Stacks
<1> HIDE DEF e
<1>3. Property(e, "ports") = Undefined /\ e.type \notin {"undefined", "null"}
  BY <1>1, NothingOf
<1>4. duk_get_prop_string(Machine(Append(AppAndPorts, e)), "ports")
        = Machine(Append(Append(AppAndPorts, e), Undefined))
  BY <1>2, <1>3, Lookup
<1> QED
  BY <1>4 DEF e

(* Ports that were lost are not subscribed.                                *)
LEMMA LostStep ==
  ASSUME Evaluable, NEW m, PortsLost(m)
  PROVE  Subscribed(duk_elm_get_output_ports(m)).thrown
<1>1. CASE m = Machine(AppAndPorts) /\ ~IsObject(Ports)
  <2>1. At(m, -1) = Ports
    BY <1>1, Stacks, TopIs DEF AppAndPorts
  <2>2. duk_elm_get_output_ports(m) = [machine |-> m, ports |-> <<>>]
    BY <1>1, <2>1 DEF duk_elm_get_output_ports, ListPorts
  <2>3. Ports = Undefined
    BY <1>1, AppIs DEF Evaluable, IsObject
  <2>4. duk_get_prop_string(m, "ports").thrown
    <3>1. duk_get_prop_string(Machine(Append(AppOnly, Undefined)), "ports").thrown
      BY Stacks, OnUndefined
    <3> QED
      BY <1>1, <2>3, <3>1 DEF AppAndPorts
  <2>5. Subscribed([machine |-> m, ports |-> <<>>]).thrown
    BY <2>4, NoneListed, SubscribedThrown
  <2> QED
    BY <2>2, <2>5
<1>2. ASSUME NEW rest, m = Machine(Append(AppAndPorts, Enumerator(rest)))
      PROVE  Subscribed(duk_elm_get_output_ports(m)).thrown
  <2> DEFINE e == Append(AppAndPorts, Enumerator(rest))
             u == Machine(Append(e, Undefined))
  <2>1. At(m, -1) = Enumerator(rest) /\ IsStack(e) /\ IsObject(Enumerator(rest))
    <3>1. At(m, -1) = Enumerator(rest) /\ IsStack(e)
      BY <1>2, Stacks, TopIs
    <3>2. IsObject(Enumerator(rest))
      BY DEF Enumerator, IsObject
    <3> QED
      BY <3>1, <3>2
  <2>2. duk_get_prop_string(m, "ports") = u
    BY <1>2, OnEnumerator
  <2>3. At(u, -1) = Undefined /\ ~IsObject(Undefined)
    <3>1. ~IsObject(Undefined)
      BY DEF Undefined, IsObject
    <3> QED
      BY <2>1, <3>1, TopIs
  <2> HIDE DEF u
  <2>4. duk_elm_get_output_ports(m) = [machine |-> u, ports |-> <<>>]
    BY <2>1, <2>2, <2>3 DEF duk_elm_get_output_ports, ListPorts
  <2>5. duk_get_prop_string(u, "ports").thrown
    BY <2>1, OnUndefined DEF u
  <2>6. Subscribed([machine |-> u, ports |-> <<>>]).thrown
    BY <2>5, NoneListed, SubscribedThrown
  <2> QED
    BY <2>4, <2>6
<1> QED
  BY <1>1, <1>2 DEF PortsLost

(* The output ports of an app are subscribed if they can be listed.        *)
LEMMA ListableStep ==
  ASSUME Evaluable, Listable
  PROVE  LET L == duk_elm_get_output_ports(Machine(AppOnly))
         IN /\ Subscribed(L) = Machine(AppOnly)
            /\ Listed(L.ports, "output", Properties(Ports), Len(Properties(Ports)))
<1> DEFINE L == duk_elm_get_output_ports(Machine(AppOnly))
           props == Properties(Ports)
           N == Len(props)
<1>1. L.machine = Machine(AppOnly) /\ Listed(L.ports, "output", props, N)
  BY OutputPortsAre
<1>2. IsObject(App) /\ IsObject(Ports)
  BY DEF Listable, App
<1>3. duk_get_prop_string(Machine(AppOnly), "ports") = Machine(AppAndPorts)
  <2>1. Fits(<<>>, 2) /\ App.type \notin {"undefined", "null"}
    BY <1>2, Empty, Room DEF IsObject
  <2>2. Ports = Property(App, "ports")
    BY DEF Ports, App
  <2> QED
    BY <2>1, <2>2, Lookup DEF AppOnly, AppAndPorts
<1>4. Ports.type = "object"
  <2>1. Ports # Undefined
    BY <1>2 DEF IsObject, Undefined
  <2> QED
    BY <2>1, AppIs DEF Evaluable
<1>5. DOMAIN props = 1..N /\ N \in Nat
  BY AppIs, LenProperties DEF IsStack, Evaluable
<1> HIDE DEF L
<1>6. ASSUME NEW j \in 1..Len(L.ports)
      PROVE  Property(Ports, L.ports[j]).type \notin {"undefined", "null"}
  <2>1. PICK i \in KindUpto("output", props, N) : L.ports[j] = props[i][1]
    BY <1>1 DEF Listed
  <2>2. i \in DOMAIN props
    BY <1>5 DEF KindUpto
  <2>3. Property(Ports, props[i][1]) = props[i][2]
    BY <2>2, PropertyIs DEF Evaluable
  <2>4. props[i][2].type \notin {"undefined", "null"}
    BY <2>2, AppIs DEF Evaluable
  <2> QED
    BY <2>1, <2>3, <2>4
<1>7. IsStack(L.ports) /\ Fits(AppOnly, 4) /\ IsStack(AppOnly)
  BY <1>1, Stacks DEF Listed
<1>8. SubscribePorts(Machine(AppAndPorts), L.ports) = Machine(AppAndPorts)
  BY <1>4, <1>6, <1>7, SubscribeAll DEF AppAndPorts
<1>9. duk_pop_n(Machine(AppAndPorts), 1) = Machine(AppOnly)
  BY <1>7, Pop1 DEF AppAndPorts
<1>10. Subscribed(L) = Machine(AppOnly)
  BY <1>1, <1>3, <1>8, <1>9 DEF Subscribed
<1> QED
  BY <1>1, <1>10 DEF L

LEMMA UnlistableStep ==
  ASSUME Evaluable, ~Listable
  PROVE  Subscribed(duk_elm_get_output_ports(Machine(AppOnly))).thrown
<1> DEFINE L == duk_elm_get_output_ports(Machine(AppOnly))
<1>1. CASE ~IsObject(App)
  <2>1. L = [machine |-> Machine(AppOnly), ports |-> <<>>]
    BY <1>1, OutputPortsAre
  <2>2. App = Undefined
    <3>1. App \in {Undefined, Error} \/ App.type = "object"
      BY AppIs DEF Evaluable
    <3>2. App # Error
      BY DEF Evaluable, App
    <3> QED
      BY <1>1, <3>1, <3>2 DEF IsObject
  <2>3. duk_get_prop_string(Machine(AppOnly), "ports").thrown
    <3>1. IsStack(<<>>)
      BY NoValues
    <3>2. duk_get_prop_string(Machine(Append(<<>>, Undefined)), "ports").thrown
      BY <3>1, OnUndefined
    <3> QED
      BY <2>2, <3>2 DEF AppOnly
  <2>4. Subscribed([machine |-> Machine(AppOnly), ports |-> <<>>]).thrown
    BY <2>3, NoneListed, SubscribedThrown
  <2> QED
    BY <2>1, <2>4
<1>2. CASE IsObject(App) /\ ~IsObject(Ports)
  <2>1. L = [machine |-> Machine(AppAndPorts), ports |-> <<>>]
    BY <1>2, OutputPortsAre
  <2>2. Ports = Undefined
    BY <1>2, AppIs DEF Evaluable, IsObject
  <2>3. duk_get_prop_string(Machine(AppAndPorts), "ports").thrown
    <3>1. duk_get_prop_string(Machine(Append(AppOnly, Undefined)), "ports").thrown
      BY Stacks, OnUndefined
    <3> QED
      BY <2>2, <3>1 DEF AppAndPorts
  <2>4. Subscribed([machine |-> Machine(AppAndPorts), ports |-> <<>>]).thrown
    BY <2>3, NoneListed, SubscribedThrown
  <2> QED
    BY <2>1, <2>4
<1>3. CASE IsObject(App) /\ IsObject(Ports)
  <2>1. PICK rest : L.machine = Machine(Append(AppAndPorts, Enumerator(rest)))
    BY <1>3, OutputPortsAre
  <2>2. Len(L.ports) \in Nat /\ Len(L.ports) >= 1
    BY <1>3, OutputPortsAre
  <2>3. IsStack(Append(AppAndPorts, Enumerator(rest)))
    BY Stacks
  <2>4. duk_get_prop_string(L.machine, "ports")
          = Machine(Append(Append(AppAndPorts, Enumerator(rest)), Undefined))
    BY <2>1, OnEnumerator
  <2>5. At(Machine(Append(Append(AppAndPorts, Enumerator(rest)), Undefined)), -1) = Undefined
    BY <2>3, TopIs
  <2> HIDE DEF L
  <2>6. Subscribed(L).thrown
    BY <2>2, <2>4, <2>5, SubscribedThrown
  <2> QED
    BY <2>6 DEF L
<1> QED
  BY <1>1, <1>2, <1>3

(* The ports listed are the output ports.                                  *)
LEMMA ListedIsSubscribed ==
  ASSUME Listed(subscribed', "output", Properties(Ports)', Len(Properties(Ports)'))
  PROVE  OutputsSubscribed'
BY OutputsAre DEF Listed, OutputsSubscribed, OutputsUpto, KindUpto, IsPort

-----------------------------------------------------------------------------
Port(name) == Property(Ports, name)
Send(name) == Property(Port(name), "send")

(* The stack of a call: the app, the ports, the port and its send.         *)
AbovePorts(name) == Append(AppAndPorts, Port(name))
Callable(name) == Append(AbovePorts(name), Send(name))

(* What HandleMessage does with what its lookups find.                     *)
Args(found, term) ==
  IF found.thrown \/ ~Supported(term) THEN Throw(found)
  ELSE duk_util_unroll_array(PushTerm(found, term))

Runs(found, term) ==
  LET args == Args(found, term)
  IN ~args.thrown /\ At(args, -ArgCount(duk_erlang_push_term(term)) - 1).type = "function"

Handled(found, term) ==
  duk_pop_n(duk_pcall(Args(found, term), ArgCount(duk_erlang_push_term(term)),
                      IF Runs(found, term) THEN Undefined ELSE Error), 3)

(* What the send function of a port is given: the n values on the top.     *)
Given(m, n) == SubSeq(m.stack, Height(m) - n + 1, Height(m))

GivesElements(found, term) ==
  LET v == duk_erlang_push_term(term)
  IN /\ Supported(term) /\ v.type = "array" /\ IsStack(v.elements)
     /\ Given(Args(found, term), ArgCount(v)) = v.elements

LEMMA GivenIs ==
  ASSUME NEW s, IsStack(s), NEW e, IsStack(e), NEW w, ArgsOn(w, s, e)
  PROVE  Given(Machine(w), Len(e)) = e
<1> DEFINE H == Len(s)
           N == Len(e)
           g == SubSeq(w, H + 1, Len(w))
<1>1. /\ H \in Nat /\ N \in Nat /\ IsStack(w) /\ Len(w) = H + N
      /\ \A j \in 1..N : w[H + j] = e[j]
  BY LenProperties DEF ArgsOn, IsStack
<1>2. Given(Machine(w), N) = g
  <2>1. Len(w) - N + 1 = H + 1
    BY <1>1
  <2> QED
    BY <2>1, MachineIs DEF Given
<1>3. /\ g \in Seq(Range(w)) /\ Len(g) = N
      /\ \A j \in 1..N : g[j] = w[H + j]
  <2>1. w \in Seq(Range(w)) /\ H + 1 \in 1..Len(w) + 1 /\ Len(w) \in (H + 1) - 1..Len(w)
    BY <1>1 DEF IsStack
  <2>2. /\ g \in Seq(Range(w))
        /\ Len(g) = IF H + 1 <= Len(w) THEN Len(w) - (H + 1) + 1 ELSE 0
        /\ \A j \in 1..Len(w) - (H + 1) + 1 : g[j] = w[H + 1 + j - 1]
    BY <2>1, SubSeqProperties
  <2>3. \A j \in 1..N : H + 1 + j - 1 = H + j
    BY <1>1
  <2>4. Len(w) - (H + 1) + 1 = N
    BY <1>1
  <2> HIDE DEF g
  <2>5. Len(g) = N
    BY <1>1, <2>2
  <2> QED
    BY <2>2, <2>3, <2>4, <2>5
<1> HIDE DEF g
<1>4. IsStack(g)
  BY <1>3, AnyStack
<1>5. g = e
  BY <1>1, <1>3, <1>4, SameStack
<1> QED
  BY <1>2, <1>5

LEMMA PortIs ==
  ASSUME Evaluable, NEW name
  PROVE  Port(name) = Undefined \/ Port(name).type \notin {"undefined", "null"}
<1> DEFINE named == Properties(Ports)
           found == {i \in DOMAIN named : named[i][1] = name}
<1>1. CASE found = {}
  BY <1>1 DEF Port, Property
<1>2. ASSUME NEW i \in found
      PROVE  Port(name).type \notin {"undefined", "null"}
  <2>1. i \in DOMAIN named /\ named[i][1] = name
    OBVIOUS
  <2>2. Property(Ports, named[i][1]) = named[i][2]
    BY <2>1, PropertyIs DEF Evaluable
  <2>3. named[i][2].type \notin {"undefined", "null"}
    BY <2>1, AppIs DEF Evaluable
  <2> HIDE DEF named
  <2> QED
    BY <2>1, <2>2, <2>3 DEF Port
<1> QED
  BY <1>1, <1>2

(* Erlang finds a port above the app alone.                                *)
LEMMA LookupsFind ==
  ASSUME Evaluable, Listable, NEW name
  PROVE  /\ Port(name) # Undefined => Lookups(Machine(AppOnly), name) = Machine(Callable(name))
         /\ Port(name) = Undefined => Lookups(Machine(AppOnly), name).thrown
         /\ Lookups(Machine(AppAndPorts), name).thrown
<1>1. App.type \notin {"undefined", "null"} /\ Ports.type \notin {"undefined", "null"}
  BY DEF Listable, IsObject, App
<1>2. duk_get_prop_string(Machine(AppOnly), "ports") = Machine(AppAndPorts)
  <2>1. Fits(<<>>, 2)
    BY Empty, Room
  <2>2. Ports = Property(App, "ports")
    BY DEF Ports, App
  <2> QED
    BY <1>1, <2>1, <2>2, Lookup DEF AppOnly, AppAndPorts
<1>3. duk_get_prop_string(Machine(AppAndPorts), name) = Machine(AbovePorts(name))
  BY <1>1, Stacks, Lookup DEF AppAndPorts, AbovePorts, Port
<1>4. Lookups(Machine(AppOnly), name)
        = duk_get_prop_string(Machine(AbovePorts(name)), "send")
  BY <1>2, <1>3 DEF Lookups
<1>5. ASSUME Port(name) # Undefined
      PROVE  Lookups(Machine(AppOnly), name) = Machine(Callable(name))
  <2>1. Port(name).type \notin {"undefined", "null"}
    BY <1>5, PortIs
  <2>2. duk_get_prop_string(Machine(AbovePorts(name)), "send") = Machine(Callable(name))
    BY <2>1, Stacks, Lookup DEF AbovePorts, Callable, Send
  <2> QED
    BY <1>4, <1>5, <2>2
<1>6. ASSUME Port(name) = Undefined
      PROVE  Lookups(Machine(AppOnly), name).thrown
  <2>1. duk_get_prop_string(Machine(Append(AppAndPorts, Undefined)), "send").thrown
    BY Stacks, OnUndefined
  <2> QED
    BY <1>4, <1>6, <2>1 DEF AbovePorts
<1>7. Lookups(Machine(AppAndPorts), name).thrown
  <2>1. Property(Ports, "ports") = Undefined
    <3>1. {i \in DOMAIN Properties(Ports) : Properties(Ports)[i][1] = "ports"} = {}
      BY AppIs DEF Evaluable
    <3> QED
      BY <3>1 DEF Property
  <2>2. duk_get_prop_string(Machine(AppAndPorts), "ports")
          = Machine(Append(AppAndPorts, Undefined))
    <3>1. duk_get_prop_string(Machine(AppAndPorts), "ports")
            = Machine(Append(AppAndPorts, Property(Ports, "ports")))
      BY <1>1, Stacks, Lookup DEF AppAndPorts
    <3> QED
      BY <2>1, <3>1
  <2>3. duk_get_prop_string(Machine(Append(AppAndPorts, Undefined)), name).thrown
    BY Stacks, OnUndefined
  <2> QED
    BY <2>2, <2>3, Thrown DEF Lookups
<1> QED
  BY <1>5, <1>6, <1>7

LEMMA HandledThrown ==
  ASSUME NEW found, NEW term, Args(found, term).thrown
  PROVE  Handled(found, term).thrown /\ ~Runs(found, term)
BY Thrown DEF Handled, Runs, duk_pcall

LEMMA CallableIs ==
  ASSUME NEW name
  PROVE  /\ IsStack(AbovePorts(name)) /\ Fits(AbovePorts(name), 2) /\ Fits(AbovePorts(name), 1)
         /\ IsStack(Callable(name)) /\ Fits(Callable(name), 1) /\ Len(Callable(name)) = 4
         /\ Callable(name) = Append(AbovePorts(name), Send(name))
<1>1. Fits(AppAndPorts, 3) /\ IsStack(AppOnly)
  BY Stacks
<1>2. Fits(AbovePorts(name), 2) /\ Fits(AbovePorts(name), 1) /\ IsStack(AbovePorts(name))
  BY <1>1, Room DEF AbovePorts
<1>3. Fits(Callable(name), 1) /\ IsStack(Callable(name))
  BY <1>2, Room DEF Callable
<1>4. Len(AppOnly) = 1
  BY NoValues, OnTop DEF AppOnly
<1>5. Len(Callable(name)) = Len(AppOnly) + 3
  BY <1>1, OnTop3 DEF Callable, AbovePorts, AppAndPorts
<1>6. Len(Callable(name)) = 4
  BY <1>4, <1>5
<1> QED
  BY <1>2, <1>3, <1>6 DEF Callable

(* A call with the send of a port on the top of the stack.                 *)
LEMMA HandledIs ==
  ASSUME NEW name, NEW term, Message(term)
  PROVE  LET found == Machine(Callable(name))
             kind  == ArgsKind(term)
         IN /\ kind \in {"unsupported", "long"} =>
                 Handled(found, term).thrown /\ ~Runs(found, term)
            /\ kind \in {"array", "pairs"} =>
                 /\ Handled(found, term) = Machine(AppOnly)
                 /\ Runs(found, term) <=> Send(name).type = "function"
                 /\ GivesElements(found, term)
            /\ kind \in {"text", "scalar"} =>
                 Handled(found, term) = Machine(AppAndPorts) /\ ~Runs(found, term)
            /\ kind \in ArgsKinds
<1> DEFINE s == Callable(name)
           found == Machine(s)
           v == duk_erlang_push_term(term)
           e == v.elements
           args == Args(found, term)
           long == \/ 4 + Depth(v) > Reserve
                   \/ v.type = "array" /\ 4 + 2 > Reserve
                   \/ v.type = "array" /\ e # <<>> /\ 4 + 3 + ArgCount(v) > Reserve
           kind == ArgsKind(term)
<1>1. /\ IsStack(s) /\ Fits(s, 1) /\ Len(s) = 4 /\ ~found.thrown /\ Height(found) = 4
      /\ s = Append(AbovePorts(name), Send(name))
      /\ IsStack(AbovePorts(name)) /\ Fits(AbovePorts(name), 1)
  BY CallableIs, MachineIs
<1> HIDE DEF s
<1>2. CASE ~Supported(term)
  <2>1. kind = "unsupported"
    BY <1>2 DEF ArgsKind
  <2>2. args.thrown
    BY <1>2 DEF Args, Throw
  <2> QED
    BY <2>1, <2>2, HandledThrown DEF s, ArgsKinds
<1>3. CASE Supported(term)
  <2>1. (v.type = "array" /\ IsStack(e)) \/ v.type \in {"number", "string", "null"}
    BY <1>3, PushedIs
  <2>2. args = duk_util_unroll_array(PushTerm(found, term))
    BY <1>1, <1>3 DEF Args
  <2>3. PushTerm(found, term) =
          IF 4 + Depth(v) > Reserve THEN Throw(found) ELSE Machine(Append(s, v))
    <3>1. duk_push(found, v) = Machine(Append(s, v))
      BY <1>1, Push
    <3> HIDE DEF v, found
    <3>2. PushTerm(found, term) =
            IF Height(found) + Depth(v) > Reserve THEN Throw(found) ELSE duk_push(found, v)
      BY DEF PushTerm, v
    <3> QED
      BY <1>1, <3>1, <3>2
  <2>4. kind = IF long THEN "long"
               ELSE IF v.type = "array" THEN IF v.named # <<>> THEN "pairs" ELSE "array"
               ELSE IF term.term = "list" THEN "text" ELSE "scalar"
    BY <1>3, Zenon DEF ArgsKind
  <2>5. v.type = "array" => ArgCount(v) = Len(e)
    BY DEF ArgCount
  <2>6. v.type # "array" => ArgCount(v) = 0
    BY DEF ArgCount
  <2> HIDE DEF v, kind, args, found
  <2>7. CASE 4 + Depth(v) > Reserve
    <3>1. kind = "long"
      BY <2>4, <2>7
    <3>2. PushTerm(found, term) = Throw(found) /\ Throw(found).thrown
      BY <2>3, <2>7 DEF Throw
    <3>3. args.thrown
      BY <2>2, <3>2 DEF duk_util_unroll_array
    <3> QED
      BY <3>1, <3>3, HandledThrown DEF s, kind, args, found, ArgsKinds
  <2>8. CASE ~(4 + Depth(v) > Reserve) /\ v.type = "array"
    <3>1. args = duk_util_unroll_array(Machine(Append(s, v)))
      BY <2>2, <2>3, <2>8
    <3> DEFINE full == Len(s) + 2 > Reserve \/ (e # <<>> /\ Len(s) + 3 + Len(e) > Reserve)
    <3>2. /\ full => args.thrown
          /\ ~full => \E w : args = Machine(w) /\ ArgsOn(w, s, e)
      <4>1. Len(s) + 1 <= Reserve
        BY <1>1 DEF Fits
      <4> HIDE DEF args
      <4> QED
        BY <1>1, <2>1, <2>8, <3>1, <4>1, UnrolledArray, Zenon
    <3>3. long <=> full
      <4>1. long <=> (4 + 2 > Reserve \/ (e # <<>> /\ 4 + 3 + Len(e) > Reserve))
        BY <2>5, <2>8, Zenon
      <4> QED
        BY <1>1, <4>1, Zenon
    <3>4. CASE full
      <4>1. kind = "long" /\ args.thrown
        BY <2>4, <3>2, <3>3, <3>4
      <4> QED
        BY <4>1, HandledThrown DEF s, kind, args, found, ArgsKinds
    <3>5. CASE ~full
      <4>1. kind \in {"array", "pairs"}
        BY <2>4, <2>8, <3>3, <3>5
      <4>2. PICK w : args = Machine(w) /\ ArgsOn(w, s, e)
        BY <3>2, <3>5
      <4>3. /\ duk_pop_n(args, ArgCount(v) + 1) = Machine(AbovePorts(name))
            /\ At(args, -ArgCount(v) - 1) = Send(name)
        BY <1>1, <2>1, <2>5, <2>8, <4>2, CallArgs
      <4>4. ~args.thrown
        BY <4>2, MachineIs
      <4>5. Runs(found, term) <=> Send(name).type = "function"
        BY <4>3, <4>4 DEF Runs, args, v
      <4>6. \A result : duk_pop_n(duk_pcall(args, ArgCount(v), result), 3) = Machine(AppOnly)
        <5> SUFFICES ASSUME NEW result
                     PROVE  duk_pop_n(duk_pcall(args, ArgCount(v), result), 3) = Machine(AppOnly)
          OBVIOUS
        <5>1. duk_pcall(args, ArgCount(v), result) = Machine(Append(AbovePorts(name), result))
          BY <1>1, <4>3, Push DEF duk_pcall
        <5>2. duk_pop_n(Machine(Append(AbovePorts(name), result)), 3) = Machine(AppOnly)
          BY Stacks, Pop3 DEF AbovePorts, AppAndPorts
        <5> QED
          BY <5>1, <5>2
      <4>7. Handled(found, term) = Machine(AppOnly)
        BY <4>6 DEF Handled, args, v
      <4>8. GivesElements(found, term)
        <5>1. ArgCount(v) = Len(e) /\ Given(args, Len(e)) = e
          BY <1>1, <2>1, <2>5, <2>8, <4>2, GivenIs
        <5> QED
          BY <1>3, <2>1, <2>8, <5>1 DEF GivesElements, args, v
      <4> QED
        BY <4>1, <4>5, <4>7, <4>8 DEF s, kind, found, ArgsKinds
    <3> QED
      BY <3>4, <3>5
  <2>9. CASE ~(4 + Depth(v) > Reserve) /\ v.type # "array"
    <3> DEFINE m == Machine(Append(s, v))
    <3>1. kind \in {"text", "scalar"}
      BY <2>4, <2>9
    <3>2. At(m, -1) = v /\ ~m.thrown
      BY <1>1, TopIs, MachineIs
    <3>3. args = m
      <4>1. args = duk_util_unroll_array(m)
        BY <2>2, <2>3, <2>9
      <4> HIDE DEF m
      <4> QED
        BY <2>9, <3>2, <4>1 DEF duk_util_unroll_array
    <3>4. ArgCount(v) = 0 /\ -ArgCount(v) - 1 = -1 /\ ArgCount(v) + 1 = 1
      BY <2>6, <2>9
    <3> HIDE DEF m
    <3>5. ~Runs(found, term)
      <4>1. At(args, -ArgCount(v) - 1) = v
        BY <3>2, <3>3, <3>4
      <4>2. v.type # "function"
        BY <2>1
      <4> QED
        BY <4>1, <4>2 DEF Runs, args, v
    <3>6. \A result : duk_pop_n(duk_pcall(args, ArgCount(v), result), 3) = Machine(AppAndPorts)
      <4> SUFFICES ASSUME NEW result
                   PROVE  duk_pop_n(duk_pcall(args, ArgCount(v), result), 3) = Machine(AppAndPorts)
        OBVIOUS
      <4>1. duk_pop_n(m, 1) = Machine(s)
        BY <1>1, Pop1 DEF m
      <4>2. duk_pcall(args, ArgCount(v), result) = Machine(Append(s, result))
        BY <1>1, <3>3, <3>4, <4>1, Push DEF duk_pcall
      <4>3. duk_pop_n(Machine(Append(s, result)), 3) = Machine(AppAndPorts)
        BY <1>1, Stacks, Pop3 DEF AbovePorts
      <4> QED
        BY <4>2, <4>3
    <3>7. Handled(found, term) = Machine(AppAndPorts)
      BY <3>6 DEF Handled, args, v
    <3> QED
      BY <3>1, <3>5, <3>7 DEF s, kind, found, ArgsKinds
  <2> QED
    BY <2>7, <2>8, <2>9
<1> QED
  BY <1>2, <1>3

-----------------------------------------------------------------------------
LEMMA Joined ==
  ASSUME NEW s, IsStack(s), NEW a, NEW b
  PROVE  /\ s \o <<>> = s
         /\ s \o <<a>> = Append(s, a)
         /\ s \o <<a, b>> = Append(Append(s, a), b)
<1> DEFINE S == Range(s) \cup {a, b}
           t == s \o <<a>>
           u == s \o <<a, b>>
           v == Append(s, a)
           w == Append(Append(s, a), b)
<1>1. s \in Seq(S) /\ <<a>> \in Seq(S) /\ <<a, b>> \in Seq(S) /\ Len(s) \in Nat
  BY SeqMonotonic, LenProperties DEF IsStack
<1>2. s \o <<>> = s
  BY <1>1, ConcatEmptySeq
<1>3. IsStack(v) /\ Len(v) = Len(s) + 1 /\ v[Len(s) + 1] = a /\ \A i \in 1..Len(s) : v[i] = s[i]
  BY OnTop
<1>4. IsStack(w) /\ Len(w) = Len(s) + 2 /\ w[Len(s) + 1] = a /\ w[Len(s) + 2] = b
      /\ \A i \in 1..Len(s) : w[i] = s[i]
  BY OnTop2
<1>5. t \in Seq(S) /\ Len(t) = Len(s) + 1
      /\ \A i \in 1..Len(s) + 1 : t[i] = IF i <= Len(s) THEN s[i] ELSE <<a>>[i - Len(s)]
  <2> DEFINE z == <<a>>
  <2>1. Len(z) = 1 /\ z \in Seq(S)
    BY <1>1
  <2> HIDE DEF z, S
  <2>2. s \o z \in Seq(S) /\ Len(s \o z) = Len(s) + 1
        /\ \A i \in 1..Len(s) + 1 : (s \o z)[i] = IF i <= Len(s) THEN s[i] ELSE z[i - Len(s)]
    BY <1>1, <2>1, ConcatProperties
  <2> QED
    BY <2>2 DEF z
<1>6. u \in Seq(S) /\ Len(u) = Len(s) + 2
      /\ \A i \in 1..Len(s) + 2 : u[i] = IF i <= Len(s) THEN s[i] ELSE <<a, b>>[i - Len(s)]
  <2> DEFINE z == <<a, b>>
  <2>1. Len(z) = 2 /\ z \in Seq(S)
    BY <1>1
  <2> HIDE DEF z, S
  <2>2. s \o z \in Seq(S) /\ Len(s \o z) = Len(s) + 2
        /\ \A i \in 1..Len(s) + 2 : (s \o z)[i] = IF i <= Len(s) THEN s[i] ELSE z[i - Len(s)]
    <3>1. s \o z \in Seq(S) /\ Len(s \o z) = Len(s) + Len(z)
          /\ \A i \in 1..Len(s) + Len(z) :
               (s \o z)[i] = IF i <= Len(s) THEN s[i] ELSE z[i - Len(s)]
      BY <1>1, <2>1, ConcatProperties
    <3> QED
      BY <2>1, <3>1
  <2> QED
    BY <2>2 DEF z
<1>7. IsStack(t) /\ IsStack(u)
  <2> HIDE DEF t, u, S
  <2> QED
    BY <1>5, <1>6, AnyStack
<1> HIDE DEF t, u, v, w, S
<1>8. t = v
  <2>1. \A i \in 1..Len(s) + 1 : i <= Len(s) \/ (i = Len(s) + 1 /\ i - Len(s) = 1)
    BY <1>1
  <2>2. \A i \in 1..Len(t) : t[i] = v[i]
    BY <1>1, <1>3, <1>5, <2>1
  <2> QED
    BY <1>3, <1>5, <1>7, <2>2, SameStack
<1>9. u = w
  <2>1. \A i \in 1..Len(s) + 2 : \/ i <= Len(s)
                                 \/ i = Len(s) + 1 /\ i - Len(s) = 1 /\ ~(i <= Len(s))
                                 \/ i = Len(s) + 2 /\ i - Len(s) = 2 /\ ~(i <= Len(s))
    BY <1>1
  <2>2. \A i \in 1..Len(u) : u[i] = w[i]
    BY <1>1, <1>4, <1>6, <2>1
  <2> QED
    BY <1>4, <1>6, <1>7, <2>2, SameStack
<1> QED
  BY <1>2, <1>8, <1>9 DEF t, u, v, w

LEMMA AfterCall ==
  ASSUME NEW args \in ArgsKinds
  PROVE  StackAfter(<<"app">>, args) = IF Unrolled(args) THEN <<"app">> ELSE <<"app", "ports">>
<1> DEFINE s == <<"app">>
           p == Append(s, "ports")
           sp == Append(p, "port")
<1>1. IsStack(s) /\ IsStack(p) /\ IsStack(sp) /\ p = <<"app", "ports">>
  <2>1. IsStack(s)
    <3>1. s \in Seq({"app"})
      OBVIOUS
    <3> QED
      BY <3>1, AnyStack
  <2> QED
    BY <2>1, OnTop, Tops
<1> HIDE DEF s
<1>2. ASSUME NEW t, IsStack(t), NEW a, NEW b, NEW c
      PROVE  LET u == Append(Append(Append(t, a), b), c) IN SubSeq(u, 1, Len(u) - 3) = t
  <2> DEFINE u == Append(Append(Append(t, a), b), c)
  <2>1. Len(u) = Len(t) + 3 /\ Len(t) \in Nat /\ IsStack(u)
    BY <1>2, OnTop3
  <2>2. duk_pop_n(Machine(u), 3) = Machine(t)
    BY <1>2, Pop3
  <2> HIDE DEF u
  <2>3. ~(Len(u) < 3)
    BY <2>1
  <2>4. duk_pop_n(Machine(u), 3) = Machine(SubSeq(u, 1, Len(u) - 3))
    BY <2>3, MachineIs DEF duk_pop_n
  <2>5. SubSeq(u, 1, Len(u) - 3) = t
    BY <2>2, <2>4, MachineIs
  <2> QED
    BY <2>5 DEF u
<1>3. CASE Unrolled(args)
  <2>1. Called(s, args) = Append(sp, "result")
    <3>1. Called(s, args) = s \o <<"ports", "port">> \o <<>> \o <<"result">>
      BY <1>3 DEF Called
    <3>2. s \o <<"ports", "port">> = sp /\ sp \o <<>> = sp
             /\ sp \o <<"result">> = Append(sp, "result")
      BY <1>1, Joined
    <3> QED
      BY <3>1, <3>2
  <2>2. StackAfter(s, args) = s
    <3>1. SubSeq(Append(sp, "result"), 1, Len(Append(sp, "result")) - 3) = s
      BY <1>1, <1>2
    <3> HIDE DEF sp
    <3> QED
      BY <2>1, <3>1 DEF StackAfter
  <2> QED
    BY <1>3, <2>2 DEF s
<1>4. CASE ~Unrolled(args)
  <2>1. Called(s, args) = Append(Append(sp, "send"), "result")
    <3>1. Called(s, args) = s \o <<"ports", "port">> \o <<"send">> \o <<"result">>
      BY <1>4 DEF Called
    <3>2. s \o <<"ports", "port">> = sp /\ sp \o <<"send">> = Append(sp, "send")
      BY <1>1, Joined
    <3>3. Append(sp, "send") \o <<"result">> = Append(Append(sp, "send"), "result")
      <4> HIDE DEF sp
      <4>1. IsStack(Append(sp, "send"))
        BY <1>1, OnTop
      <4> QED
        BY <4>1, Joined
    <3> QED
      BY <3>1, <3>2, <3>3
  <2>2. StackAfter(s, args) = p
    <3> DEFINE u == Append(Append(sp, "send"), "result")
    <3>1. SubSeq(u, 1, Len(u) - 3) = p
      BY <1>1, <1>2
    <3> HIDE DEF u, p
    <3> QED
      BY <2>1, <3>1 DEF StackAfter, u
  <2> QED
    BY <1>1, <1>4, <2>2 DEF s
<1> QED
  BY <1>3, <1>4

LEMMA KindsAre ==
  ASSUME Evaluable, Listable
  PROVE  Kinds(AppOnly) = <<"app">> /\ Kinds(AppAndPorts) = <<"app", "ports">>
<1>1. AppOnly = <<App>> /\ AppAndPorts = <<App, Ports>>
  BY Tops DEF AppOnly, AppAndPorts
<1>2. Ports # App
  <2>1. Ports # Undefined
    BY DEF Listable, IsObject, Undefined
  <2> QED
    BY <2>1, AppIs DEF Evaluable
<1>3. program.app = App
  BY DEF App
<1>4. Kinds(<<App>>) = <<"app">>
  BY <1>3 DEF Kinds
<1>5. Kinds(<<App, Ports>>) = <<"app", "ports">>
  BY <1>2, <1>3 DEF Kinds
<1> QED
  BY <1>1, <1>4, <1>5

LEMMA HandleMessageIs ==
  ASSUME NEW name, NEW term, NEW returned, HandleMessage(name, term, returned)
  PROVE  LET found == Lookups(machine, name)
         IN /\ Continue(Handled(found, term), IF Runs(found, term) THEN "send" ELSE "loop")
            /\ last' = [name |-> name, term |-> term, returned |-> returned,
                         args |-> IF Runs(found, term)
                                  THEN Given(Args(found, term),
                                             ArgCount(duk_erlang_push_term(term)))
                                  ELSE NULL]
            /\ last'.name = name /\ last'.term = term
<1> DEFINE found == Lookups(machine, name)
           value == duk_erlang_push_term(term)
<1>1. /\ Continue(Handled(found, term), IF Runs(found, term) THEN "send" ELSE "loop")
      /\ last' = [name |-> name, term |-> term, returned |-> returned,
                   args |-> IF Runs(found, term)
                            THEN Given(Args(found, term), ArgCount(value)) ELSE NULL]
  BY Zenon DEF HandleMessage, Handled, Runs, Args, Given
<1> HIDE DEF found, value
<1>2. last'.name = name /\ last'.term = term
  BY <1>1
<1> QED
  BY <1>1, <1>2 DEF found, value

-----------------------------------------------------------------------------
(* One message, in a state of the loop.                                    *)
LEMMA CallStep ==
  ASSUME Evaluable, Listable, machine \in {Machine(AppOnly), Machine(AppAndPorts)},
         NEW name, NEW term, Message(term), NEW returned,
         HandleMessage(name, term, returned)
  PROVE  LET port   == PortKind(last'.name)
             args   == ArgsKind(last'.term)
             failed == Failure(Kinds(machine.stack), port, args)
         IN /\ failed # "none" => pc' = "fatal"
            /\ failed = "none" =>
                 /\ pc' \in {"send", "loop"}
                 /\ (pc' = "send") = SendRuns(port, args)
                 /\ machine' \in {Machine(AppOnly), Machine(AppAndPorts)}
                 /\ Kinds(machine'.stack) = StackAfter(Kinds(machine.stack), args)
<1> DEFINE found == Lookups(machine, name)
           port == PortKind(name)
           args == ArgsKind(term)
           failed == Failure(Kinds(machine.stack), port, args)
<1>1. /\ Continue(Handled(found, term), IF Runs(found, term) THEN "send" ELSE "loop")
      /\ last'.name = name /\ last'.term = term
  BY HandleMessageIs
<1>2. Kinds(AppOnly) = <<"app">> /\ Kinds(AppAndPorts) = <<"app", "ports">>
  BY KindsAre
<1>3. /\ Machine(AppOnly).stack = AppOnly /\ ~Machine(AppOnly).thrown
      /\ Machine(AppAndPorts).stack = AppAndPorts /\ ~Machine(AppAndPorts).thrown
  BY MachineIs
<1>4. port = IF Port(name) = Undefined THEN "unknown"
             ELSE IF Send(name).type = "function" THEN "input" ELSE "output"
  <2>1. Undefined.type # "function" /\ Properties(Undefined) = <<>>
    BY DEF Undefined, Properties
  <2>2. Port(name) = Undefined => Send(name).type # "function"
    <3>1. Undefined.type # "object"
      BY DEF Undefined
    <3>2. Property(Undefined, "send") = Undefined
      BY <3>1, NothingOf
    <3> QED
      BY <2>1, <3>2 DEF Send
  <2> QED
    BY <2>2, Zenon DEF PortKind, Port, Send
<1>5. args \in ArgsKinds
  BY HandledIs
<1> HIDE DEF args, port, found
<1>6. CASE machine = Machine(AppAndPorts)
  <2>1. failed # "none"
    <3>1. LookupFails(<<"app", "ports">>, port)
      BY DEF LookupFails
    <3> QED
      BY <1>2, <1>3, <1>6, <3>1 DEF Failure
  <2>2. found.thrown
    BY <1>6, LookupsFind DEF found
  <2>3. Args(found, term).thrown
    BY <2>2 DEF Args, Throw
  <2>4. pc' = "fatal"
    BY <1>1, <2>3, HandledThrown DEF Continue
  <2> QED
    BY <1>1, <2>1, <2>4 DEF args, port
<1>7. CASE machine = Machine(AppOnly)
  <2>0. Kinds(machine.stack) = <<"app">>
    BY <1>2, <1>3, <1>7
  <2>1. LookupFails(<<"app">>, port) <=> port = "unknown"
    BY DEF LookupFails
  <2>2. CASE Port(name) = Undefined
    <3>1. failed # "none"
      BY <1>4, <2>0, <2>1, <2>2 DEF Failure
    <3>2. found.thrown
      BY <1>7, <2>2, LookupsFind DEF found
    <3>3. Args(found, term).thrown
      BY <3>2 DEF Args, Throw
    <3>4. pc' = "fatal"
      BY <1>1, <3>3, HandledThrown DEF Continue
    <3> QED
      BY <1>1, <3>1, <3>4 DEF args, port
  <2>3. CASE Port(name) # Undefined
    <3>1. found = Machine(Callable(name))
      BY <1>7, <2>3, LookupsFind DEF found
    <3>2. port # "unknown" /\ (port = "input" <=> Send(name).type = "function")
      BY <1>4, <2>3
    <3>3. CASE args \in {"unsupported", "long"}
      <4>1. failed # "none"
        BY <2>0, <2>1, <3>2, <3>3 DEF Failure
      <4>2. Handled(found, term).thrown
        BY <3>1, <3>3, HandledIs DEF args
      <4>3. pc' = "fatal"
        BY <1>1, <4>2 DEF Continue
      <4> QED
        BY <1>1, <4>1, <4>3 DEF args, port
    <3>4. CASE args \in {"array", "pairs"}
      <4>1. failed = "none" /\ Unrolled(args)
        BY <2>0, <2>1, <3>2, <3>4 DEF Failure, Unrolled
      <4>2. /\ Handled(found, term) = Machine(AppOnly)
            /\ Runs(found, term) <=> Send(name).type = "function"
        BY <3>1, <3>4, HandledIs DEF args
      <4>3. machine' = Machine(AppOnly) /\ pc' = IF port = "input" THEN "send" ELSE "loop"
        BY <1>1, <1>3, <3>2, <4>2 DEF Continue
      <4>4. Kinds(machine'.stack) = StackAfter(Kinds(machine.stack), args)
        <5>1. Kinds(machine'.stack) = <<"app">>
          BY <1>2, <1>3, <4>3
        <5> QED
          BY <1>5, <2>0, <4>1, <5>1, AfterCall
      <4>5. (pc' = "send") = SendRuns(port, args)
        BY <4>1, <4>3 DEF SendRuns
      <4> QED
        BY <1>1, <4>1, <4>3, <4>4, <4>5 DEF args, port
    <3>5. CASE args \in {"text", "scalar"}
      <4>1. failed = "none" /\ ~Unrolled(args)
        BY <2>0, <2>1, <3>2, <3>5 DEF Failure, Unrolled
      <4>2. Handled(found, term) = Machine(AppAndPorts) /\ ~Runs(found, term)
        BY <3>1, <3>5, HandledIs DEF args
      <4>3. machine' = Machine(AppAndPorts) /\ pc' = "loop"
        BY <1>1, <1>3, <4>2 DEF Continue
      <4>4. Kinds(machine'.stack) = StackAfter(Kinds(machine.stack), args)
        <5>1. Kinds(machine'.stack) = <<"app", "ports">>
          BY <1>2, <1>3, <4>3
        <5> QED
          BY <1>5, <2>0, <4>1, <5>1, AfterCall
      <4>5. (pc' = "send") = SendRuns(port, args)
        BY <4>1, <4>3 DEF SendRuns
      <4> QED
        BY <1>1, <4>1, <4>3, <4>4, <4>5 DEF args, port
    <3> QED
      BY <1>5, <3>3, <3>4, <3>5 DEF ArgsKinds
  <2> QED
    BY <2>2, <2>3
<1> QED
  BY <1>6, <1>7

-----------------------------------------------------------------------------
(* What is said of the program stays true of the same program.             *)
LEMMA SameProgram ==
  ASSUME program' = program
  PROVE  /\ Evaluable' <=> Evaluable
         /\ Listable' <=> Listable
         /\ App' = App /\ AppOnly' = AppOnly /\ AppAndPorts' = AppAndPorts
         /\ Properties(Ports)' = Properties(Ports)
         /\ subscribed' = subscribed => (OutputsSubscribed' <=> OutputsSubscribed)
         /\ \A m : PortsLost(m)' <=> PortsLost(m)
BY DEF Evaluable, Listable, App, AppOnly, AppAndPorts, Ports, PortsLost, OutputsUpto,
       OutputsSubscribed

LEMMA SameMachine == ASSUME program' = program, machine' = machine
  PROVE PortsLost(machine)' <=> PortsLost(machine)
BY DEF PortsLost, AppAndPorts, AppOnly, App, Ports

(* The argument of every message is a term.                                *)
LEMMA Messages ==
  /\ \A t \in Terms : Message(t)
  /\ \A p : Nested(TermParts, Tuple(<<p>>)) => Message(Tuple(<<p>>))
BY PortsAssumption DEF Message

-----------------------------------------------------------------------------
LEMMA StartInit == Init => StartInv
BY DEF Init, StartInv

LEMMA StartArgument ==
  ASSUME StartInv, NEW arg, Argument(arg) PROVE StartInv'
<1>1. pc = "main" /\ pc' \in {"main", "exited"} /\ machine' = machine /\ calls' = calls
  BY DEF Argument, history
<1> QED
  BY <1>1 DEF StartInv

LEMMA StartMain ==
  ASSUME StartInv, main PROVE StartInv'
<1>1. /\ pc = "main" /\ pc' \in {"eval", "exited"} /\ machine' = machine /\ calls' = calls
      /\ pc' = "eval" => program' \in Programs
  BY DEF main, history
<1> QED
  BY <1>1 DEF StartInv

LEMMA StartEvaluate ==
  ASSUME StartInv, Evaluate PROVE StartInv'
<1> DEFINE done == duk_elm_peval_file(machine, program.exports, program.app)
<1>1. /\ pc = "eval" /\ program' = program /\ calls' = calls
      /\ machine = Machine(<<>>) /\ program \in Programs /\ calls = 0
  BY DEF Evaluate, StartInv, static, history
<1>2. program.file \in {"evaluates", "throws", "unreadable"}
  BY <1>1, PortsAssumption
<1>3. ~Machine(<<>>).thrown
  BY MachineIs
<1>4. CASE program.file # "evaluates"
  <2>1. pc' \in {"exited", "fatal"} /\ ~Listable
    BY <1>2, <1>4 DEF Evaluate, Continue, Listable
  <2> QED
    BY <1>1, <2>1, SameProgram DEF StartInv
<1>5. CASE program.file = "evaluates" /\ Properties(program.exports) = <<>>
  <2>1. done.thrown
    BY <1>1, <1>5, NotEvaluated
  <2>2. pc' = "fatal" /\ ~Listable
    BY <1>5, <2>1 DEF Evaluate, Continue, Listable
  <2> QED
    BY <1>1, <2>2, SameProgram DEF StartInv
<1>6. CASE program.file = "evaluates" /\ Properties(program.exports) # <<>>
  <2>1. done = Machine(AppOnly) /\ ~done.thrown
    BY <1>1, <1>6, Evaluated, MachineIs DEF AppOnly, App
  <2>2. /\ machine' = Machine(AppOnly)
        /\ pc' = IF program.app = Error THEN "exited"
                 ELSE IF verbose THEN "print" ELSE "evaluated"
    BY <1>6, <2>1 DEF Evaluate, Continue
  <2>3. CASE program.app = Error
    BY <1>1, <2>2, <2>3 DEF StartInv
  <2>4. CASE program.app # Error
    <3>1. Evaluable
      BY <1>1, <1>6, <2>4 DEF Evaluable
    <3>2. pc' \in {"print", "evaluated"}
      BY <2>2, <2>4
    <3> QED
      BY <1>1, <2>2, <3>1, <3>2, SameProgram DEF StartInv
  <2> QED
    BY <2>3, <2>4
<1> QED
  BY <1>4, <1>5, <1>6

LEMMA StartPrint ==
  ASSUME StartInv, erlm_print_ports_info PROVE StartInv'
<1> DEFINE m == duk_elm_get_output_ports(duk_elm_get_input_ports(Machine(AppOnly)).machine).machine
<1>1. /\ pc = "print" /\ program' = program /\ calls' = calls /\ calls = 0
      /\ machine = Machine(AppOnly) /\ Evaluable
  BY DEF erlm_print_ports_info, StartInv, static, history
<1>2. ~m.thrown /\ (m = Machine(AppOnly) \/ (~Listable /\ PortsLost(m)))
  BY <1>1, PrintStep
<1>3. machine' = m /\ pc' = "evaluated"
  BY <1>1, <1>2 DEF erlm_print_ports_info, Continue
<1> HIDE DEF m
<1>4. machine' = Machine(AppOnly)' \/ (~Listable' /\ PortsLost(machine)')
  <2>1. PortsLost(m) => PortsLost(machine)'
    BY <1>1, <1>3 DEF PortsLost, AppAndPorts, AppOnly, App, Ports
  <2> QED
    BY <1>1, <1>2, <1>3, <2>1, SameProgram
<1> QED
  BY <1>1, <1>3, <1>4, SameProgram DEF StartInv

LEMMA StartSubscribe ==
  ASSUME StartInv, erlm_subscribe_all_output_ports PROVE StartInv'
<1> DEFINE listed == duk_elm_get_output_ports(machine)
           done == Subscribed(listed)
<1>1. /\ pc = "evaluated" /\ program' = program /\ calls' = calls /\ calls = 0 /\ Evaluable
      /\ machine = Machine(AppOnly) \/ (~Listable /\ PortsLost(machine))
  BY DEF erlm_subscribe_all_output_ports, StartInv, static
<1>2. ~machine.thrown
  BY <1>1, MachineIs DEF PortsLost
<1>3. CASE no_run
  <2>1. pc' = "exited"
    BY <1>2, <1>3 DEF erlm_subscribe_all_output_ports, Continue
  <2> QED
    BY <1>1, <2>1 DEF StartInv
<1>4. CASE ~no_run
  <2>1. /\ machine' = done
        /\ pc' = IF done.thrown THEN "fatal" ELSE "loop"
        /\ subscribed' = IF done.thrown THEN <<>> ELSE listed.ports
    BY <1>4 DEF erlm_subscribe_all_output_ports, Continue, Subscribed
  <2> HIDE DEF done, listed
  <2>2. CASE Listable
    <3>1. machine = Machine(AppOnly)
      BY <1>1, <2>2
    <3>2. /\ done = Machine(AppOnly)
          /\ Listed(listed.ports, "output", Properties(Ports), Len(Properties(Ports)))
      BY <1>1, <2>2, <3>1, ListableStep DEF done, listed
    <3>3. machine' = Machine(AppOnly) /\ pc' = "loop" /\ subscribed' = listed.ports
      BY <2>1, <3>2, MachineIs
    <3>4. OutputsSubscribed'
      BY <1>1, <3>2, <3>3, SameProgram, ListedIsSubscribed
    <3> QED
      BY <1>1, <2>2, <3>3, <3>4, SameProgram DEF StartInv
  <2>3. CASE ~Listable
    <3>1. done.thrown
      BY <1>1, <2>3, UnlistableStep, LostStep DEF done, listed
    <3> QED
      BY <1>1, <2>1, <2>3, <3>1, SameProgram DEF StartInv
  <2> QED
    BY <2>2, <2>3
<1> QED
  BY <1>3, <1>4

LEMMA StartMessage ==
  ASSUME StartInv, pc = "loop", program' = program, calls' = calls + 1,
         NEW name, NEW term, Message(term), NEW returned, HandleMessage(name, term, returned)
  PROVE  StartInv'
<1>1. Evaluable /\ Listable /\ machine \in {Machine(AppOnly), Machine(AppAndPorts)}
      /\ calls' \in Nat /\ calls' # 0
  BY DEF StartInv
<1>2. \/ pc' = "fatal"
      \/ pc' \in {"send", "loop"} /\ machine' \in {Machine(AppOnly), Machine(AppAndPorts)}
  BY <1>1, CallStep, Zenon
<1> QED
  BY <1>1, <1>2, SameProgram DEF StartInv

LEMMA StartReturn ==
  ASSUME StartInv, pc = "send", pc' = "loop",
         program' = program, machine' = machine, calls' = calls, subscribed' = subscribed
  PROVE  StartInv'
BY SameProgram DEF StartInv

LEMMA StartStutter ==
  ASSUME StartInv, UNCHANGED vars PROVE StartInv'
<1>1. program' = program /\ machine' = machine /\ pc' = pc /\ calls' = calls
      /\ subscribed' = subscribed
  BY DEF vars, static, history
<1> QED
  BY <1>1, SameProgram, SameMachine DEF StartInv

LEMMA StartNext == StartInv /\ [Next]_vars => StartInv'
<1> SUFFICES ASSUME StartInv, [Next]_vars PROVE StartInv'
  OBVIOUS
<1>1. ASSUME NEW arg \in Arguments, Argument(arg) PROVE StartInv'
  BY <1>1, StartArgument
<1>2. CASE main
  BY <1>2, StartMain
<1>3. CASE Evaluate
  BY <1>3, StartEvaluate
<1>4. CASE erlm_print_ports_info
  BY <1>4, StartPrint
<1>5. CASE erlm_subscribe_all_output_ports
  BY <1>5, StartSubscribe
<1>6. ASSUME NEW name \in Names, NEW term \in Terms, erlm_handle_input_event(name, term)
      PROVE  StartInv'
  <2>1. pc = "loop" /\ calls' = calls + 1 /\ HandleMessage(name, term, NULL) /\ program' = program
    BY <1>6 DEF erlm_handle_input_event, static
  <2> QED
    BY <2>1, Messages, StartMessage
<1>7. ASSUME NEW name \in Names, SendBack(name) PROVE StartInv'
  <2>1. /\ pc = "loop" /\ calls' = calls + 1 /\ program' = program
        /\ HandleMessage(name, Tuple(<<output.packet>>), output.value)
        /\ Nested(TermParts, Tuple(<<output.packet>>))
    BY <1>7 DEF SendBack, static
  <2>2. Message(Tuple(<<output.packet>>))
    BY <2>1, Messages
  <2> QED
    BY <2>1, <2>2, StartMessage
<1>8. ASSUME NEW value, NEW of, Emit(value, of) PROVE StartInv'
  BY <1>8, StartReturn DEF Emit, static
<1>9. CASE Echo
  BY <1>8, <1>9 DEF Echo
<1>10. CASE SendReturns
  BY <1>10, StartReturn DEF SendReturns, static, history
<1>11. CASE UNCHANGED vars
  BY <1>11, StartStutter
<1> QED
  BY <1>1, <1>2, <1>3, <1>4, <1>5, <1>6, <1>7, <1>8, <1>9, <1>10, <1>11, Zenon DEF Next

(* The value stack is as each place of do_something expects it, or the      *)
(* ports of the program cannot be listed.                                  *)
THEOREM StartCorrect == Spec => []StartInv
<1>1. Init => StartInv
  BY StartInit
<1>2. StartInv /\ [Next]_vars => StartInv'
  BY StartNext
<1> QED
  BY <1>1, <1>2, PTL DEF Spec

(* The loop of do_something is reached exactly with a program whose ports  *)
(* duk_elm_get_output_ports can list, printed before or not; each of them  *)
(* has then been subscribed once and the app is alone on the stack.        *)
THEOREM StartsExactly == Spec => []StartsIffListable
<1>1. StartInv => StartsIffListable
  <2>1. Machine(AppOnly).stack = <<program.app>>
    BY MachineIs, Tops DEF AppOnly, App
  <2> QED
    BY <2>1 DEF StartInv, StartsIffListable
<1> QED
  BY <1>1, StartCorrect, PTL

-----------------------------------------------------------------------------
LEMMA CallAsAbstracted ==
  ASSUME StartInv, pc = "loop",
         NEW name, NEW term, Message(term), NEW returned, HandleMessage(name, term, returned)
  PROVE  LET port   == PortKind(last'.name)
             args   == ArgsKind(last'.term)
             failed == Failure(Kinds(machine.stack), port, args)
         IN /\ (pc' = "fatal") = (failed # "none")
            /\ failed = "none" =>
                 /\ (pc' = "send") = SendRuns(port, args)
                 /\ Kinds(machine'.stack) = StackAfter(Kinds(machine.stack), args)
<1> DEFINE port   == PortKind(last'.name)
           args   == ArgsKind(last'.term)
           failed == Failure(Kinds(machine.stack), port, args)
<1>1. Evaluable /\ Listable /\ machine \in {Machine(AppOnly), Machine(AppAndPorts)}
  BY DEF StartInv
<1>2. /\ failed # "none" => pc' = "fatal"
      /\ failed = "none" =>
           /\ pc' \in {"send", "loop"}
           /\ (pc' = "send") = SendRuns(port, args)
           /\ machine' \in {Machine(AppOnly), Machine(AppAndPorts)}
           /\ Kinds(machine'.stack) = StackAfter(Kinds(machine.stack), args)
  BY <1>1, CallStep, Zenon
<1> HIDE DEF port, args, failed
<1>3. (pc' = "fatal") = (failed # "none")
  BY <1>2
<1> QED
  BY <1>2, <1>3 DEF port, args, failed

(* Every message has the effect on the value stack, and on the process,    *)
(* that InputCall states: erlm_handle_input_event with its lookups, the    *)
(* conversion, the unrolling, the call and the three pops.                 *)
THEOREM CallsCorrect == Spec => CallsAsAbstracted
<1> DEFINE Abstracted ==
      calls' # calls =>
        LET port   == PortKind(last'.name)
            args   == ArgsKind(last'.term)
            failed == Failure(Kinds(machine.stack), port, args)
        IN /\ (pc' = "fatal") = (failed # "none")
           /\ failed = "none" =>
                /\ (pc' = "send") = SendRuns(port, args)
                /\ Kinds(machine'.stack) = StackAfter(Kinds(machine.stack), args)
<1>1. StartInv /\ [Next]_vars => [Abstracted]_vars
  <2> SUFFICES ASSUME StartInv, [Next]_vars, calls' # calls PROVE Abstracted
    OBVIOUS
  <2>1. PICK name, term, returned :
          pc = "loop" /\ Message(term) /\ HandleMessage(name, term, returned)
    <3>1. ASSUME NEW name \in Names, NEW term \in Terms, erlm_handle_input_event(name, term)
          PROVE  pc = "loop" /\ Message(term) /\ HandleMessage(name, term, NULL)
      BY <3>1, Messages DEF erlm_handle_input_event
    <3>2. ASSUME NEW name \in Names, SendBack(name)
          PROVE  LET t == Tuple(<<output.packet>>)
                 IN pc = "loop" /\ Message(t) /\ HandleMessage(name, t, output.value)
      BY <3>2, Messages DEF SendBack
    <3>3. \/ \E name \in Names, term \in Terms : erlm_handle_input_event(name, term)
          \/ \E name \in Names : SendBack(name)
      BY DEF Next, vars, history, Argument, main, Evaluate, erlm_print_ports_info,
             erlm_subscribe_all_output_ports, Emit, Echo, SendReturns
    <3> QED
      BY <3>1, <3>2, <3>3, Zenon
  <2> QED
    BY <2>1, CallAsAbstracted, Zenon
<1> HIDE DEF Abstracted
<1>2. Spec => [][Abstracted]_vars
  BY <1>1, StartCorrect, PTL DEF Spec
<1> QED
  BY <1>2 DEF CallsAsAbstracted, Abstracted

-----------------------------------------------------------------------------
(* What erlm_output_port_handler sends is the term of the value it got.    *)
LEMMA PacketIs == ASSUME NEW value PROVE PacketOf(value) = duk_erlang_get_term(value)
<1> DEFINE s == Append(<<>>, value)
           a == Array(<<Undefined>>)
           f == Function("erlm_output_port_handler")
           n == String(<<>>)
           o == Object(<<>>)
           x == Number(0)
<1>1. /\ IsStack(s) /\ Fits(s, 4) /\ s = <<value>>
  BY Empty, Room, Tops
<1> HIDE DEF s, a, f, n, o, x
<1>2. /\ IsStack(Append(s, a)) /\ Fits(Append(s, a), 3)
      /\ IsStack(Append(Append(s, a), f)) /\ Fits(Append(Append(s, a), f), 2)
      /\ IsStack(Append(s, o)) /\ Fits(Append(s, o), 3)
  BY <1>1, Room
<1>3. duk_push(Machine(s), a) = Machine(Append(s, a))
  BY <1>1, Room, Push
<1>4. duk_push(Machine(Append(s, a)), f) = Machine(Append(Append(s, a), f))
  BY <1>2, Room, Push
<1>5. duk_push(Machine(Append(Append(s, a), f)), n) = Machine(Append(Append(Append(s, a), f), n))
  BY <1>2, Room, Push
<1>6. duk_pop_n(Machine(Append(Append(Append(s, a), f), n)), 3) = Machine(s)
  BY <1>1, Pop3
<1>7. duk_push(Machine(s), o) = Machine(Append(s, o))
  BY <1>1, Room, Push
<1>8. duk_push(Machine(Append(s, o)), x) = Machine(Append(Append(s, o), x))
  BY <1>2, Room, Push
<1>9. duk_pop_n(Machine(Append(Append(s, o), x)), 2) = Machine(s)
  BY <1>1, Pop2
<1>10. At(Machine(s), -1) = value
  BY TopIs, NoValues DEF s
<1>11. PacketOf(value)
         = duk_erlang_get_term(At(duk_pop_n(duk_push(duk_push(duk_pop_n(
             duk_push(duk_push(duk_push(Machine(s), a), f), n), 3), o), x), 2), -1))
  BY <1>1 DEF PacketOf, a, f, n, o, x
<1> QED
  BY <1>3, <1>4, <1>5, <1>6, <1>7, <1>8, <1>9, <1>10, <1>11

(* The first argument of a send function comes from the first parameter.   *)
LEMMA FirstArg ==
  ASSUME NEW t, IsTerm(t), Supported(t),
         duk_erlang_push_term(t).type = "array", duk_erlang_push_term(t).elements # <<>>
  PROVE  LET u == t.elements[1]
         IN /\ duk_erlang_push_term(t).elements[1] = duk_erlang_push_term(u)
            /\ IsTerm(u) /\ Supported(u)
<1> DEFINE v == duk_erlang_push_term(t)
           e == [i \in DOMAIN t.elements |-> duk_erlang_push_term(t.elements[i])]
<1>1. /\ Nested(TermParts, t) /\ t \in Subterms(t) /\ TermParts(t) \subseteq Subterms(t)
      /\ t.term \in {"integer", "unsigned", "float", "atom", "binary", "tuple", "list"}
      /\ t.term \in {"tuple", "list"} => IsStack(t.elements)
      /\ \A u \in Subterms(t) : IsTerm(u) /\ Supported(u)
  <2>1. t.term # "pid"
    BY SupportedIs DEF IsTerm
  <2> QED
    BY <2>1, TermKinds, SupportedParts, NestedTerm
<1>2. \/ v = Array(e) /\ t.term \in {"tuple", "list"}
      \/ \E f : v = NamedArray(f)
      \/ \E n : v = Number(n)
      \/ (\E s : v = String(s)) \/ v = Null
  <2>1. PushIolist(t) = Null \/ \E s : PushIolist(t) = String(s)
    BY DEF PushIolist
  <2> QED
    BY <1>1, <2>1, PushIs
<1>3. v.type = "array" /\ v.elements # <<>>
  OBVIOUS
<1> HIDE DEF v, e
<1>4. v.elements = e /\ t.term \in {"tuple", "list"}
  BY <1>2, <1>3 DEF Array, NamedArray, Number, String, Null
<1>5. 1 \in DOMAIN t.elements
  <2>1. t.elements # <<>>
    <3>1. t.elements = <<>> => e = <<>>
      BY DEF e
    <3> QED
      BY <1>3, <1>4, <3>1
  <2> QED
    BY <1>1, <1>4, <2>1, EmptySeq, LenProperties DEF IsStack
<1>6. e[1] = duk_erlang_push_term(t.elements[1])
  BY <1>5 DEF e
<1>7. t.elements[1] \in Subterms(t)
  BY <1>1, <1>4, <1>5, ElementsAreParts
<1> QED
  BY <1>1, <1>4, <1>6, <1>7 DEF v

(* What a value is again that Erlang sends back as the only parameter.     *)
LEMMA ReturnIs ==
  ASSUME NEW v, IsValue(v), NEW t, t = Tuple(<<duk_erlang_get_term(v)>>), IsTerm(t)
  PROVE  (duk_erlang_push_term(t).elements = <<v>>) = Stable(v)
<1> DEFINE g == duk_erlang_get_term(v)
           p == duk_erlang_push_term(g)
           e == [i \in DOMAIN t.elements |-> duk_erlang_push_term(t.elements[i])]
<1>1. t.term = "tuple" /\ t.elements = <<g>> /\ TermParts(t) = {g}
  BY TupleIs
<1> HIDE DEF g
<1>2. Nested(TermParts, t) /\ IsTerm(g)
  <2>1. Nested(TermParts, t) /\ t \in Subterms(t) /\ \A u \in Subterms(t) : IsTerm(u)
    BY TermKinds
  <2>2. TermParts(t) \subseteq Subterms(t)
    BY <2>1, NestedTerm
  <2> QED
    BY <1>1, <2>1, <2>2
<1>3. duk_erlang_push_term(t) = Array(e)
  BY <1>1, <1>2, PushIs
<1>4. e = <<p>>
  <2>1. DOMAIN t.elements = 1..1 /\ t.elements[1] = g
    BY <1>1
  <2>2. e = [i \in 1..1 |-> p]
    BY <2>1
  <2> HIDE DEF e, p
  <2> QED
    BY <2>2
<1> HIDE DEF e
<1>5. duk_erlang_push_term(t).elements = <<p>>
  BY <1>3, <1>4 DEF Array
<1>6. (p = v) = Stable(v)
  <2>1. v \in Subvalues(v)
    BY ValueKinds
  <2>2. Returns(v)
    BY <2>1, ReturnIsStable
  <2> QED
    BY <1>2, <2>2 DEF Returns, g
<1>7. (<<p>> = <<v>>) = (p = v)
  <2> HIDE DEF p
  <2> QED
    OBVIOUS
<1> HIDE DEF p
<1> QED
  BY <1>5, <1>6, <1>7

-----------------------------------------------------------------------------
(* What is known of the last message and of the last output.               *)
SendsElements(message) ==
  LET v == duk_erlang_push_term(message.term)
  IN /\ IsTerm(message.term) /\ Supported(message.term)
     /\ v.type = "array" /\ message.args = v.elements

SendsBack(message) ==
  /\ IsValue(message.returned)
  /\ message.term = Tuple(<<duk_erlang_get_term(message.returned)>>) /\ IsTerm(message.term)
  /\ message.args # NULL => SendsElements(message)

MessageInv ==
  /\ pc = "send" => SendsElements(last)
  /\ last # NULL /\ last.returned # NULL => SendsBack(last)
  /\ output # NULL =>
       IsValue(output.value) /\ output.packet = duk_erlang_get_term(output.value)
  /\ EchoIsRecognizable

LEMMA MessageInit == Init => MessageInv
BY DEF Init, MessageInv, EchoIsRecognizable

LEMMA MessageSame ==
  ASSUME MessageInv, pc' # "send", last' = last, output' = output
  PROVE  MessageInv'
BY DEF MessageInv, EchoIsRecognizable

(* A message, in a state of the loop.                                      *)
LEMMA MessageHandled ==
  ASSUME StartInv, MessageInv, pc = "loop", output' = output,
         NEW name, NEW term, IsTerm(term), NEW returned, HandleMessage(name, term, returned),
         returned # NULL => IsValue(returned) /\ term = Tuple(<<duk_erlang_get_term(returned)>>)
  PROVE  MessageInv'
<1> DEFINE found == Lookups(machine, name)
           given == Given(Args(found, term), ArgCount(duk_erlang_push_term(term)))
<1>1. /\ Continue(Handled(found, term), IF Runs(found, term) THEN "send" ELSE "loop")
      /\ last' = [name |-> name, term |-> term, returned |-> returned,
                   args |-> IF Runs(found, term) THEN given ELSE NULL]
  BY HandleMessageIs
<1>2. /\ Evaluable /\ Listable /\ machine \in {Machine(AppOnly), Machine(AppAndPorts)}
      /\ Message(term)
  BY DEF StartInv, Message
<1>3. found = Machine(Callable(name)) \/ found.thrown
  BY <1>2, LookupsFind
<1> HIDE DEF found
<1>4. Runs(found, term) => GivesElements(found, term)
  <2>1. found.thrown => ~Runs(found, term)
    <3>1. found.thrown => Args(found, term).thrown
      BY DEF Args, Throw
    <3> QED
      BY <3>1, HandledThrown
  <2>2. found = Machine(Callable(name)) /\ Runs(found, term) => GivesElements(found, term)
    BY <1>2, HandledIs DEF ArgsKinds
  <2> QED
    BY <1>3, <2>1, <2>2
<1>5. pc' = "send" => Runs(found, term)
  BY <1>1 DEF Continue
<1> HIDE DEF given
<1>6. /\ last'.term = term /\ last'.returned = returned
      /\ last'.args = IF Runs(found, term) THEN given ELSE NULL
  BY <1>1
<1>7. Runs(found, term) => SendsElements(last')
  BY <1>4, <1>6 DEF SendsElements, GivesElements, given
<1>8. returned # NULL => SendsBack(last')
  BY <1>6, <1>7 DEF SendsBack
<1>9. (pc = "send" => SendsElements(last))'
  BY <1>5, <1>7
<1>10. (last # NULL /\ last.returned # NULL => SendsBack(last))'
  BY <1>6, <1>8
<1> QED
  BY <1>9, <1>10 DEF MessageInv, EchoIsRecognizable

(* A value goes to an output port.                                         *)
LEMMA MessageEmitted ==
  ASSUME MessageInv, NEW value, IsValue(value), NEW of, Emit(value, of),
         of # NULL => duk_erlang_get_term(value) = Echoed(of.elements[1])
  PROVE  MessageInv'
<1>1. /\ output' = [value |-> value, packet |-> PacketOf(value), of |-> of]
      /\ pc' = "loop" /\ last' = last
  BY DEF Emit
<1>2. output'.value = value /\ output'.packet = duk_erlang_get_term(value) /\ output'.of = of
  BY <1>1, PacketIs
<1>3. EchoIsRecognizable'
  BY <1>2 DEF EchoIsRecognizable
<1> QED
  BY <1>1, <1>2, <1>3 DEF MessageInv

LEMMA MessageEchoed ==
  ASSUME MessageInv, Echo PROVE MessageInv'
<1> DEFINE t == last.term
           v == duk_erlang_push_term(t)
           u == t.elements[1]
<1>1. pc = "send" /\ last.args # <<>> /\ Emit(last.args[1], t)
  BY DEF Echo
<1>2. IsTerm(t) /\ Supported(t) /\ v.type = "array" /\ last.args = v.elements
  BY <1>1 DEF MessageInv, SendsElements
<1>3. last.args[1] = duk_erlang_push_term(u) /\ IsTerm(u) /\ Supported(u)
  BY <1>1, <1>2, FirstArg
<1>4. IsValue(last.args[1]) /\ duk_erlang_get_term(last.args[1]) = Echoed(u)
  BY <1>3, PushIsValue, EchoIsPush
<1> QED
  BY <1>1, <1>4, MessageEmitted

LEMMA MessageNext == StartInv /\ MessageInv /\ [Next]_vars => MessageInv'
<1> SUFFICES ASSUME StartInv, MessageInv, [Next]_vars PROVE MessageInv'
  OBVIOUS
<1>1. ASSUME NEW arg \in Arguments, Argument(arg) PROVE MessageInv'
  <2>1. pc' \in {"main", "exited"} /\ last' = last /\ output' = output
    BY <1>1 DEF Argument, history
  <2> QED
    BY <2>1, MessageSame
<1>2. CASE main
  <2>1. pc' \in {"eval", "exited"} /\ last' = last /\ output' = output
    BY <1>2 DEF main, history
  <2> QED
    BY <2>1, MessageSame
<1>3. CASE Evaluate
  <2>1. pc' \in {"fatal", "exited", "print", "evaluated"} /\ last' = last /\ output' = output
    BY <1>3, Zenon DEF Evaluate, Continue, history
  <2> QED
    BY <2>1, MessageSame
<1>4. CASE erlm_print_ports_info
  <2>1. pc' \in {"fatal", "evaluated"} /\ last' = last /\ output' = output
    BY <1>4, Zenon DEF erlm_print_ports_info, Continue, history
  <2> QED
    BY <2>1, MessageSame
<1>5. CASE erlm_subscribe_all_output_ports
  <2>1. pc' \in {"fatal", "exited", "loop"} /\ last' = last /\ output' = output
    BY <1>5, Zenon DEF erlm_subscribe_all_output_ports, Continue
  <2> QED
    BY <2>1, MessageSame
<1>6. ASSUME NEW name \in Names, NEW term \in Terms, erlm_handle_input_event(name, term)
      PROVE  MessageInv'
  <2>1. pc = "loop" /\ HandleMessage(name, term, NULL) /\ output' = output
    BY <1>6 DEF erlm_handle_input_event
  <2>2. IsTerm(term)
    BY PortsAssumption
  <2> QED
    BY <2>1, <2>2, MessageHandled
<1>7. ASSUME NEW name \in Names, SendBack(name) PROVE MessageInv'
  <2> DEFINE t == Tuple(<<output.packet>>)
  <2>1. /\ pc = "loop" /\ output # NULL /\ output' = output /\ Nested(TermParts, t)
        /\ HandleMessage(name, t, output.value)
    BY <1>7 DEF SendBack
  <2>2. IsValue(output.value) /\ output.packet = duk_erlang_get_term(output.value)
    BY <2>1 DEF MessageInv
  <2>3. IsTerm(t)
    BY <2>1, <2>2, GetIsTerm
  <2> QED
    BY <2>1, <2>2, <2>3, MessageHandled
<1>8. ASSUME NEW value \in Values, Emit(value, NULL) PROVE MessageInv'
  BY <1>8, MessageEmitted, PortsAssumption
<1>9. CASE Echo
  BY <1>9, MessageEchoed
<1>10. CASE SendReturns
  <2>1. pc' = "loop" /\ last' = last /\ output' = output
    BY <1>10 DEF SendReturns, history
  <2> QED
    BY <2>1, MessageSame
<1>11. CASE UNCHANGED vars
  <2>1. pc' = pc /\ last' = last /\ output' = output
    BY <1>11 DEF vars, history
  <2> QED
    BY <2>1 DEF MessageInv, EchoIsRecognizable
<1> QED
  BY <1>1, <1>2, <1>3, <1>4, <1>5, <1>6, <1>7, <1>8, <1>9, <1>10, <1>11, Zenon DEF Next

(* A send function is given what duk_erlang_push_term makes of the          *)
(* parameters of its message, and Erlang what duk_erlang_get_term makes of  *)
(* the values sent to output ports.                                        *)
THEOREM MessagesCorrect == Spec => []MessageInv
<1>1. Init => MessageInv
  BY MessageInit
<1>2. StartInv /\ MessageInv /\ [Next]_vars => MessageInv'
  BY MessageNext
<1> QED
  BY <1>1, <1>2, StartCorrect, PTL DEF Spec

(* Of a term that Erlang sends, an Elm program sends to an output port and *)
(* Erlang gets, nothing but the fields of lists of pairs is lost, at any   *)
(* depth: duk_erlang_push_term and duk_erlang_get_term, one after the      *)
(* other, do to it what Echoed says.                                       *)
THEOREM EchoCorrect == Spec => []EchoIsRecognizable
<1>1. MessageInv => EchoIsRecognizable
  BY DEF MessageInv
<1> QED
  BY <1>1, MessagesCorrect, PTL

(* A value that goes to Erlang and back is the same again exactly when it  *)
(* is made of numbers, texts and arrays with at least one number.          *)
THEOREM ReturnsCorrect == Spec => []ReturnsIffStable
<1>1. MessageInv => ReturnsIffStable
  <2> SUFFICES ASSUME MessageInv, last # NULL, last.returned # NULL, last.args # NULL
               PROVE  (last.args = <<last.returned>>) = Stable(last.returned)
    BY DEF ReturnsIffStable
  <2>1. SendsBack(last) /\ SendsElements(last)
    BY DEF MessageInv, SendsBack
  <2>2. last.args = duk_erlang_push_term(last.term).elements
    BY <2>1 DEF SendsElements
  <2>3. (duk_erlang_push_term(last.term).elements = <<last.returned>>) = Stable(last.returned)
    BY <2>1, ReturnIs DEF SendsBack
  <2> QED
    BY <2>2, <2>3
<1> QED
  BY <1>1, MessagesCorrect, PTL

-----------------------------------------------------------------------------
(* The options by position, and the names that differ.                     *)
LEMMA OptionsAre ==
  /\ DOMAIN Options = {1, 2, 3}
  /\ Options[1].letter = "h" /\ Options[1].name = <<"help">>
  /\ Options[2].letter = "n" /\ Options[2].name = <<"no", "run">>
  /\ Options[3].letter = "v" /\ Options[3].name = <<"verbose">>
<1>1. /\ DOMAIN Options = 1..3
      /\ Options[1] = [letter |-> "h", name |-> <<"help">>]
      /\ Options[2] = [letter |-> "n", name |-> <<"no", "run">>]
      /\ Options[3] = [letter |-> "v", name |-> <<"verbose">>]
  BY DEF Options
<1>2. 1..3 = {1, 2, 3}
  OBVIOUS
<1> QED
  BY <1>1, <1>2

LEMMA Preceded ==
  ASSUME NEW S, NEW a \in Seq(S), Len(a) = 1, NEW s \in Seq(S)
  PROVE  /\ a \o s \in Seq(S) /\ Len(a \o s) = Len(s) + 1
         /\ (a \o s)[1] = a[1] /\ \A i \in 1..Len(s) : (a \o s)[i + 1] = s[i]
<1>1. /\ a \o s \in Seq(S) /\ Len(a \o s) = Len(a) + Len(s)
      /\ \A i \in 1..Len(a) + Len(s) :
           (a \o s)[i] = IF i <= Len(a) THEN a[i] ELSE s[i - Len(a)]
  BY ConcatProperties
<1> QED
  BY <1>1

LEMMA Negations ==
  /\ <<"no">> \o <<"help">> = <<"no", "help">>
  /\ <<"no">> \o <<"no", "run">> = <<"no", "no", "run">>
  /\ <<"no">> \o <<"verbose">> = <<"no", "verbose">>
<1> DEFINE Words == {"no", "help", "run", "verbose"}
<1>1. ASSUME NEW word \in Words PROVE <<"no">> \o <<word>> = <<"no", word>>
  <2> DEFINE s == <<word>>
             no == <<"no">>
             u == no \o s
  <2>1. s \in Seq(Words) /\ Len(s) = 1 /\ s[1] = word
    OBVIOUS
  <2>0. no \in Seq(Words) /\ Len(no) = 1 /\ no[1] = "no"
    OBVIOUS
  <2> HIDE DEF s, no, Words
  <2>2. u \in Seq(Words) /\ Len(u) = 2 /\ u[1] = "no" /\ u[2] = word
    <3>1. /\ u \in Seq(Words) /\ Len(u) = Len(s) + 1
          /\ u[1] = no[1] /\ \A i \in 1..Len(s) : u[i + 1] = s[i]
      BY <2>0, <2>1, Preceded
    <3> QED
      BY <2>0, <2>1, <3>1
  <2> HIDE DEF u
  <2>3. u = <<"no", word>>
    BY <2>2
  <2> QED
    BY <2>3 DEF u, s, no
<1>2. <<"no">> \o <<"no", "run">> = <<"no", "no", "run">>
  <2> DEFINE s == <<"no", "run">>
             no == <<"no">>
             u == no \o s
  <2>1. s \in Seq(Words) /\ Len(s) = 2 /\ s[1] = "no" /\ s[2] = "run"
    OBVIOUS
  <2>0. no \in Seq(Words) /\ Len(no) = 1 /\ no[1] = "no"
    OBVIOUS
  <2> HIDE DEF s, no, Words
  <2>2. u \in Seq(Words) /\ Len(u) = 3 /\ u[1] = "no" /\ u[2] = "no" /\ u[3] = "run"
    <3>1. /\ u \in Seq(Words) /\ Len(u) = Len(s) + 1
          /\ u[1] = no[1] /\ \A i \in 1..Len(s) : u[i + 1] = s[i]
      <4>1. s \in Seq(Words) /\ no \in Seq(Words) /\ Len(no) = 1
        BY <2>0, <2>1
      <4> QED
        BY ONLY <4>1, Preceded
    <3> QED
      BY <2>0, <2>1, <3>1
  <2> HIDE DEF u
  <2>3. u = <<"no", "no", "run">>
    BY <2>2
  <2> QED
    BY <2>3 DEF u, s, no
<1> QED
  BY <1>1, <1>2

LEMMA NamesDiffer ==
  /\ <<"help">> \notin {<<"no", "help">>, <<"no", "run">>, <<"no", "no", "run">>,
                        <<"verbose">>, <<"no", "verbose">>}
  /\ <<"no", "help">> \notin {<<"no", "run">>, <<"no", "no", "run">>, <<"verbose">>,
                              <<"no", "verbose">>}
  /\ <<"no", "run">> \notin {<<"no", "no", "run">>, <<"verbose">>, <<"no", "verbose">>}
  /\ <<"no", "no", "run">> \notin {<<"verbose">>, <<"no", "verbose">>}
  /\ <<"verbose">> # <<"no", "verbose">>
OBVIOUS

LEMMA FirstOptionIs ==
  /\ FirstOption({}) = 0
  /\ \A i \in {1, 2, 3} : FirstOption({i}) = i
<1>1. ASSUME NEW i \in {1, 2, 3} PROVE Min({i}) = i
  BY <1>1 DEF Min
<1> QED
  BY <1>1 DEF FirstOption

(* What a letter does.                                                     *)
LEMMA LetterIs ==
  ASSUME NEW config, config.parsed = "reading", NEW letter
  PROVE  argparse_short_opt(config, letter)
           = CASE letter = "n" -> argparse_getvalue(config, "n", 1)
               [] letter = "v" -> argparse_getvalue(config, "v", 1)
               [] letter = "h" -> [config EXCEPT !.parsed = "help"]
               [] OTHER -> [config EXCEPT !.parsed = "unknown"]
<1> DEFINE found == {i \in DOMAIN Options : Options[i].letter = letter}
<1>1. found = CASE letter = "n" -> {2} [] letter = "v" -> {3} [] letter = "h" -> {1} [] OTHER -> {}
  BY OptionsAre
<1>2. FirstOption(found)
        = CASE letter = "n" -> 2 [] letter = "v" -> 3 [] letter = "h" -> 1 [] OTHER -> 0
  <2> HIDE DEF found
  <2> QED
    BY <1>1, FirstOptionIs
<1>3. argparse_short_opt(config, letter) = Take(config, FirstOption(found), 1)
  BY DEF argparse_short_opt
<1> HIDE DEF found
<1> QED
  BY <1>2, <1>3, OptionsAre DEF Take

(* What a name does.                                                       *)
LEMMA NameIs ==
  ASSUME NEW config, config.parsed = "reading", NEW name
  PROVE  argparse_long_opt(config, name)
           = CASE name = <<"no", "run">>       -> argparse_getvalue(config, "n", 1)
               [] name = <<"no", "no", "run">> -> argparse_getvalue(config, "n", -1)
               [] name = <<"verbose">>         -> argparse_getvalue(config, "v", 1)
               [] name = <<"no", "verbose">>   -> argparse_getvalue(config, "v", -1)
               [] name = <<"help">>            -> [config EXCEPT !.parsed = "help"]
               [] name = <<"no", "help">>      -> [config EXCEPT !.parsed = "help"]
               [] OTHER -> [config EXCEPT !.parsed = "unknown"]
<1> DEFINE found == {i \in DOMAIN Options :
                       name \in {Options[i].name, <<"no">> \o Options[i].name}}
           position == FirstOption(found)
           step == IF position # 0 /\ name # Options[position].name THEN -1 ELSE 1
<1>1. argparse_long_opt(config, name) = Take(config, position, step)
  BY Zenon DEF argparse_long_opt
<1>2. \A i \in {1, 2, 3} :
        i \in found <=> name = Options[i].name \/ name = <<"no">> \o Options[i].name
  BY OptionsAre
<1>3. found \subseteq {1, 2, 3}
  BY OptionsAre
<1> HIDE DEF found
<1>4. /\ 1 \in found <=> name \in {<<"help">>, <<"no", "help">>}
      /\ 2 \in found <=> name \in {<<"no", "run">>, <<"no", "no", "run">>}
      /\ 3 \in found <=> name \in {<<"verbose">>, <<"no", "verbose">>}
  <2>2. 1 \in found <=> name = <<"help">> \/ name = <<"no", "help">>
    BY <1>2, OptionsAre, Negations
  <2>3. 2 \in found <=> name = <<"no", "run">> \/ name = <<"no", "no", "run">>
    BY <1>2, OptionsAre, Negations
  <2>4. 3 \in found <=> name = <<"verbose">> \/ name = <<"no", "verbose">>
    BY <1>2, OptionsAre, Negations
  <2> QED
    BY <2>2, <2>3, <2>4
<1>5. CASE name \in {<<"no", "run">>, <<"no", "no", "run">>}
  <2>1. found = {2}
    <3>1. 1 \notin found /\ 2 \in found /\ 3 \notin found
      BY <1>4, <1>5, NamesDiffer
    <3> QED
      BY <1>3, <3>1
  <2>2. position = 2
    BY <2>1, FirstOptionIs
  <2>3. step = IF name = <<"no", "run">> THEN 1 ELSE -1
    BY <2>2, OptionsAre
  <2>4. Take(config, position, step) = argparse_getvalue(config, "n", step)
    BY <2>2, OptionsAre DEF Take
  <2> HIDE DEF position, step
  <2> QED
    BY <1>1, <1>5, <2>3, <2>4, NamesDiffer
<1>6. CASE name \in {<<"verbose">>, <<"no", "verbose">>}
  <2>1. found = {3}
    <3>1. 1 \notin found /\ 2 \notin found /\ 3 \in found
      BY <1>4, <1>6, NamesDiffer
    <3> QED
      BY <1>3, <3>1
  <2>2. position = 3
    BY <2>1, FirstOptionIs
  <2>3. step = IF name = <<"verbose">> THEN 1 ELSE -1
    BY <2>2, OptionsAre
  <2>4. Take(config, position, step) = argparse_getvalue(config, "v", step)
    BY <2>2, OptionsAre DEF Take
  <2> HIDE DEF position, step
  <2> QED
    BY <1>1, <1>6, <2>3, <2>4, NamesDiffer
<1>7. CASE name \in {<<"help">>, <<"no", "help">>}
  <2>1. found = {1}
    <3>1. 1 \in found /\ 2 \notin found /\ 3 \notin found
      BY <1>4, <1>7, NamesDiffer
    <3> QED
      BY <1>3, <3>1
  <2>2. position = 1
    BY <2>1, FirstOptionIs
  <2>3. Take(config, position, step) = [config EXCEPT !.parsed = "help"]
    BY <2>2 DEF Take
  <2> HIDE DEF position, step
  <2> QED
    BY <1>1, <1>7, <2>3, NamesDiffer
<1>8. CASE /\ name \notin {<<"no", "run">>, <<"no", "no", "run">>}
           /\ name \notin {<<"verbose">>, <<"no", "verbose">>}
           /\ name \notin {<<"help">>, <<"no", "help">>}
  <2>1. found = {}
    <3>1. 1 \notin found /\ 2 \notin found /\ 3 \notin found
      BY <1>4, <1>8
    <3> QED
      BY <1>3, <3>1
  <2>2. position = 0
    BY <2>1, FirstOptionIs
  <2>3. Take(config, position, step) = [config EXCEPT !.parsed = "unknown"]
    BY <2>2 DEF Take
  <2> HIDE DEF position, step
  <2> QED
    BY <1>1, <1>8, <2>3
<1> QED
  BY <1>5, <1>6, <1>7, <1>8

-----------------------------------------------------------------------------
(* The command line with one argument more, which may be before "--".      *)
Ended(args) == \E i \in DOMAIN args : args[i].form = "end"

Extends(args, arg) == ~Ended(args) /\ arg.form # "end"

LEMMA AppendIs ==
  ASSUME NEW args \in Seq(Arguments), NEW arg \in Arguments
  PROVE  LET more == Append(args, arg)
         IN /\ Len(args) \in Nat /\ Len(args) + 1 \in Nat
            /\ more \in Seq(Arguments) /\ Len(more) = Len(args) + 1
            /\ DOMAIN args = 1..Len(args) /\ DOMAIN more = 1..Len(args) + 1
            /\ more[Len(args) + 1] = arg
            /\ \A i \in 1..Len(args) : more[i] = args[i]
OBVIOUS

LEMMA BeforeEndAppend ==
  ASSUME NEW args \in Seq(Arguments), NEW arg \in Arguments
  PROVE  /\ BeforeEnd(args) \subseteq 1..Len(args)
         /\ Ended(Append(args, arg)) = (Ended(args) \/ arg.form = "end")
         /\ BeforeEnd(Append(args, arg))
              = IF Extends(args, arg) THEN BeforeEnd(args) \cup {Len(args) + 1}
                ELSE BeforeEnd(args)
<1> DEFINE L == Len(args)
           more == Append(args, arg)
<1>1. /\ L \in Nat /\ DOMAIN args = 1..L /\ DOMAIN more = 1..L + 1
      /\ more[L + 1] = arg /\ \A i \in 1..L : more[i] = args[i]
  BY AppendIs
<1>2. \A i \in 1..L + 1 : i \in 1..L \/ i = L + 1
  BY <1>1
<1>3. \A i \in 1..L : 1..i \subseteq 1..L /\ i \in 1..L + 1
  BY <1>1
<1>6. 1..L + 1 = 1..L \cup {L + 1}
  BY <1>1
<1> HIDE DEF L, more
<1>4. \A i \in 1..L : i \in BeforeEnd(more) <=> i \in BeforeEnd(args)
  BY <1>1, <1>3 DEF BeforeEnd
<1>5. L + 1 \in BeforeEnd(more) <=> Extends(args, arg)
  BY <1>1, <1>6 DEF BeforeEnd, Extends, Ended
<1>7. BeforeEnd(more) \subseteq 1..L + 1 /\ BeforeEnd(args) \subseteq 1..L
  BY <1>1 DEF BeforeEnd
<1>8. BeforeEnd(more) = IF Extends(args, arg) THEN BeforeEnd(args) \cup {L + 1}
                        ELSE BeforeEnd(args)
  <2>1. CASE Extends(args, arg)
    BY <1>2, <1>4, <1>5, <1>6, <1>7, <2>1
  <2>2. CASE ~Extends(args, arg)
    <3>1. L + 1 \notin BeforeEnd(more)
      BY <1>5, <2>2
    <3>2. \A i \in BeforeEnd(more) : i \in BeforeEnd(args)
      BY <1>2, <1>4, <1>7, <3>1
    <3>3. \A i \in BeforeEnd(args) : i \in BeforeEnd(more)
      BY <1>4, <1>7
    <3> QED
      BY <2>2, <3>2, <3>3
  <2> QED
    BY <2>1, <2>2
<1>9. Ended(more) = (Ended(args) \/ arg.form = "end")
  BY <1>1, <1>6 DEF Ended
<1> QED
  BY <1>7, <1>8, <1>9 DEF L, more

-----------------------------------------------------------------------------
(* What one argument adds to the number of times an option is asked for.   *)
Adds(arg, option) ==
  Cardinality(Places(arg, option)) - (IF Negates(arg, option) THEN 1 ELSE 0)

LEMMA PlacesFinite ==
  ASSUME NEW arg \in Arguments, NEW option
  PROVE  IsFiniteSet(Places(arg, option)) /\ Cardinality(Places(arg, option)) \in Nat
<1>1. IsFiniteSet(Places(arg, option))
  <2>1. CASE arg.form = "short"
    <3>1. arg.letters \in Seq(STRING)
      BY <2>1, LineAssumption
    <3>2. Len(arg.letters) \in Nat /\ DOMAIN arg.letters = 1..Len(arg.letters)
      BY <3>1
    <3>3. IsFiniteSet(DOMAIN arg.letters)
      BY <3>2, FS_Interval
    <3>4. Places(arg, option) \subseteq DOMAIN arg.letters
      BY <2>1 DEF Places
    <3> QED
      BY <3>3, <3>4, FS_Subset
  <2>2. CASE arg.form # "short"
    <3>1. Places(arg, option) \in {{1}, {}}
      BY <2>2 DEF Places
    <3>2. IsFiniteSet({1}) /\ IsFiniteSet({})
      BY FS_Interval, FS_Singleton, FS_EmptySet
    <3> QED
      BY <3>1, <3>2
  <2> QED
    BY <2>1, <2>2
<1> QED
  BY <1>1, FS_CardinalityType

LEMMA AskedAppend ==
  ASSUME NEW args \in Seq(Arguments), NEW arg \in Arguments, NEW option, NEW i \in 1..Len(args) + 1,
         IsFiniteSet(Asked(args, option, i)), IsFiniteSet(Negated(args, option, i))
  PROVE  LET more == Append(args, arg)
             adds == IF Extends(args, arg) THEN Adds(arg, option) ELSE 0
         IN /\ IsFiniteSet(Asked(more, option, i)) /\ IsFiniteSet(Negated(more, option, i))
            /\ Cardinality(Asked(more, option, i)) - Cardinality(Negated(more, option, i))
                 = Cardinality(Asked(args, option, i)) - Cardinality(Negated(args, option, i))
                     + adds
<1> DEFINE L == Len(args)
           more == Append(args, arg)
           a == Asked(args, option, i)
           n == Negated(args, option, i)
           new == {L + 1} \X Places(arg, option)
           b == BeforeEnd(args)
<1>1. /\ L \in Nat /\ more[L + 1] = arg /\ \A k \in 1..L : more[k] = args[k]
      /\ b \subseteq 1..L
  BY AppendIs, BeforeEndAppend
<1>2. L + 1 >= i /\ L + 1 \notin 1..L
  BY <1>1
<1>3. \A k \in b : more[k] = args[k]
  BY <1>1
<1> HIDE DEF more, L
<1>4. CASE ~Extends(args, arg)
  <2>1. BeforeEnd(more) = b
    BY <1>4, BeforeEndAppend DEF more, L
  <2>2. Asked(more, option, i) = a
    BY <1>3, <2>1 DEF Asked
  <2>3. Negated(more, option, i) = n
    BY <1>3, <2>1 DEF Negated
  <2>4. Cardinality(a) \in Nat /\ Cardinality(n) \in Nat
    BY FS_CardinalityType
  <2> HIDE DEF a, n
  <2> QED
    BY <1>4, <2>2, <2>3, <2>4 DEF a, n, more
<1>5. CASE Extends(args, arg)
  <2>1. BeforeEnd(more) = b \cup {L + 1}
    BY <1>5, BeforeEndAppend DEF more, L
  <2>2. Asked(more, option, i) = a \cup new
    <3>1. \A k \in b : more[k] = args[k] /\ k # L + 1
      BY <1>1, <1>2, <1>3
    <3> HIDE DEF b
    <3>2. \A x : x \in Asked(more, option, i)
                <=> \E k \in BeforeEnd(more) : k >= i /\ x \in {k} \X Places(more[k], option)
      BY DEF Asked
    <3>3. \A x : x \in a <=> \E k \in b : k >= i /\ x \in {k} \X Places(args[k], option)
      BY DEF Asked, b
    <3> HIDE DEF a
    <3> QED
      BY <1>1, <1>2, <2>1, <3>1, <3>2, <3>3
  <2>3. a \cap new = {}
    <3>1. \A x \in a : x[1] \in 1..L
      BY <1>1 DEF Asked
    <3>2. \A x \in new : x[1] = L + 1
      OBVIOUS
    <3> QED
      BY <1>2, <3>1, <3>2
  <2>4. IsFiniteSet(new) /\ Cardinality(new) = Cardinality(Places(arg, option))
    <3>1. IsFiniteSet({L + 1}) /\ Cardinality({L + 1}) = 1
      BY FS_Singleton
    <3>2. /\ IsFiniteSet(new)
          /\ Cardinality(new) = Cardinality({L + 1}) * Cardinality(Places(arg, option))
      BY <3>1, PlacesFinite, FS_Product
    <3> QED
      BY <3>1, <3>2, PlacesFinite
  <2>5. /\ IsFiniteSet(a \cup new)
        /\ Cardinality(a \cup new) = Cardinality(a) + Cardinality(Places(arg, option))
    <3>1. IsFiniteSet(a \cup new) /\ Cardinality(a \cup new)
            = Cardinality(a) + Cardinality(new) - Cardinality(a \cap new)
      BY <2>4, FS_Union
    <3>2. Cardinality(a \cap new) = 0 /\ Cardinality(a) \in Nat
      BY <2>3, FS_EmptySet, FS_CardinalityType
    <3> QED
      BY <2>4, <3>1, <3>2, PlacesFinite
  <2>6. Negated(more, option, i) = IF Negates(arg, option) THEN n \cup {L + 1} ELSE n
    BY <1>1, <1>2, <1>3, <2>1 DEF Negated
  <2>7. L + 1 \notin n
    BY <1>1, <1>2 DEF Negated
  <2> HIDE DEF a, n
  <2>8. /\ IsFiniteSet(Negated(more, option, i))
        /\ Cardinality(Negated(more, option, i))
             = Cardinality(n) + (IF Negates(arg, option) THEN 1 ELSE 0)
    <3>1. IsFiniteSet(n) /\ Cardinality(n) \in Nat
      BY FS_CardinalityType DEF n
    <3>2. IsFiniteSet(n \cup {L + 1}) /\ Cardinality(n \cup {L + 1}) = Cardinality(n) + 1
      BY <2>7, <3>1, FS_AddElement
    <3> QED
      BY <2>6, <3>1, <3>2
  <2>9. Cardinality(a) \in Nat /\ Cardinality(n) \in Nat
    BY FS_CardinalityType DEF a, n
  <2>10. Cardinality(Asked(more, option, i)) = Cardinality(a) + Cardinality(Places(arg, option))
    BY <2>2, <2>5
  <2>11. Cardinality(Asked(more, option, i)) - Cardinality(Negated(more, option, i))
           = Cardinality(a) - Cardinality(n) + Adds(arg, option)
    BY <2>8, <2>9, <2>10, PlacesFinite DEF Adds
  <2> QED
    BY <1>5, <2>2, <2>5, <2>8, <2>11 DEF a, n, more
<1> QED
  BY <1>4, <1>5

-----------------------------------------------------------------------------
(* n is the most by which an option is ahead of its negation in an end of  *)
(* the line, 0 for the empty end.                                          *)
Lead(args, option, i) ==
  Cardinality(Asked(args, option, i)) - Cardinality(Negated(args, option, i))

IsCount(args, option, n) ==
  /\ n \in Nat
  /\ \A i \in 1..Len(args) + 1 :
       /\ IsFiniteSet(Asked(args, option, i)) /\ IsFiniteSet(Negated(args, option, i))
       /\ Lead(args, option, i) <= n
  /\ \E i \in 1..Len(args) + 1 : Lead(args, option, i) = n

Clamped(n) == IF n < 0 THEN 0 ELSE n

LEMMA NothingLeft ==
  ASSUME NEW args \in Seq(Arguments), NEW option, NEW i \in Nat, i > Len(args)
  PROVE  /\ Asked(args, option, i) = {} /\ Negated(args, option, i) = {}
         /\ IsFiniteSet({}) /\ Lead(args, option, i) = 0
<1>1. \A k \in BeforeEnd(args) : ~(k >= i)
  BY DEF BeforeEnd
<1>2. Asked(args, option, i) = {} /\ Negated(args, option, i) = {}
  BY <1>1 DEF Asked, Negated
<1>3. Cardinality({}) = 0 /\ IsFiniteSet({})
  BY FS_EmptySet
<1> QED
  BY <1>2, <1>3 DEF Lead

LEMMA CountEmpty ==
  ASSUME NEW args \in Seq(Arguments), args = <<>>, NEW option
  PROVE  IsCount(args, option, 0)
<1>1. Len(args) = 0 /\ 1..Len(args) + 1 = {1} /\ 1 \in Nat /\ 1 > Len(args)
  OBVIOUS
<1>2. /\ Asked(args, option, 1) = {} /\ Negated(args, option, 1) = {}
      /\ IsFiniteSet({}) /\ Lead(args, option, 1) = 0
  BY <1>1, NothingLeft
<1> QED
  BY <1>1, <1>2 DEF IsCount

LEMMA CountAppend ==
  ASSUME NEW args \in Seq(Arguments), NEW arg \in Arguments, NEW option, NEW n, NEW adds,
         IsCount(args, option, n),
         adds = IF Extends(args, arg) THEN Adds(arg, option) ELSE 0
  PROVE  adds \in Int /\ IsCount(Append(args, arg), option, Clamped(n + adds))
<1> DEFINE L == Len(args)
           more == Append(args, arg)
           c == Clamped(n + adds)
<1>1. L \in Nat /\ more \in Seq(Arguments) /\ Len(more) = L + 1
  BY AppendIs
<1>2. adds \in Int
  <2>1. Adds(arg, option) \in Int
    BY PlacesFinite DEF Adds
  <2> QED
    BY <2>1
<1>3. /\ c \in Nat /\ n \in Nat /\ n + adds <= c
      /\ n + adds < 0 => c = 0
      /\ n + adds >= 0 => c = n + adds
  BY <1>2 DEF Clamped, IsCount
<1>4. ASSUME NEW i \in 1..L + 1
      PROVE  /\ IsFiniteSet(Asked(more, option, i)) /\ IsFiniteSet(Negated(more, option, i))
             /\ Lead(more, option, i) = Lead(args, option, i) + adds
             /\ Lead(args, option, i) \in Int /\ Lead(args, option, i) <= n
  <2>1. /\ IsFiniteSet(Asked(args, option, i)) /\ IsFiniteSet(Negated(args, option, i))
        /\ Lead(args, option, i) <= n
    BY DEF IsCount
  <2>2. Lead(args, option, i) \in Int
    <3>1. /\ Cardinality(Asked(args, option, i)) \in Nat
          /\ Cardinality(Negated(args, option, i)) \in Nat
      BY <2>1, FS_CardinalityType
    <3> QED
      BY <3>1 DEF Lead
  <2> QED
    BY <2>1, <2>2, AskedAppend DEF Lead
<1>5. /\ IsFiniteSet(Asked(more, option, L + 2)) /\ IsFiniteSet(Negated(more, option, L + 2))
      /\ Lead(more, option, L + 2) = 0
  <2>1. L + 2 \in Nat /\ L + 2 > Len(more)
    BY <1>1
  <2> HIDE DEF more, L
  <2> QED
    BY <1>1, <2>1, NothingLeft
<1>6. PICK m \in 1..L + 1 : Lead(args, option, m) = n
  BY DEF IsCount
<1>7. \A i \in 1..Len(more) + 1 : i \in 1..L + 1 \/ i = L + 2
  BY <1>1
<1>8. m \in 1..Len(more) + 1 /\ L + 2 \in 1..Len(more) + 1
  BY <1>1
<1> HIDE DEF more, L, c
<1>9. \A i \in 1..Len(more) + 1 :
        /\ IsFiniteSet(Asked(more, option, i)) /\ IsFiniteSet(Negated(more, option, i))
        /\ Lead(more, option, i) <= c
  BY <1>2, <1>3, <1>4, <1>5, <1>7
<1>10. Lead(more, option, m) = n + adds
  BY <1>4, <1>6
<1>11. \E i \in 1..Len(more) + 1 : Lead(more, option, i) = c
  <2>1. CASE n + adds >= 0
    BY <1>3, <1>8, <1>10, <2>1
  <2>2. CASE n + adds < 0
    BY <1>3, <1>5, <1>8, <2>2
  <2> QED
    BY <1>2, <1>3, <2>1, <2>2
<1>12. IsCount(more, option, c)
  BY <1>3, <1>9, <1>11 DEF IsCount
<1> QED
  BY <1>2, <1>12 DEF more, c

(* An option is on when it has been counted.                               *)
LEMMA OnIs ==
  ASSUME NEW args \in Seq(Arguments), NEW option, NEW n, IsCount(args, option, n)
  PROVE  On(args, option) = (n > 0)
<1>1. BeforeEnd(args) \subseteq 1..Len(args) /\ Len(args) \in Nat /\ DOMAIN args = 1..Len(args)
  BY DEF BeforeEnd
<1>2. \A i \in 1..Len(args) + 1 :
        Cardinality(Asked(args, option, i)) \in Nat /\ Cardinality(Negated(args, option, i)) \in Nat
  BY FS_CardinalityType DEF IsCount
<1>3. ASSUME On(args, option) PROVE n > 0
  <2>1. PICK i \in BeforeEnd(args) :
               Cardinality(Asked(args, option, i)) > Cardinality(Negated(args, option, i))
    BY <1>3 DEF On
  <2>2. i \in 1..Len(args) + 1
    BY <1>1
  <2>3. Lead(args, option, i) <= n /\ n \in Nat
    BY <2>2 DEF IsCount
  <2> QED
    BY <1>2, <2>1, <2>2, <2>3 DEF Lead
<1>4. ASSUME n > 0 PROVE On(args, option)
  <2>1. PICK i \in 1..Len(args) + 1 : Lead(args, option, i) = n
    BY DEF IsCount
  <2>2. Cardinality(Asked(args, option, i)) > Cardinality(Negated(args, option, i))
    BY <1>2, <1>4, <2>1 DEF Lead, IsCount
  <2>3. Asked(args, option, i) # {}
    <3>1. Cardinality({}) = 0 /\ ~(0 > Cardinality(Negated(args, option, i)))
      BY <1>2, FS_EmptySet
    <3> QED
      BY <2>2, <3>1
  <2>4. PICK k \in BeforeEnd(args) : k >= i
    BY <2>3 DEF Asked
  <2>5. i \in BeforeEnd(args)
    BY <1>1, <2>4 DEF BeforeEnd
  <2> QED
    BY <2>2, <2>5 DEF On
<1>5. On(args, option) \in BOOLEAN /\ (n > 0) \in BOOLEAN
  BY DEF On
<1> QED
  BY <1>3, <1>4, <1>5

-----------------------------------------------------------------------------
(* The counts as a record, and what an option does to it.                  *)
Counting(a, b, how) == [counts |-> [n |-> a, v |-> b], parsed |-> how]

LEMMA CountingIs ==
  ASSUME NEW a, NEW b, NEW how
  PROVE  /\ Counting(a, b, how).parsed = how
         /\ Counting(a, b, how).counts = [n |-> a, v |-> b]
         /\ \A other : [Counting(a, b, how) EXCEPT !.parsed = other] = Counting(a, b, other)
BY DEF Counting

LEMMA GetvalueIs ==
  ASSUME NEW a \in Nat, NEW b \in Nat, NEW step \in Int
  PROVE  LET config == Counting(a, b, "reading")
         IN /\ argparse_getvalue(config, "n", step) = Counting(Clamped(a + step), b, "reading")
            /\ argparse_getvalue(config, "v", step) = Counting(a, Clamped(b + step), "reading")
BY DEF argparse_getvalue, Counting, Clamped

OptsDef(p, f, n) ==
  IF n = 0 THEN p.first ELSE argparse_short_opt(f[n - 1], p.letters[n])

Clustering == INSTANCE RecursionTheorems WITH Parts <- Previous, Def <- OptsDef

(* f is the configuration after each of the letters.                       *)
IsCluster(f, first, letters) ==
  /\ f[0] = first
  /\ \A n \in 1..Len(letters) : f[n] = argparse_short_opt(f[n - 1], letters[n])
  /\ ShortOpts(first, letters) = f[Len(letters)]

LEMMA ClusterLoop ==
  ASSUME NEW first, NEW letters, Len(letters) \in Nat
  PROVE  \E f : IsCluster(f, first, letters)
<1> DEFINE p == [first |-> first, letters |-> letters]
           N == Len(letters)
           Is(f) == f = [n \in 0..N |-> IF n = 0 THEN first
                                        ELSE argparse_short_opt(f[n - 1], letters[n])]
           f == CHOOSE f : Is(f)
<1>1. Clustering!Local(p, 0..N)
  BY DEF Clustering!Local, Previous, OptsDef
<1>2. Clustering!Ranked(0..N, [n \in 0..N |-> n])
  BY DEF Clustering!Ranked, Previous
<1>3. \E g : g = [n \in 0..N |-> OptsDef(p, g, n)]
  <2> HIDE DEF p
  <2> QED
    BY <1>1, <1>2, Clustering!RecursionExists
<1>4. PICK g : g = [n \in 0..N |-> OptsDef(p, g, n)]
  BY <1>3
<1>5. Is(g)
  BY <1>4 DEF OptsDef
<1>6. Is(f)
  <2> HIDE DEF Is
  <2> QED
    BY <1>5
<1>7. ShortOpts(first, letters) = f[N]
  BY Zenon DEF ShortOpts, Iterate
<1>8. f[0] = first /\ \A n \in 1..N : f[n] = argparse_short_opt(f[n - 1], letters[n])
  <2> HIDE DEF f
  <2> QED
    BY <1>6
<1> HIDE DEF f
<1>9. IsCluster(f, first, letters)
  BY <1>7, <1>8 DEF IsCluster
<1> QED
  BY <1>9

(* How often a letter is among the first ones.                             *)
LetterUpto(letters, letter, n) == {j \in 1..n : letters[j] = letter}

LEMMA LetterCount ==
  ASSUME NEW letters, NEW letter, NEW n \in Nat
  PROVE  /\ Cardinality(LetterUpto(letters, letter, n)) \in Nat
         /\ Cardinality(LetterUpto(letters, letter, 0)) = 0
         /\ Cardinality(LetterUpto(letters, letter, n + 1))
              = Cardinality(LetterUpto(letters, letter, n))
                  + (IF letters[n + 1] = letter THEN 1 ELSE 0)
<1> DEFINE U(i) == LetterUpto(letters, letter, i)
<1>1. IsFiniteSet(U(n))
  <2>1. IsFiniteSet(1..n) /\ U(n) \subseteq 1..n
    BY FS_Interval DEF LetterUpto
  <2> QED
    BY <2>1, FS_Subset
<1>2. U(0) = {}
  BY DEF LetterUpto
<1>3. U(n + 1) = IF letters[n + 1] = letter THEN U(n) \cup {n + 1} ELSE U(n)
  BY DEF LetterUpto
<1>4. n + 1 \notin U(n)
  BY DEF LetterUpto
<1> HIDE DEF U
<1>5. Cardinality(U(n)) \in Nat /\ Cardinality(U(0)) = 0
  BY <1>1, <1>2, FS_CardinalityType, FS_EmptySet
<1>6. Cardinality(U(n) \cup {n + 1}) = Cardinality(U(n)) + 1
  BY <1>1, <1>4, FS_AddElement
<1> QED
  BY <1>3, <1>5, <1>6 DEF U

(* After n letters.                                                        *)
ClusterAfter(config, a, b, letters, n) ==
  \/ /\ \A j \in 1..n : letters[j] \in {"n", "v"}
     /\ config = Counting(a + Cardinality(LetterUpto(letters, "n", n)),
                          b + Cardinality(LetterUpto(letters, "v", n)), "reading")
  \/ /\ \E j \in 1..n : letters[j] \notin {"n", "v"}
     /\ config.parsed \in {"help", "unknown"}

LEMMA ClusterStep ==
  ASSUME NEW a \in Nat, NEW b \in Nat, NEW letters, NEW n \in Nat, NEW config,
         ClusterAfter(config, a, b, letters, n)
  PROVE  ClusterAfter(argparse_short_opt(config, letters[n + 1]), a, b, letters, n + 1)
<1> DEFINE letter == letters[n + 1]
           next == argparse_short_opt(config, letter)
           cn == Cardinality(LetterUpto(letters, "n", n))
           cv == Cardinality(LetterUpto(letters, "v", n))
<1>0. 1..n + 1 = 1..n \cup {n + 1}
  OBVIOUS
<1>1. CASE \E j \in 1..n : letters[j] \notin {"n", "v"}
  <2>1. config.parsed \in {"help", "unknown"}
    BY <1>1 DEF ClusterAfter
  <2>2. next = config
    BY <2>1 DEF argparse_short_opt, Take
  <2> QED
    BY <1>0, <1>1, <2>1, <2>2 DEF ClusterAfter
<1>2. CASE \A j \in 1..n : letters[j] \in {"n", "v"}
  <2>1. config = Counting(a + cn, b + cv, "reading")
    BY <1>2 DEF ClusterAfter
  <2>2. config.parsed = "reading"
    BY <2>1 DEF Counting
  <2>3. /\ cn \in Nat /\ cv \in Nat
        /\ Cardinality(LetterUpto(letters, "n", n + 1)) = cn + (IF letter = "n" THEN 1 ELSE 0)
        /\ Cardinality(LetterUpto(letters, "v", n + 1)) = cv + (IF letter = "v" THEN 1 ELSE 0)
    BY LetterCount
  <2> HIDE DEF cn, cv
  <2>4. a + cn \in Nat /\ b + cv \in Nat /\ Clamped(a + cn + 1) = a + (cn + 1)
        /\ Clamped(b + cv + 1) = b + (cv + 1) /\ cn + 0 = cn /\ cv + 0 = cv
    BY <2>3 DEF Clamped
  <2>5. CASE letter = "n"
    <3>1. next = Counting(a + (cn + 1), b + cv, "reading")
      BY <2>1, <2>2, <2>4, <2>5, LetterIs, GetvalueIs
    <3> QED
      BY <1>0, <1>2, <2>3, <2>4, <2>5, <3>1 DEF ClusterAfter
  <2>6. CASE letter = "v"
    <3>1. next = Counting(a + cn, b + (cv + 1), "reading")
      BY <2>1, <2>2, <2>4, <2>6, LetterIs, GetvalueIs
    <3> QED
      BY <1>0, <1>2, <2>3, <2>4, <2>6, <3>1 DEF ClusterAfter
  <2>7. CASE letter \notin {"n", "v"}
    <3>1. next = [config EXCEPT !.parsed = IF letter = "h" THEN "help" ELSE "unknown"]
      BY <2>2, <2>7, LetterIs
    <3>2. next.parsed \in {"help", "unknown"}
      <4> DEFINE how == IF letter = "h" THEN "help" ELSE "unknown"
      <4>0. [config EXCEPT !.parsed = how] = Counting(a + cn, b + cv, how)
        <5> DEFINE x == a + cn
                   y == b + cv
        <5>1. config = Counting(x, y, "reading")
          BY <2>1
        <5> HIDE DEF how, x, y
        <5>2. \A other :
                [Counting(x, y, "reading") EXCEPT !.parsed = other] = Counting(x, y, other)
          BY CountingIs
        <5>3. [config EXCEPT !.parsed = how] = Counting(x, y, how)
          BY <5>1, <5>2
        <5> QED
          BY <5>3 DEF x, y
      <4>3. next = [config EXCEPT !.parsed = how]
        BY <3>1
      <4> HIDE DEF how, next
      <4>1. next = Counting(a + cn, b + cv, how)
        BY <4>0, <4>3
      <4>2. next.parsed = how
        BY <4>1 DEF Counting
      <4> QED
        BY <4>2 DEF how, next
    <3> QED
      BY <1>0, <2>7, <3>2 DEF ClusterAfter
  <2> QED
    BY <2>5, <2>6, <2>7
<1> QED
  BY <1>1, <1>2

LEMMA ClusterIs ==
  ASSUME NEW a \in Nat, NEW b \in Nat, NEW letters, Len(letters) \in Nat
  PROVE  ClusterAfter(ShortOpts(Counting(a, b, "reading"), letters), a, b, letters, Len(letters))
<1> DEFINE first == Counting(a, b, "reading")
<1>1. PICK f : IsCluster(f, first, letters)
  BY ClusterLoop
<1> DEFINE After(n) == ClusterAfter(f[n], a, b, letters, n)
           S == {n \in Nat : n <= Len(letters) => After(n)}
<1>2. 0 \in S
  <2>1. f[0] = first
    BY <1>1 DEF IsCluster
  <2>2. Cardinality(LetterUpto(letters, "n", 0)) = 0 /\ Cardinality(LetterUpto(letters, "v", 0)) = 0
    BY LetterCount
  <2>3. a + 0 = a /\ b + 0 = b
    OBVIOUS
  <2>4. After(0)
    BY <2>1, <2>2, <2>3 DEF ClusterAfter
  <2> QED
    BY <2>4
<1>3. ASSUME NEW n \in S PROVE n + 1 \in S
  <2>1. SUFFICES ASSUME n + 1 <= Len(letters) PROVE After(n + 1)
    OBVIOUS
  <2>2. After(n) /\ n \in Nat /\ n + 1 \in 1..Len(letters)
    BY <2>1
  <2>3. f[n + 1] = argparse_short_opt(f[(n + 1) - 1], letters[n + 1]) /\ (n + 1) - 1 = n
    BY <1>1, <2>2 DEF IsCluster
  <2>4. f[n + 1] = argparse_short_opt(f[n], letters[n + 1])
    BY <2>3
  <2> QED
    BY <2>2, <2>4, ClusterStep
<1>4. S = Nat
  <2>1. S \in SUBSET Nat
    OBVIOUS
  <2> HIDE DEF S
  <2> QED
    BY <1>2, <1>3, <2>1, Clustering!Induction
<1>5. After(Len(letters))
  BY <1>4
<1> QED
  BY <1>1, <1>5 DEF IsCluster

-----------------------------------------------------------------------------
(* What an argument that holds options does, and whether reading goes on.  *)
Plain(arg) ==
  /\ Known(arg)
  /\ Places(arg, Options[1]) = {} /\ ~Negates(arg, Options[1])

ReadsAs(config, arg, a, b) ==
  \/ /\ Plain(arg)
     /\ config = Counting(Clamped(a + Adds(arg, Options[2])),
                          Clamped(b + Adds(arg, Options[3])), "reading")
  \/ ~Plain(arg) /\ config.parsed \in {"help", "unknown"}

LEMMA ShortIs ==
  ASSUME NEW arg \in Arguments, arg.form = "short", NEW a \in Nat, NEW b \in Nat
  PROVE  ReadsAs(ShortOpts(Counting(a, b, "reading"), arg.letters), arg, a, b)
<1> DEFINE letters == arg.letters
           N == Len(letters)
           config == ShortOpts(Counting(a, b, "reading"), letters)
<1>1. N \in Nat /\ DOMAIN letters = 1..N
  BY LineAssumption
<1>2. ClusterAfter(config, a, b, letters, N)
  BY <1>1, ClusterIs
<1> HIDE DEF letters, N, config
<1>3. \A o : ~Negates(arg, o)
  BY DEF Negates
<1>4. /\ Places(arg, Options[1]) = LetterUpto(letters, "h", N)
      /\ Places(arg, Options[2]) = LetterUpto(letters, "n", N)
      /\ Places(arg, Options[3]) = LetterUpto(letters, "v", N)
  BY <1>1, OptionsAre DEF Places, LetterUpto, letters
<1>5. Known(arg) <=> \A j \in 1..N : letters[j] \in {"h", "n", "v"}
  BY <1>1, OptionsAre DEF Known, letters
<1>6. Plain(arg) <=> \A j \in 1..N : letters[j] \in {"n", "v"}
  BY <1>3, <1>4, <1>5 DEF Plain, LetterUpto
<1>7. /\ Clamped(a + Adds(arg, Options[2])) = a + Cardinality(LetterUpto(letters, "n", N))
      /\ Clamped(b + Adds(arg, Options[3])) = b + Cardinality(LetterUpto(letters, "v", N))
  <2>1. /\ Cardinality(LetterUpto(letters, "n", N)) \in Nat
        /\ Cardinality(LetterUpto(letters, "v", N)) \in Nat
    BY <1>1, LetterCount
  <2>2. /\ Adds(arg, Options[2]) = Cardinality(LetterUpto(letters, "n", N))
        /\ Adds(arg, Options[3]) = Cardinality(LetterUpto(letters, "v", N))
    BY <1>3, <1>4, <2>1 DEF Adds
  <2> QED
    BY <2>1, <2>2 DEF Clamped
<1>8. ReadsAs(config, arg, a, b)
  BY <1>2, <1>6, <1>7 DEF ReadsAs, ClusterAfter
<1> QED
  BY <1>8 DEF config, letters

LEMMA LongIs ==
  ASSUME NEW arg \in Arguments, arg.form = "long", NEW a \in Nat, NEW b \in Nat
  PROVE  ReadsAs(argparse_long_opt(Counting(a, b, "reading"), arg.name), arg, a, b)
<1> DEFINE name == arg.name
           first == Counting(a, b, "reading")
           config == argparse_long_opt(first, name)
<1>1. /\ Known(arg) <=> name \in {<<"help">>, <<"no", "help">>, <<"no", "run">>,
                                 <<"no", "no", "run">>, <<"verbose">>, <<"no", "verbose">>}
      /\ Negates(arg, Options[1]) <=> name = <<"no", "help">>
      /\ Negates(arg, Options[2]) <=> name = <<"no", "no", "run">>
      /\ Negates(arg, Options[3]) <=> name = <<"no", "verbose">>
  <2>1. Known(arg) <=> \E i \in {1, 2, 3} :
                         name = Options[i].name \/ name = <<"no">> \o Options[i].name
    BY OptionsAre DEF Known
  <2>2. /\ Negates(arg, Options[1]) <=> name = <<"no">> \o <<"help">>
        /\ Negates(arg, Options[2]) <=> name = <<"no">> \o <<"no", "run">>
        /\ Negates(arg, Options[3]) <=> name = <<"no">> \o <<"verbose">>
    BY OptionsAre DEF Negates
  <2> HIDE DEF name
  <2>3. Known(arg) <=> \/ name = <<"help">> \/ name = <<"no">> \o <<"help">>
                       \/ name = <<"no", "run">> \/ name = <<"no">> \o <<"no", "run">>
                       \/ name = <<"verbose">> \/ name = <<"no">> \o <<"verbose">>
    BY <2>1, OptionsAre
  <2> QED
    BY <2>2, <2>3, Negations
<1>2. /\ Places(arg, Options[1]) = IF name = <<"help">> THEN {1} ELSE {}
      /\ Places(arg, Options[2]) = IF name = <<"no", "run">> THEN {1} ELSE {}
      /\ Places(arg, Options[3]) = IF name = <<"verbose">> THEN {1} ELSE {}
  BY OptionsAre DEF Places
<1>3. Cardinality({1}) = 1 /\ Cardinality({}) = 0
  BY FS_Singleton, FS_EmptySet
<1>4. first.parsed = "reading" /\ \A other : [first EXCEPT !.parsed = other] = Counting(a, b, other)
  BY DEF Counting
<1>5. /\ Adds(arg, Options[2]) = (IF name = <<"no", "run">> THEN 1 ELSE 0)
                                  - (IF name = <<"no", "no", "run">> THEN 1 ELSE 0)
      /\ Adds(arg, Options[3]) = (IF name = <<"verbose">> THEN 1 ELSE 0)
                                  - (IF name = <<"no", "verbose">> THEN 1 ELSE 0)
  BY <1>1, <1>2, <1>3 DEF Adds
<1>6. Plain(arg) <=> name \in {<<"no", "run">>, <<"no", "no", "run">>, <<"verbose">>,
                              <<"no", "verbose">>}
  BY <1>1, <1>2, NamesDiffer DEF Plain
<1>7. Clamped(a + 0) = a /\ Clamped(b + 0) = b
  BY DEF Clamped
<1> HIDE DEF name, first
<1>8. CASE name \in {<<"no", "run">>, <<"no", "no", "run">>}
  <2> DEFINE step == IF name = <<"no", "run">> THEN 1 ELSE -1
  <2>1. config = argparse_getvalue(first, "n", step)
    BY <1>4, <1>8, NameIs, NamesDiffer
  <2>2. Adds(arg, Options[2]) = step /\ Adds(arg, Options[3]) = 0 /\ step \in Int
    BY <1>5, <1>8, NamesDiffer
  <2> HIDE DEF step
  <2>3. config = Counting(Clamped(a + step), b, "reading")
    BY <2>1, <2>2, GetvalueIs DEF first
  <2> QED
    BY <1>6, <1>7, <1>8, <2>2, <2>3 DEF ReadsAs, first, name
<1>9. CASE name \in {<<"verbose">>, <<"no", "verbose">>}
  <2> DEFINE step == IF name = <<"verbose">> THEN 1 ELSE -1
  <2>1. config = argparse_getvalue(first, "v", step)
    BY <1>4, <1>9, NameIs, NamesDiffer
  <2>2. Adds(arg, Options[3]) = step /\ Adds(arg, Options[2]) = 0 /\ step \in Int
    BY <1>5, <1>9, NamesDiffer
  <2> HIDE DEF step
  <2>3. config = Counting(a, Clamped(b + step), "reading")
    BY <2>1, <2>2, GetvalueIs DEF first
  <2> QED
    BY <1>6, <1>7, <1>9, <2>2, <2>3 DEF ReadsAs, first, name
<1>10. CASE /\ name \notin {<<"no", "run">>, <<"no", "no", "run">>}
            /\ name \notin {<<"verbose">>, <<"no", "verbose">>}
  <2> DEFINE how == IF name \in {<<"help">>, <<"no", "help">>} THEN "help" ELSE "unknown"
  <2>1. config = [first EXCEPT !.parsed = how]
    BY <1>4, <1>10, NameIs
  <2>2. how \in {"help", "unknown"}
    OBVIOUS
  <2> HIDE DEF how
  <2>3. config = Counting(a, b, how)
    BY <1>4, <2>1
  <2>4. config.parsed = how
    BY <2>3 DEF Counting
  <2>5. ~Plain(arg)
    BY <1>6, <1>10
  <2> QED
    BY <2>2, <2>4, <2>5 DEF ReadsAs, first, name
<1> QED
  BY <1>8, <1>9, <1>10

-----------------------------------------------------------------------------
(* While main reads the command line, what is kept of it tells what the    *)
(* arguments read so far ask for.                                          *)
LineInv ==
  /\ parsed = "reading" /\ argv \in Seq(Arguments)
  /\ IsFiniteSet(FilesIn(argv)) /\ files = Cardinality(FilesIn(argv))
  /\ onlyFiles = Ended(argv)
  /\ \A i \in BeforeEnd(argv) : Plain(argv[i])
  /\ counts = [n |-> counts.n, v |-> counts.v]
  /\ IsCount(argv, Options[2], counts.n) /\ IsCount(argv, Options[3], counts.v)

MainInv == pc = "main" => LineInv

LEMMA FilesAppend ==
  ASSUME NEW args \in Seq(Arguments), NEW arg \in Arguments, IsFiniteSet(FilesIn(args))
  PROVE  LET more == FilesIn(Append(args, arg))
         IN /\ IsFiniteSet(more) /\ Cardinality(FilesIn(args)) \in Nat
            /\ IF Ended(args) \/ arg.form = "plain"
               THEN Cardinality(more) = Cardinality(FilesIn(args)) + 1
               ELSE more = FilesIn(args)
<1> DEFINE L == Len(args)
           more == Append(args, arg)
<1>1. /\ L \in Nat /\ DOMAIN args = 1..L /\ DOMAIN more = 1..L + 1
      /\ more[L + 1] = arg /\ \A i \in 1..L : more[i] = args[i]
  BY AppendIs
<1>2. /\ BeforeEnd(args) \subseteq 1..L
      /\ BeforeEnd(more) = IF Extends(args, arg) THEN BeforeEnd(args) \cup {L + 1}
                           ELSE BeforeEnd(args)
  BY BeforeEndAppend
<1>3. /\ 1..L + 1 = 1..L \cup {L + 1} /\ L + 1 \notin 1..L
      /\ \A i \in 1..L : 1..i - 1 \subseteq 1..L
      /\ (L + 1) - 1 = L
  BY <1>1
<1> HIDE DEF L, more
<1>4. \A i \in 1..L : i \in FilesIn(more) <=> i \in FilesIn(args)
  <2> SUFFICES ASSUME NEW i \in 1..L PROVE i \in FilesIn(more) <=> i \in FilesIn(args)
    OBVIOUS
  <2>1. i \in BeforeEnd(more) <=> i \in BeforeEnd(args)
    BY <1>2, <1>3
  <2>2. \A j \in 1..i - 1 : more[j] = args[j]
    BY <1>1, <1>3
  <2>3. i \in DOMAIN args /\ i \in DOMAIN more /\ more[i] = args[i]
    BY <1>1, <1>3
  <2> QED
    BY <2>1, <2>2, <2>3 DEF FilesIn
<1>5. L + 1 \in FilesIn(more) <=> Ended(args) \/ arg.form = "plain"
  <2>1. L + 1 \in BeforeEnd(more) <=> Extends(args, arg)
    BY <1>2, <1>3
  <2>2. (\E j \in 1..(L + 1) - 1 : more[j].form = "end") <=> Ended(args)
    BY <1>1, <1>3 DEF Ended
  <2>3. L + 1 \in DOMAIN more /\ more[L + 1] = arg
    BY <1>1, <1>3
  <2> QED
    BY <2>1, <2>2, <2>3 DEF FilesIn, Extends
<1>6. FilesIn(more) \subseteq 1..L + 1 /\ FilesIn(args) \subseteq 1..L
  BY <1>1 DEF FilesIn
<1>7. CASE Ended(args) \/ arg.form = "plain"
  <2>1. FilesIn(more) = FilesIn(args) \cup {L + 1} /\ L + 1 \notin FilesIn(args)
    BY <1>3, <1>4, <1>5, <1>6, <1>7
  <2>2. /\ IsFiniteSet(FilesIn(more)) /\ Cardinality(FilesIn(more)) = Cardinality(FilesIn(args)) + 1
        /\ Cardinality(FilesIn(args)) \in Nat
    BY <2>1, FS_AddElement, FS_CardinalityType
  <2> QED
    BY <1>7, <2>2 DEF more
<1>8. CASE ~(Ended(args) \/ arg.form = "plain")
  <2>1. FilesIn(more) = FilesIn(args)
    BY <1>3, <1>4, <1>5, <1>6, <1>8
  <2> QED
    BY <1>8, <2>1, FS_CardinalityType DEF more
<1> QED
  BY <1>7, <1>8

LEMMA LineStart == Init => MainInv
<1> SUFFICES ASSUME Init PROVE LineInv
  BY DEF MainInv
<1>1. argv = <<>> /\ argv \in Seq(Arguments) /\ counts = [n |-> 0, v |-> 0]
      /\ files = 0 /\ onlyFiles = FALSE /\ parsed = "reading" /\ DOMAIN argv = {}
  BY DEF Init, LineInit
<1>2. BeforeEnd(argv) = {} /\ FilesIn(argv) = {} /\ ~Ended(argv)
  BY <1>1 DEF BeforeEnd, FilesIn, Ended
<1>3. counts.n = 0 /\ counts.v = 0 /\ counts = [n |-> counts.n, v |-> counts.v]
  BY <1>1
<1>4. IsCount(argv, Options[2], 0) /\ IsCount(argv, Options[3], 0)
  BY <1>1, CountEmpty
<1> QED
  <2>1. IsFiniteSet(FilesIn(argv)) /\ Cardinality(FilesIn(argv)) = 0
    BY <1>2, FS_EmptySet
  <2>2. onlyFiles = Ended(argv)
    BY <1>1, <1>2 DEF Ended
  <2> QED
    BY <1>1, <1>2, <1>3, <1>4, <2>1, <2>2 DEF LineInv

(* The next argument is read, or ends the reading for one that does not    *)
(* ask for a file to be run.                                               *)
LEMMA LineStep ==
  ASSUME LineInv, NEW arg \in Arguments, argparse_parse(arg)
  PROVE  IF parsed' = "reading" THEN LineInv'
         ELSE /\ parsed' \in {"help", "unknown"}
              /\ argv' = Append(argv, arg)
              /\ Len(argv) + 1 \in BeforeEnd(argv') /\ argv'[Len(argv) + 1] = arg
              /\ ~Plain(arg)
<1> DEFINE L == Len(argv)
           a == counts.n
           b == counts.v
<1>1. argv' = Append(argv, arg) /\ argv \in Seq(Arguments) /\ parsed = "reading"
  BY DEF argparse_parse, LineInv
<1>2. /\ L \in Nat /\ argv' \in Seq(Arguments) /\ argv'[L + 1] = arg
      /\ \A i \in 1..L : argv'[i] = argv[i]
  BY <1>1, AppendIs
<1>3. /\ BeforeEnd(argv) \subseteq 1..L
      /\ Ended(argv') = (Ended(argv) \/ arg.form = "end")
      /\ BeforeEnd(argv') = IF Extends(argv, arg) THEN BeforeEnd(argv) \cup {L + 1}
                            ELSE BeforeEnd(argv)
  BY <1>1, BeforeEndAppend
<1>4. /\ IsFiniteSet(FilesIn(argv')) /\ Cardinality(FilesIn(argv)) \in Nat
      /\ IF Ended(argv) \/ arg.form = "plain"
         THEN Cardinality(FilesIn(argv')) = Cardinality(FilesIn(argv)) + 1
         ELSE FilesIn(argv') = FilesIn(argv)
  BY <1>1, FilesAppend DEF LineInv
<1>5. onlyFiles = Ended(argv) /\ a \in Nat /\ b \in Nat /\ counts = [n |-> a, v |-> b]
      /\ IsCount(argv, Options[2], a) /\ IsCount(argv, Options[3], b)
      /\ files = Cardinality(FilesIn(argv))
      /\ \A i \in BeforeEnd(argv) : Plain(argv[i])
  BY DEF LineInv, IsCount
<1> DEFINE adds(o) == IF Extends(argv, arg) THEN Adds(arg, o) ELSE 0
<1>6. /\ IsCount(argv', Options[2], Clamped(a + adds(Options[2])))
      /\ IsCount(argv', Options[3], Clamped(b + adds(Options[3])))
  BY <1>1, <1>5, CountAppend
<1>7. \A i \in BeforeEnd(argv) : Plain(argv'[i])
  BY <1>2, <1>3, <1>5
<1>8. Clamped(a + 0) = a /\ Clamped(b + 0) = b
  BY <1>5 DEF Clamped
<1> HIDE DEF L, a, b
<1>9. CASE onlyFiles \/ arg.form \in {"plain", "end"}
  <2>1. /\ UNCHANGED <<counts, parsed>>
        /\ onlyFiles' = (onlyFiles \/ arg.form = "end")
        /\ files' = IF onlyFiles \/ arg.form = "plain" THEN files + 1 ELSE files
    <3>0. onlyFiles \in BOOLEAN
      BY <1>5 DEF Ended
    <3>1. CASE onlyFiles \/ arg.form = "plain"
      <4>1. files' = files + 1 /\ UNCHANGED <<counts, onlyFiles, parsed>>
        BY <3>1 DEF argparse_parse
      <4>2. onlyFiles = (onlyFiles \/ arg.form = "end")
        BY <3>0, <3>1
      <4> QED
        BY <3>1, <4>1, <4>2
    <3>2. CASE ~(onlyFiles \/ arg.form = "plain")
      <4>1. onlyFiles' = TRUE /\ UNCHANGED <<counts, files, parsed>>
        BY <1>9, <3>2 DEF argparse_parse
      <4>2. (onlyFiles \/ arg.form = "end") = TRUE
        BY <1>9, <3>2
      <4> QED
        BY <3>2, <4>1, <4>2
    <3> QED
      BY <3>1, <3>2
  <2>2. onlyFiles' = Ended(argv') /\ files' = Cardinality(FilesIn(argv'))
    BY <1>3, <1>4, <1>5, <2>1
  <2>3. adds(Options[2]) = 0 /\ adds(Options[3]) = 0
    <3>1. CASE ~Extends(argv, arg)
      BY <3>1
    <3>2. CASE arg.form = "plain"
      <4>1. \A o : Places(arg, o) = {} /\ ~Negates(arg, o)
        BY <3>2 DEF Places, Negates
      <4>2. \A o : Adds(arg, o) = 0
        BY <4>1, FS_EmptySet DEF Adds
      <4> QED
        BY <4>2
    <3> QED
      BY <1>5, <1>9, <3>1, <3>2 DEF Extends
  <2>4. \A i \in BeforeEnd(argv') : Plain(argv'[i])
    <3>1. Extends(argv, arg) => Plain(arg)
      <4>1. SUFFICES ASSUME Extends(argv, arg) PROVE Plain(arg)
        OBVIOUS
      <4>2. arg.form = "plain"
        BY <1>5, <1>9, <4>1 DEF Extends
      <4> QED
        BY <4>2 DEF Plain, Known, Places, Negates
    <3> QED
      BY <1>2, <1>3, <1>7, <3>1
  <2>5. counts' = [n |-> a, v |-> b] /\ counts'.n = a /\ counts'.v = b /\ parsed' = "reading"
    BY <1>1, <1>5, <2>1
  <2>6. IsCount(argv', Options[2], a) /\ IsCount(argv', Options[3], b)
    BY <1>6, <1>8, <2>3
  <2>7. LineInv'
    BY <1>2, <1>4, <2>2, <2>4, <2>5, <2>6 DEF LineInv
  <2> QED
    BY <2>5, <2>7
<1>10. CASE ~onlyFiles /\ arg.form \notin {"plain", "end"}
  <2> DEFINE config == IF arg.form = "short" THEN ShortOpts(Config, arg.letters)
                       ELSE argparse_long_opt(Config, arg.name)
  <2>1. Config = Counting(a, b, "reading")
    BY <1>1, <1>5 DEF Config, Counting
  <2>2. ReadsAs(config, arg, a, b)
    BY <1>5, <1>10, <2>1, ShortIs, LongIs, LineAssumption
  <2>3. counts' = config.counts /\ parsed' = config.parsed /\ UNCHANGED <<files, onlyFiles>>
    BY <1>10 DEF argparse_parse
  <2>4. Extends(argv, arg)
    BY <1>5, <1>10 DEF Extends
  <2>5. L + 1 \in BeforeEnd(argv')
    BY <1>3, <2>4
  <2> HIDE DEF config
  <2>6. CASE ~Plain(arg)
    <3>1. parsed' \in {"help", "unknown"}
      BY <2>2, <2>3, <2>6 DEF ReadsAs
    <3> QED
      BY <1>1, <1>2, <2>5, <2>6, <3>1 DEF L
  <2>7. CASE Plain(arg)
    <3> DEFINE c == Clamped(a + Adds(arg, Options[2]))
               d == Clamped(b + Adds(arg, Options[3]))
    <3>1. config = Counting(c, d, "reading")
      BY <2>2, <2>7 DEF ReadsAs
    <3>2. IsCount(argv', Options[2], c) /\ IsCount(argv', Options[3], d)
      BY <1>6, <2>4
    <3> HIDE DEF c, d
    <3>3. counts' = [n |-> c, v |-> d] /\ parsed' = "reading"
      BY <2>3, <3>1, CountingIs
    <3>4. counts'.n = c /\ counts'.v = d
      BY <3>3
    <3>5. \A i \in BeforeEnd(argv') : Plain(argv'[i])
      BY <1>2, <1>3, <1>7, <2>4, <2>7
    <3>6. onlyFiles' = Ended(argv') /\ files' = Cardinality(FilesIn(argv'))
      <4>1. ~Ended(argv) /\ ~Ended(argv')
        BY <1>3, <1>5, <1>10
      <4>2. ~onlyFiles' /\ onlyFiles' \in BOOLEAN
        BY <1>5, <1>10, <2>3 DEF Ended
      <4>3. FilesIn(argv') = FilesIn(argv)
        BY <1>4, <1>10, <4>1
      <4>4. files' = Cardinality(FilesIn(argv'))
        BY <1>5, <2>3, <4>3
      <4>5. onlyFiles' = FALSE /\ Ended(argv') = FALSE
        BY <4>1, <4>2 DEF Ended
      <4> QED
        BY <4>4, <4>5
    <3>7. LineInv'
      BY <1>2, <1>4, <3>2, <3>3, <3>4, <3>5, <3>6 DEF LineInv
    <3> QED
      BY <3>3, <3>7
  <2> QED
    BY <2>6, <2>7
<1> QED
  BY <1>9, <1>10

(* All arguments before "--" are known, and none asks for help.            *)
AllKnown(args) ==
  /\ \A i \in BeforeEnd(args) : Known(args[i])
  /\ Asked(args, Options[1], 1) = {} /\ Negated(args, Options[1], 1) = {}

LEMMA PlainIs ==
  ASSUME NEW args \in Seq(Arguments)
  PROVE  AllKnown(args) <=> \A i \in BeforeEnd(args) : Plain(args[i])
<1> DEFINE b == BeforeEnd(args)
<1>1. \A i \in b : i >= 1
  BY DEF BeforeEnd
<1>2. Negated(args, Options[1], 1) = {} <=> \A i \in b : ~Negates(args[i], Options[1])
  BY <1>1 DEF Negated
<1>3. Asked(args, Options[1], 1) = {} <=> \A i \in b : Places(args[i], Options[1]) = {}
  <2>1. \A x : x \in Asked(args, Options[1], 1)
              <=> \E i \in b : i >= 1 /\ x \in {i} \X Places(args[i], Options[1])
    BY DEF Asked
  <2> DEFINE asked == Asked(args, Options[1], 1)
             at(i) == {i} \X Places(args[i], Options[1])
  <2>3. \A i \in b : (\A x : x \notin at(i)) <=> Places(args[i], Options[1]) = {}
    <3> SUFFICES ASSUME NEW i \in b
                 PROVE  (\A x : x \notin at(i)) <=> Places(args[i], Options[1]) = {}
      OBVIOUS
    <3> DEFINE P == Places(args[i], Options[1])
    <3>1. \A p \in P : <<i, p>> \in at(i)
      OBVIOUS
    <3>2. \A x \in at(i) : x[2] \in P
      OBVIOUS
    <3> HIDE DEF P, at, b
    <3>3. (\A x : x \notin at(i)) <=> P = {}
      BY <3>1, <3>2
    <3> QED
      BY <3>3 DEF P
  <2>4. asked = {} <=> \A x : x \notin asked
    OBVIOUS
  <2>5. \A x : x \in asked <=> \E i \in b : x \in at(i)
    BY <1>1, <2>1
  <2> HIDE DEF b, asked, at
  <2>6. asked = {} <=> \A i \in b : Places(args[i], Options[1]) = {}
    BY <2>3, <2>4, <2>5
  <2> QED
    BY <2>6 DEF asked
<1> QED
  BY <1>2, <1>3 DEF AllKnown, Plain

LEMMA LineNext == MainInv /\ [Next]_vars => MainInv'
<1> SUFFICES ASSUME MainInv, [Next]_vars, pc' = "main" PROVE LineInv'
  BY DEF MainInv
<1>1. CASE \E arg \in Arguments : Argument(arg)
  <2>1. PICK arg \in Arguments : Argument(arg)
    BY <1>1
  <2>2. LineInv /\ argparse_parse(arg) /\ parsed' = "reading"
    BY <2>1 DEF Argument, MainInv
  <2> QED
    BY <2>2, LineStep
<1>2. CASE main
  BY <1>2 DEF main
<1>3. CASE Evaluate
  BY <1>3 DEF Evaluate, Continue
<1>4. CASE erlm_print_ports_info
  BY <1>4 DEF erlm_print_ports_info, Continue
<1>5. CASE erlm_subscribe_all_output_ports
  BY <1>5 DEF erlm_subscribe_all_output_ports, Continue
<1>6. CASE \E name \in Names, term \in Terms : erlm_handle_input_event(name, term)
  BY <1>6 DEF erlm_handle_input_event, HandleMessage, Continue
<1>7. CASE \E name \in Names : SendBack(name)
  BY <1>7 DEF SendBack, HandleMessage, Continue
<1>8. CASE (\E value \in Values : Emit(value, NULL)) \/ Echo
  BY <1>8 DEF Emit, Echo
<1>9. CASE SendReturns
  BY <1>9 DEF SendReturns
<1>10. CASE UNCHANGED vars
  <2>1. pc = "main" /\ UNCHANGED lineVars
    BY <1>10 DEF vars, static
  <2> QED
    BY <2>1 DEF MainInv, LineInv, lineVars, IsCount, Lead
<1> QED
  BY <1>1, <1>2, <1>3, <1>4, <1>5, <1>6, <1>7, <1>8, <1>9, <1>10 DEF Next

(* The command line is kept track of as LineInv says, while it is read.    *)
THEOREM LineCorrect == Spec => []MainInv
<1>1. Init => MainInv
  BY LineStart
<1>2. MainInv /\ [Next]_vars => MainInv'
  BY LineNext
<1> QED
  BY <1>1, <1>2, PTL DEF Spec

(* main runs the file exactly when the whole command line was read and     *)
(* names one, and with the options that are on at its end: the counts that *)
(* argparse_getvalue keeps, and keeps from falling below zero, are how far *)
(* an option is ahead of its negation in some end of the line.             *)
THEOREM LineAsAsked == Spec => OptionsAsAsked
<1> DEFINE asked == IF parsed' \in {"file", "usage"} THEN argv ELSE argv'
           Right == /\ (parsed' = "file") = (Cardinality(FilesIn(asked)) = 1 /\ AllKnown(asked))
                    /\ pc' = "eval" => /\ no_run' = On(asked, Options[2])
                                       /\ verbose' = On(asked, Options[3])
<1>1. MainInv /\ [Next]_vars => (pc = "main" /\ pc' # "main" => Right)
  <2> SUFFICES ASSUME LineInv, [Next]_vars, pc = "main", pc' # "main" PROVE Right
    BY DEF MainInv
  <2>1. CASE \E arg \in Arguments : Argument(arg)
    <3>1. PICK arg \in Arguments : Argument(arg)
      BY <2>1
    <3>2. argparse_parse(arg) /\ pc' = "exited" /\ parsed' # "reading"
      BY <3>1 DEF Argument
    <3>3. /\ parsed' \in {"help", "unknown"} /\ argv' = Append(argv, arg)
          /\ Len(argv) + 1 \in BeforeEnd(argv') /\ argv'[Len(argv) + 1] = arg /\ ~Plain(arg)
      BY <3>2, LineStep
    <3>4. argv' \in Seq(Arguments)
      BY <3>3, AppendIs DEF LineInv
    <3>5. ~AllKnown(argv')
      BY <3>3, <3>4, PlainIs
    <3>6. asked = argv' /\ parsed' # "file" /\ pc' # "eval"
      BY <3>2, <3>3
    <3> QED
      BY <3>5, <3>6
  <2>2. CASE main
    <3>1. /\ parsed' = IF files = 1 THEN "file" ELSE "usage"
          /\ no_run' = (counts.n > 0) /\ verbose' = (counts.v > 0)
      BY <2>2 DEF main, LineEnds
    <3>2. asked = argv
      BY <3>1
    <3>3. AllKnown(argv) /\ files = Cardinality(FilesIn(argv))
      BY PlainIs DEF LineInv
    <3>4. On(argv, Options[2]) = (counts.n > 0) /\ On(argv, Options[3]) = (counts.v > 0)
      BY OnIs DEF LineInv
    <3> HIDE DEF asked
    <3> QED
      BY <3>1, <3>2, <3>3, <3>4
  <2>3. CASE UNCHANGED vars
    BY <2>3 DEF vars
  <2> QED
    BY <2>1, <2>2, <2>3 DEF Next, Evaluate, erlm_print_ports_info,
       erlm_subscribe_all_output_ports, erlm_handle_input_event, SendBack, Emit, Echo, SendReturns
<1>2. MainInv /\ [Next]_vars
        => [pc = "main" /\ pc' # "main" =>
              /\ (parsed' = "file") =
                   /\ Cardinality(FilesIn(asked)) = 1
                   /\ \A i \in BeforeEnd(asked) : Known(asked[i])
                   /\ Asked(asked, Options[1], 1) = {} /\ Negated(asked, Options[1], 1) = {}
              /\ pc' = "eval" => /\ no_run' = On(asked, Options[2])
                                 /\ verbose' = On(asked, Options[3])]_vars
  BY <1>1 DEF AllKnown
<1> QED
  BY <1>2, LineCorrect, PTL DEF Spec, OptionsAsAsked
=============================================================================
