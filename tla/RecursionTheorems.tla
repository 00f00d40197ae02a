-------------------------- MODULE RecursionTheorems --------------------------
(***************************************************************************)
(* Induction and recursion over things made of parts.  Parts(x) are the    *)
(* things x is made of, and Def(p, f, x) is what a recursive function with *)
(* the parameter p is at x, where f is the function.                       *)
(***************************************************************************)
EXTENDS Integers, WellFoundedInduction, TLAPS

CONSTANTS Parts(_), Def(_, _, _)

(* A set of numbers with 0 and all successors is the set of all.           *)
LEMMA Induction ==
  ASSUME NEW S \in SUBSET Nat, 0 \in S, \A n \in S : n + 1 \in S
  PROVE  S = Nat
<1> DEFINE Less == {ss \in Nat \X Nat : ss[1] < ss[2]}
           Rest == Nat \ S
<1>1. IsWellFoundedOn(Less, Nat)
  BY NatLessThanWellFounded DEF OpToRel
<1>2. SUFFICES ASSUME Rest # {} PROVE FALSE
  OBVIOUS
<1>3. PICK n \in Rest : \A m \in Rest : <<m, n>> \notin Less
  <2> HIDE DEF Less
  <2> QED
    BY <1>1, <1>2, WFMin
<1>4. n \in Nat /\ n # 0 /\ <<n - 1, n>> \in Less
  BY <1>3
<1>5. n - 1 \in S
  BY <1>3, <1>4
<1> QED
  BY <1>3, <1>4, <1>5

LEMMA Least ==
  ASSUME NEW S \in SUBSET Nat, S # {}
  PROVE  \E n \in S : \A m \in S : n <= m
<1> DEFINE T == {n \in Nat : \A m \in S : n <= m}
<1>1. SUFFICES ASSUME \A n \in S : n \notin T PROVE FALSE
  OBVIOUS
<1>2. 0 \in T
  OBVIOUS
<1>3. ASSUME NEW n \in T PROVE n + 1 \in T
  <2>1. n \notin S
    BY <1>1
  <2> QED
    BY <2>1
<1>4. T = Nat
  <2>1. T \in SUBSET Nat
    OBVIOUS
  <2> HIDE DEF T
  <2> QED
    BY <1>2, <1>3, <2>1, Induction
<1> QED
  BY <1>1, <1>4

(* The things in W have ranks, and their parts are in W, with lower ones.  *)
Ranked(W, rank) ==
  \A x \in W : rank[x] \in Nat /\ \A y \in Parts(x) : y \in W /\ rank[y] < rank[x]

(* x, its parts, the parts of those, and so on, until there are none.      *)
Layered(D, x, layer) ==
  /\ layer[0] = {x}
  /\ \A n \in 1..D : layer[n] = UNION {Parts(y) : y \in layer[n - 1]}
  /\ \A y \in layer[D] : Parts(y) = {}

AllLayers(D, layer) == UNION {layer[n] : n \in 0..D}

(* The rank of a thing is how many layers follow the last one it is in.    *)
LEMMA LayersRanked ==
  ASSUME NEW D \in Nat, NEW x, NEW layer, Layered(D, x, layer)
  PROVE  \E rank : /\ Ranked(AllLayers(D, layer), rank)
                   /\ \A y \in AllLayers(D, layer) : rank[y] <= D
<1> DEFINE W == AllLayers(D, layer)
           After(y) == {n \in 0..D : y \in layer[D - n]}
           rank == [y \in W |-> CHOOSE n \in After(y) : \A m \in After(y) : n <= m]
<1>1. ASSUME NEW y \in W
      PROVE  rank[y] \in After(y) /\ \A m \in After(y) : rank[y] <= m
  <2>1. PICK n \in 0..D : y \in layer[n]
    BY DEF AllLayers
  <2>2. D - n \in 0..D /\ D - (D - n) = n
    OBVIOUS
  <2>3. After(y) # {} /\ After(y) \in SUBSET Nat
    <3>1. D - n \in After(y)
      BY <2>1, <2>2
    <3>2. After(y) \subseteq 0..D
      OBVIOUS
    <3> HIDE DEF After
    <3> QED
      BY <3>1, <3>2
  <2> HIDE DEF After
  <2> QED
    BY <2>3, Least
<1> HIDE DEF rank
<1>2. ASSUME NEW y \in W PROVE rank[y] \in Nat
  BY <1>1
<1>3. ASSUME NEW y \in W, NEW z \in Parts(y) PROVE z \in W /\ rank[z] < rank[y]
  <2> DEFINE n == rank[y]
  <2>1. n \in 0..D /\ y \in layer[D - n]
    BY <1>1
  <2>2. n # 0
    <3>1. n = 0 => D - n = D
      BY <2>1
    <3> QED
      BY <2>1, <3>1 DEF Layered
  <2> HIDE DEF n
  <2> DEFINE k == D - n + 1
  <2>3. k \in 1..D /\ k - 1 = D - n /\ n - 1 \in 0..D /\ D - (n - 1) = k
    BY <2>1, <2>2
  <2>4. z \in layer[k]
    BY <2>1, <2>3 DEF Layered
  <2> HIDE DEF k
  <2>5. z \in W /\ n - 1 \in After(z)
    BY <2>3, <2>4 DEF AllLayers
  <2>6. rank[z] <= n - 1 /\ rank[z] \in Nat
    BY <1>1, <1>2, <2>5
  <2> QED
    BY <2>1, <2>5, <2>6 DEF n
<1>4. Ranked(W, rank) /\ \A y \in W : rank[y] <= D
  <2>1. \A y \in W : rank[y] <= D
    BY <1>1
  <2> HIDE DEF W
  <2> QED
    BY <1>2, <1>3, <2>1 DEF Ranked
<1> QED
  BY <1>4

(* The definition uses the function for the parts only.                    *)
Local(p, W) ==
  \A f, g : \A x \in W : (\A y \in Parts(x) : f[y] = g[y]) => Def(p, f, x) = Def(p, g, x)

(* What holds of a thing when it holds of its parts holds of all of them.  *)
LEMMA PartsInduction ==
  ASSUME NEW W, NEW rank, Ranked(W, rank), NEW S,
         \A x \in W : (\A y \in Parts(x) : y \in S) => x \in S
  PROVE  \A x \in W : x \in S
<1> DEFINE N == {n \in Nat : \A x \in W : rank[x] < n => x \in S}
<1>1. 0 \in N
  BY DEF Ranked
<1>2. ASSUME NEW n \in N PROVE n + 1 \in N
  <2>1. ASSUME NEW x \in W, rank[x] < n + 1 PROVE x \in S
    <3>1. ASSUME NEW y \in Parts(x) PROVE y \in W /\ rank[y] < n
      BY <2>1 DEF Ranked
    <3> QED
      BY <3>1
  <2> QED
    BY <2>1
<1>3. N = Nat
  <2>1. N \in SUBSET Nat
    OBVIOUS
  <2> HIDE DEF N
  <2> QED
    BY <1>1, <1>2, <2>1, Induction
<1>4. ASSUME NEW x \in W PROVE x \in S
  <2>1. rank[x] + 1 \in N /\ rank[x] < rank[x] + 1
    <3> HIDE DEF N
    <3> QED
      BY <1>3 DEF Ranked
  <2> QED
    BY <2>1
<1> QED
  BY <1>4

(* A recursive function is determined by its definition.                   *)
LEMMA RecursionUnique ==
  ASSUME NEW p, NEW W, NEW rank, Ranked(W, rank), Local(p, W),
         NEW f, \A x \in W : f[x] = Def(p, f, x),
         NEW g, \A x \in W : g[x] = Def(p, g, x)
  PROVE  \A x \in W : f[x] = g[x]
<1> DEFINE S == {x \in W : f[x] = g[x]}
<1>1. ASSUME NEW x \in W, \A y \in Parts(x) : y \in S PROVE x \in S
  <2>1. Def(p, f, x) = Def(p, g, x)
    BY <1>1 DEF Local
  <2> QED
    BY <2>1
<1>2. \A x \in W : x \in S
  <2> HIDE DEF S
  <2> QED
    BY <1>1, PartsInduction
<1> QED
  BY <1>2

(* It exists.                                                              *)
LEMMA RecursionExists ==
  ASSUME NEW p, NEW W, NEW rank, Ranked(W, rank), Local(p, W)
  PROVE  \E f : f = [x \in W |-> Def(p, f, x)]
<1> DEFINE Below(n) == {x \in W : rank[x] < n}
           Upto(n, f) == f = [x \in Below(n) |-> Def(p, f, x)]
           N == {n \in Nat : \E f : Upto(n, f)}
<1>1. 0 \in N
  <2>1. Below(0) = {}
    BY DEF Ranked
  <2>2. Upto(0, [x \in {} |-> p])
    BY <2>1
  <2> QED
    BY <2>2
<1>2. ASSUME NEW n \in N PROVE n + 1 \in N
  <2>1. PICK f : Upto(n, f)
    OBVIOUS
  <2> DEFINE g == [x \in Below(n + 1) |-> Def(p, f, x)]
  <2>2. n \in Nat /\ \A x \in Below(n) : x \in Below(n + 1) /\ f[x] = Def(p, f, x)
    BY <2>1 DEF Ranked
  <2>3. ASSUME NEW x \in Below(n + 1) PROVE Def(p, f, x) = Def(p, g, x)
    <3>1. ASSUME NEW y \in Parts(x) PROVE f[y] = g[y]
      <4>1. y \in Below(n)
        BY <2>2 DEF Ranked
      <4> QED
        BY <2>2, <4>1
    <3> QED
      BY <3>1 DEF Local
  <2>4. Upto(n + 1, g)
    BY <2>3
  <2>5. \E f2 : Upto(n + 1, f2)
    <3> HIDE DEF g, Upto
    <3> QED
      BY <2>4
  <2>6. n + 1 \in Nat
    BY <2>2
  <2> HIDE DEF Upto
  <2> QED
    BY <2>5, <2>6
<1>3. N = Nat
  <2>1. N \in SUBSET Nat
    OBVIOUS
  <2> HIDE DEF N
  <2> QED
    BY <1>1, <1>2, <2>1, Induction
<1> DEFINE F(n) == CHOOSE f : Upto(n, f)
<1>4. ASSUME NEW n \in Nat PROVE Upto(n, F(n))
  BY <1>3
<1> HIDE DEF N, F
<1>5. ASSUME NEW m \in Nat, NEW n \in Nat, m <= n, NEW x \in Below(m)
      PROVE  F(m)[x] = F(n)[x]
  <2> DEFINE V == Below(m)
             a == F(m)
             b == F(n)
  <2>1. \A y \in V : a[y] = Def(p, a, y)
    BY <1>4
  <2>2. \A y \in V : b[y] = Def(p, b, y)
    <3>1. \A y \in V : y \in Below(n)
      BY <1>5 DEF Ranked
    <3> QED
      BY <1>4, <3>1
  <2>3. Ranked(V, rank) /\ Local(p, V)
    BY DEF Ranked, Local
  <2> HIDE DEF V, a, b, Below, Upto
  <2>4. \A y \in V : a[y] = b[y]
    BY <2>1, <2>2, <2>3, RecursionUnique
  <2> QED
    BY <2>4, <1>5 DEF V, a, b
<1> DEFINE G == [x \in W |-> F(rank[x] + 1)[x]]
<1>6. ASSUME NEW x \in W PROVE G[x] = Def(p, G, x)
  <2> DEFINE r == rank[x] + 1
             h == F(r)
  <2>1. r \in Nat /\ x \in Below(r)
    BY DEF Ranked
  <2>2. h[x] = Def(p, h, x)
    BY <1>4, <2>1
  <2>3. ASSUME NEW y \in Parts(x) PROVE h[y] = G[y]
    <3>1. y \in W /\ rank[y] + 1 \in Nat /\ rank[y] + 1 <= r /\ y \in Below(rank[y] + 1)
      BY DEF Ranked
    <3>2. F(rank[y] + 1)[y] = F(r)[y]
      <4> HIDE DEF r, Below, Upto
      <4> QED
        BY <1>5, <2>1, <3>1
    <3> QED
      BY <3>1, <3>2
  <2>4. Def(p, h, x) = Def(p, G, x)
    <3> HIDE DEF h, G
    <3> QED
      BY <2>3 DEF Local
  <2> QED
    BY <2>2, <2>4
<1>7. G = [x \in W |-> Def(p, G, x)]
  <2>1. \A x \in W : G[x] = Def(p, G, x)
    BY <1>6
  <2> QED
    BY <2>1
<1> QED
  BY <1>7

-----------------------------------------------------------------------------
(* The layers below x, as far as D, and whether those are all there are.   *)
LayersOf(D, x) ==
  LET layer[n \in 0..D] == IF n = 0 THEN {x} ELSE UNION {Parts(y) : y \in layer[n - 1]}
  IN layer

All(D, x) == UNION {LayersOf(D, x)[n] : n \in 0..D}

Nests(D, x) == \A y \in LayersOf(D, x)[D] : Parts(y) = {}

LEMMA LayersAre ==
  ASSUME NEW D \in Nat, NEW x
  PROVE  /\ LayersOf(D, x)[0] = {x}
         /\ \A n \in 1..D : LayersOf(D, x)[n] = UNION {Parts(y) : y \in LayersOf(D, x)[n - 1]}
<1> DEFINE Next(S) == UNION {Parts(y) : y \in S}
           Is(n, f) == f = [k \in 0..n |-> IF k = 0 THEN {x} ELSE Next(f[k - 1])]
           N == {n \in Nat : \E f : Is(n, f)}
           layer == CHOOSE f : Is(D, f)
<1>1. 0 \in N
  <2>1. Is(0, [k \in 0..0 |-> {x}])
    OBVIOUS
  <2> QED
    BY <2>1
<1>2. ASSUME NEW n \in N PROVE n + 1 \in N
  <2>1. PICK f : Is(n, f)
    OBVIOUS
  <2> HIDE DEF Next
  <2> DEFINE g == [k \in 0..n + 1 |-> IF k = n + 1 THEN Next(f[n]) ELSE f[k]]
  <2>2. n \in Nat /\ \A k \in 0..n : f[k] = IF k = 0 THEN {x} ELSE Next(f[k - 1])
    BY <2>1
  <2>3. ASSUME NEW k \in 0..n + 1 PROVE g[k] = IF k = 0 THEN {x} ELSE Next(g[k - 1])
    <3>1. CASE k = n + 1
      <4>1. k # 0 /\ k - 1 = n /\ n # n + 1 /\ n \in 0..n + 1
        BY <2>2, <3>1
      <4> QED
        BY <3>1, <4>1
    <3>2. CASE k # n + 1
      <4>1. k \in 0..n /\ (k # 0 => k - 1 \in 0..n + 1 /\ k - 1 # n + 1)
        BY <2>2, <3>2
      <4> QED
        BY <2>2, <3>2, <4>1
    <3> QED
      BY <3>1, <3>2
  <2>4. Is(n + 1, g)
    <3>1. g = [k \in 0..n + 1 |-> g[k]]
      OBVIOUS
    <3> HIDE DEF g
    <3> QED
      BY <2>3, <3>1
  <2>5. \E h : Is(n + 1, h)
    <3> HIDE DEF g, Is
    <3> QED
      BY <2>4
  <2> QED
    BY <2>2, <2>5
<1>3. N = Nat
  <2>1. N \in SUBSET Nat
    OBVIOUS
  <2> HIDE DEF N
  <2> QED
    BY <1>1, <1>2, <2>1, Induction
<1>4. Is(D, layer)
  <2>1. \E f : Is(D, f)
    BY <1>3
  <2> HIDE DEF Is
  <2> QED
    BY <2>1
<1>5. LayersOf(D, x) = layer
  BY Zenon DEF LayersOf
<1> HIDE DEF layer
<1> QED
  BY <1>4, <1>5

LEMMA LayeredBelow ==
  ASSUME NEW D \in Nat, NEW x
  PROVE  /\ x \in All(D, x)
         /\ All(D, x) = AllLayers(D, LayersOf(D, x))
         /\ Nests(D, x) => Layered(D, x, LayersOf(D, x))
BY LayersAre DEF All, AllLayers, Nests, Layered

(* A set that has x and the parts of all it has, has all that is in x.     *)
LEMMA Closed ==
  ASSUME NEW D \in Nat, NEW x, NEW S, x \in S, \A y \in S : Parts(y) \subseteq S
  PROVE  All(D, x) \subseteq S
<1> DEFINE layer == LayersOf(D, x)
           N == {n \in Nat : n <= D => layer[n] \subseteq S}
<1>0. layer[0] = {x} /\ \A n \in 1..D : layer[n] = UNION {Parts(y) : y \in layer[n - 1]}
  BY LayersAre
<1>5. All(D, x) = UNION {layer[n] : n \in 0..D}
  BY DEF All
<1> HIDE DEF layer
<1>1. 0 \in N
  BY <1>0
<1>2. ASSUME NEW n \in N PROVE n + 1 \in N
  <2>1. ASSUME n + 1 <= D PROVE layer[n + 1] \subseteq S
    <3>1. n + 1 \in 1..D /\ n + 1 - 1 = n /\ layer[n] \subseteq S
      BY <2>1
    <3> QED
      BY <1>0, <3>1
  <2> QED
    BY <2>1
<1>3. N = Nat
  <2>1. N \in SUBSET Nat
    OBVIOUS
  <2> HIDE DEF N
  <2> QED
    BY <1>1, <1>2, <2>1, Induction
<1> QED
  BY <1>3, <1>5

(* What has a rank is not nested deeper than that.                         *)
LEMMA RankedNests ==
  ASSUME NEW D \in Nat, NEW W, NEW rank, Ranked(W, rank), NEW x \in W, rank[x] <= D
  PROVE  Nests(D, x) /\ All(D, x) \subseteq W
<1> DEFINE layer == LayersOf(D, x)
           N == {n \in Nat : n <= D => \A y \in layer[n] : y \in W /\ rank[y] <= D - n}
<1>0. layer[0] = {x} /\ \A n \in 1..D : layer[n] = UNION {Parts(y) : y \in layer[n - 1]}
  BY LayersAre
<1>5. Nests(D, x) <=> \A y \in layer[D] : Parts(y) = {}
  BY DEF Nests
<1> HIDE DEF layer
<1>1. 0 \in N
  BY <1>0
<1>2. ASSUME NEW n \in N PROVE n + 1 \in N
  <2>1. ASSUME n + 1 <= D, NEW z \in layer[n + 1] PROVE z \in W /\ rank[z] <= D - (n + 1)
    <3>1. n + 1 \in 1..D /\ n + 1 - 1 = n /\ n <= D
      BY <2>1
    <3>2. PICK y \in layer[n] : z \in Parts(y)
      BY <1>0, <2>1, <3>1
    <3>3. y \in W /\ rank[y] <= D - n
      BY <3>1
    <3>4. z \in W /\ rank[z] < rank[y] /\ rank[z] \in Nat /\ rank[y] \in Nat
      BY <3>2, <3>3 DEF Ranked
    <3> QED
      BY <3>1, <3>3, <3>4
  <2> QED
    BY <2>1
<1>3. N = Nat
  <2>1. N \in SUBSET Nat
    OBVIOUS
  <2> HIDE DEF N
  <2> QED
    BY <1>1, <1>2, <2>1, Induction
<1>4. ASSUME NEW y \in layer[D] PROVE Parts(y) = {}
  <2>1. y \in W /\ rank[y] <= 0
    BY <1>3
  <2> QED
    BY <2>1 DEF Ranked
<1>6. All(D, x) \subseteq W
  BY Closed DEF Ranked
<1> QED
  BY <1>4, <1>5, <1>6

(* What is in something is nested, and what is in it is in that, too.      *)
LEMMA NestedParts ==
  ASSUME NEW D \in Nat, NEW x, Nests(D, x)
  PROVE  /\ x \in All(D, x)
         /\ \E rank : Ranked(All(D, x), rank) /\ \A y \in All(D, x) : rank[y] <= D
         /\ \A y \in All(D, x) :
              /\ Nests(D, y) /\ y \in All(D, y)
              /\ All(D, y) \subseteq All(D, x)
              /\ Parts(y) \subseteq All(D, x)
<1> DEFINE W == All(D, x)
<1>1. PICK rank : Ranked(W, rank) /\ \A y \in W : rank[y] <= D
  <2>1. \A layer : Layered(D, x, layer) =>
          \E rank : Ranked(AllLayers(D, layer), rank) /\ \A y \in AllLayers(D, layer) : rank[y] <= D
    BY LayersRanked
  <2> QED
    BY <2>1, LayeredBelow, Zenon
<1> HIDE DEF W
<1>2. ASSUME NEW y \in W PROVE Nests(D, y) /\ All(D, y) \subseteq W
  BY <1>1, RankedNests
<1>3. ASSUME NEW y \in W PROVE Parts(y) \subseteq W
  BY <1>1 DEF Ranked
<1>4. \A y : y \in All(D, y)
  BY LayeredBelow
<1> QED
  BY <1>1, <1>2, <1>3, <1>4 DEF W

(* What things of lower ranks become has ranks, when its parts are what    *)
(* others of lower ranks become.                                           *)
LEMMA ImageRanked ==
  ASSUME NEW U, NEW rank, \A u \in U : rank[u] \in Nat,
         NEW image,
         \A u \in U : \A y \in Parts(image[u]) : \E w \in U : y = image[w] /\ rank[w] < rank[u]
  PROVE  \E r : /\ Ranked({image[u] : u \in U}, r)
                /\ \A u \in U : r[image[u]] <= rank[u]
<1> DEFINE S == {image[u] : u \in U}
           Of(y) == {rank[u] : u \in {v \in U : image[v] = y}}
           r == [y \in S |-> CHOOSE n \in Of(y) : \A m \in Of(y) : n <= m]
<1>1. ASSUME NEW y \in S PROVE r[y] \in Of(y) /\ \A m \in Of(y) : r[y] <= m
  <2>1. Of(y) # {} /\ Of(y) \in SUBSET Nat
    OBVIOUS
  <2> HIDE DEF Of
  <2> QED
    BY <2>1, Least
<1> HIDE DEF r
<1>2. ASSUME NEW u \in U PROVE image[u] \in S /\ r[image[u]] <= rank[u]
  BY <1>1
<1>3. ASSUME NEW y \in S
      PROVE  r[y] \in Nat /\ \A z \in Parts(y) : z \in S /\ r[z] < r[y]
  <2>1. PICK u \in U : image[u] = y /\ rank[u] = r[y]
    BY <1>1
  <2>2. ASSUME NEW z \in Parts(y) PROVE z \in S /\ r[z] < r[y]
    <3>1. PICK w \in U : z = image[w] /\ rank[w] < rank[u]
      BY <2>1, <2>2
    <3>2. z \in S /\ r[z] <= rank[w] /\ r[z] \in Nat
      BY <1>1, <1>2, <3>1
    <3> QED
      BY <2>1, <3>1, <3>2
  <2> QED
    BY <2>1, <2>2
<1>4. Ranked(S, r)
  <2> HIDE DEF S
  <2> QED
    BY <1>3 DEF Ranked
<1> QED
  BY <1>2, <1>4

-----------------------------------------------------------------------------
(* The recursive function on W, at x.                                      *)
Value(p, W, x) == (CHOOSE f : f = [y \in W |-> Def(p, f, y)])[x]

(* Each thing has the value its definition unfolds to, though the function *)
(* is another one for each: the one on what is in the thing.               *)
THEOREM RecursionUnfolds ==
  ASSUME NEW p, NEW W, NEW rank, Ranked(W, rank), Local(p, W), NEW Own,
         \A x \in W : x \in Own[x] /\ Own[x] \subseteq W
                      /\ \A y \in Own[x] : Parts(y) \subseteq Own[x]
  PROVE  \A x \in W : Value(p, Own[x], x) = Def(p, [y \in W |-> Value(p, Own[y], y)], x)
<1> DEFINE Is(V, f) == f = [y \in V |-> Def(p, f, y)]
           F(V) == CHOOSE f : Is(V, f)
<1>1. ASSUME NEW V, Ranked(V, rank), Local(p, V) PROVE \A y \in V : F(V)[y] = Def(p, F(V), y)
  <2>1. \E f : Is(V, f)
    BY <1>1, RecursionExists
  <2>2. Is(V, F(V))
    <3> HIDE DEF Is
    <3> QED
      BY <2>1
  <2> HIDE DEF F
  <2> QED
    BY <2>2
<1>2. \A V, x : Value(p, V, x) = F(V)[x]
  BY Zenon DEF Value
<1> HIDE DEF F
<1>3. \A x \in W : F(W)[x] = Def(p, F(W), x)
  BY <1>1
<1>4. ASSUME NEW x \in W PROVE F(Own[x])[x] = F(W)[x]
  <2> DEFINE V == Own[x]
             a == F(V)
             b == F(W)
  <2>1. Ranked(V, rank) /\ Local(p, V)
    BY DEF Ranked, Local
  <2>2. \A y \in V : a[y] = Def(p, a, y)
    BY <1>1, <2>1
  <2>3. \A y \in V : b[y] = Def(p, b, y)
    BY <1>3
  <2>4. x \in V
    OBVIOUS
  <2> HIDE DEF V, a, b
  <2>5. \A y \in V : a[y] = b[y]
    BY <2>1, <2>2, <2>3, RecursionUnique
  <2> QED
    BY <2>4, <2>5 DEF V, a, b
<1> DEFINE h == [y \in W |-> Value(p, Own[y], y)]
<1>5. \A y \in W : h[y] = F(W)[y]
  BY <1>2, <1>4
<1>6. ASSUME NEW x \in W PROVE Value(p, Own[x], x) = Def(p, h, x)
  <2>1. Value(p, Own[x], x) = Def(p, F(W), x)
    BY <1>2, <1>3, <1>4
  <2>2. \A y \in Parts(x) : F(W)[y] = h[y]
    <3> HIDE DEF h
    <3> QED
      BY <1>5 DEF Ranked
  <2>3. Def(p, F(W), x) = Def(p, h, x)
    <3> HIDE DEF h
    <3> QED
      BY <2>2 DEF Local
  <2> QED
    BY <2>1, <2>3
<1> QED
  BY <1>6

(* The same for all that is in a thing that is not nested for ever.        *)
LEMMA NestedUnfolds ==
  ASSUME NEW p, NEW D \in Nat, NEW x, Nests(D, x), Local(p, All(D, x))
  PROVE  \A y \in All(D, x) :
           Value(p, All(D, y), y) = Def(p, [z \in All(D, x) |-> Value(p, All(D, z), z)], y)
<1> DEFINE W == All(D, x)
           Own == [y \in W |-> All(D, y)]
<1>1. PICK rank : Ranked(W, rank)
  BY NestedParts
<1>2. ASSUME NEW y \in W
      PROVE  y \in Own[y] /\ Own[y] \subseteq W /\ \A z \in Own[y] : Parts(z) \subseteq Own[y]
  BY NestedParts
<1>3. Local(p, W)
  OBVIOUS
<1> HIDE DEF W, Own
<1>4. \A y \in W : Value(p, Own[y], y) = Def(p, [z \in W |-> Value(p, Own[z], z)], y)
  BY <1>1, <1>2, <1>3, RecursionUnfolds
<1>5. [z \in W |-> Value(p, Own[z], z)] = [z \in W |-> Value(p, All(D, z), z)]
  BY DEF Own
<1> QED
  BY <1>4, <1>5 DEF W, Own
=============================================================================
