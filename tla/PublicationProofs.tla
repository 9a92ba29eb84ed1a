-------------------------- MODULE PublicationProofs --------------------------
(***************************************************************************)
(* Proof that a publication accounts for every byte and every record, and  *)
(* that the report it froze stays true (Publication), for any number of    *)
(* records of any lengths and any channel capacity.                        *)
(*                                                                         *)
(* The accounting is in sums over the records.  The first part is what is  *)
(* needed of sums over sets of orders: SumFunctionOnSet is an iteration in *)
(* an order that CHOOSE picks, and its value does not depend on that order.*)
(* Where a fact is shown of every such set, a smallest counterexample is   *)
(* led to a contradiction.                                                 *)
(***************************************************************************)
EXTENDS Publication, WellFoundedInduction, TLAPS

\* A nonempty set of naturals has a least member,
LEMMA Least ==
    ASSUME NEW T \in SUBSET Nat, T # {}
    PROVE  \E m \in T : \A k \in T : ~ (k < m)
<1>1. \E m \in T : \A k \in T : ~ (<<k, m>> \in OpToRel(<, Nat))
  BY NatLessThanWellFounded, WFMin, Zenon
<1> QED BY Zenon, <1>1 DEF OpToRel

\* and a nonempty family of sets of orders a smallest one.
HasMinimal(F) == \E m \in F : \A u \in F : u \subseteq m => u = m

LEMMA MinimalUpTo ==
    ASSUME NEW n \in Nat, n > 0, NEW F \in SUBSET (SUBSET (1 .. n)), F # {},
           \A G \in SUBSET (SUBSET (1 .. n - 1)) : G # {} => HasMinimal(G)
    PROVE  HasMinimal(F)
<1>0. \A m \in F : m \ {n} \in SUBSET (1 .. n - 1)
  <2>1. \A x \in 1 .. n : x # n => x \in 1 .. n - 1
    OBVIOUS
  <2> QED BY Zenon, <2>1
<1>1. CASE \E m \in F : n \notin m
  <2> DEFINE G == {m \in F : n \notin m}
  <2>1. \A m \in G : m = m \ {n}
    BY Zenon
  <2>2. G \in SUBSET (SUBSET (1 .. n - 1)) /\ G # {}
    BY Zenon, <1>0, <1>1, <2>1
  <2> HIDE DEF G
  <2>3. HasMinimal(G)
    BY Zenon, <2>2
  <2>4. PICK m \in G : \A u \in G : u \subseteq m => u = m
    BY Zenon, <2>3 DEF HasMinimal
  <2>5. m \in F /\ n \notin m
    BY Zenon DEF G
  <2>6. \A u \in F : u \subseteq m => u \in G
    BY Zenon, <2>5 DEF G
  <2>7. ASSUME NEW u \in F, u \subseteq m PROVE u = m
    BY Zenon, <2>4, <2>6, <2>7
  <2> QED BY Zenon, <2>5, <2>7 DEF HasMinimal
<1>2. CASE \A m \in F : n \in m
  <2> DEFINE G == {m \ {n} : m \in F}
  <2>1. G \in SUBSET (SUBSET (1 .. n - 1)) /\ G # {}
    BY Zenon, <1>0
  <2>2. \A m \in F : m \ {n} \in G
    BY Zenon
  <2>3. \A v \in G : \E m \in F : v = m \ {n}
    BY Zenon
  <2> HIDE DEF G
  <2>4. HasMinimal(G)
    BY Zenon, <2>1
  <2>5. PICK v \in G : \A u \in G : u \subseteq v => u = v
    BY Zenon, <2>4 DEF HasMinimal
  <2>6. PICK m \in F : v = m \ {n}
    BY Zenon, <2>3
  <2>7. ASSUME NEW u \in F, u \subseteq m PROVE u = m
    <3>1. u \ {n} \in G /\ u \ {n} \subseteq v
      BY Zenon, <2>2, <2>6, <2>7
    <3>2. u \ {n} = m \ {n}
      BY Zenon, <2>5, <2>6, <3>1
    <3>3. n \in u /\ n \in m
      BY Zenon, <1>2
    <3>4. \A x : x \in u <=> x \in m
      BY Zenon, <3>2, <3>3
    <3> QED BY Zenon, <3>4
  <2> QED BY Zenon, <2>7 DEF HasMinimal
<1> QED BY Zenon, <1>1, <1>2

LEMMA Minimal == ASSUME NEW F \in SUBSET (SUBSET Orders), F # {} PROVE HasMinimal(F)
<1> DEFINE Good(n) == \A G \in SUBSET (SUBSET (1 .. n)) : G # {} => HasMinimal(G)
           bad == {n \in Nat : ~ Good(n)}
<1>1. SUFFICES ASSUME bad # {} PROVE FALSE
  <2>1. F \in SUBSET (SUBSET (1 .. Records)) /\ Records \in Nat
    BY Zenon, PublicationBounds DEF Orders
  <2> QED BY Zenon, <2>1
<1>2. PICK n \in bad : \A k \in bad : ~ (k < n)
  <2>1. bad \in SUBSET Nat
    BY Zenon
  <2> HIDE DEF bad
  <2> QED BY Zenon, <1>1, <2>1, Least
<1>3. n \in Nat /\ ~ Good(n)
  BY Zenon
<1>4. CASE n = 0
  <2>1. ASSUME NEW G \in SUBSET (SUBSET (1 .. n)), G # {} PROVE HasMinimal(G)
    <3>1. 1 .. n = {}
      BY <1>4
    <3>2. \A m \in G : m = {}
      BY Zenon, <3>1
    <3>3. \A m, u \in G : u = m
      BY Zenon, <3>2
    <3>4. PICK m \in G : TRUE
      BY Zenon, <2>1
    <3>5. \A u \in G : u \subseteq m => u = m
      BY Zenon, <3>3
    <3> QED BY Zenon, <3>5 DEF HasMinimal
  <2> QED BY Zenon, <1>3, <2>1
<1>5. CASE n # 0
  <2>1. n > 0 /\ n - 1 \in Nat /\ n - 1 < n
    BY <1>3, <1>5
  <2>2. Good(n - 1)
    BY Zenon, <1>2, <2>1
  <2>3. ASSUME NEW G \in SUBSET (SUBSET (1 .. n)), G # {} PROVE HasMinimal(G)
    <3>1. \A H \in SUBSET (SUBSET (1 .. n - 1)) : H # {} => HasMinimal(H)
      BY Zenon, <2>2
    <3> HIDE DEF Good, bad
    <3> QED BY Zenon, <1>3, <2>1, <2>3, <3>1, MinimalUpTo
  <2> QED BY Zenon, <1>3, <2>3
<1> QED BY Zenon, <1>4, <1>5

\* The iteration behind a sum: a picked element's value and the rest.
Pick(s) == CHOOSE x \in s : TRUE
Step(f, g, s) == IF s = {} THEN 0 ELSE f[Pick(s)] + g[s \ {Pick(s)}]
IsIter(f, g, S) == g = [s \in SUBSET S |-> Step(f, g, s)]
Iter(f, S) == CHOOSE g : IsIter(f, g, S)

\* SumFunctionOnSet is the value of that iteration.
LEMMA Unfold == ASSUME NEW f, NEW S PROVE SumFunctionOnSet(f, S) = Iter(f, S)[S]
  BY Zenon DEF SumFunctionOnSet, FoldFunctionOnSet, MapThenFoldSet, Iter, IsIter, Step, Pick

\* Two iterations agree where both are defined,
LEMMA IterUnique ==
    ASSUME NEW f, NEW S \in SUBSET Orders, NEW T, NEW g, NEW h, IsIter(f, g, S), IsIter(f, h, T)
    PROVE  \A s \in SUBSET (S \cap T) : g[s] = h[s]
<1> DEFINE bad == {s \in SUBSET (S \cap T) : g[s] # h[s]}
<1>1. SUFFICES ASSUME bad # {} PROVE FALSE
  BY Zenon
<1>2. PICK m \in bad : \A u \in bad : u \subseteq m => u = m
  <2>1. bad \in SUBSET (SUBSET Orders)
    OBVIOUS
  <2> HIDE DEF bad
  <2>2. HasMinimal(bad)
    BY Zenon, <1>1, <2>1, Minimal
  <2> QED BY Zenon, <2>2 DEF HasMinimal
<1>3. m \in SUBSET S /\ m \in SUBSET T /\ g[m] # h[m]
  OBVIOUS
<1>4. g[m] = Step(f, g, m) /\ h[m] = Step(f, h, m)
  BY Zenon, <1>3 DEF IsIter
<1>5. CASE m = {}
  BY Zenon, <1>3, <1>4, <1>5 DEF Step
<1>6. CASE m # {}
  <2> DEFINE n == m \ {Pick(m)}
  <2>1. Pick(m) \in m
    BY Zenon, <1>6 DEF Pick
  <2>2. n \subseteq m /\ n # m /\ n \in SUBSET (S \cap T)
    BY Zenon, <2>1
  <2>3. g[n] = h[n]
    BY Zenon, <1>2, <2>2
  <2> QED BY Zenon, <1>3, <1>4, <1>6, <2>3 DEF Step
<1> QED BY Zenon, <1>5, <1>6

\* and there is one on every finite set,
LEMMA IterExists ==
    ASSUME NEW f, NEW S \in SUBSET Orders
    PROVE  IsIter(f, Iter(f, S), S)
<1> DEFINE bad == {s \in SUBSET S : ~ \E g : IsIter(f, g, s)}
<1>1. ASSUME NEW s, \E g : IsIter(f, g, s) PROVE IsIter(f, Iter(f, s), s)
  BY Zenon, <1>1 DEF Iter
<1>2. SUFFICES ASSUME bad # {} PROVE FALSE
  BY Zenon, <1>1
<1>3. PICK m \in bad : \A u \in bad : u \subseteq m => u = m
  <2>1. bad \in SUBSET (SUBSET Orders)
    OBVIOUS
  <2> HIDE DEF bad
  <2>2. HasMinimal(bad)
    BY Zenon, <1>2, <2>1, Minimal
  <2> QED BY Zenon, <2>2 DEF HasMinimal
<1>4. ASSUME NEW u \in SUBSET m, u # m
      PROVE  IsIter(f, Iter(f, u), u) /\ u \in SUBSET Orders
  <2>1. u \in SUBSET S /\ u \notin bad
    BY Zenon, <1>3, <1>4
  <2>2. u \in SUBSET Orders
    BY Zenon, <2>1
  <2> QED BY Zenon, <1>1, <2>1, <2>2
<1> DEFINE g == [s \in SUBSET m |-> IF s = {} THEN 0
                                   ELSE f[Pick(s)] + Iter(f, s \ {Pick(s)})[s \ {Pick(s)}]]
<1>5. ASSUME NEW s \in SUBSET m, s # {}
      PROVE  g[s \ {Pick(s)}] = Iter(f, s \ {Pick(s)})[s \ {Pick(s)}]
  <2> DEFINE u == s \ {Pick(s)}
  <2>1. Pick(s) \in s
    BY Zenon, <1>5 DEF Pick
  <2>2. u \in SUBSET m /\ u # m
    BY Zenon, <2>1
  <2>3. IsIter(f, Iter(f, u), u) /\ u \in SUBSET Orders
    BY Zenon, <1>4, <2>2
  <2>4. Iter(f, u)[u] = Step(f, Iter(f, u), u)
    BY Zenon, <2>3 DEF IsIter
  <2>5. CASE u = {}
    BY Zenon, <2>2, <2>4, <2>5 DEF Step
  <2>6. CASE u # {}
    <3> DEFINE w == u \ {Pick(u)}
    <3>1. Pick(u) \in u
      BY Zenon, <2>6 DEF Pick
    <3>2. w \in SUBSET m /\ w # m /\ w \in SUBSET (u \cap w)
      BY Zenon, <2>2, <3>1
    <3>3. IsIter(f, Iter(f, w), w)
      BY Zenon, <1>4, <3>2
    <3>4. \A t \in SUBSET (u \cap w) : Iter(f, u)[t] = Iter(f, w)[t]
      <4> HIDE DEF u, w
      <4> QED BY <2>3, <3>3, IterUnique
    <3>5. Iter(f, u)[w] = Iter(f, w)[w]
      BY Zenon, <3>2, <3>4
    <3> QED BY Zenon, <2>2, <2>4, <2>6, <3>5 DEF Step
  <2> QED BY Zenon, <2>5, <2>6
<1>6. ASSUME NEW s \in SUBSET m PROVE g[s] = Step(f, g, s)
  <2>1. CASE s = {}
    BY Zenon, <2>1 DEF Step
  <2>2. CASE s # {}
    <3>1. g[s] = f[Pick(s)] + Iter(f, s \ {Pick(s)})[s \ {Pick(s)}]
      BY Zenon, <2>2
    <3>2. Step(f, g, s) = f[Pick(s)] + g[s \ {Pick(s)}]
      BY Zenon, <2>2 DEF Step
    <3> QED BY Zenon, <1>5, <2>2, <3>1, <3>2
  <2> QED BY Zenon, <2>1, <2>2
<1>7. g = [s \in SUBSET m |-> Step(f, g, s)]
  <2>1. g = [s \in SUBSET m |-> g[s]]
    OBVIOUS
  <2> HIDE DEF g
  <2> QED BY Zenon, <1>6, <2>1
<1> HIDE DEF g
<1>8. IsIter(f, g, m)
  BY Zenon, <1>7 DEF IsIter
<1> QED BY Zenon, <1>3, <1>8

\* so that a sum is its first term and the sum of the others.
LEMMA SumStep ==
    ASSUME NEW f, NEW S \in SUBSET Orders
    PROVE  /\ S = {} => SumFunctionOnSet(f, S) = 0
           /\ S # {} => /\ Pick(S) \in S
                       /\ SumFunctionOnSet(f, S) = f[Pick(S)] + SumFunctionOnSet(f, S \ {Pick(S)})
<1>1. IsIter(f, Iter(f, S), S)
  BY Zenon, IterExists
<1>2. Iter(f, S)[S] = Step(f, Iter(f, S), S)
  BY Zenon, <1>1 DEF IsIter
<1>3. S = {} => SumFunctionOnSet(f, S) = 0
  BY Zenon, <1>2, Unfold DEF Step
<1>4. ASSUME S # {} PROVE Pick(S) \in S
  BY Zenon, <1>4 DEF Pick
<1>5. ASSUME S # {}
      PROVE  SumFunctionOnSet(f, S) = f[Pick(S)] + SumFunctionOnSet(f, S \ {Pick(S)})
  <2> DEFINE u == S \ {Pick(S)}
  <2>1. u \in SUBSET (S \cap u) /\ u \in SUBSET Orders
    OBVIOUS
  <2>2. IsIter(f, Iter(f, u), u)
    BY Zenon, <2>1, IterExists
  <2>3. \A t \in SUBSET (S \cap u) : Iter(f, S)[t] = Iter(f, u)[t]
    <3> HIDE DEF u
    <3> QED BY <1>1, <2>2, IterUnique
  <2>4. Iter(f, S)[u] = SumFunctionOnSet(f, u)
    BY Zenon, <2>1, <2>3, Unfold
  <2> QED BY Zenon, <1>2, <1>5, <2>4, Unfold DEF Step
<1> QED BY Zenon, <1>3, <1>4, <1>5

\* A sum of naturals is one,
LEMMA SumNat ==
    ASSUME NEW f, NEW S \in SUBSET Orders, \A x \in S : f[x] \in Nat
    PROVE  SumFunctionOnSet(f, S) \in Nat
<1> DEFINE bad == {s \in SUBSET S : SumFunctionOnSet(f, s) \notin Nat}
<1>1. SUFFICES ASSUME bad # {} PROVE FALSE
  BY Zenon
<1>2. PICK m \in bad : \A u \in bad : u \subseteq m => u = m
  <2>1. bad \in SUBSET (SUBSET Orders)
    OBVIOUS
  <2> HIDE DEF bad
  <2>2. HasMinimal(bad)
    BY Zenon, <1>1, <2>1, Minimal
  <2> QED BY Zenon, <2>2 DEF HasMinimal
<1>3. m \in SUBSET Orders
  OBVIOUS
<1>4. m # {}
  <2>1. SumFunctionOnSet(f, m) \notin Nat
    OBVIOUS
  <2>2. m = {} => SumFunctionOnSet(f, m) = 0
    BY Zenon, <1>3, SumStep
  <2> QED BY <2>1, <2>2
<1>5. Pick(m) \in m /\ SumFunctionOnSet(f, m) = f[Pick(m)] + SumFunctionOnSet(f, m \ {Pick(m)})
  BY Zenon, <1>3, <1>4, SumStep
<1>6. SumFunctionOnSet(f, m \ {Pick(m)}) \in Nat
  <2>1. m \ {Pick(m)} \in SUBSET S /\ m \ {Pick(m)} \subseteq m /\ m \ {Pick(m)} # m
    BY Zenon, <1>5
  <2> QED BY Zenon, <1>2, <2>1
<1> QED BY <1>5, <1>6

\* any term may be taken out first,
LEMMA SumRemove ==
    ASSUME NEW f, NEW S \in SUBSET Orders, \A x \in S : f[x] \in Nat, NEW y \in S
    PROVE  SumFunctionOnSet(f, S) = f[y] + SumFunctionOnSet(f, S \ {y})
<1> DEFINE Sm(s) == SumFunctionOnSet(f, s)
           bad == {s \in SUBSET S : \E x \in s : Sm(s) # f[x] + Sm(s \ {x})}
<1>1. SUFFICES ASSUME bad # {} PROVE FALSE
  BY Zenon
<1>2. PICK m \in bad : \A u \in bad : u \subseteq m => u = m
  <2>1. bad \in SUBSET (SUBSET Orders)
    OBVIOUS
  <2> HIDE DEF bad
  <2>2. HasMinimal(bad)
    BY Zenon, <1>1, <2>1, Minimal
  <2> QED BY Zenon, <2>2 DEF HasMinimal
<1>3. PICK x \in m : Sm(m) # f[x] + Sm(m \ {x})
  BY Zenon, <1>2
<1>4. m \in SUBSET Orders
  OBVIOUS
<1> DEFINE p == Pick(m)
<1>5. p \in m /\ Sm(m) = f[p] + Sm(m \ {p})
  BY Zenon, <1>3, <1>4, SumStep
<1> HIDE DEF p, Sm
<1>6. x # p
  BY Zenon, <1>3, <1>5
<1>7. m \ {p} \notin bad /\ m \ {x} \notin bad
  BY Zenon, <1>2, <1>5
<1>8. Sm(m \ {p}) = f[x] + Sm((m \ {p}) \ {x})
  BY Zenon, <1>6, <1>7
<1>9. Sm(m \ {x}) = f[p] + Sm((m \ {x}) \ {p})
  BY Zenon, <1>5, <1>6, <1>7
<1>10. (m \ {p}) \ {x} = (m \ {x}) \ {p}
  OBVIOUS
<1>11. Sm((m \ {p}) \ {x}) \in Nat
  <2>1. (m \ {p}) \ {x} \in SUBSET Orders
    BY Zenon, <1>4
  <2> QED BY Zenon, <2>1, SumNat DEF Sm
<1>12. f[p] \in Nat /\ f[x] \in Nat
  BY Zenon, <1>5
<1> DEFINE w == (m \ {p}) \ {x}
<1>13. /\ Sm(m) = f[p] + (f[x] + Sm(w)) /\ Sm(m \ {x}) = f[p] + Sm(w)
       /\ Sm(w) \in Nat
  BY Zenon, <1>5, <1>8, <1>9, <1>10, <1>11
<1> HIDE DEF w, bad
<1>14. Sm(m) = f[x] + (f[p] + Sm(w))
  BY <1>12, <1>13
<1> QED BY Zenon, <1>3, <1>13, <1>14

\* only the values on the set count,
LEMMA SumCong ==
    ASSUME NEW f, NEW g, NEW S \in SUBSET Orders, \A x \in S : f[x] = g[x]
    PROVE  SumFunctionOnSet(f, S) = SumFunctionOnSet(g, S)
<1> DEFINE bad == {s \in SUBSET S : SumFunctionOnSet(f, s) # SumFunctionOnSet(g, s)}
<1>1. SUFFICES ASSUME bad # {} PROVE FALSE
  BY Zenon
<1>2. PICK m \in bad : \A u \in bad : u \subseteq m => u = m
  <2>1. bad \in SUBSET (SUBSET Orders)
    OBVIOUS
  <2> HIDE DEF bad
  <2>2. HasMinimal(bad)
    BY Zenon, <1>1, <2>1, Minimal
  <2> QED BY Zenon, <2>2 DEF HasMinimal
<1>3. m \in SUBSET Orders
  OBVIOUS
<1>4. m # {}
  BY Zenon, <1>3, SumStep
<1>5. /\ Pick(m) \in m
      /\ SumFunctionOnSet(f, m) = f[Pick(m)] + SumFunctionOnSet(f, m \ {Pick(m)})
      /\ SumFunctionOnSet(g, m) = g[Pick(m)] + SumFunctionOnSet(g, m \ {Pick(m)})
  BY Zenon, <1>3, <1>4, SumStep
<1>6. SumFunctionOnSet(f, m \ {Pick(m)}) = SumFunctionOnSet(g, m \ {Pick(m)})
  <2>1. m \ {Pick(m)} \in SUBSET S /\ m \ {Pick(m)} \subseteq m /\ m \ {Pick(m)} # m
    BY Zenon, <1>5
  <2> QED BY Zenon, <1>2, <2>1
<1>7. f[Pick(m)] = g[Pick(m)]
  BY Zenon, <1>5
<1>8. SumFunctionOnSet(f, m) # SumFunctionOnSet(g, m)
  BY Zenon, <1>2
<1> QED BY Zenon, <1>5, <1>6, <1>7, <1>8


\* and a larger set has a larger sum.
LEMMA SumMono ==
    ASSUME NEW f, NEW S \in SUBSET Orders, \A x \in S : f[x] \in Nat, NEW T \in SUBSET S
    PROVE  SumFunctionOnSet(f, T) <= SumFunctionOnSet(f, S)
<1> DEFINE Sm(s) == SumFunctionOnSet(f, s)
           bad == {s \in SUBSET S : T \subseteq s /\ ~ (Sm(T) <= Sm(s))}
<1>1. SUFFICES ASSUME bad # {} PROVE FALSE
  BY Zenon
<1>2. PICK m \in bad : \A u \in bad : u \subseteq m => u = m
  <2>1. bad \in SUBSET (SUBSET Orders)
    OBVIOUS
  <2> HIDE DEF bad
  <2>2. HasMinimal(bad)
    BY Zenon, <1>1, <2>1, Minimal
  <2> QED BY Zenon, <2>2 DEF HasMinimal
<1>3. m \in SUBSET Orders /\ T \in SUBSET Orders
  OBVIOUS
<1>4. \A s \in SUBSET m : Sm(s) \in Nat
  <2> SUFFICES ASSUME NEW s \in SUBSET m PROVE Sm(s) \in Nat
    OBVIOUS
  <2>1. s \in SUBSET Orders /\ \A x \in s : f[x] \in Nat
    BY Zenon, <1>3
  <2> QED BY Zenon, <2>1, SumNat
<1> HIDE DEF Sm
<1>5. T \subseteq m /\ ~ (Sm(T) <= Sm(m))
  BY Zenon, <1>2
<1>6. PICK y \in m : y \notin T
  BY <1>4, <1>5
<1>7. Sm(m) = f[y] + Sm(m \ {y})
  <2>1. \A x \in m : f[x] \in Nat
    OBVIOUS
  <2> QED BY <1>3, <2>1, SumRemove DEF Sm
<1>8. m \ {y} \notin bad
  BY Zenon, <1>2, <1>6
<1>9. Sm(T) <= Sm(m \ {y})
  BY Zenon, <1>5, <1>6, <1>8
<1>10. f[y] \in Nat /\ Sm(m) \in Nat /\ Sm(T) \in Nat /\ Sm(m \ {y}) \in Nat
  BY Zenon, <1>4, <1>5
<1> QED BY <1>5, <1>7, <1>9, <1>10

-----------------------------------------------------------------------------
\* Sums over the records: the bytes of the first n, and the reserved bytes.
bytes == [n \in 0 .. Records |-> SumFunctionOnSet(len, 1 .. n)]
Left(u) == SumFunctionOnSet(u, {o \in Orders : u[o] # None})

\* The bytes of a prefix of the records: nothing of none, and a record more
\* adds its length.
LEMMA BytesSum ==
    ASSUME len \in [Orders -> 0 .. MaxLen]
    PROVE  /\ bytes \in [0 .. Records -> Nat] /\ bytes[0] = 0
           /\ \A n \in Orders : n - 1 \in 0 .. Records /\ bytes[n] = bytes[n - 1] + len[n]
           /\ \A m, n \in 0 .. Records : m <= n => bytes[m] <= bytes[n]
           /\ Total = bytes[Records] /\ \A n \in 0 .. Records : Sum(n) = bytes[n]
<1> USE PublicationBounds
<1>1. \A n \in 0 .. Records : 1 .. n \in SUBSET Orders /\ \A x \in 1 .. n : len[x] \in Nat
  <2>1. \A n \in 0 .. Records : n \in Int /\ 1 \in Int
    OBVIOUS
  <2>2. \A n \in 0 .. Records : 1 .. n \in SUBSET Orders
    BY <2>1 DEF Orders
  <2>3. ASSUME NEW n \in 0 .. Records, NEW x \in 1 .. n PROVE len[x] \in Nat
    <3>1. x \in Orders
      BY DEF Orders
    <3> QED BY <3>1
  <2> QED BY Zenon, <2>2, <2>3
<1>2. bytes \in [0 .. Records -> Nat]
  <2>1. \A n \in 0 .. Records : SumFunctionOnSet(len, 1 .. n) \in Nat
    BY Zenon, <1>1, SumNat
  <2> QED BY Zenon, <2>1 DEF bytes
<1>3. bytes[0] = 0
  <2>1. 0 \in 0 .. Records /\ 1 .. 0 = {} /\ 1 .. 0 \in SUBSET Orders
    BY <1>1
  <2>2. SumFunctionOnSet(len, 1 .. 0) = 0
    BY Zenon, <2>1, SumStep
  <2> QED BY Zenon, <2>1, <2>2 DEF bytes
<1>4. ASSUME NEW n \in Orders
      PROVE  n - 1 \in 0 .. Records /\ bytes[n] = bytes[n - 1] + len[n]
  <2>1. n \in 0 .. Records /\ n - 1 \in 0 .. Records /\ n \in 1 .. n
    BY DEF Orders
  <2>2. (1 .. n) \ {n} = 1 .. (n - 1)
    BY <2>1
  <2>3. SumFunctionOnSet(len, 1 .. n) = len[n] + SumFunctionOnSet(len, (1 .. n) \ {n})
    BY <1>1, <2>1, SumRemove
  <2>4. bytes[n] = len[n] + bytes[n - 1]
    BY Zenon, <2>1, <2>2, <2>3 DEF bytes
  <2>5. bytes[n - 1] \in Nat /\ len[n] \in Nat
    BY <1>2, <2>1
  <2> QED BY <2>1, <2>4, <2>5
<1>5. ASSUME NEW m \in 0 .. Records, NEW n \in 0 .. Records, m <= n
      PROVE  bytes[m] <= bytes[n]
  <2>1. 1 .. m \in SUBSET (1 .. n)
    BY <1>5
  <2>2. SumFunctionOnSet(len, 1 .. m) <= SumFunctionOnSet(len, 1 .. n)
    BY Zenon, <1>1, <2>1, SumMono
  <2> QED BY Zenon, <2>2 DEF bytes
<1>6. Total = bytes[Records] /\ \A n \in 0 .. Records : Sum(n) = bytes[n]
  BY DEF Total, Sum, bytes, Orders
<1> QED BY Zenon, <1>2, <1>3, <1>4, <1>5, <1>6

\* A reservation more adds its bytes, a reservation taken back removes them.
LEMMA LeftSum ==
    ASSUME NEW u \in [Orders -> 0 .. None]
    PROVE  /\ Left(u) \in Nat
           /\ \A o \in Orders, n \in 0 .. MaxLen :
                 u[o] = None => Left([u EXCEPT ![o] = n]) = Left(u) + n
           /\ \A o \in Orders :
                 u[o] # None => Left(u) = Left([u EXCEPT ![o] = None]) + u[o]
<1> USE PublicationBounds
<1> DEFINE Res(v) == {o \in Orders : v[o] # None}
<1>1. ASSUME NEW v \in [Orders -> 0 .. None]
      PROVE  Res(v) \in SUBSET Orders /\ (\A x \in Res(v) : v[x] \in Nat) /\ Left(v) \in Nat
  <2>1. Orders \in SUBSET Orders
    OBVIOUS
  <2>2. Res(v) \in SUBSET Orders
    BY Zenon, <2>1
  <2>3. \A x \in Res(v) : v[x] \in Nat
    BY DEF None
  <2>4. SumFunctionOnSet(v, Res(v)) \in Nat
    <3> HIDE DEF Res
    <3> QED BY Zenon, <2>2, <2>3, SumNat
  <2> QED BY Zenon, <2>2, <2>3, <2>4 DEF Left
<1>2. ASSUME NEW v \in [Orders -> 0 .. None], NEW o \in Orders, v[o] # None
      PROVE  Left(v) = Left([v EXCEPT ![o] = None]) + v[o]
  <2> DEFINE w == [v EXCEPT ![o] = None]
  <2>1. w \in [Orders -> 0 .. None] /\ Res(w) = Res(v) \ {o} /\ o \in Res(v)
    BY <1>2 DEF None
  <2>2. \A x \in Res(w) : v[x] = w[x]
    BY Zenon, <2>1
  <2>3. Res(v) \in SUBSET Orders /\ Res(w) \in SUBSET Orders /\ (\A x \in Res(v) : v[x] \in Nat)
    BY Zenon, <1>1, <2>1
  <2>4. Left(w) \in Nat /\ v[o] \in Nat
    BY Zenon, <1>1, <2>1 DEF None
  <2>5. SumFunctionOnSet(v, Res(v)) = v[o] + SumFunctionOnSet(v, Res(v) \ {o})
    <3> HIDE DEF Res, w
    <3> QED BY <2>1, <2>3, SumRemove
  <2>6. SumFunctionOnSet(v, Res(w)) = SumFunctionOnSet(w, Res(w))
    <3> HIDE DEF Res, w
    <3> QED BY Zenon, <2>2, <2>3, SumCong
  <2>7. Left(v) = v[o] + Left(w)
    BY Zenon, <2>1, <2>5, <2>6 DEF Left
  <2> HIDE DEF w
  <2>8. Left(v) = Left(w) + v[o]
    BY <2>4, <2>7
  <2> QED BY Zenon, <2>8 DEF w
<1>3. ASSUME NEW o \in Orders, NEW n \in 0 .. MaxLen, u[o] = None
      PROVE  Left([u EXCEPT ![o] = n]) = Left(u) + n
  <2> DEFINE v == [u EXCEPT ![o] = n]
  <2>1. v \in [Orders -> 0 .. None] /\ v[o] = n /\ n # None
    BY DEF None
  <2>4. [v EXCEPT ![o] = None] = u
    BY Zenon, <1>3
  <2> HIDE DEF v
  <2>2. Left(v) = Left([v EXCEPT ![o] = None]) + v[o]
    BY Zenon, <1>2, <2>1
  <2>3. Left(v) = Left(u) + n
    BY Zenon, <2>1, <2>2, <2>4
  <2> QED BY Zenon, <2>3 DEF v
<1> QED BY Zenon, <1>1, <1>2, <1>3

LEMMA NothingLeft == NoReservation \in [Orders -> 0 .. None] /\ Left(NoReservation) = 0
<1> USE PublicationBounds
<1>1. NoReservation \in [Orders -> 0 .. None]
  BY DEF NoReservation, None
<1>2. {o \in Orders : NoReservation[o] # None} = {}
  BY Zenon DEF NoReservation
<1>3. SumFunctionOnSet(NoReservation, {}) = 0
  BY Zenon, SumStep
<1> QED BY Zenon, <1>1, <1>2, <1>3 DEF Left

-----------------------------------------------------------------------------
\* The worker has a record that it did not release; a write panicked with one in
\* hand, and nothing releases that one.
Holds == pc \in {"inspect", "publish", "writing", "reporting", "release"}
Busy == Holds \/ result = "panic"
InFlight == pc \in {"writing", "reporting"} \/ (pc = "unwinding" /\ result = "panic")
\* The orders in the channel are First .. Last, those still reserved begin at Lowest.
First == IF Busy THEN next + 1 ELSE next
Last == First + Len(queue) - 1
Lowest == IF Busy /\ pc \notin {"inspect", "publish"} THEN next + 1 ELSE next

FrozenReports ==
    [set : {TRUE}, stable : BOOLEAN, drained : BOOLEAN, error : BOOLEAN, progress : Nat,
     attempt : Attempts, unpublished : Nat, first_unpublished : 0 .. Records,
     delivered : 0 .. Records, taken : Nat]

PubTypes ==
    /\ len \in [Orders -> 0 .. MaxLen]
    /\ collecting \in BOOLEAN /\ publication_failed \in BOOLEAN /\ open \in BOOLEAN
    /\ receiver \in BOOLEAN
    /\ ready \in BOOLEAN /\ drained \in BOOLEAN /\ finalized \in BOOLEAN /\ stable \in BOOLEAN
    /\ error \in BOOLEAN /\ revoked \in BOOLEAN /\ attempt_started \in BOOLEAN
    /\ handed \in 0 .. Records /\ queue \in Seq(Orders) /\ Len(queue) <= Slots
    /\ pc \in {"start", "recv", "inspect", "publish", "writing", "reporting", "release",
               "flushing", "unwinding", "done"}
    /\ record \in 0 .. Records /\ offset \in 0 .. MaxLen /\ next \in 1 .. Records + 1
    /\ result \in {"none", "ok", "interrupted", "error", "invalid", "panic"}
    /\ dest \in Nat /\ progress \in Nat /\ unpublished \in Nat
    /\ attempt \in Attempts /\ attempt.acknowledged <= attempt.attempted_end
    /\ first_unpublished \in 0 .. Records
    /\ unattempted \in [Orders -> 0 .. None]
    /\ released \in [Orders -> Nat]
    /\ frozen = Unfrozen \/ frozen \in FrozenReports

\* Where the worker is: it takes the records in source order, and its one attempt
\* is for the rest of the record in hand.
Place ==
    /\ Busy => record = next /\ next \in Orders /\ next <= handed /\ offset <= len[next]
    /\ pc = "inspect" => offset = 0
    /\ pc = "release" /\ ~revoked => offset = len[next]
    /\ result = "panic" => pc \in {"unwinding", "done"}
    /\ pc = "done" /\ result = "panic" => revoked
    /\ pc \in {"flushing", "unwinding", "done"} => queue = <<>>
    /\ pc = "flushing" => ~open
    /\ pc \in {"unwinding", "done"} => ~receiver
    /\ InFlight => attempt = [order |-> next, acknowledged |-> offset, attempted_end |-> len[next]]
    /\ ~InFlight /\ ~revoked => attempt = NoAttempt

\* The channel holds consecutive records, up to the last one handed over as long
\* as nothing was revoked or lost with the receiver.
Queued ==
    /\ \A i \in 1 .. Len(queue) : queue[i] = First + i - 1
    /\ Last <= handed
    /\ result # "panic" /\ ~revoked => Last = handed

\* Until a revocation, and for the write in flight after one, the acknowledged
\* bytes are those of the records released and of the one in hand.
Position ==
    ~revoked \/ InFlight => progress = bytes[next - 1] + IF Busy THEN offset ELSE 0

Reserved(o) ==
    IF o < Lowest \/ o > handed THEN None
    ELSE IF o = next /\ Busy THEN len[o] - offset ELSE len[o]

\* Until a revocation every record not being written is reserved and nothing is
\* counted as unpublished; after it nothing is reserved.
Reservations ==
    /\ error = revoked
    /\ publication_failed => revoked
    /\ revoked => unattempted = NoReservation
    /\ ~revoked => \A o \in Orders : unattempted[o] = Reserved(o)
    /\ ~revoked => unpublished = 0 /\ first_unpublished = 0
    /\ first_unpublished <= handed
    /\ InFlight /\ revoked => first_unpublished = 0 \/ first_unpublished > next

Reached == progress + Uncertain(attempt)

\* OnceOnlyAccounting and PublishedPrefix.
Accounts ==
    /\ bytes[handed] = Reached + unpublished + Left(unattempted)
    /\ revoked => IF first_unpublished = 0 THEN Reached = bytes[handed]
                  ELSE bytes[first_unpublished - 1] <= Reached /\ Reached <= bytes[first_unpublished]

\* The credits still charged are those of the record in hand and of the channel.
Credits ==
    \A o \in Orders :
      /\ released[o] <= 1
      /\ o > handed => released[o] = 0
      /\ result # "panic" /\ o <= handed => released[o] = IF next <= o /\ o <= Last THEN 0 ELSE 1

\* The destination has what was acknowledged, and what it took of the attempt
\* that is not yet reported.
Taken == IF pc = "reporting" THEN progress <= dest /\ dest <= progress + (len[next] - offset)
         ELSE dest = progress

\* A report is frozen after a revocation or after the end of the worker: it begins
\* no attempt after that.
Reports ==
    /\ drained => pc = "done" /\ ~attempt_started /\ ~open
    /\ frozen.set =>
         /\ ~open
         /\ revoked \/ pc = "done"
         /\ frozen.stable => pc = "done"
         /\ pc \in {"writing", "reporting"} => frozen.progress = progress /\ frozen.attempt = attempt
         /\ frozen.drained /\ ~frozen.error => drained /\ (collecting => ~revoked)
         /\ bytes[frozen.delivered] = frozen.progress + Uncertain(frozen.attempt) + frozen.unpublished
         /\ frozen.progress <= dest /\ dest <= frozen.progress + Uncertain(frozen.attempt)
         /\ frozen.stable => dest = frozen.taken
         /\ frozen.drained /\ ~frozen.error =>
              dest = bytes[handed] /\ frozen.unpublished = 0 /\ frozen.first_unpublished = 0

PubInv ==
    PubTypes /\ Place /\ Queued /\ Position /\ Reservations /\ Accounts /\ Credits /\ Taken /\ Reports

\* What a failure accounts: with a revocation before it, nothing; otherwise all
\* that is reserved, which begins where the destination's bytes end.
LEMMA FailureAccounts ==
    ASSUME PubInv, failure(unattempted)
    PROVE  /\ error' = TRUE /\ revoked' = TRUE /\ unattempted' = NoReservation
           /\ unpublished' \in Nat /\ first_unpublished' \in 0 .. Records
           /\ first_unpublished' <= handed
           /\ InFlight => first_unpublished' = 0 \/ first_unpublished' > next
           /\ bytes[handed] = Reached + unpublished'
           /\ IF first_unpublished' = 0 THEN Reached = bytes[handed]
              ELSE bytes[first_unpublished' - 1] <= Reached /\ Reached <= bytes[first_unpublished']
<1> USE PublicationBounds
<1> DEFINE left == {o \in Orders : unattempted[o] # None}
<1>1. /\ PubTypes /\ Place /\ Queued /\ Position /\ Reservations /\ Accounts
  BY Zenon DEF PubInv
<1>2. /\ error' = TRUE /\ revoked' = TRUE /\ unattempted' = NoReservation
      /\ unpublished' = unpublished + Left(unattempted)
      /\ first_unpublished' = IF left = {} THEN first_unpublished
                              ELSE Lower(first_unpublished, Min(left))
  BY Zenon DEF failure, Left
<1>3. Left(unattempted) \in Nat /\ Left(NoReservation) = 0
  BY Zenon, <1>1, LeftSum, NothingLeft DEF PubTypes
<1>4. /\ handed \in 0 .. Records /\ unpublished \in Nat /\ first_unpublished \in 0 .. Records
      /\ next \in 1 .. Records + 1 /\ progress \in Nat /\ revoked \in BOOLEAN /\ Len(queue) \in Nat
      /\ offset \in 0 .. MaxLen /\ len \in [Orders -> 0 .. MaxLen]
  BY <1>1 DEF PubTypes
<1>5. Reached \in Nat
  BY <1>1 DEF PubTypes, Attempts, Reached, Uncertain
<1>6. /\ bytes \in [0 .. Records -> Nat]
      /\ \A n \in Orders : n - 1 \in 0 .. Records /\ bytes[n] = bytes[n - 1] + len[n]
  BY Zenon, <1>4, BytesSum
<1>7. CASE revoked
  <2>1. left = {}
    BY Zenon, <1>1, <1>7 DEF Reservations, NoReservation
  <2>2. Left(unattempted) = 0
    BY Zenon, <1>1, <1>3, <1>7 DEF Reservations
  <2>3. unpublished' = unpublished /\ first_unpublished' = first_unpublished
    BY <1>2, <1>4, <2>1, <2>2
  <2>4. /\ first_unpublished <= handed
        /\ InFlight => first_unpublished = 0 \/ first_unpublished > next
    BY Zenon, <1>1, <1>7 DEF Reservations
  <2>5. /\ bytes[handed] = Reached + unpublished
        /\ IF first_unpublished = 0 THEN Reached = bytes[handed]
           ELSE bytes[first_unpublished - 1] <= Reached /\ Reached <= bytes[first_unpublished]
    BY <1>1, <1>4, <1>5, <1>7, <2>2 DEF Accounts
  <2> QED BY Zenon, <1>2, <1>4, <2>3, <2>4, <2>5
<1>8. CASE ~revoked
  <2>1. unpublished = 0 /\ first_unpublished = 0
    BY Zenon, <1>1, <1>8 DEF Reservations
  <2>2. Lowest \in Nat /\ Lowest >= next /\ Lowest <= next + 1 /\ Lowest <= handed + 1
    BY <1>1, <1>4 DEF Queued, Lowest, First, Last
  <2>3. left = {o \in Orders : Lowest <= o /\ o <= handed}
    <3>1. ASSUME NEW o \in Orders
          PROVE  unattempted[o] # None <=> Lowest <= o /\ o <= handed
      <4>1. unattempted[o] = Reserved(o)
        BY Zenon, <1>1, <1>8 DEF Reservations
      <4>2. o \in Nat /\ len[o] \in 0 .. MaxLen
        BY <1>4 DEF Orders
      <4>3. o = next /\ Busy => len[o] - offset \in 0 .. MaxLen
        BY <1>1, <1>4, <4>2 DEF Place
      <4> QED BY <1>4, <2>2, <4>1, <4>2, <4>3 DEF Reserved, None
    <3> QED BY Zenon, <3>1
  <2>4. Reached = bytes[Lowest - 1] + IF pc \in {"inspect", "publish"} THEN offset ELSE 0
    <3>1. progress = bytes[next - 1] + IF Busy THEN offset ELSE 0
      BY Zenon, <1>1, <1>8 DEF Position
    <3>2. next - 1 \in 0 .. Records
      BY <1>4
    <3>3. CASE InFlight
      <4>1. /\ attempt = [order |-> next, acknowledged |-> offset, attempted_end |-> len[next]]
            /\ Busy /\ pc \notin {"inspect", "publish"} /\ next \in Orders
        BY Zenon, <1>1, <3>3 DEF Place, InFlight, Busy, Holds
      <4>2. Uncertain(attempt) = len[next] - offset
        BY Zenon, <4>1 DEF Uncertain
      <4>3. Lowest - 1 = next
        BY <1>4, <4>1 DEF Lowest
      <4>4. bytes[next] = bytes[next - 1] + len[next] /\ len[next] \in Nat
        BY <1>4, <1>6, <4>1
      <4>5. progress = bytes[next - 1] + offset /\ bytes[next - 1] \in Nat
        BY Zenon, <1>6, <3>1, <3>2, <4>1
      <4>6. Reached = bytes[next]
        BY <1>4, <4>2, <4>4, <4>5 DEF Reached
      <4> QED BY <1>5, <4>1, <4>3, <4>6
    <3>4. CASE ~InFlight
      <4>1. Uncertain(attempt) = 0
        BY <1>1, <1>8, <3>4 DEF Place, NoAttempt, Uncertain
      <4>2. CASE pc \in {"inspect", "publish"}
        BY <1>4, <1>6, <3>1, <3>2, <4>1, <4>2 DEF Reached, Lowest, Busy, Holds
      <4>3. CASE pc = "release"
        <5>1. next \in Orders /\ offset = len[next] /\ Busy
          BY Zenon, <1>1, <1>8, <4>3 DEF Place, Busy, Holds
        <5>2. bytes[next] = bytes[next - 1] + len[next]
          BY Zenon, <1>6, <5>1
        <5> QED BY <1>4, <1>6, <3>1, <3>2, <4>1, <4>3, <5>1, <5>2 DEF Reached, Lowest
      <4>4. CASE pc \notin {"inspect", "publish", "release"}
        <5>1. ~Busy
          BY Zenon, <1>1, <1>8, <3>4, <4>4 DEF Place, InFlight, Busy, Holds
        <5> QED BY <1>4, <1>6, <3>1, <3>2, <4>1, <4>4, <5>1 DEF Reached, Lowest
      <4> QED BY Zenon, <4>2, <4>3, <4>4
    <3> QED BY Zenon, <3>3, <3>4
  <2>5. bytes[handed] = Reached + unpublished'
    BY <1>1, <1>2, <1>3, <1>4, <1>5, <2>1 DEF Accounts
  <2>6. InFlight => Lowest = next + 1
    BY Zenon, <1>1 DEF Lowest, InFlight, Busy, Holds
  <2>7. CASE Lowest > handed
    <3>1. left = {}
      BY <1>4, <2>2, <2>3, <2>7 DEF Orders
    <3>2. first_unpublished' = 0
      BY Zenon, <1>2, <2>1, <3>1
    <3>3. Lowest - 1 = handed
      BY <1>4, <2>2, <2>7
    <3>4. pc \notin {"inspect", "publish"}
      BY <1>1, <1>4, <2>7 DEF Place, Lowest, Busy, Holds
    <3>5. Reached = bytes[handed]
      BY <1>4, <1>6, <2>4, <3>3, <3>4
    <3> QED BY SMTT(20), <1>2, <1>3, <1>4, <2>5, <3>2, <3>5
  <2>8. CASE Lowest <= handed
    <3>1. Lowest \in left /\ Lowest \in Orders /\ \A o \in left : Lowest <= o
      BY SMTT(20), <1>4, <2>2, <2>3, <2>8 DEF Orders
    <3>2. Min(left) = Lowest
      <4>1. \A x \in left : (\A y \in left : x <= y) => x = Lowest
        BY <1>4, <2>2, <2>3, <3>1 DEF Orders
      <4> HIDE DEF left
      <4> QED BY Zenon, <3>1, <4>1 DEF Min
    <3>3. first_unpublished' = Lowest
      BY Zenon, <1>2, <2>1, <3>1, <3>2 DEF Lower
    <3>4. bytes[Lowest] = bytes[Lowest - 1] + len[Lowest] /\ Lowest - 1 \in 0 .. Records
      BY Zenon, <1>6, <3>1
    <3>5. pc \in {"inspect", "publish"} => offset <= len[Lowest]
      BY Zenon, <1>1 DEF Place, Lowest, Busy, Holds
    <3>6. bytes[Lowest - 1] <= Reached /\ Reached <= bytes[Lowest]
      <4>1. bytes[Lowest - 1] \in Nat /\ len[Lowest] \in Nat
        BY <1>4, <1>6, <3>1, <3>4
      <4> QED BY <1>4, <2>4, <3>4, <3>5, <4>1
    <3>7. Lowest \in 0 .. Records /\ Lowest # 0
      BY <3>1, <1>4, <2>2, <2>8
    <3>8. /\ first_unpublished' # 0
          /\ bytes[first_unpublished' - 1] <= Reached /\ Reached <= bytes[first_unpublished']
      BY Zenon, <3>3, <3>6, <3>7
    <3>9. /\ unpublished' \in Nat
          /\ first_unpublished' \in 0 .. Records /\ first_unpublished' <= handed
          /\ InFlight => first_unpublished' > next
      BY <1>2, <1>3, <1>4, <2>6, <2>8, <3>3, <3>7
    <3> QED BY <1>2, <2>5, <3>8, <3>9, Zenon
  <2>9. Lowest > handed \/ Lowest <= handed
    BY <1>4, <2>2
  <2> QED BY <2>7, <2>8, <2>9, Zenon
<1> QED BY <1>7, <1>8, Zenon

LEMMA BytesStay == len' = len => bytes' = bytes
  BY Zenon DEF bytes

\* A frozen report stays true over a step that leaves the destination alone, begins
\* no attempt and revokes nothing behind a drained worker.
LEMMA ReportStays ==
    ASSUME PubInv, frozen' = frozen, len' = len, dest' = dest, drained' = drained,
           open' => open, revoked => revoked', collecting' => collecting,
           pc = "done" => pc' = "done",
           frozen.set /\ pc' \in {"writing", "reporting"} =>
               pc \in {"writing", "reporting"} /\ progress' = progress /\ attempt' = attempt,
           drained /\ ~attempt_started => ~attempt_started',
           drained /\ ~attempt_started /\ collecting' => revoked' = revoked,
           handed' = handed \/ (collecting /\ (~drained \/ revoked))
    PROVE  Reports'
<1>1. Reports
  BY Zenon DEF PubInv
<1>2. bytes' = bytes
  BY Zenon, BytesStay
<1>3. drained => pc = "done" /\ ~attempt_started /\ ~open
  BY Zenon, <1>1 DEF Reports
<1>4. drained' => pc' = "done" /\ ~attempt_started' /\ ~open'
  BY Zenon, <1>3
<1>5. ASSUME frozen.set
      PROVE  /\ ~open' /\ (revoked' \/ pc' = "done")
             /\ frozen.stable => pc' = "done"
             /\ pc' \in {"writing", "reporting"} => frozen.progress = progress' /\ frozen.attempt = attempt'
             /\ frozen.drained /\ ~frozen.error => drained' /\ (collecting' => ~revoked')
  BY <1>1, <1>3, <1>5 DEF Reports
<1>6. ASSUME frozen.set, frozen.drained, ~frozen.error
      PROVE  dest = bytes[handed'] /\ frozen.unpublished = 0 /\ frozen.first_unpublished = 0
  BY Zenon, <1>1, <1>3, <1>6 DEF Reports
<1>7. frozen.set =>
        /\ bytes[frozen.delivered] = frozen.progress + Uncertain(frozen.attempt) + frozen.unpublished
        /\ frozen.progress <= dest /\ dest <= frozen.progress + Uncertain(frozen.attempt)
        /\ frozen.stable => dest = frozen.taken
  BY Zenon, <1>1 DEF Reports
<1> QED BY Zenon, <1>2, <1>4, <1>5, <1>6, <1>7 DEF Reports, Uncertain

\* A failure where nothing else moves.
LEMMA RevokeKeeps ==
    ASSUME PubInv, failure(unattempted),
           UNCHANGED <<len, handed, channelVars, workerVars, progress, attempt, released>>
    PROVE  /\ Place' /\ Queued' /\ Position' /\ Reservations' /\ Accounts' /\ Credits' /\ Taken'
           /\ error' \in BOOLEAN /\ revoked' /\ unpublished' \in Nat
           /\ first_unpublished' \in 0 .. Records /\ unattempted' \in [Orders -> 0 .. None]
<1> USE PublicationBounds
<1>1. /\ error' = TRUE /\ revoked' = TRUE /\ unattempted' = NoReservation
      /\ unpublished' \in Nat /\ first_unpublished' \in 0 .. Records
      /\ first_unpublished' <= handed
      /\ InFlight => first_unpublished' = 0 \/ first_unpublished' > next
      /\ bytes[handed] = Reached + unpublished'
      /\ IF first_unpublished' = 0 THEN Reached = bytes[handed]
         ELSE bytes[first_unpublished' - 1] <= Reached /\ Reached <= bytes[first_unpublished']
  BY Zenon, FailureAccounts
<1>2. /\ PubTypes /\ Place /\ Queued /\ Position /\ Credits /\ Taken
  BY Zenon DEF PubInv
<1>3. /\ len' = len /\ handed' = handed /\ queue' = queue /\ open' = open /\ receiver' = receiver
      /\ pc' = pc /\ record' = record /\ offset' = offset /\ next' = next /\ result' = result
      /\ dest' = dest /\ progress' = progress /\ attempt' = attempt /\ released' = released
      /\ bytes' = bytes
  BY Zenon, BytesStay DEF channelVars, workerVars
<1>4. Busy' = Busy /\ InFlight' = InFlight /\ First' = First /\ Last' = Last
  BY Zenon, <1>3 DEF Busy, Holds, InFlight, First, Last
<1>5. Place'
  BY Zenon, <1>1, <1>2, <1>3, <1>4 DEF Place
<1>6. Queued' /\ Credits' /\ Taken'
  BY Zenon, <1>1, <1>2, <1>3, <1>4 DEF Queued, Credits, Taken
<1>7. Position'
  BY Zenon, <1>1, <1>2, <1>3, <1>4 DEF Position
<1>8. Reservations'
  BY Zenon, <1>1, <1>3, <1>4 DEF Reservations
<1>9. Left(NoReservation) = 0 /\ NoReservation \in [Orders -> 0 .. None]
  BY Zenon, NothingLeft
<1>10. Reached \in Nat /\ Reached' = Reached
  BY <1>2, <1>3 DEF PubTypes, Attempts, Reached, Uncertain
<1>11. bytes[handed] = Reached + unpublished' + Left(unattempted')
  BY <1>1, <1>9, <1>10
<1>12. Accounts'
  BY Zenon, <1>1, <1>3, <1>10, <1>11 DEF Accounts
<1> QED BY Zenon, <1>1, <1>5, <1>6, <1>7, <1>8, <1>9, <1>12

\* A step that moves no byte, no record and no credit.
LEMMA NothingMoves ==
    ASSUME PubInv, UNCHANGED <<len, handed, queue, offset, next, result, dest, progress, attempt,
                               failureVars, released>>,
           publication_failed' => revoked,
           Busy' = Busy, InFlight' = InFlight, revoked \/ Lowest' = Lowest,
           pc' = "reporting" <=> pc = "reporting"
    PROVE  Queued' /\ Position' /\ Reservations' /\ Accounts' /\ Credits' /\ Taken'
<1>1. /\ len' = len /\ handed' = handed /\ queue' = queue /\ offset' = offset /\ next' = next
      /\ result' = result /\ dest' = dest /\ progress' = progress /\ attempt' = attempt
      /\ error' = error /\ unpublished' = unpublished /\ revoked' = revoked
      /\ first_unpublished' = first_unpublished /\ unattempted' = unattempted
      /\ released' = released /\ bytes' = bytes
  BY Zenon, BytesStay DEF failureVars
<1>2. First' = First /\ Last' = Last /\ Reached' = Reached
  BY Zenon, <1>1 DEF First, Last, Reached
<1>3. Queued' /\ Position' /\ Credits' /\ Taken'
  BY Zenon, <1>1, <1>2 DEF PubInv, Queued, Position, Credits, Taken
<1>4. Accounts'
  BY Zenon, <1>1, <1>2 DEF PubInv, Accounts
<1>5. ~revoked => \A o \in Orders : Reserved(o)' = Reserved(o)
  BY Zenon, <1>1 DEF Reserved
<1>6. Reservations'
  BY Zenon, <1>1, <1>5 DEF PubInv, Reservations
<1> QED BY Zenon, <1>3, <1>4, <1>6

LEMMA CheckBlockedKeeps ==
    ASSUME PubInv, NEW b \in BOOLEAN, CheckBlocked(b) PROVE PubInv'
<1>1. /\ collecting /\ (b => attempt_started) /\ publication_failed' = (revoked \/ b)
      /\ IF b THEN failure(unattempted) ELSE UNCHANGED failureVars
      /\ UNCHANGED <<len, collecting, handed, channelVars, workerVars, reportVars, released>>
  BY Zenon DEF CheckBlocked
<1>2. /\ len' = len /\ collecting' = collecting /\ handed' = handed /\ queue' = queue
      /\ open' = open /\ receiver' = receiver
      /\ pc' = pc /\ record' = record /\ offset' = offset /\ next' = next /\ result' = result
      /\ dest' = dest /\ ready' = ready /\ drained' = drained /\ finalized' = finalized
      /\ stable' = stable /\ progress' = progress /\ attempt' = attempt
      /\ attempt_started' = attempt_started /\ frozen' = frozen /\ released' = released
      /\ bytes' = bytes
  BY Zenon, <1>1, BytesStay DEF channelVars, workerVars, reportVars
<1>3. PubTypes /\ Reservations
  BY Zenon DEF PubInv
<1>4. CASE b
  <2>1. /\ Place' /\ Queued' /\ Position' /\ Reservations' /\ Accounts' /\ Credits' /\ Taken'
        /\ error' \in BOOLEAN /\ revoked' /\ unpublished' \in Nat
        /\ first_unpublished' \in 0 .. Records /\ unattempted' \in [Orders -> 0 .. None]
    <3>1. failure(unattempted)
      BY Zenon, <1>1, <1>4
    <3>2. UNCHANGED <<len, handed, channelVars, workerVars, progress, attempt, released>>
      BY Zenon, <1>1, <1>2
    <3> QED BY <3>1, <3>2, RevokeKeeps, Zenon
  <2>2. revoked' \in BOOLEAN
    BY Zenon, <1>1, <1>4 DEF failure
  <2>3. PubTypes'
    BY <1>1, <1>2, <1>3, <2>1, <2>2 DEF PubTypes
  <2>4. Reports'
    <3>1. ~(drained /\ ~attempt_started)
      BY Zenon, <1>1, <1>4
    <3> QED BY Zenon, <1>2, <2>1, <3>1, ReportStays
  <2> QED BY Zenon, <2>1, <2>3, <2>4 DEF PubInv
<1>5. CASE ~b
  <2>1. /\ error' = error /\ unpublished' = unpublished /\ revoked' = revoked
        /\ first_unpublished' = first_unpublished /\ unattempted' = unattempted
    BY Zenon, <1>1, <1>5 DEF failureVars
  <2>2. Busy' = Busy /\ InFlight' = InFlight /\ Lowest' = Lowest
    BY Zenon, <1>2 DEF Busy, Holds, InFlight, Lowest
  <2>3. PubTypes'
    BY <1>1, <1>2, <1>3, <2>1 DEF PubTypes
  <2>4. Place'
    BY Zenon, <1>2, <2>1, <2>2 DEF PubInv, Place
  <2>5. publication_failed' => revoked
    BY Zenon, <1>1, <1>5
  <2>6. Queued' /\ Position' /\ Reservations' /\ Accounts' /\ Credits' /\ Taken'
    BY Zenon, <1>2, <2>1, <2>2, <2>5, NothingMoves DEF failureVars
  <2>7. Reports'
    BY Zenon, <1>2, <2>1, ReportStays
  <2> QED BY Zenon, <2>3, <2>4, <2>6, <2>7 DEF PubInv
<1> QED BY Zenon, <1>4, <1>5

LEMMA DiscardKeeps == PubInv /\ Discard => PubInv'
<1> USE PublicationBounds
<1> SUFFICES ASSUME PubInv, Discard PROVE PubInv'
  OBVIOUS
<1>1. /\ collecting /\ publication_failed /\ handed < Records /\ handed' = handed + 1
      /\ unpublished' = unpublished + len[handed + 1]
      /\ first_unpublished' = Lower(first_unpublished, handed + 1)
      /\ released' = [released EXCEPT ![handed + 1] = @ + 1]
  BY Zenon DEF Discard, account_unpublished
<1>2. /\ len' = len /\ collecting' = collecting /\ publication_failed' = publication_failed
      /\ error' = error /\ revoked' = revoked /\ unattempted' = unattempted
      /\ queue' = queue /\ open' = open /\ receiver' = receiver
      /\ pc' = pc /\ record' = record /\ offset' = offset /\ next' = next /\ result' = result
      /\ dest' = dest /\ ready' = ready /\ drained' = drained /\ finalized' = finalized
      /\ stable' = stable /\ progress' = progress /\ attempt' = attempt
      /\ attempt_started' = attempt_started /\ frozen' = frozen /\ bytes' = bytes
  BY Zenon, BytesStay DEF Discard, channelVars, workerVars, reportVars
<1>3. PubTypes /\ Place /\ Queued /\ Position /\ Reservations /\ Accounts /\ Credits /\ Taken
  BY Zenon DEF PubInv
<1>4. revoked
  BY Zenon, <1>1, <1>3 DEF Reservations
<1>5. /\ Busy' = Busy /\ InFlight' = InFlight /\ First' = First /\ Last' = Last
      /\ Reached' = Reached
  BY Zenon, <1>2 DEF Busy, Holds, InFlight, First, Last, Reached
<1>6. /\ handed \in 0 .. Records /\ handed + 1 \in Orders /\ len[handed + 1] \in Nat
      /\ first_unpublished \in 0 .. Records /\ unpublished \in Nat /\ next \in Nat
      /\ released \in [Orders -> Nat] /\ Len(queue) \in Nat
  <2>1. /\ handed \in 0 .. Records /\ len \in [Orders -> 0 .. MaxLen]
        /\ first_unpublished \in 0 .. Records /\ unpublished \in Nat
        /\ next \in 1 .. Records + 1 /\ released \in [Orders -> Nat] /\ queue \in Seq(Orders)
    BY Zenon, <1>3 DEF PubTypes
  <2>2. handed + 1 \in Orders
    BY <1>1, <2>1 DEF Orders
  <2> QED BY <2>1, <2>2
<1>7. first_unpublished' = IF first_unpublished = 0 THEN handed + 1 ELSE first_unpublished
  <2>1. CASE first_unpublished = 0
    BY Zenon, <1>1, <2>1 DEF Lower
  <2>2. CASE first_unpublished # 0
    <3>1. first_unpublished <= handed
      BY Zenon, <1>3 DEF Reservations
    <3>2. \A x \in {first_unpublished, handed + 1} :
            (\A y \in {first_unpublished, handed + 1} : x <= y) <=> x = first_unpublished
      BY <1>6, <3>1
    <3>3. Min({first_unpublished, handed + 1}) = first_unpublished
      BY Zenon, <3>2 DEF Min
    <3> QED BY Zenon, <1>1, <1>6, <2>2, <3>3 DEF Lower
  <2> QED BY Zenon, <2>1, <2>2
<1>8. PubTypes'
  <2>1. handed' \in 0 .. Records /\ unpublished' \in Nat /\ first_unpublished' \in 0 .. Records
    BY SMTT(20), <1>1, <1>6, <1>7
  <2>2. released' \in [Orders -> Nat]
    BY <1>1, <1>6
  <2> QED BY <1>2, <1>3, <2>1, <2>2 DEF PubTypes
<1>9. Place' /\ Position' /\ Taken'
  BY <1>1, <1>2, <1>3, <1>5, <1>6 DEF Place, Position, Taken
<1>10. Queued'
  <2>1. Last' <= handed'
    BY <1>1, <1>3, <1>5, <1>6 DEF Queued, Last, First
  <2> QED BY Zenon, <1>2, <1>3, <1>4, <1>5, <2>1 DEF Queued
<1>11. Reservations'
  <2>1. InFlight => next <= handed
    BY Zenon, <1>3 DEF Place, InFlight, Busy, Holds
  <2> QED BY <1>1, <1>2, <1>3, <1>4, <1>5, <1>6, <1>7, <2>1 DEF Reservations
<1>12. Accounts'
  <2>1. /\ bytes[handed + 1] = bytes[handed] + len[handed + 1] /\ bytes[handed] \in Nat
    <3>1. \A n \in Orders : bytes[n] = bytes[n - 1] + len[n]
      BY Zenon, <1>3, BytesSum DEF PubTypes
    <3>2. bytes[handed] \in Nat
      BY Zenon, <1>3, <1>6, BytesSum DEF PubTypes
    <3> QED BY <1>6, <3>1, <3>2
  <2>2. Reached \in Nat /\ Left(unattempted) \in Nat
    BY <1>3, LeftSum DEF PubTypes, Attempts, Reached, Uncertain
  <2>3. bytes[handed + 1] = Reached + unpublished' + Left(unattempted)
    <3>1. bytes[handed] = Reached + unpublished + Left(unattempted)
      BY Zenon, <1>3 DEF Accounts
    <3>2. unpublished' = unpublished + len[handed + 1]
      BY Zenon, <1>1
    <3>3. unpublished \in Nat /\ len[handed + 1] \in Nat
      BY Zenon, <1>6
    <3> QED BY <2>1, <2>2, <3>1, <3>2, <3>3
  <2>4. IF first_unpublished' = 0 THEN Reached = bytes[handed + 1]
        ELSE bytes[first_unpublished' - 1] <= Reached /\ Reached <= bytes[first_unpublished']
    <3>1. CASE first_unpublished = 0
      <4>1. Reached = bytes[handed] /\ first_unpublished' = handed + 1
        BY Zenon, <1>3, <1>4, <1>7, <3>1 DEF Accounts
      <4> QED BY <1>6, <2>1, <4>1
    <3>2. CASE first_unpublished # 0
      BY Zenon, <1>3, <1>4, <1>7, <3>2 DEF Accounts
    <3> QED BY Zenon, <3>1, <3>2
  <2> QED BY Zenon, <1>1, <1>2, <1>5, <2>3, <2>4 DEF Accounts
<1>13. Credits'
  <2>1. Last <= handed /\ Last \in Int
    BY <1>3, <1>6 DEF Queued, Last, First
  <2> SUFFICES ASSUME NEW o \in Orders
               PROVE  /\ released'[o] <= 1
                      /\ o > handed' => released'[o] = 0
                      /\ result' # "panic" /\ o <= handed' =>
                           released'[o] = IF next' <= o /\ o <= Last' THEN 0 ELSE 1
    BY Zenon DEF Credits
  <2>2. /\ released[o] <= 1 /\ (o > handed => released[o] = 0)
        /\ result # "panic" /\ o <= handed => released[o] = IF next <= o /\ o <= Last THEN 0 ELSE 1
    BY Zenon, <1>3 DEF Credits
  <2>3. released'[o] = IF o = handed + 1 THEN released[o] + 1 ELSE released[o]
    BY Zenon, <1>1, <1>6
  <2>4. o \in Nat
    BY DEF Orders
  <2> QED BY <1>1, <1>2, <1>5, <1>6, <2>1, <2>2, <2>3, <2>4
<1>14. Reports'
  BY Zenon, <1>1, <1>2, <1>4, ReportStays
<1> QED BY Zenon, <1>8, <1>9, <1>10, <1>11, <1>12, <1>13, <1>14 DEF PubInv

LEMMA EnqueueKeeps == PubInv /\ Enqueue => PubInv'
<1> USE PublicationBounds
<1> SUFFICES ASSUME PubInv, Enqueue PROVE PubInv'
  OBVIOUS
<1>1. /\ collecting /\ ~publication_failed /\ handed < Records /\ ~revoked /\ open /\ receiver
      /\ Len(queue) < Slots /\ handed' = handed + 1 /\ queue' = Append(queue, handed + 1)
      /\ unattempted' = [unattempted EXCEPT ![handed + 1] = len[handed + 1]]
  BY Zenon DEF Enqueue
<1>2. /\ len' = len /\ collecting' = collecting /\ publication_failed' = publication_failed
      /\ error' = error /\ revoked' = revoked /\ unpublished' = unpublished
      /\ first_unpublished' = first_unpublished /\ open' = open /\ receiver' = receiver
      /\ pc' = pc /\ record' = record /\ offset' = offset /\ next' = next /\ result' = result
      /\ dest' = dest /\ ready' = ready /\ drained' = drained /\ finalized' = finalized
      /\ stable' = stable /\ progress' = progress /\ attempt' = attempt
      /\ attempt_started' = attempt_started /\ frozen' = frozen /\ released' = released
      /\ bytes' = bytes
  BY Zenon, BytesStay DEF Enqueue, workerVars, reportVars
<1>3. /\ PubTypes /\ Place /\ Queued /\ Position /\ Reservations /\ Accounts /\ Credits /\ Taken
      /\ Reports
  BY Zenon DEF PubInv
<1>4. pc \notin {"flushing", "unwinding", "done"} /\ result # "panic"
  BY Zenon, <1>1, <1>3 DEF Place
<1>5. /\ handed \in 0 .. Records /\ handed + 1 \in Orders /\ len[handed + 1] \in 0 .. MaxLen
      /\ queue \in Seq(Orders) /\ Len(queue) \in Nat /\ next \in 1 .. Records + 1
      /\ unattempted \in [Orders -> 0 .. None] /\ unpublished \in Nat
  BY SMTT(20), <1>1, <1>3 DEF PubTypes, Orders
<1>6. /\ Len(queue') = Len(queue) + 1 /\ queue' \in Seq(Orders) /\ queue'[Len(queue) + 1] = handed + 1
      /\ \A i \in 1 .. Len(queue) : queue'[i] = queue[i]
  BY <1>1, <1>5
<1>7. /\ Busy' = Busy /\ InFlight' = InFlight /\ First' = First /\ Lowest' = Lowest
      /\ Reached' = Reached
  BY Zenon, <1>2 DEF Busy, Holds, InFlight, First, Lowest, Reached
<1>8. First \in Nat /\ Last = handed /\ Last = First + Len(queue) - 1 /\ Last' = Last + 1
  <2>1. First \in Nat
    BY <1>5 DEF First
  <2>2. Last = handed
    BY Zenon, <1>1, <1>3, <1>4 DEF Queued
  <2> QED BY <1>5, <1>6, <1>7, <2>1, <2>2 DEF Last
<1>9. Lowest <= handed + 1 /\ Lowest \in Nat /\ next <= handed + 1 /\ (Busy => next <= handed)
  BY <1>3, <1>5, <1>8 DEF Lowest, First, Place
<1>10. PubTypes'
  <2>1. handed' \in 0 .. Records /\ Len(queue') <= Slots
    BY <1>1, <1>5, <1>6
  <2>2. unattempted' \in [Orders -> 0 .. None]
    BY SMTT(20), <1>1, <1>5 DEF None
  <2> QED BY <1>2, <1>3, <1>6, <2>1, <2>2 DEF PubTypes
<1>11. Place' /\ Position' /\ Taken'
  BY <1>1, <1>2, <1>3, <1>4, <1>5, <1>7 DEF Place, Position, Taken
<1>12. Queued'
  <2>1. ASSUME NEW i \in 1 .. Len(queue') PROVE queue'[i] = First + i - 1
    <3>1. CASE i = Len(queue) + 1
      BY <1>5, <1>6, <1>8, <3>1
    <3>2. CASE i \in 1 .. Len(queue)
      BY Zenon, <1>3, <1>6, <3>2 DEF Queued
    <3> QED BY <1>5, <1>6, <3>1, <3>2
  <2>2. Last' = handed'
    BY Zenon, <1>1, <1>5, <1>8
  <2> QED BY <1>1, <1>5, <1>7, <2>1, <2>2 DEF Queued
<1>13. unattempted[handed + 1] = None
  <2>1. unattempted[handed + 1] = Reserved(handed + 1)
    BY Zenon, <1>1, <1>3, <1>5 DEF Reservations
  <2> QED BY <1>5, <2>1 DEF Reserved
<1>14. Reservations'
  <2>1. ASSUME NEW o \in Orders PROVE unattempted'[o] = Reserved(o)'
    <3>1. unattempted[o] = Reserved(o) /\ o \in Nat
      BY <1>1, <1>3 DEF Reservations, Orders
    <3>2. CASE o = handed + 1
      BY <1>1, <1>2, <1>5, <1>7, <1>9, <3>1, <3>2 DEF Reserved
    <3>3. CASE o # handed + 1
      <4>1. unattempted'[o] = unattempted[o]
        BY Zenon, <1>1, <1>5, <3>3
      <4> QED BY <1>1, <1>2, <1>5, <1>7, <1>9, <3>1, <3>3, <4>1 DEF Reserved
    <3> QED BY Zenon, <3>2, <3>3
  <2>3. error = revoked /\ unpublished = 0 /\ first_unpublished = 0
    BY Zenon, <1>1, <1>3 DEF Reservations
  <2>4. /\ error' = revoked' /\ ~publication_failed' /\ ~revoked' /\ unpublished' = 0
        /\ first_unpublished' = 0 /\ first_unpublished' <= handed'
    BY <1>1, <1>2, <1>5, <2>3
  <2> QED BY Zenon, <2>1, <2>4 DEF Reservations
<1>15. Accounts'
  <2>1. Left(unattempted') = Left(unattempted) + len[handed + 1]
    BY Zenon, <1>1, <1>5, <1>13, LeftSum
  <2>2. /\ bytes[handed + 1] = bytes[handed] + len[handed + 1]
    <3>1. \A n \in Orders : bytes[n] = bytes[n - 1] + len[n]
      BY Zenon, <1>3, BytesSum DEF PubTypes
    <3> QED BY <1>5, <3>1
  <2>3. Reached \in Nat /\ Left(unattempted) \in Nat
    BY <1>3, LeftSum DEF PubTypes, Attempts, Reached, Uncertain
  <2>4. bytes[handed + 1] = Reached + unpublished + Left(unattempted')
    BY <1>3, <1>5, <2>1, <2>2, <2>3 DEF Accounts
  <2> QED BY Zenon, <1>1, <1>2, <1>7, <2>4 DEF Accounts
<1>16. Credits'
  <2> SUFFICES ASSUME NEW o \in Orders
               PROVE  /\ released[o] <= 1
                      /\ o > handed + 1 => released[o] = 0
                      /\ o <= handed + 1 => released[o] = IF next <= o /\ o <= Last + 1 THEN 0 ELSE 1
    BY Zenon, <1>1, <1>2, <1>8 DEF Credits
  <2>1. /\ released[o] <= 1 /\ (o > handed => released[o] = 0)
        /\ o <= handed => released[o] = IF next <= o /\ o <= Last THEN 0 ELSE 1
    BY Zenon, <1>3, <1>4 DEF Credits
  <2>2. o \in Nat
    BY DEF Orders
  <2> QED BY <1>5, <1>8, <1>9, <2>1, <2>2
<1>17. Reports'
  <2>1. ~drained
    BY Zenon, <1>1, <1>3 DEF Reports
  <2> QED BY Zenon, <1>1, <1>2, <2>1, ReportStays
<1> QED BY <1>10, <1>11, <1>12, <1>14, <1>15, <1>16, <1>17 DEF PubInv

LEMMA CloseKeeps == ASSUME PubInv, NEW e \in BOOLEAN, Close(e) PROVE PubInv'
<1>1. collecting /\ collecting' = ~e /\ open' = FALSE
  BY Zenon DEF Close
<1>2. /\ len' = len /\ publication_failed' = publication_failed /\ handed' = handed
      /\ queue' = queue /\ receiver' = receiver
      /\ pc' = pc /\ record' = record /\ offset' = offset /\ next' = next /\ result' = result
      /\ dest' = dest /\ ready' = ready /\ drained' = drained /\ finalized' = finalized
      /\ stable' = stable /\ progress' = progress /\ attempt' = attempt
      /\ attempt_started' = attempt_started /\ frozen' = frozen /\ released' = released
      /\ UNCHANGED failureVars
  BY Zenon DEF Close, workerVars, reportVars
<1>3. /\ error' = error /\ unpublished' = unpublished /\ revoked' = revoked
      /\ first_unpublished' = first_unpublished /\ unattempted' = unattempted
  BY Zenon, <1>2 DEF failureVars
<1>4. Busy' = Busy /\ InFlight' = InFlight /\ Lowest' = Lowest
  BY Zenon, <1>2 DEF Busy, Holds, InFlight, Lowest
<1>5. PubTypes'
  <2>1. collecting' \in BOOLEAN /\ open' \in BOOLEAN
    BY Zenon, <1>1
  <2> QED BY <1>2, <1>3, <2>1 DEF PubInv, PubTypes
<1>6. Place'
  BY Zenon, <1>1, <1>2, <1>3, <1>4 DEF PubInv, Place
<1>7. publication_failed' => revoked
  BY Zenon, <1>2 DEF PubInv, Reservations
<1>8. Queued' /\ Position' /\ Reservations' /\ Accounts' /\ Credits' /\ Taken'
  BY Zenon, <1>2, <1>4, <1>7, NothingMoves
<1>9. Reports'
  BY Zenon, <1>1, <1>2, <1>3, ReportStays
<1> QED BY <1>5, <1>6, <1>8, <1>9 DEF PubInv

\* The owner's failures, FinishBlocked before the report and DropPublication after.
LEMMA OwnerFailureKeeps == PubInv /\ (FinishBlocked \/ DropPublication) => PubInv'
<1> SUFFICES ASSUME PubInv, FinishBlocked \/ DropPublication PROVE PubInv'
  OBVIOUS
<1>1. /\ failure(unattempted) /\ OwnerStep /\ UNCHANGED reportVars
      /\ (~frozen.set /\ attempt_started) \/ ~collecting
  BY Zenon DEF FinishBlocked, DropPublication
<1>2. /\ len' = len /\ collecting' = collecting /\ publication_failed' = publication_failed
      /\ handed' = handed /\ queue' = queue /\ open' = open /\ receiver' = receiver
      /\ pc' = pc /\ record' = record /\ offset' = offset /\ next' = next /\ result' = result
      /\ dest' = dest /\ ready' = ready /\ drained' = drained /\ finalized' = finalized
      /\ stable' = stable /\ progress' = progress /\ attempt' = attempt
      /\ attempt_started' = attempt_started /\ frozen' = frozen /\ released' = released
  BY Zenon, <1>1 DEF OwnerStep, collectorVars, channelVars, workerVars, reportVars
<1>3. UNCHANGED <<len, handed, channelVars, workerVars, progress, attempt, released>>
  BY Zenon, <1>1, <1>2 DEF OwnerStep
<1>4. /\ Place' /\ Queued' /\ Position' /\ Reservations' /\ Accounts' /\ Credits' /\ Taken'
      /\ error' \in BOOLEAN /\ revoked' /\ unpublished' \in Nat
      /\ first_unpublished' \in 0 .. Records /\ unattempted' \in [Orders -> 0 .. None]
  BY <1>1, <1>3, RevokeKeeps, Zenon
<1>5. revoked' \in BOOLEAN
  BY Zenon, <1>1 DEF failure
<1>6. PubTypes'
  BY <1>2, <1>4, <1>5 DEF PubInv, PubTypes
<1>7. Reports'
  <2>1. ~(drained /\ ~attempt_started /\ collecting')
    BY Zenon, <1>1, <1>2 DEF PubInv, Reports
  <2> QED BY Zenon, <1>2, <1>4, <2>1, ReportStays
<1> QED BY Zenon, <1>4, <1>6, <1>7 DEF PubInv

\* What a report says at its freezing is what the state says.
LEMMA FinishKeeps == ASSUME PubInv, NEW j \in BOOLEAN, Finish(j) PROVE PubInv'
<1> USE PublicationBounds
<1>1. /\ ~open /\ ~frozen.set /\ (j => pc = "done") /\ finalized' = TRUE /\ stable' = j
      /\ IF j /\ (drained \/ error) THEN UNCHANGED failureVars ELSE failure(unattempted)
      /\ Freeze(j) /\ OwnerStep
  BY Zenon DEF Finish, Finalize
<1>2. /\ len' = len /\ collecting' = collecting /\ publication_failed' = publication_failed
      /\ handed' = handed /\ queue' = queue /\ open' = open /\ receiver' = receiver
      /\ pc' = pc /\ record' = record /\ offset' = offset /\ next' = next /\ result' = result
      /\ dest' = dest /\ ready' = ready /\ drained' = drained
      /\ progress' = progress /\ attempt' = attempt
      /\ attempt_started' = attempt_started /\ released' = released /\ bytes' = bytes
  BY Zenon, BytesStay DEF Finish, Finalize, OwnerStep, collectorVars, channelVars, workerVars
<1>3. PubTypes /\ Place /\ Queued /\ Position /\ Reservations /\ Accounts /\ Taken /\ Reports
  BY Zenon DEF PubInv
<1>4. /\ Place' /\ Queued' /\ Position' /\ Reservations' /\ Accounts' /\ Credits' /\ Taken'
      /\ error' \in BOOLEAN /\ revoked' \in BOOLEAN /\ unpublished' \in Nat
      /\ first_unpublished' \in 0 .. Records /\ unattempted' \in [Orders -> 0 .. None]
      /\ revoked => revoked'
      /\ revoked' \/ (pc = "done" /\ drained /\ ~revoked /\ UNCHANGED failureVars)
  <2>1. CASE j /\ (drained \/ error)
    <3>1. UNCHANGED failureVars
      BY Zenon, <1>1, <2>1
    <3>2. /\ error' = error /\ unpublished' = unpublished /\ revoked' = revoked
          /\ first_unpublished' = first_unpublished /\ unattempted' = unattempted
      BY Zenon, <3>1 DEF failureVars
    <3>3. Busy' = Busy /\ InFlight' = InFlight /\ Lowest' = Lowest
      BY Zenon, <1>2 DEF Busy, Holds, InFlight, Lowest
    <3>4. publication_failed' => revoked
      BY Zenon, <1>2, <1>3 DEF Reservations
    <3>5. Queued' /\ Position' /\ Reservations' /\ Accounts' /\ Credits' /\ Taken'
      BY Zenon, <1>2, <3>1, <3>3, <3>4, NothingMoves
    <3>6. Place'
      BY Zenon, <1>2, <1>3, <3>2, <3>3 DEF Place
    <3>7. revoked \/ (pc = "done" /\ drained)
      BY Zenon, <1>1, <1>3, <2>1 DEF Reservations
    <3> QED BY Zenon, <1>3, <3>1, <3>2, <3>5, <3>6, <3>7 DEF PubTypes
  <2>2. CASE ~(j /\ (drained \/ error))
    <3>1. failure(unattempted)
      BY Zenon, <1>1, <2>2
    <3>2. UNCHANGED <<len, handed, channelVars, workerVars, progress, attempt, released>>
      BY Zenon, <1>1, <1>2 DEF OwnerStep
    <3>3. revoked' = TRUE
      BY Zenon, <3>1 DEF failure
    <3> QED BY <3>1, <3>2, <3>3, RevokeKeeps, Zenon
  <2> QED BY Zenon, <2>1, <2>2
<1>5. frozen' = [set |-> TRUE, stable |-> j, drained |-> drained, error |-> error',
                 progress |-> progress, attempt |-> attempt, unpublished |-> unpublished',
                 first_unpublished |-> first_unpublished', delivered |-> handed, taken |-> dest]
  BY Zenon, <1>1 DEF Freeze
<1>6. PubTypes'
  <2>1. frozen' \in FrozenReports
    BY Zenon, <1>3, <1>4, <1>5 DEF FrozenReports, PubTypes
  <2> QED BY <1>1, <1>2, <1>3, <1>4, <2>1 DEF PubTypes
<1>7. /\ frozen'.set /\ frozen'.stable = j /\ frozen'.drained = drained /\ frozen'.error = error'
      /\ frozen'.progress = progress /\ frozen'.attempt = attempt
      /\ frozen'.unpublished = unpublished' /\ frozen'.first_unpublished = first_unpublished'
      /\ frozen'.delivered = handed /\ frozen'.taken = dest
  BY Zenon, <1>5
<1>8. ASSUME drained, ~revoked'
      PROVE  dest = bytes[handed] /\ unpublished' = 0 /\ first_unpublished' = 0
  <2>1. pc = "done" /\ ~revoked /\ ~Busy /\ queue = <<>>
    BY Zenon, <1>3, <1>4, <1>8 DEF Reports, Place, Busy, Holds
  <2>2. progress = bytes[next - 1] + 0 /\ Last = handed /\ Last = next + Len(queue) - 1
    BY Zenon, <1>3, <2>1 DEF Position, Queued, Last, First, Busy
  <2>3. next \in Nat /\ next - 1 = handed /\ bytes[handed] \in Nat
    BY <1>3, <2>1, <2>2, BytesSum DEF PubTypes
  <2>4. dest = progress
    BY Zenon, <1>3, <2>1 DEF Taken
  <2>5. unpublished' = 0 /\ first_unpublished' = 0
    BY Zenon, <1>4, <1>8 DEF Reservations
  <2> QED BY <2>2, <2>3, <2>4, <2>5
<1>9. /\ progress <= dest /\ dest <= progress + Uncertain(attempt)
      /\ Uncertain(attempt) \in Nat
  <2>1. Uncertain(attempt) \in Nat /\ progress \in Nat /\ dest \in Nat
    BY <1>3 DEF PubTypes, Attempts, Uncertain
  <2>2. pc = "reporting" => Uncertain(attempt) = len[next] - offset
    BY <1>3 DEF Place, InFlight, Uncertain
  <2> QED BY <1>3, <2>1, <2>2 DEF Taken
<1>10. bytes[handed] = progress + Uncertain(attempt) + unpublished'
  <2>1. bytes[handed] = Reached + unpublished' + Left(unattempted')
    <3>1. Reached' = Reached /\ handed' = handed /\ bytes' = bytes
      BY Zenon, <1>2 DEF Reached
    <3>2. bytes'[handed'] = Reached' + unpublished' + Left(unattempted')
      BY Zenon, <1>4 DEF Accounts
    <3> QED BY Zenon, <3>1, <3>2
  <2>2. Reached \in Nat /\ unpublished' \in Nat /\ bytes[handed] \in Nat
    <3>1. progress \in Nat /\ unpublished' \in Nat /\ handed \in 0 .. Records
      BY Zenon, <1>3, <1>4 DEF PubTypes
    <3>2. bytes \in [0 .. Records -> Nat]
      BY Zenon, <1>3, BytesSum DEF PubTypes
    <3> QED BY <1>9, <3>1, <3>2 DEF Reached
  <2>3. CASE revoked'
    <3>1. Left(unattempted') = 0
      BY Zenon, <1>4, <2>3, NothingLeft DEF Reservations
    <3> QED BY <2>1, <2>2, <3>1 DEF Reached
  <2>4. CASE ~revoked'
    <3>1. dest = bytes[handed] /\ unpublished' = 0 /\ pc = "done" /\ ~revoked
      BY Zenon, <1>4, <1>8, <2>4
    <3>2. ~InFlight
      BY Zenon, <1>3, <3>1 DEF Place, InFlight
    <3>3. Uncertain(attempt) = 0 /\ dest = progress
      BY <1>3, <3>1, <3>2 DEF Place, NoAttempt, Uncertain, Taken
    <3> QED BY <2>2, <3>1, <3>3
  <2> QED BY Zenon, <2>3, <2>4
<1>11. Reports'
  <2>1. drained => pc = "done" /\ ~attempt_started
    BY Zenon, <1>3 DEF Reports
  <2>2. error' = revoked'
    BY Zenon, <1>4 DEF Reservations
  <2>3. revoked' \/ pc = "done"
    BY Zenon, <1>4
  <2>4. drained /\ ~error' => dest = bytes[handed] /\ unpublished' = 0 /\ first_unpublished' = 0
    BY Zenon, <1>8, <2>2
  <2> QED BY Zenon, <1>1, <1>2, <1>7, <1>9, <1>10, <2>1, <2>2, <2>3, <2>4 DEF Reports, Uncertain
<1> QED BY Zenon, <1>4, <1>6, <1>11 DEF PubInv

\* What every step of the worker's thread leaves alone.
LEMMA WorkerStepFrame ==
    WorkerStep => /\ len' = len /\ collecting' = collecting /\ handed' = handed
                  /\ publication_failed' = publication_failed /\ open' = open
                  /\ finalized' = finalized /\ stable' = stable /\ frozen' = frozen
                  /\ bytes' = bytes
  BY Zenon, BytesStay DEF WorkerStep, collectorVars

LEMMA ReadyKeeps == PubInv /\ Ready => PubInv'
<1> SUFFICES ASSUME PubInv, Ready PROVE PubInv'
  OBVIOUS
<1>1. /\ pc = "start" /\ pc' = "recv" /\ ready' = TRUE
      /\ len' = len /\ collecting' = collecting /\ handed' = handed
      /\ publication_failed' = publication_failed /\ open' = open
      /\ finalized' = finalized /\ stable' = stable /\ frozen' = frozen
      /\ queue' = queue /\ receiver' = receiver /\ record' = record /\ offset' = offset
      /\ next' = next /\ result' = result /\ dest' = dest /\ drained' = drained
      /\ progress' = progress /\ attempt' = attempt /\ attempt_started' = attempt_started
      /\ released' = released /\ UNCHANGED failureVars
  BY Zenon, WorkerStepFrame DEF Ready
<1>2. /\ error' = error /\ unpublished' = unpublished /\ revoked' = revoked
      /\ first_unpublished' = first_unpublished /\ unattempted' = unattempted
  BY Zenon, <1>1 DEF failureVars
<1>3. ~Busy /\ ~InFlight /\ result # "panic"
  BY Zenon, <1>1 DEF PubInv, Place, Busy, Holds, InFlight
<1>4. ~Busy' /\ ~InFlight'
  BY Zenon, <1>1, <1>3 DEF Busy, Holds, InFlight
<1>5. Busy' = Busy /\ InFlight' = InFlight /\ Lowest' = Lowest
  BY Zenon, <1>1, <1>3, <1>4 DEF Busy, Holds, InFlight, Lowest
<1>6. PubTypes'
  BY <1>1, <1>2 DEF PubInv, PubTypes
<1>7. Place'
  BY Zenon, <1>1, <1>2, <1>3, <1>4 DEF PubInv, Place
<1>8. publication_failed' => revoked
  BY Zenon, <1>1 DEF PubInv, Reservations
<1>9. Queued' /\ Position' /\ Reservations' /\ Accounts' /\ Credits' /\ Taken'
  BY Zenon, <1>1, <1>5, <1>8, NothingMoves
<1>10. Reports'
  BY Zenon, <1>1, <1>2, ReportStays
<1> QED BY Zenon, <1>6, <1>7, <1>9, <1>10 DEF PubInv

\* The next record of the channel is the next one in source order.
LEMMA RecvKeeps == PubInv /\ Recv => PubInv'
<1> USE PublicationBounds
<1> SUFFICES ASSUME PubInv, Recv PROVE PubInv'
  OBVIOUS
<1>1. /\ pc = "recv" /\ queue # <<>> /\ record' = Head(queue) /\ queue' = Tail(queue)
      /\ offset' = 0 /\ pc' = "inspect"
  BY Zenon DEF Recv
<1>2. /\ len' = len /\ collecting' = collecting /\ handed' = handed
      /\ publication_failed' = publication_failed /\ open' = open
      /\ finalized' = finalized /\ stable' = stable /\ frozen' = frozen
      /\ receiver' = receiver /\ next' = next /\ result' = result /\ dest' = dest
      /\ ready' = ready /\ drained' = drained
      /\ progress' = progress /\ attempt' = attempt /\ attempt_started' = attempt_started
      /\ released' = released /\ bytes' = bytes
      /\ error' = error /\ unpublished' = unpublished /\ revoked' = revoked
      /\ first_unpublished' = first_unpublished /\ unattempted' = unattempted
  BY Zenon, WorkerStepFrame DEF Recv, failureVars
<1>3. PubTypes /\ Place /\ Queued /\ Position /\ Reservations /\ Accounts /\ Credits /\ Taken
  BY DEF PubInv
<1>4. ~Busy /\ ~InFlight /\ result # "panic"
  BY Zenon, <1>1, <1>3 DEF Place, Busy, Holds, InFlight
<1>5. Busy' /\ ~InFlight'
  BY Zenon, <1>1, <1>2, <1>4 DEF Busy, Holds, InFlight
<1>6. /\ queue \in Seq(Orders) /\ Len(queue) \in Nat /\ next \in Nat /\ handed \in 0 .. Records
      /\ next \in 1 .. Records + 1 /\ Len(queue) <= Slots
  BY <1>3 DEF PubTypes
<1>7. /\ Len(queue) >= 1 /\ Len(queue') = Len(queue) - 1 /\ queue' \in Seq(Orders)
      /\ record' = queue[1] /\ \A i \in 1 .. Len(queue') : queue'[i] = queue[i + 1]
  BY <1>1, <1>6
<1>8. First = next /\ First' = next + 1 /\ Last' = Last /\ Last = next + Len(queue) - 1
      /\ Lowest = next /\ Lowest' = next /\ Reached' = Reached
  BY <1>1, <1>2, <1>4, <1>5, <1>6, <1>7 DEF First, Last, Lowest, Reached
<1>9. record' = next /\ next <= handed /\ next \in Orders
  <2>1. queue[1] = next + 1 - 1
    BY <1>3, <1>6, <1>7, <1>8 DEF Queued
  <2>2. next + Len(queue) - 1 <= handed
    BY Zenon, <1>3, <1>8 DEF Queued
  <2> QED BY <1>6, <1>7, <2>1, <2>2 DEF Orders
<1>10. PubTypes'
  <2>1. /\ record' \in 0 .. Records /\ offset' \in 0 .. MaxLen /\ Len(queue') <= Slots
        /\ queue' \in Seq(Orders)
    BY <1>1, <1>6, <1>7, <1>9
  <2> QED BY SMTT(20), <1>1, <1>2, <1>3, <2>1 DEF PubTypes
<1>11. Place'
  <2>1. offset' <= len[next]
    BY <1>1, <1>3, <1>9 DEF PubTypes
  <2> QED BY Zenon, <1>1, <1>2, <1>3, <1>4, <1>5, <1>9, <2>1 DEF Place
<1>12. Queued'
  <2>1. ASSUME NEW i \in 1 .. Len(queue') PROVE queue'[i] = next + 1 + i - 1
    <3>1. i + 1 \in 1 .. Len(queue) /\ queue'[i] = queue[i + 1]
      BY <1>6, <1>7
    <3>2. queue[i + 1] = next + (i + 1) - 1
      BY Zenon, <1>3, <1>8, <3>1 DEF Queued
    <3> QED BY <1>6, <1>7, <3>1, <3>2
  <2> QED BY Zenon, <1>2, <1>3, <1>8, <2>1 DEF Queued
<1>13. Position'
  BY Zenon, <1>1, <1>2, <1>3, <1>4, <1>5 DEF Position
<1>14. Reservations'
  <2>1. ASSUME NEW o \in Orders PROVE Reserved(o)' = Reserved(o)
    <3>1. len[o] \in Nat
      BY <1>3 DEF PubTypes
    <3> QED BY <1>1, <1>2, <1>4, <1>8, <3>1 DEF Reserved
  <2> QED BY Zenon, <1>2, <1>3, <1>5, <2>1 DEF Reservations
<1>15. Accounts' /\ Credits' /\ Taken'
  BY Zenon, <1>1, <1>2, <1>3, <1>8 DEF Accounts, Credits, Taken
<1>16. Reports'
  BY Zenon, <1>1, <1>2, ReportStays
<1> QED BY Zenon, <1>10, <1>11, <1>12, <1>13, <1>14, <1>15, <1>16 DEF PubInv

LEMMA InspectKeeps == PubInv /\ Inspect => PubInv'
<1> SUFFICES ASSUME PubInv, Inspect PROVE PubInv'
  OBVIOUS
<1>1. /\ pc = "inspect" /\ record = next /\ offset = 0
  BY Zenon DEF Inspect, PubInv, Place, Busy, Holds
<1>2. /\ pc' = (IF revoked THEN "release" ELSE "publish")
      /\ len' = len /\ collecting' = collecting /\ handed' = handed
      /\ publication_failed' = publication_failed /\ open' = open
      /\ finalized' = finalized /\ stable' = stable /\ frozen' = frozen
      /\ queue' = queue /\ receiver' = receiver /\ record' = record /\ offset' = offset
      /\ next' = next /\ result' = result /\ dest' = dest /\ ready' = ready /\ drained' = drained
      /\ progress' = progress /\ attempt' = attempt /\ attempt_started' = attempt_started
      /\ released' = released /\ UNCHANGED failureVars
  BY Zenon, <1>1, WorkerStepFrame DEF Inspect
<1>3. /\ error' = error /\ unpublished' = unpublished /\ revoked' = revoked
      /\ first_unpublished' = first_unpublished /\ unattempted' = unattempted
  BY Zenon, <1>2 DEF failureVars
<1>4. Busy /\ ~InFlight /\ result # "panic"
  BY Zenon, <1>1 DEF PubInv, Place, Busy, Holds, InFlight
<1>5. Busy' /\ ~InFlight' /\ pc' \in {"release", "publish"}
  BY Zenon, <1>2, <1>4 DEF Busy, Holds, InFlight
<1>6. revoked \/ Lowest' = Lowest
  BY Zenon, <1>1, <1>2 DEF Lowest
<1>7. PubTypes'
  BY <1>2, <1>3, <1>5 DEF PubInv, PubTypes
<1>8. Place'
  BY Zenon, <1>1, <1>2, <1>3, <1>4, <1>5 DEF PubInv, Place
<1>9. publication_failed' => revoked
  BY Zenon, <1>2 DEF PubInv, Reservations
<1>10. Queued' /\ Position' /\ Reservations' /\ Accounts' /\ Credits' /\ Taken'
  <2>1. Busy' = Busy /\ InFlight' = InFlight
    BY Zenon, <1>1, <1>2, <1>4, <1>5 DEF Busy, Holds, InFlight
  <2>2. pc' = "reporting" <=> pc = "reporting"
    BY Zenon, <1>1, <1>5
  <2> QED BY Zenon, <1>2, <1>6, <1>9, <2>1, <2>2, NothingMoves
<1>11. Reports'
  BY Zenon, <1>1, <1>2, <1>3, <1>5, ReportStays
<1> QED BY <1>7, <1>8, <1>10, <1>11 DEF PubInv

\* The record that publish has in hand, and what is reserved for it.
LEMMA InHand ==
    ASSUME PubInv, pc = "publish"
    PROVE  /\ record = next /\ next \in Orders /\ next <= handed /\ len[next] \in 0 .. MaxLen
           /\ offset \in 0 .. MaxLen /\ offset <= len[next]
           /\ Busy /\ ~InFlight /\ result # "panic" /\ Lowest = next
           /\ ~revoked => unattempted[next] = len[next] - offset
<1> USE PublicationBounds
<1>1. PubTypes /\ Place /\ Reservations
  BY Zenon DEF PubInv
<1>2. /\ Busy /\ ~InFlight /\ result # "panic" /\ Lowest = next
  BY Zenon, <1>1 DEF Place, Busy, Holds, InFlight, Lowest
<1>3. record = next /\ next \in Orders /\ next <= handed /\ offset <= len[next]
  BY Zenon, <1>1, <1>2 DEF Place
<1>4. len[next] \in 0 .. MaxLen /\ offset \in 0 .. MaxLen /\ handed \in Nat /\ next \in Nat
  BY <1>1, <1>3 DEF PubTypes, Orders
<1>5. ~revoked => unattempted[next] = len[next] - offset
  <2>1. ~revoked => unattempted[next] = Reserved(next)
    BY Zenon, <1>1, <1>3 DEF Reservations
  <2> QED BY <1>2, <1>3, <1>4, <2>1 DEF Reserved
<1> QED BY Zenon, <1>2, <1>3, <1>4, <1>5

\* Its reservation is turned into something else.
LEMMA TakeReservation ==
    ASSUME PubInv, pc = "publish", ~revoked, unattempted' = [unattempted EXCEPT ![next] = None],
           len' = len, next' = next, handed' = handed, Lowest' = next + 1
    PROVE  /\ unattempted' \in [Orders -> 0 .. None]
           /\ \A o \in Orders : unattempted'[o] = Reserved(o)'
           /\ Left(unattempted) = Left(unattempted') + (len[next] - offset)
           /\ Left(unattempted) \in Nat /\ Left(unattempted') \in Nat
<1> USE PublicationBounds
<1>1. PubTypes /\ Reservations
  BY Zenon DEF PubInv
<1>2. /\ next \in Orders /\ len[next] \in 0 .. MaxLen /\ offset \in 0 .. MaxLen
      /\ offset <= len[next] /\ Lowest = next /\ unattempted[next] = len[next] - offset
      /\ next \in Nat /\ handed \in Nat
  BY <1>1, InHand DEF PubTypes, Orders
<1>3. unattempted \in [Orders -> 0 .. None] /\ unattempted[next] # None
  BY <1>1, <1>2 DEF PubTypes, None
<1>4. unattempted' \in [Orders -> 0 .. None]
  <2>1. None \in 0 .. None
    BY DEF None
  <2> QED BY Zenon, <1>3, <2>1
<1>5. ASSUME NEW o \in Orders PROVE unattempted'[o] = Reserved(o)'
  <2>1. unattempted[o] = Reserved(o) /\ o \in Nat
    BY <1>1 DEF Reservations, Orders
  <2>2. CASE o = next
    BY <1>2, <1>3, <2>2 DEF Reserved
  <2>3. CASE o # next
    <3>1. unattempted'[o] = unattempted[o]
      BY Zenon, <1>3, <2>3
    <3> QED BY <1>2, <2>1, <2>3, <3>1 DEF Reserved
  <2> QED BY Zenon, <2>2, <2>3
<1>6. Left(unattempted) = Left(unattempted') + unattempted[next]
  BY Zenon, <1>2, <1>3, LeftSum
<1>7. Left(unattempted) \in Nat /\ Left(unattempted') \in Nat
  BY Zenon, <1>3, <1>4, LeftSum
<1> QED BY Zenon, <1>2, <1>4, <1>5, <1>6, <1>7

LEMMA PublishEmptyKeeps == PubInv /\ PublishEmpty => PubInv'
<1> USE PublicationBounds
<1> SUFFICES ASSUME PubInv, PublishEmpty PROVE PubInv'
  OBVIOUS
<1>1. pc = "publish" /\ len[record] = 0 /\ pc' = "release"
  BY Zenon DEF PublishEmpty
<1>2. /\ len' = len /\ collecting' = collecting /\ handed' = handed
      /\ publication_failed' = publication_failed /\ open' = open
      /\ finalized' = finalized /\ stable' = stable /\ frozen' = frozen
      /\ queue' = queue /\ receiver' = receiver /\ record' = record /\ offset' = offset
      /\ next' = next /\ result' = result /\ dest' = dest /\ ready' = ready /\ drained' = drained
      /\ progress' = progress /\ attempt' = attempt /\ attempt_started' = attempt_started
      /\ released' = released /\ bytes' = bytes
  BY Zenon, WorkerStepFrame DEF PublishEmpty
<1>3. /\ record = next /\ next \in Orders /\ len[next] = 0 /\ offset = 0
      /\ Busy /\ ~InFlight /\ result # "panic" /\ Lowest = next
      /\ ~revoked => unattempted[next] = 0
  BY <1>1, InHand
<1>4. PubTypes /\ Place /\ Queued /\ Position /\ Reservations /\ Accounts /\ Credits /\ Taken
  BY DEF PubInv
<1>5. /\ error' = error /\ unpublished' = unpublished /\ revoked' = revoked
      /\ first_unpublished' = first_unpublished
      /\ unattempted' = IF revoked THEN unattempted ELSE [unattempted EXCEPT ![next] = None]
  BY Zenon, <1>3 DEF PublishEmpty, failureVars
<1>6. Busy' /\ ~InFlight' /\ First' = First /\ Last' = Last /\ Reached' = Reached
      /\ Lowest' = next + 1
  BY Zenon, <1>1, <1>2, <1>3 DEF Busy, Holds, InFlight, First, Last, Reached, Lowest
<1>7. /\ unattempted' \in [Orders -> 0 .. None] /\ Left(unattempted') = Left(unattempted)
      /\ ~revoked => \A o \in Orders : unattempted'[o] = Reserved(o)'
  <2>1. CASE revoked
    BY Zenon, <1>4, <1>5, <2>1 DEF PubTypes
  <2>2. CASE ~revoked
    <3>1. unattempted' = [unattempted EXCEPT ![next] = None]
      BY Zenon, <1>5, <2>2
    <3>2. /\ unattempted' \in [Orders -> 0 .. None]
          /\ \A o \in Orders : unattempted'[o] = Reserved(o)'
          /\ Left(unattempted) = Left(unattempted') + (len[next] - offset)
          /\ Left(unattempted) \in Nat /\ Left(unattempted') \in Nat
      BY ZenonT(30), <1>1, <1>2, <1>6, <2>2, <3>1, TakeReservation
    <3> QED BY <1>3, <3>2
  <2> QED BY Zenon, <2>1, <2>2
<1>8. PubTypes'
  BY <1>1, <1>2, <1>4, <1>5, <1>7 DEF PubTypes
<1>9. Place'
  BY Zenon, <1>1, <1>2, <1>3, <1>4, <1>5, <1>6 DEF Place
<1>10. Queued' /\ Position' /\ Credits' /\ Taken'
  BY Zenon, <1>1, <1>2, <1>3, <1>4, <1>5, <1>6 DEF Queued, Position, Credits, Taken
<1>11. Reservations'
  BY Zenon, <1>2, <1>4, <1>5, <1>6, <1>7 DEF Reservations
<1>12. Accounts'
  BY Zenon, <1>2, <1>4, <1>5, <1>6, <1>7 DEF Accounts
<1>13. Reports'
  BY Zenon, <1>1, <1>2, <1>5, ReportStays
<1> QED BY Zenon, <1>8, <1>9, <1>10, <1>11, <1>12, <1>13 DEF PubInv

\* An attempt begins only where nothing is revoked, so after no frozen report.
LEMMA BeginAttemptKeeps == PubInv /\ BeginAttempt => PubInv'
<1> USE PublicationBounds
<1> SUFFICES ASSUME PubInv, BeginAttempt PROVE PubInv'
  OBVIOUS
<1>1. pc = "publish" /\ offset < len[record]
  BY Zenon DEF BeginAttempt
<1>2. /\ len' = len /\ collecting' = collecting /\ handed' = handed
      /\ publication_failed' = publication_failed /\ open' = open
      /\ finalized' = finalized /\ stable' = stable /\ frozen' = frozen
      /\ queue' = queue /\ receiver' = receiver /\ record' = record /\ offset' = offset
      /\ next' = next /\ result' = result /\ dest' = dest /\ ready' = ready /\ drained' = drained
      /\ progress' = progress /\ released' = released /\ bytes' = bytes
  BY Zenon, WorkerStepFrame DEF BeginAttempt
<1>3. /\ record = next /\ next \in Orders /\ next <= handed /\ len[next] \in 0 .. MaxLen
      /\ offset \in 0 .. MaxLen /\ offset <= len[next]
      /\ Busy /\ ~InFlight /\ result # "panic" /\ Lowest = next
      /\ ~revoked => unattempted[next] = len[next] - offset
  BY Zenon, <1>1, InHand
<1>4. PubTypes /\ Place /\ Queued /\ Position /\ Reservations /\ Accounts /\ Credits /\ Taken
  BY DEF PubInv
<1>5. CASE revoked
  <2>1. /\ pc' = "release" /\ attempt' = attempt /\ attempt_started' = attempt_started
        /\ error' = error /\ unpublished' = unpublished /\ revoked' = revoked
        /\ first_unpublished' = first_unpublished /\ unattempted' = unattempted
        /\ UNCHANGED failureVars
    BY Zenon, <1>5 DEF BeginAttempt, failureVars
  <2>2. Busy' /\ ~InFlight'
    BY Zenon, <1>2, <1>3, <2>1 DEF Busy, Holds, InFlight
  <2>3. PubTypes'
    BY <1>2, <1>4, <2>1 DEF PubTypes
  <2>4. Place'
    BY Zenon, <1>2, <1>3, <1>4, <1>5, <2>1, <2>2 DEF Place
  <2>5. Queued' /\ Position' /\ Reservations' /\ Accounts' /\ Credits' /\ Taken'
    <3>1. publication_failed' => revoked
      BY Zenon, <1>5
    <3>2. Busy' = Busy /\ InFlight' = InFlight
      BY Zenon, <1>1, <1>2, <1>3, <2>1, <2>2 DEF Busy, Holds, InFlight
    <3> QED BY Zenon, <1>1, <1>2, <1>5, <2>1, <3>1, <3>2, NothingMoves
  <2>6. Reports'
    BY Zenon, <1>1, <1>2, <2>1, ReportStays
  <2> QED BY Zenon, <2>3, <2>4, <2>5, <2>6 DEF PubInv
<1>6. CASE ~revoked
  <2>1. /\ pc' = "writing" /\ unattempted' = [unattempted EXCEPT ![next] = None]
        /\ attempt' = [order |-> next, acknowledged |-> offset, attempted_end |-> len[next]]
        /\ attempt_started' = TRUE
        /\ error' = error /\ unpublished' = unpublished /\ revoked' = revoked
        /\ first_unpublished' = first_unpublished
    BY Zenon, <1>3, <1>6 DEF BeginAttempt
  <2>2. Busy' /\ InFlight' /\ First' = First /\ Last' = Last /\ Lowest' = next + 1
    BY Zenon, <1>2, <1>3, <2>1 DEF Busy, Holds, InFlight, First, Last, Lowest
  <2>3. /\ unattempted' \in [Orders -> 0 .. None]
        /\ \A o \in Orders : unattempted'[o] = Reserved(o)'
        /\ Left(unattempted) = Left(unattempted') + (len[next] - offset)
        /\ Left(unattempted) \in Nat /\ Left(unattempted') \in Nat
    BY ZenonT(30), <1>1, <1>2, <1>6, <2>1, <2>2, TakeReservation
  <2>4. /\ attempt' \in Attempts /\ attempt'.acknowledged <= attempt'.attempted_end
        /\ Uncertain(attempt') = len[next] - offset
    BY SMTT(20), <1>3, <2>1 DEF Attempts, Uncertain, Orders
  <2>5. PubTypes'
    BY <1>2, <1>4, <2>1, <2>3, <2>4 DEF PubTypes
  <2>6. Place'
    BY Zenon, <1>2, <1>3, <1>4, <1>6, <2>1, <2>2 DEF Place
  <2>7. Queued' /\ Position' /\ Credits' /\ Taken'
    BY Zenon, <1>1, <1>2, <1>3, <1>4, <1>6, <2>1, <2>2 DEF Queued, Position, Credits, Taken
  <2>8. Reservations'
    BY Zenon, <1>2, <1>4, <1>6, <2>1, <2>3 DEF Reservations
  <2>9. Accounts'
    <3>1. Reached = progress /\ Reached' = progress + (len[next] - offset) /\ progress \in Nat
      BY <1>2, <1>3, <1>4, <1>6, <2>4 DEF Reached, Place, NoAttempt, Uncertain, PubTypes
    <3>2. bytes[handed] = Reached + unpublished + Left(unattempted) /\ unpublished = 0
      BY Zenon, <1>4, <1>6 DEF Accounts, Reservations
    <3>3. bytes[handed] = Reached' + unpublished + Left(unattempted')
      <4>1. len[next] - offset \in Nat
        BY <1>3
      <4> QED BY <2>3, <3>1, <3>2, <4>1
    <3> QED BY ZenonT(30), <1>2, <1>6, <2>1, <3>3 DEF Accounts
  <2>10. Reports'
    <3>1. ~frozen.set /\ ~drained
      BY Zenon, <1>1, <1>6 DEF PubInv, Reports
    <3> QED BY Zenon, <1>1, <1>2, <2>1, <3>1, ReportStays
  <2> QED BY <2>5, <2>6, <2>7, <2>8, <2>9, <2>10 DEF PubInv
<1> QED BY Zenon, <1>5, <1>6

\* What the destination takes stays within the attempt; a panic drops the channel.
LEMMA DestinationWriteKeeps ==
    ASSUME PubInv, NEW n \in 0 .. MaxLen,
           NEW w \in {"ok", "interrupted", "error", "invalid", "panic"}, DestinationWrite(n, w)
    PROVE  PubInv'
<1> USE PublicationBounds
<1>1. /\ pc = "writing" /\ n \in 0 .. len[record] - offset /\ (w = "panic" => n = 0)
      /\ dest' = dest + n /\ result' = w
      /\ pc' = (IF w = "panic" THEN "unwinding" ELSE "reporting")
      /\ receiver' = (w # "panic") /\ queue' = (IF w = "panic" THEN <<>> ELSE queue)
  BY Zenon DEF DestinationWrite
<1>2. /\ len' = len /\ collecting' = collecting /\ handed' = handed
      /\ publication_failed' = publication_failed /\ open' = open
      /\ finalized' = finalized /\ stable' = stable /\ frozen' = frozen
      /\ record' = record /\ offset' = offset /\ next' = next /\ ready' = ready
      /\ drained' = drained /\ progress' = progress /\ attempt' = attempt
      /\ attempt_started' = attempt_started /\ released' = released /\ bytes' = bytes
      /\ error' = error /\ unpublished' = unpublished /\ revoked' = revoked
      /\ first_unpublished' = first_unpublished /\ unattempted' = unattempted
  BY Zenon, WorkerStepFrame DEF DestinationWrite, failureVars
<1>3. /\ PubTypes /\ Place /\ Queued /\ Position /\ Reservations /\ Accounts /\ Credits /\ Taken
      /\ Reports
  BY Zenon DEF PubInv
<1>4. Busy /\ InFlight /\ result # "panic"
  BY Zenon, <1>1, <1>3 DEF Place, Busy, Holds, InFlight
<1>5. /\ record = next /\ next \in Orders /\ next <= handed /\ offset <= len[next]
      /\ attempt = [order |-> next, acknowledged |-> offset, attempted_end |-> len[next]]
  BY Zenon, <1>3, <1>4 DEF Place
<1>6. /\ Busy' /\ InFlight' /\ First' = First /\ Lowest' = Lowest /\ Lowest = next + 1
      /\ First = next + 1 /\ Reached' = Reached
  BY ZenonT(30), <1>1, <1>2, <1>4 DEF Busy, Holds, InFlight, First, Lowest, Reached
<1>7. /\ dest \in Nat /\ progress \in Nat /\ offset \in Nat /\ len[next] \in Nat /\ dest = progress
      /\ next \in Nat /\ handed \in Nat /\ queue \in Seq(Orders)
  BY SMTT(20), <1>1, <1>3, <1>5 DEF PubTypes, Taken, Orders
<1>8. PubTypes'
  <2>1. /\ dest' \in Nat /\ receiver' \in BOOLEAN
        /\ result' \in {"none", "ok", "interrupted", "error", "invalid", "panic"}
        /\ pc' \in {"unwinding", "reporting"}
    BY <1>1, <1>7
  <2>2. queue' \in Seq(Orders) /\ Len(queue') <= Slots
    BY <1>1, <1>3, <1>7 DEF PubTypes
  <2> QED BY <1>2, <1>3, <2>1, <2>2 DEF PubTypes
<1>9. Place'
  BY Zenon, <1>1, <1>2, <1>4, <1>5, <1>6 DEF Place
<1>10. Queued'
  <2>1. CASE w = "panic"
    <3>1. Len(queue') = 0 /\ Last' = next
      BY <1>1, <1>2, <1>6, <1>7, <2>1 DEF Last
    <3> QED BY <1>1, <1>2, <1>5, <2>1, <3>1 DEF Queued
  <2>2. CASE w # "panic"
    <3>1. queue' = queue /\ Last' = Last
      BY Zenon, <1>1, <1>6, <2>2 DEF Last
    <3> QED BY Zenon, <1>2, <1>3, <1>4, <1>6, <3>1 DEF Queued
  <2> QED BY ZenonT(30), <2>1, <2>2
<1>11. Position'
  BY Zenon, <1>2, <1>3, <1>4, <1>6 DEF Position
<1>12. Reservations'
  <2>1. \A o \in Orders : Reserved(o)' = Reserved(o)
    BY Zenon, <1>2, <1>4, <1>6 DEF Reserved
  <2> QED BY Zenon, <1>2, <1>3, <1>4, <2>1 DEF Reservations
<1>13. Accounts'
  BY Zenon, <1>2, <1>3, <1>6 DEF Accounts
<1>14. Credits'
  <2>1. w # "panic" => Last' = Last
    BY ZenonT(30), <1>1, <1>6 DEF Last
  <2> QED BY Zenon, <1>1, <1>2, <1>3, <1>4, <2>1 DEF Credits
<1>15. Taken'
  BY <1>1, <1>2, <1>5, <1>7 DEF Taken
<1>16. Reports'
  <2>1. ~drained
    BY Zenon, <1>1, <1>3 DEF Reports
  <2>2. ASSUME frozen.set
        PROVE  /\ ~open /\ revoked /\ ~frozen.stable /\ ~(frozen.drained /\ ~frozen.error)
               /\ frozen.progress = progress /\ frozen.attempt = attempt
               /\ bytes[frozen.delivered]
                    = frozen.progress + Uncertain(frozen.attempt) + frozen.unpublished
    BY Zenon, <1>1, <1>3, <2>1, <2>2 DEF Reports
  <2>3. progress <= dest' /\ dest' <= progress + Uncertain(attempt)
    <3>1. Uncertain(attempt) = len[next] - offset
      BY Zenon, <1>5 DEF Uncertain
    <3> QED BY <1>1, <1>5, <1>7, <3>1
  <2> QED BY Zenon, <1>2, <2>1, <2>2, <2>3 DEF Reports, Uncertain
<1> QED BY Zenon, <1>8, <1>9, <1>10, <1>11, <1>12, <1>13, <1>14, <1>15, <1>16 DEF PubInv

\* The outcome of a write: what was taken is acknowledged; the rest stays uncertain
\* after an error, is unpublished after a revocation, and is reserved otherwise.
LEMMA ReportWriteKeeps == PubInv /\ ReportWrite => PubInv'
<1> USE PublicationBounds
<1> SUFFICES ASSUME PubInv, ReportWrite PROVE PubInv'
  OBVIOUS
<1> DEFINE count == dest - progress
           reached == offset + count
           rest == len[next] - reached
<1>1. PubTypes /\ Place /\ Queued /\ Position /\ Reservations /\ Accounts /\ Credits /\ Taken
  BY DEF PubInv
<1>2. pc = "reporting" /\ Busy /\ InFlight /\ result # "panic"
  BY Zenon, <1>1 DEF ReportWrite, Place, Busy, Holds, InFlight
<1>3. /\ record = next /\ next \in Orders /\ next <= handed /\ offset <= len[next]
      /\ attempt = [order |-> next, acknowledged |-> offset, attempted_end |-> len[next]]
  BY Zenon, <1>1, <1>2 DEF Place
<1>4. /\ dest \in Nat /\ progress \in Nat /\ offset \in 0 .. MaxLen /\ len[next] \in 0 .. MaxLen
      /\ next \in Nat /\ handed \in Nat /\ unpublished \in Nat
      /\ progress <= dest /\ dest <= progress + (len[next] - offset)
  BY <1>1, <1>2, <1>3 DEF PubTypes, Taken, Orders
<1>5. /\ count \in Nat /\ reached \in 0 .. MaxLen /\ reached <= len[next] /\ rest \in 0 .. MaxLen
      /\ dest + rest = progress + (len[next] - offset)
  BY <1>3, <1>4
<1>6. /\ progress' = dest /\ offset' = reached /\ result' = "none"
      /\ IF result \in {"error", "invalid"}
         THEN /\ pc' = "release" /\ failure(unattempted)
              /\ attempt' = [attempt EXCEPT !.acknowledged = reached]
              /\ attempt_started' = attempt_started
         ELSE /\ attempt' = NoAttempt
              /\ IF rest = 0 THEN UNCHANGED failureVars
                 ELSE IF revoked
                 THEN account_unpublished(next, rest) /\ UNCHANGED <<error, revoked, unattempted>>
                 ELSE /\ unattempted' = [unattempted EXCEPT ![next] = rest]
                      /\ UNCHANGED <<error, unpublished, first_unpublished, revoked>>
              /\ pc' = (IF revoked \/ rest = 0 THEN "release" ELSE "publish")
              /\ attempt_started' = (attempt_started /\ (revoked \/ count = 0))
  BY Zenon, <1>3 DEF ReportWrite
<1>7. /\ len' = len /\ collecting' = collecting /\ handed' = handed
      /\ publication_failed' = publication_failed /\ open' = open
      /\ finalized' = finalized /\ stable' = stable /\ frozen' = frozen
      /\ queue' = queue /\ receiver' = receiver /\ record' = record /\ next' = next
      /\ dest' = dest /\ ready' = ready /\ drained' = drained /\ released' = released
      /\ bytes' = bytes
  BY Zenon, WorkerStepFrame DEF ReportWrite
<1> HIDE DEF count, reached, rest
<1>8. Reached = dest + rest /\ Reached \in Nat
  <2>1. Uncertain(attempt) = len[next] - offset
    BY Zenon, <1>3 DEF Uncertain
  <2> QED BY <1>4, <1>5, <2>1 DEF Reached
<1>9. progress = bytes[next - 1] + offset /\ bytes[next - 1] \in Nat /\ bytes[handed] \in Nat
      /\ bytes[next] = bytes[next - 1] + len[next]
  <2>1. progress = bytes[next - 1] + offset
    BY Zenon, <1>1, <1>2 DEF Position
  <2>2. /\ bytes \in [0 .. Records -> Nat]
        /\ next - 1 \in 0 .. Records /\ bytes[next] = bytes[next - 1] + len[next]
    BY Zenon, <1>1, <1>3, BytesSum DEF PubTypes
  <2> QED BY Zenon, <1>1, <2>1, <2>2 DEF PubTypes
<1>10. dest = bytes[next - 1] + reached /\ bytes[next - 1] <= dest /\ dest <= bytes[next]
  BY <1>4, <1>5, <1>9 DEF reached, count
<1>11. pc' \in {"release", "publish"} /\ Busy' /\ ~InFlight'
  BY Zenon, <1>6 DEF Busy, Holds, InFlight
<1>12. First = next + 1 /\ First' = First /\ Last' = Last /\ Lowest = next + 1
      /\ Lowest' = IF pc' = "publish" THEN next ELSE next + 1
  BY Zenon, <1>2, <1>7, <1>11 DEF First, Last, Lowest
<1>13. Credits' /\ Taken'
  BY Zenon, <1>1, <1>2, <1>6, <1>7, <1>11, <1>12 DEF Credits, Taken
<1>14. (revoked => revoked') /\ ~drained
  <2>1. revoked => revoked'
    BY Zenon, <1>6 DEF failure, failureVars
  <2>2. ~drained
    BY Zenon, <1>2 DEF PubInv, Reports
  <2> QED BY Zenon, <2>1, <2>2
<1>15. Reports'
  <2>1. pc # "done" /\ pc' \notin {"writing", "reporting"}
    BY Zenon, <1>2, <1>11
  <2>2. ~drained /\ (revoked => revoked')
    BY Zenon, <1>14
  <2> QED BY <1>7, <2>1, <2>2, ReportStays, Zenon
<1>16. ASSUME revoked' \in BOOLEAN, ~revoked' => revoked = FALSE
       PROVE  Queued'
  BY Zenon, <1>1, <1>2, <1>7, <1>12, <1>16 DEF Queued
<1>17. CASE result \in {"error", "invalid"}
  <2>1. /\ pc' = "release" /\ attempt' = [attempt EXCEPT !.acknowledged = reached]
        /\ attempt_started' = attempt_started /\ failure(unattempted)
    BY Zenon, <1>6, <1>17
  <2>2. /\ error' = TRUE /\ revoked' = TRUE /\ unattempted' = NoReservation
        /\ unpublished' \in Nat /\ first_unpublished' \in 0 .. Records
        /\ first_unpublished' <= handed
        /\ bytes[handed] = Reached + unpublished'
        /\ IF first_unpublished' = 0 THEN Reached = bytes[handed]
           ELSE bytes[first_unpublished' - 1] <= Reached /\ Reached <= bytes[first_unpublished']
    BY Zenon, <2>1, FailureAccounts
  <2>3. attempt' = [order |-> next, acknowledged |-> reached, attempted_end |-> len[next]]
    BY Zenon, <1>3, <2>1
  <2>4. Reached' = Reached
    BY ZenonT(30), <1>4, <1>5, <1>6, <1>8, <2>3 DEF Reached, Uncertain, rest
  <2>5. PubTypes'
    <3>1. attempt' \in Attempts /\ attempt'.acknowledged <= attempt'.attempted_end
      BY <1>3, <1>4, <1>5, <2>3 DEF Attempts, Orders
    <3>2. unattempted' \in [Orders -> 0 .. None]
      BY Zenon, <2>2, NothingLeft
    <3>3. /\ progress' \in Nat /\ offset' \in 0 .. MaxLen /\ pc' = "release" /\ result' = "none"
          /\ attempt_started' = attempt_started /\ error' = TRUE /\ revoked' = TRUE
      BY Zenon, <1>4, <1>5, <1>6, <2>1, <2>2
    <3> QED BY SMTT(20), <1>1, <1>7, <2>2, <3>1, <3>2, <3>3 DEF PubTypes
  <2>6. Place'
    BY Zenon, <1>3, <1>5, <1>6, <1>7, <1>11, <2>1, <2>2 DEF Place
  <2>7. Position' /\ Queued'
    BY Zenon, <1>11, <1>16, <2>2 DEF Position
  <2>8. Reservations'
    BY Zenon, <1>7, <1>11, <2>2 DEF Reservations
  <2>9. Accounts'
    <3>1. bytes[handed] = Reached + unpublished' + Left(unattempted')
      BY <1>8, <2>2, NothingLeft
    <3> QED BY Zenon, <1>7, <2>2, <2>4, <3>1 DEF Accounts
  <2> QED BY Zenon, <1>13, <1>15, <2>5, <2>6, <2>7, <2>8, <2>9 DEF PubInv
<1>18. CASE result \notin {"error", "invalid"}
  <2>1. /\ attempt' = NoAttempt
        /\ attempt_started' = (attempt_started /\ (revoked \/ count = 0))
        /\ pc' = (IF revoked \/ rest = 0 THEN "release" ELSE "publish")
    BY Zenon, <1>6, <1>18
  <2>2. Reached' = dest
    BY <1>4, <1>6, <2>1 DEF Reached, NoAttempt, Uncertain
  <2>3. /\ attempt' \in Attempts /\ attempt'.acknowledged <= attempt'.attempted_end
        /\ progress' \in Nat /\ offset' \in 0 .. MaxLen /\ result' = "none"
        /\ attempt_started' \in BOOLEAN
    BY <1>1, <1>4, <1>5, <1>6, <2>1 DEF Attempts, NoAttempt, PubTypes
  <2>4. error' = error /\ revoked' = revoked
    BY Zenon, <1>6, <1>18 DEF failureVars
  <2>5. Queued'
    BY Zenon, <1>1, <1>16, <2>4 DEF PubTypes
  <2>6. Place'
    <3>1. pc' = "release" /\ ~revoked' => offset' = len[next]
      BY <1>4, <1>5, <1>6, <2>1, <2>4 DEF rest
    <3>2. offset' <= len[next] /\ result' = "none"
      BY Zenon, <1>5, <1>6
    <3> QED BY Zenon, <1>3, <1>7, <1>11, <2>1, <3>1, <3>2 DEF Place
  <2>7. Position'
    BY Zenon, <1>6, <1>7, <1>10, <1>11, <2>4 DEF Position
  <2>8. CASE rest = 0
    <3>1. /\ unpublished' = unpublished /\ first_unpublished' = first_unpublished
          /\ unattempted' = unattempted /\ pc' = "release" /\ Reached' = Reached
      BY SMTT(20), <1>4, <1>6, <1>8, <1>18, <2>1, <2>2, <2>8 DEF failureVars
    <3>2. PubTypes'
      BY <1>1, <1>7, <2>3, <2>4, <3>1 DEF PubTypes
    <3>3. Reservations'
      <4>1. Lowest' = Lowest /\ Lowest = next + 1
        BY Zenon, <1>12, <3>1
      <4>2. ASSUME NEW o \in Orders PROVE Reserved(o)' = Reserved(o)
        BY <1>4, <1>7, <4>1 DEF Reserved, Orders
      <4> QED BY Zenon, <1>1, <1>7, <1>11, <2>4, <3>1, <4>2 DEF Reservations
    <3>4. Accounts'
      BY Zenon, <1>1, <1>7, <2>4, <3>1 DEF Accounts
    <3> QED BY Zenon, <1>13, <1>15, <2>5, <2>6, <2>7, <3>2, <3>3, <3>4 DEF PubInv
  <2>9. CASE rest # 0 /\ revoked
    <3>1. /\ unpublished' = unpublished + rest /\ unattempted' = unattempted
          /\ first_unpublished' = Lower(first_unpublished, next)
      BY Zenon, <1>6, <1>18, <2>9 DEF account_unpublished
    <3>2. first_unpublished' = next
      <4>1. first_unpublished = 0 \/ first_unpublished > next
        BY Zenon, <1>1, <1>2, <2>9 DEF Reservations
      <4>2. first_unpublished \in Nat
        BY <1>1 DEF PubTypes
      <4>3. CASE first_unpublished = 0
        BY Zenon, <3>1, <4>3 DEF Lower
      <4>4. CASE first_unpublished # 0
        <5>1. \A x \in {first_unpublished, next} :
                (\A y \in {first_unpublished, next} : x <= y) <=> x = next
          BY <1>4, <4>1, <4>2, <4>4
        <5>2. Min({first_unpublished, next}) = next
          BY Zenon, <5>1 DEF Min
        <5>3. next # 0
          BY SMTT(20), <1>3 DEF Orders
        <5> QED BY Zenon, <3>1, <4>4, <5>2, <5>3 DEF Lower
      <4> QED BY Zenon, <4>3, <4>4
    <3>3. PubTypes'
      <4>1. unpublished' \in Nat /\ first_unpublished' \in 0 .. Records /\ pc' = "release"
        BY <1>3, <1>4, <1>5, <2>1, <2>9, <3>1, <3>2 DEF Orders
      <4> QED BY SMTT(20), <1>1, <1>7, <2>3, <2>4, <3>1, <4>1 DEF PubTypes
    <3>4. Reservations'
      BY ZenonT(30), <1>1, <1>3, <1>7, <1>11, <2>4, <2>9, <3>1, <3>2 DEF Reservations
    <3>5. Accounts'
      <4>1. Left(unattempted) = 0
        BY Zenon, <1>1, <2>9, NothingLeft DEF Reservations
      <4>2. bytes[handed] = Reached + unpublished + Left(unattempted)
        BY <1>1 DEF Accounts
      <4>3. bytes[handed] = dest + unpublished' + Left(unattempted')
        BY SMTT(20), <1>4, <1>5, <1>8, <3>1, <4>1, <4>2
      <4>4. next # 0
        BY <1>3 DEF Orders
      <4> QED BY Zenon, <1>7, <1>10, <2>2, <3>2, <4>3, <4>4 DEF Accounts
    <3> QED BY <1>13, <1>15, <2>5, <2>6, <2>7, <3>3, <3>4, <3>5 DEF PubInv
  <2>10. CASE rest # 0 /\ ~revoked
    <3>1. /\ unattempted' = [unattempted EXCEPT ![next] = rest] /\ unpublished' = unpublished
          /\ first_unpublished' = first_unpublished /\ pc' = "publish"
      BY ZenonT(30), <1>6, <1>18, <2>1, <2>10
    <3>2. unattempted[next] = None /\ unattempted \in [Orders -> 0 .. None]
      <4>1. unattempted[next] = Reserved(next)
        BY Zenon, <1>1, <1>3, <2>10 DEF Reservations
      <4> QED BY <1>1, <1>4, <1>12, <4>1 DEF Reserved, PubTypes
    <3>3. unattempted' \in [Orders -> 0 .. None]
      <4>1. rest \in 0 .. None
        BY SMTT(20), <1>5 DEF None
      <4> QED BY Zenon, <3>1, <3>2, <4>1
    <3>4. PubTypes'
      BY <1>1, <1>7, <2>3, <2>4, <3>1, <3>3 DEF PubTypes
    <3>5. Reservations'
      <4>1. Lowest' = next /\ Lowest = next + 1
        BY Zenon, <1>12, <3>1
      <4>2. ASSUME NEW o \in Orders PROVE unattempted'[o] = Reserved(o)'
        <5>1. unattempted[o] = Reserved(o) /\ o \in Nat
          BY <1>1, <2>10 DEF Reservations, Orders
        <5>2. CASE o = next
          <6>1. unattempted'[o] = rest
            BY ZenonT(30), <1>3, <3>1, <3>2, <5>2
          <6> QED BY <1>3, <1>4, <1>6, <1>7, <1>11, <4>1, <5>2, <6>1 DEF Reserved, rest
        <5>3. CASE o # next
          <6>1. unattempted'[o] = unattempted[o]
            BY Zenon, <3>1, <3>2, <5>3
          <6> QED BY <1>4, <1>7, <4>1, <5>1, <5>3, <6>1 DEF Reserved
        <5> QED BY Zenon, <5>2, <5>3
      <4> QED BY Zenon, <1>1, <1>7, <1>11, <2>4, <2>10, <3>1, <4>2 DEF Reservations
    <3>6. Accounts'
      <4>1. Left(unattempted') = Left(unattempted) + rest /\ Left(unattempted) \in Nat
        BY ZenonT(30), <1>3, <1>5, <3>1, <3>2, LeftSum
      <4>2. bytes[handed] = Reached + unpublished + Left(unattempted)
        BY <1>1 DEF Accounts
      <4>3. bytes[handed] = dest + unpublished + Left(unattempted')
        BY <1>4, <1>5, <1>8, <4>1, <4>2
      <4> QED BY Zenon, <1>7, <2>2, <2>4, <2>10, <3>1, <4>3 DEF Accounts
    <3> QED BY <1>13, <1>15, <2>5, <2>6, <2>7, <3>4, <3>5, <3>6 DEF PubInv
  <2> QED BY Zenon, <2>8, <2>9, <2>10
<1> QED BY Zenon, <1>17, <1>18

LEMMA ReleaseRecordKeeps == ASSUME PubInv, NEW ok \in BOOLEAN, ReleaseRecord(ok) PROVE PubInv'
<1> USE PublicationBounds
<1>1. /\ pc = "release" /\ released' = [released EXCEPT ![record] = @ + 1]
      /\ IF ok THEN UNCHANGED failureVars ELSE failure(unattempted)
      /\ next' = next + 1 /\ pc' = "recv"
  BY Zenon DEF ReleaseRecord
<1>2. /\ len' = len /\ collecting' = collecting /\ handed' = handed
      /\ publication_failed' = publication_failed /\ open' = open
      /\ finalized' = finalized /\ stable' = stable /\ frozen' = frozen
      /\ queue' = queue /\ receiver' = receiver /\ record' = record /\ offset' = offset
      /\ result' = result /\ dest' = dest /\ ready' = ready /\ drained' = drained
      /\ progress' = progress /\ attempt' = attempt /\ attempt_started' = attempt_started
      /\ bytes' = bytes
  BY Zenon, WorkerStepFrame DEF ReleaseRecord
<1>3. PubTypes /\ Place /\ Queued /\ Position /\ Reservations /\ Accounts /\ Credits /\ Taken
  BY Zenon DEF PubInv
<1>4. Busy /\ ~InFlight /\ result # "panic"
  BY Zenon, <1>1, <1>3 DEF Place, Busy, Holds, InFlight
<1>5. record = next /\ next \in Orders /\ next <= handed
  BY Zenon, <1>3, <1>4 DEF Place
<1>6. ~Busy' /\ ~InFlight'
  BY ZenonT(30), <1>1, <1>2, <1>4 DEF Busy, Holds, InFlight
<1>7. /\ next \in Nat /\ First = next + 1 /\ First' = next + 1 /\ Last' = Last
      /\ Lowest = next + 1 /\ Lowest' = next + 1 /\ Reached' = Reached
  BY <1>1, <1>2, <1>4, <1>5, <1>6 DEF First, Last, Lowest, Reached, Orders
<1>8. /\ error' \in BOOLEAN /\ revoked' \in BOOLEAN /\ unpublished' \in Nat
      /\ first_unpublished' \in 0 .. Records /\ unattempted' \in [Orders -> 0 .. None]
      /\ (revoked => revoked') /\ Reservations' /\ Accounts'
  <2>1. CASE ok
    <3>1. /\ error' = error /\ unpublished' = unpublished /\ revoked' = revoked
          /\ first_unpublished' = first_unpublished /\ unattempted' = unattempted
      BY Zenon, <1>1, <2>1 DEF failureVars
    <3>2. ASSUME NEW o \in Orders PROVE Reserved(o)' = Reserved(o)
      <4>1. o \in Nat
        BY DEF Orders
      <4> QED BY <1>1, <1>2, <1>6, <1>7, <4>1 DEF Reserved
    <3>3. Reservations'
      BY Zenon, <1>2, <1>3, <1>6, <3>1, <3>2 DEF Reservations
    <3>4. Accounts'
      BY Zenon, <1>2, <1>3, <1>7, <3>1 DEF Accounts
    <3> QED BY Zenon, <1>3, <3>1, <3>3, <3>4 DEF PubTypes
  <2>2. CASE ~ok
    <3>1. /\ error' = TRUE /\ revoked' = TRUE /\ unattempted' = NoReservation
          /\ unpublished' \in Nat /\ first_unpublished' \in 0 .. Records
          /\ first_unpublished' <= handed
          /\ bytes[handed] = Reached + unpublished'
          /\ IF first_unpublished' = 0 THEN Reached = bytes[handed]
             ELSE bytes[first_unpublished' - 1] <= Reached /\ Reached <= bytes[first_unpublished']
      BY Zenon, <1>1, <2>2, FailureAccounts
    <3>2. Reservations'
      BY Zenon, <1>2, <1>6, <3>1 DEF Reservations
    <3>3. Accounts'
      <4>1. Reached \in Nat
        BY <1>3 DEF PubTypes, Attempts, Reached, Uncertain
      <4>2. bytes[handed] = Reached + unpublished' + Left(unattempted')
        BY <3>1, <4>1, NothingLeft
      <4> QED BY ZenonT(30), <1>2, <1>7, <3>1, <4>2 DEF Accounts
    <3>4. unattempted' \in [Orders -> 0 .. None]
      BY Zenon, <3>1, NothingLeft
    <3> QED BY Zenon, <3>1, <3>2, <3>3, <3>4
  <2> QED BY Zenon, <2>1, <2>2
<1>9. ~revoked' => ~revoked
  BY ZenonT(30), <1>3, <1>8 DEF PubTypes
<1>10. PubTypes'
  <2>1. next' \in 1 .. Records + 1 /\ pc' = "recv"
    BY <1>1, <1>5 DEF Orders
  <2>2. released' \in [Orders -> Nat]
    BY <1>1, <1>3, <1>5 DEF PubTypes
  <2> QED BY <1>2, <1>3, <1>8, <2>1, <2>2 DEF PubTypes
<1>11. Place'
  BY Zenon, <1>1, <1>2, <1>3, <1>4, <1>6, <1>9 DEF Place
<1>12. Queued'
  BY Zenon, <1>2, <1>3, <1>4, <1>7, <1>9 DEF Queued
<1>13. Position'
  <2>1. ASSUME ~revoked' PROVE progress' = bytes'[next' - 1] + 0
    <3>1. progress = bytes[next - 1] + offset /\ offset = len[next]
      BY Zenon, <1>1, <1>3, <1>4, <1>9, <2>1 DEF Position, Place
    <3>2. bytes[next] = bytes[next - 1] + len[next]
      BY ZenonT(30), <1>3, <1>5, BytesSum DEF PubTypes
    <3>3. progress \in Nat /\ next' - 1 = next
      BY <1>1, <1>3, <1>7 DEF PubTypes
    <3> QED BY <1>2, <3>1, <3>2, <3>3
  <2> QED BY Zenon, <1>6, <2>1 DEF Position
<1>14. Credits'
  <2>1. Last <= handed /\ Last \in Int /\ Last >= next /\ handed \in Nat
    BY <1>3, <1>7 DEF Queued, Last, PubTypes
  <2> SUFFICES ASSUME NEW o \in Orders
               PROVE  /\ released'[o] <= 1
                      /\ o > handed => released'[o] = 0
                      /\ o <= handed => released'[o] = IF next + 1 <= o /\ o <= Last THEN 0 ELSE 1
    BY Zenon, <1>1, <1>2, <1>7 DEF Credits
  <2>2. /\ released[o] <= 1 /\ (o > handed => released[o] = 0)
        /\ o <= handed => released[o] = IF next <= o /\ o <= Last THEN 0 ELSE 1
    BY Zenon, <1>3, <1>4 DEF Credits
  <2>3. released'[o] = IF o = next THEN released[o] + 1 ELSE released[o]
    BY Zenon, <1>1, <1>3, <1>5 DEF PubTypes
  <2>4. o \in Nat
    BY DEF Orders
  <2> QED BY SMTT(20), <1>5, <1>7, <2>1, <2>2, <2>3, <2>4
<1>15. Taken'
  BY Zenon, <1>1, <1>2, <1>3 DEF Taken
<1>16. Reports'
  <2>1. ~drained
    BY Zenon, <1>1 DEF PubInv, Reports
  <2>2. pc # "done" /\ pc' \notin {"writing", "reporting"}
    BY Zenon, <1>1
  <2> QED BY <1>2, <1>8, <2>1, <2>2, ReportStays, Zenon
<1> QED BY Zenon, <1>8, <1>10, <1>11, <1>12, <1>13, <1>14, <1>15, <1>16 DEF PubInv

LEMMA BeginFlushKeeps == PubInv /\ BeginFlush => PubInv'
<1> SUFFICES ASSUME PubInv, BeginFlush PROVE PubInv'
  OBVIOUS
<1>1. /\ pc = "recv" /\ queue = <<>> /\ ~open
      /\ pc' = (IF revoked THEN "done" ELSE "flushing") /\ receiver' = ~revoked
      /\ attempt_started' = (attempt_started \/ ~revoked)
  BY Zenon DEF BeginFlush
<1>2. /\ len' = len /\ collecting' = collecting /\ handed' = handed
      /\ publication_failed' = publication_failed /\ open' = open
      /\ finalized' = finalized /\ stable' = stable /\ frozen' = frozen
      /\ queue' = queue /\ record' = record /\ offset' = offset
      /\ next' = next /\ result' = result /\ dest' = dest /\ ready' = ready /\ drained' = drained
      /\ progress' = progress /\ attempt' = attempt /\ released' = released
      /\ UNCHANGED failureVars
  BY Zenon, WorkerStepFrame DEF BeginFlush
<1>3. /\ error' = error /\ unpublished' = unpublished /\ revoked' = revoked
      /\ first_unpublished' = first_unpublished /\ unattempted' = unattempted
  BY Zenon, <1>2 DEF failureVars
<1>4. ~Busy /\ ~InFlight /\ result # "panic"
  BY Zenon, <1>1 DEF PubInv, Place, Busy, Holds, InFlight
<1>5. ~Busy' /\ ~InFlight' /\ pc' \in {"done", "flushing"}
  BY ZenonT(30), <1>1, <1>2, <1>4 DEF Busy, Holds, InFlight
<1>6. PubTypes'
  <2>1. receiver' \in BOOLEAN /\ attempt_started' \in BOOLEAN
    BY Zenon, <1>1
  <2> QED BY <1>2, <1>3, <1>5, <2>1 DEF PubInv, PubTypes
<1>7. Place'
  <2>1. pc' = "done" => ~receiver'
    BY Zenon, <1>1, <1>5
  <2> QED BY Zenon, <1>1, <1>2, <1>3, <1>4, <1>5, <2>1 DEF PubInv, Place
<1>8. Queued' /\ Position' /\ Reservations' /\ Accounts' /\ Credits' /\ Taken'
  <2>1. Busy' = Busy /\ InFlight' = InFlight /\ Lowest' = Lowest
    BY Zenon, <1>1, <1>2, <1>4, <1>5 DEF Busy, Holds, InFlight, Lowest
  <2>2. publication_failed' => revoked
    BY Zenon, <1>2 DEF PubInv, Reservations
  <2>3. pc' = "reporting" <=> pc = "reporting"
    BY Zenon, <1>1, <1>5
  <2> QED BY Zenon, <1>2, <2>1, <2>2, <2>3, NothingMoves
<1>9. Reports'
  <2>1. ~drained
    BY Zenon, <1>1 DEF PubInv, Reports
  <2>2. pc # "done" /\ pc' \notin {"writing", "reporting"}
    BY Zenon, <1>1, <1>5
  <2> QED BY <1>2, <1>3, <2>1, <2>2, ReportStays, Zenon
<1> QED BY <1>6, <1>7, <1>8, <1>9 DEF PubInv

\* A flush that succeeded with nothing revoked has drained everything handed over.
LEMMA FlushKeeps ==
    ASSUME PubInv, NEW w \in {"ok", "error", "panic"}, Flush(w) PROVE PubInv'
<1>1. /\ pc = "flushing" /\ receiver' = FALSE
      /\ pc' = (IF w = "panic" THEN "unwinding" ELSE "done")
      /\ drained' = (w = "ok" /\ ~revoked) /\ attempt_started' = (w = "panic")
      /\ IF w = "error" THEN failure(unattempted) ELSE UNCHANGED failureVars
  BY Zenon DEF Flush
<1>2. /\ len' = len /\ collecting' = collecting /\ handed' = handed
      /\ publication_failed' = publication_failed /\ open' = open
      /\ finalized' = finalized /\ stable' = stable /\ frozen' = frozen
      /\ queue' = queue /\ record' = record /\ offset' = offset
      /\ next' = next /\ result' = result /\ dest' = dest /\ ready' = ready
      /\ progress' = progress /\ attempt' = attempt /\ released' = released /\ bytes' = bytes
  BY Zenon, WorkerStepFrame DEF Flush
<1>3. PubTypes /\ Place /\ Queued /\ Position /\ Reservations /\ Accounts /\ Credits /\ Taken
  BY Zenon DEF PubInv
<1>4. ~Busy /\ ~InFlight /\ result # "panic" /\ queue = <<>> /\ ~open
  BY Zenon, <1>1, <1>3 DEF Place, Busy, Holds, InFlight
<1>5. ~Busy' /\ ~InFlight' /\ pc' \in {"done", "unwinding"}
  BY Zenon, <1>1, <1>2, <1>4 DEF Busy, Holds, InFlight
<1>6. /\ First' = First /\ Last' = Last /\ Lowest' = Lowest /\ Reached' = Reached
      /\ Busy' = Busy /\ InFlight' = InFlight
  BY Zenon, <1>2, <1>4, <1>5 DEF First, Last, Lowest, Reached, Busy, Holds, InFlight
<1>7. /\ error' \in BOOLEAN /\ revoked' \in BOOLEAN /\ unpublished' \in Nat
      /\ first_unpublished' \in 0 .. Records /\ unattempted' \in [Orders -> 0 .. None]
      /\ (revoked => revoked') /\ (w = "ok" => revoked' = revoked)
      /\ Queued' /\ Position' /\ Reservations' /\ Accounts' /\ Credits' /\ Taken'
  <2>1. pc' # "reporting" /\ pc # "reporting"
    BY Zenon, <1>1, <1>5
  <2>2. CASE w # "error"
    <3>1. UNCHANGED failureVars
      BY Zenon, <1>1, <2>2
    <3>2. /\ error' = error /\ unpublished' = unpublished /\ revoked' = revoked
          /\ first_unpublished' = first_unpublished /\ unattempted' = unattempted
      BY Zenon, <3>1 DEF failureVars
    <3>3. publication_failed' => revoked
      BY Zenon, <1>2, <1>3 DEF Reservations
    <3>4. Queued' /\ Position' /\ Reservations' /\ Accounts' /\ Credits' /\ Taken'
      BY Zenon, <1>2, <1>6, <2>1, <3>1, <3>3, NothingMoves
    <3> QED BY Zenon, <1>3, <3>2, <3>4 DEF PubTypes
  <2>3. CASE w = "error"
    <3>1. /\ error' = TRUE /\ revoked' = TRUE /\ unattempted' = NoReservation
          /\ unpublished' \in Nat /\ first_unpublished' \in 0 .. Records
          /\ first_unpublished' <= handed
          /\ bytes[handed] = Reached + unpublished'
          /\ IF first_unpublished' = 0 THEN Reached = bytes[handed]
             ELSE bytes[first_unpublished' - 1] <= Reached /\ Reached <= bytes[first_unpublished']
      BY Zenon, <1>1, <2>3, FailureAccounts
    <3>2. Reservations'
      BY Zenon, <1>2, <1>5, <3>1 DEF Reservations
    <3>3. Accounts'
      <4>1. Reached \in Nat
        BY <1>3 DEF PubTypes, Attempts, Reached, Uncertain
      <4>2. bytes[handed] = Reached + unpublished' + Left(unattempted')
        BY <3>1, <4>1, NothingLeft
      <4> QED BY Zenon, <1>2, <1>6, <3>1, <4>2 DEF Accounts
    <3>4. unattempted' \in [Orders -> 0 .. None]
      BY Zenon, <3>1, NothingLeft
    <3>5. Queued' /\ Position' /\ Credits' /\ Taken'
      BY Zenon, <1>2, <1>3, <1>5, <1>6, <2>1, <3>1 DEF Queued, Position, Credits, Taken
    <3> QED BY Zenon, <2>3, <3>1, <3>2, <3>3, <3>4, <3>5
  <2> QED BY Zenon, <2>2, <2>3
<1>8. ~revoked' => ~revoked
  BY ZenonT(30), <1>3, <1>7 DEF PubTypes
<1>9. PubTypes'
  <2>1. receiver' \in BOOLEAN /\ attempt_started' \in BOOLEAN /\ drained' \in BOOLEAN
    BY Zenon, <1>1
  <2> QED BY <1>2, <1>3, <1>5, <1>7, <2>1 DEF PubTypes
<1>10. Place'
  BY Zenon, <1>1, <1>2, <1>3, <1>4, <1>5, <1>8 DEF Place
<1>11. Reports'
  <2>1. ~drained
    BY Zenon, <1>1 DEF PubInv, Reports
  <2>2. drained' => pc' = "done" /\ ~attempt_started' /\ ~open'
    BY Zenon, <1>1, <1>2, <1>4
  <2>3. ASSUME frozen.set
        PROVE  /\ ~open /\ revoked' /\ ~frozen.stable /\ ~(frozen.drained /\ ~frozen.error)
               /\ bytes[frozen.delivered]
                    = frozen.progress + Uncertain(frozen.attempt) + frozen.unpublished
               /\ frozen.progress <= dest /\ dest <= frozen.progress + Uncertain(frozen.attempt)
    BY Zenon, <1>1, <1>7, <2>1, <2>3 DEF PubInv, Reports
  <2> QED BY Zenon, <1>2, <1>5, <2>2, <2>3 DEF Reports, Uncertain
<1> QED BY Zenon, <1>7, <1>9, <1>10, <1>11 DEF PubInv

\* A panic in a write leaves its attempt uncertain and accounts what was queued.
LEMMA UnwoundKeeps == PubInv /\ Unwound => PubInv'
<1> SUFFICES ASSUME PubInv, Unwound PROVE PubInv'
  OBVIOUS
<1>1. pc = "unwinding" /\ pc' = "done" /\ failure(unattempted)
  BY Zenon DEF Unwound
<1>2. /\ len' = len /\ collecting' = collecting /\ handed' = handed
      /\ publication_failed' = publication_failed /\ open' = open
      /\ finalized' = finalized /\ stable' = stable /\ frozen' = frozen
      /\ queue' = queue /\ receiver' = receiver /\ record' = record /\ offset' = offset
      /\ next' = next /\ result' = result /\ dest' = dest /\ ready' = ready /\ drained' = drained
      /\ progress' = progress /\ attempt' = attempt /\ attempt_started' = attempt_started
      /\ released' = released /\ bytes' = bytes
  BY Zenon, WorkerStepFrame DEF Unwound
<1>3. PubTypes /\ Place /\ Queued /\ Position /\ Reservations /\ Accounts /\ Credits /\ Taken
  BY Zenon DEF PubInv
<1>4. /\ error' = TRUE /\ revoked' = TRUE /\ unattempted' = NoReservation
      /\ unpublished' \in Nat /\ first_unpublished' \in 0 .. Records
      /\ first_unpublished' <= handed
      /\ bytes[handed] = Reached + unpublished'
      /\ IF first_unpublished' = 0 THEN Reached = bytes[handed]
         ELSE bytes[first_unpublished' - 1] <= Reached /\ Reached <= bytes[first_unpublished']
  BY Zenon, <1>1, FailureAccounts
<1>5. ~InFlight' /\ ~Holds /\ ~Holds'
  BY Zenon, <1>1 DEF InFlight, Holds
<1>6. Busy' = Busy /\ First' = First /\ Last' = Last /\ Reached' = Reached
  BY ZenonT(30), <1>2, <1>5 DEF Busy, First, Last, Reached
<1>7. PubTypes'
  <2>1. unattempted' \in [Orders -> 0 .. None]
    BY Zenon, <1>4, NothingLeft
  <2> QED BY <1>1, <1>2, <1>3, <1>4, <2>1 DEF PubTypes
<1>8. Place'
  BY Zenon, <1>1, <1>2, <1>3, <1>4, <1>5, <1>6 DEF Place
<1>9. Queued' /\ Position' /\ Credits' /\ Taken'
  BY Zenon, <1>1, <1>2, <1>3, <1>4, <1>5, <1>6 DEF Queued, Position, Credits, Taken
<1>10. Reservations'
  BY Zenon, <1>2, <1>4, <1>5 DEF Reservations
<1>11. Accounts'
  <2>1. Reached \in Nat
    BY <1>3 DEF PubTypes, Attempts, Reached, Uncertain
  <2>2. bytes[handed] = Reached + unpublished' + Left(unattempted')
    BY <1>4, <2>1, NothingLeft
  <2> QED BY Zenon, <1>2, <1>4, <1>6, <2>2 DEF Accounts
<1>12. Reports'
  <2>1. ~drained
    BY Zenon, <1>1 DEF PubInv, Reports
  <2>2. pc # "done" /\ pc' \notin {"writing", "reporting"} /\ revoked'
    BY Zenon, <1>1, <1>4
  <2> QED BY <1>2, <2>1, <2>2, ReportStays, Zenon
<1> QED BY Zenon, <1>7, <1>8, <1>9, <1>10, <1>11, <1>12 DEF PubInv

LEMMA PubStarts == PubInit => PubInv
<1> USE PublicationBounds
<1> SUFFICES ASSUME PubInit PROVE PubInv
  OBVIOUS
<1>1. /\ len \in [Orders -> 0 .. MaxLen]
      /\ collecting = TRUE /\ publication_failed = FALSE /\ handed = 0
      /\ queue = <<>> /\ open = TRUE /\ receiver = TRUE
      /\ pc = "start" /\ record = 0 /\ offset = 0 /\ next = 1 /\ result = "none" /\ dest = 0
      /\ ready = FALSE /\ drained = FALSE /\ finalized = FALSE /\ stable = FALSE
      /\ progress = 0 /\ attempt = NoAttempt /\ attempt_started = FALSE
      /\ error = FALSE /\ unpublished = 0 /\ first_unpublished = 0 /\ revoked = FALSE
      /\ unattempted = NoReservation /\ frozen = Unfrozen /\ released = [o \in Orders |-> 0]
  BY Zenon DEF PubInit
<1>2. ~Busy /\ ~InFlight /\ First = 1 /\ Last = 0 /\ Lowest = 1 /\ Reached = 0 /\ ~frozen.set
  BY <1>1 DEF Busy, Holds, InFlight, First, Last, Lowest, Reached, NoAttempt, Uncertain, Unfrozen
<1>3. PubTypes
  <2>1. attempt \in Attempts /\ attempt.acknowledged <= attempt.attempted_end
    BY <1>1 DEF NoAttempt, Attempts
  <2>2. queue \in Seq(Orders) /\ Len(queue) <= Slots /\ released \in [Orders -> Nat]
    BY <1>1
  <2>3. unattempted \in [Orders -> 0 .. None]
    BY Zenon, <1>1, NothingLeft
  <2>4. /\ handed \in 0 .. Records /\ record \in 0 .. Records /\ offset \in 0 .. MaxLen
        /\ next \in 1 .. Records + 1 /\ first_unpublished \in 0 .. Records
        /\ dest \in Nat /\ progress \in Nat /\ unpublished \in Nat
    BY <1>1
  <2>5. /\ collecting \in BOOLEAN /\ publication_failed \in BOOLEAN /\ open \in BOOLEAN
        /\ receiver \in BOOLEAN /\ ready \in BOOLEAN /\ drained \in BOOLEAN
        /\ finalized \in BOOLEAN /\ stable \in BOOLEAN /\ error \in BOOLEAN
        /\ revoked \in BOOLEAN /\ attempt_started \in BOOLEAN
    BY Zenon, <1>1
  <2>6. len \in [Orders -> 0 .. MaxLen] /\ pc = "start" /\ result = "none" /\ frozen = Unfrozen
    BY ZenonT(30), <1>1
  <2> QED BY Zenon, <2>1, <2>2, <2>3, <2>4, <2>5, <2>6 DEF PubTypes
<1>4. Place /\ Queued /\ Taken /\ Reports
  BY <1>1, <1>2 DEF Place, Queued, Taken, Reports
<1>5. bytes[0] = 0
  BY Zenon, <1>1, BytesSum
<1>6. Position
  BY <1>1, <1>2, <1>5 DEF Position
<1>7. Reservations
  <2>1. ASSUME NEW o \in Orders PROVE unattempted[o] = Reserved(o)
    BY <1>1, <1>2 DEF NoReservation, Reserved, Orders
  <2>2. /\ ~revoked /\ error = revoked /\ ~publication_failed /\ unpublished = 0
        /\ first_unpublished = 0 /\ handed = 0
    BY Zenon, <1>1
  <2>3. first_unpublished <= handed
    BY <2>2
  <2> QED BY Zenon, <2>1, <2>2, <2>3 DEF Reservations
<1>8. Accounts
  BY <1>1, <1>2, <1>5, NothingLeft DEF Accounts
<1>9. Credits
  BY <1>1 DEF Credits, Orders
<1> QED BY Zenon, <1>3, <1>4, <1>6, <1>7, <1>8, <1>9 DEF PubInv

LEMMA PubSteps == PubInv /\ [PubNext]_pubVars => PubInv'
<1> SUFFICES ASSUME PubInv, [PubNext]_pubVars PROVE PubInv'
  OBVIOUS
<1>1. ASSUME NEW b \in BOOLEAN, CheckBlocked(b) PROVE PubInv'
  BY Zenon, <1>1, CheckBlockedKeeps
<1>2. CASE Discard
  BY Zenon, <1>2, DiscardKeeps
<1>3. CASE Enqueue
  BY <1>3, EnqueueKeeps
<1>4. ASSUME NEW e \in BOOLEAN, Close(e) PROVE PubInv'
  BY <1>4, CloseKeeps
<1>5. CASE WorkerNext
  <2>1. ASSUME NEW ok \in BOOLEAN, ReleaseRecord(ok) PROVE PubInv'
    BY <2>1, ReleaseRecordKeeps
  <2> QED BY <1>5, <2>1, ReadyKeeps, RecvKeeps, InspectKeeps, PublishEmptyKeeps,
             BeginAttemptKeeps, ReportWriteKeeps, BeginFlushKeeps, UnwoundKeeps, Zenon
          DEF WorkerNext
<1>6. CASE DestinationNext
  <2>1. ASSUME NEW n \in 0 .. MaxLen, NEW w \in {"ok", "interrupted", "error", "invalid", "panic"},
               DestinationWrite(n, w)
        PROVE  PubInv'
    BY Zenon, <2>1, DestinationWriteKeeps
  <2>2. ASSUME NEW w \in {"ok", "error", "panic"}, Flush(w) PROVE PubInv'
    BY Zenon, <2>2, FlushKeeps
  <2> QED BY <1>6, <2>1, <2>2, Zenon DEF DestinationNext
<1>7. CASE FinishBlocked \/ DropPublication
  BY Zenon, <1>7, OwnerFailureKeeps
<1>8. ASSUME NEW j \in BOOLEAN, Finish(j) PROVE PubInv'
  BY <1>8, FinishKeeps
<1>9. CASE UNCHANGED pubVars
  <2>1. /\ len' = len /\ collecting' = collecting /\ handed' = handed
        /\ publication_failed' = publication_failed /\ queue' = queue /\ open' = open
        /\ receiver' = receiver /\ pc' = pc /\ record' = record /\ offset' = offset
        /\ next' = next /\ result' = result /\ dest' = dest /\ ready' = ready
        /\ drained' = drained /\ finalized' = finalized /\ stable' = stable /\ frozen' = frozen
        /\ progress' = progress /\ attempt' = attempt /\ attempt_started' = attempt_started
        /\ released' = released /\ UNCHANGED failureVars
    BY Zenon, <1>9 DEF pubVars, collectorVars, channelVars, workerVars, reportVars
  <2>2. revoked' = revoked /\ error' = error /\ unpublished' = unpublished
        /\ first_unpublished' = first_unpublished /\ unattempted' = unattempted
    BY Zenon, <2>1 DEF failureVars
  <2>3. Busy' = Busy /\ InFlight' = InFlight /\ Lowest' = Lowest
    BY Zenon, <2>1 DEF Busy, Holds, InFlight, Lowest
  <2>4. publication_failed' => revoked
    BY Zenon, <2>1 DEF PubInv, Reservations
  <2>5. Queued' /\ Position' /\ Reservations' /\ Accounts' /\ Credits' /\ Taken'
    BY ZenonT(30), <2>1, <2>3, <2>4, NothingMoves
  <2>6. PubTypes'
    <3>1. PubTypes
      BY Zenon DEF PubInv
    <3> QED BY <2>1, <2>2, <3>1 DEF PubTypes
  <2>7. Place'
    BY Zenon, <2>1, <2>2, <2>3 DEF PubInv, Place
  <2>8. Reports'
    BY Zenon, <2>1, <2>2, ReportStays
  <2> QED BY Zenon, <2>5, <2>6, <2>7, <2>8 DEF PubInv
<1> QED BY <1>1, <1>2, <1>3, <1>4, <1>5, <1>6, <1>7, <1>8, <1>9, Zenon DEF PubNext

\* The invariant says what the two properties say.
LEMMA PubInvSuffices == PubInv => PublicationSafe /\ ReportIsTrue
<1> USE PublicationBounds
<1> SUFFICES ASSUME PubInv PROVE PublicationSafe /\ ReportIsTrue
  OBVIOUS
<1>1. PubTypes /\ Place /\ Queued /\ Reservations /\ Accounts /\ Credits /\ Taken /\ Reports
  BY Zenon DEF PubInv
<1>2. /\ bytes \in [0 .. Records -> Nat] /\ Total = bytes[Records]
      /\ \A n \in 0 .. Records : Sum(n) = bytes[n]
      /\ \A m, n \in 0 .. Records : m <= n => bytes[m] <= bytes[n]
      /\ \A n \in Orders : n - 1 \in 0 .. Records
  BY ZenonT(30), <1>1, BytesSum DEF PubTypes
<1>3. /\ handed \in 0 .. Records /\ first_unpublished \in 0 .. Records /\ dest \in Nat
      /\ progress \in Nat /\ unpublished \in Nat /\ Uncertain(attempt) \in Nat
      /\ Left(unattempted) \in Nat /\ next \in Nat /\ queue \in Seq(Orders)
  BY <1>1, LeftSum DEF PubTypes, Attempts, Uncertain
<1>4. bytes[handed] = progress + Uncertain(attempt) + unpublished + Left(unattempted)
  BY Zenon, <1>1 DEF Accounts, Reached
<1>5. {dest, progress, unpublished} \subseteq 0 .. Total
  <2>1. bytes[handed] <= Total /\ Total \in Nat /\ bytes[handed] \in Nat
    BY <1>2, <1>3
  <2>2. dest <= progress + Uncertain(attempt)
    <3>1. pc = "reporting" => Uncertain(attempt) = len[next] - offset
      BY <1>1 DEF Place, InFlight, Uncertain
    <3> QED BY <1>1, <1>3, <3>1 DEF Taken
  <2> QED BY <1>3, <1>4, <2>1, <2>2
<1>6. PubTypeOK
  <2>1. Range(queue) \subseteq Orders
    BY <1>3 DEF Range
  <2> QED BY <1>1, <1>5, <2>1 DEF PubTypes, PubTypeOK
<1>7. OnceOnlyAccounting
  BY Zenon, <1>2, <1>3, <1>4 DEF OnceOnlyAccounting, Left
<1>8. CreditsReturned
  <2>1. ASSUME NEW o \in Orders PROVE released[o] <= IF o <= handed THEN 1 ELSE 0
    <3>1. released[o] <= 1 /\ (o > handed => released[o] = 0) /\ o \in Nat
      BY <1>1 DEF Credits, Orders
    <3> QED BY <1>3, <3>1
  <2>2. ASSUME pc = "done", result # "panic", NEW o \in 1 .. handed PROVE released[o] = 1
    <3>1. o \in Orders /\ o \in Nat /\ o <= handed
      BY <1>3 DEF Orders
    <3>2. Last = next - 1
      BY <1>1, <1>3, <2>2 DEF Place, Last, First, Busy, Holds
    <3>3. ~(next <= o /\ o <= Last)
      BY <1>3, <3>1, <3>2
    <3> QED BY Zenon, <1>1, <2>2, <3>1, <3>3 DEF Credits
  <2> QED BY Zenon, <2>1, <2>2 DEF CreditsReturned
<1>9. PublishedPrefix
  <2>1. first_unpublished # 0 => first_unpublished \in Orders
    BY <1>3 DEF Orders
  <2>2. first_unpublished # 0 => first_unpublished - 1 \in 0 .. Records
    BY Zenon, <1>2, <2>1
  <2> QED BY Zenon, <1>1, <1>2, <1>3, <2>2 DEF PublishedPrefix, Accounts, Reached
<1>10. FrozenAccounts /\ LateWritesWithinAttempt /\ DrainedMeansAll
  <2>1. frozen.set => frozen.delivered \in 0 .. Records
    <3>1. frozen = Unfrozen \/ frozen \in FrozenReports
      BY Zenon, <1>1 DEF PubTypes
    <3>2. frozen = Unfrozen => ~frozen.set
      BY DEF Unfrozen
    <3>3. frozen \in FrozenReports => frozen.delivered \in 0 .. Records
      BY Zenon DEF FrozenReports
    <3> QED BY Zenon, <3>1, <3>2, <3>3
  <2>2. FrozenAccounts
    BY Zenon, <1>1, <1>2, <2>1 DEF FrozenAccounts, Reports
  <2>3. LateWritesWithinAttempt
    BY Zenon, <1>1 DEF LateWritesWithinAttempt, Reports
  <2>4. DrainedMeansAll
    BY Zenon, <1>1, <1>2, <1>3 DEF DrainedMeansAll, Reports
  <2> QED BY Zenon, <2>2, <2>3, <2>4
<1> QED BY Zenon, <1>6, <1>7, <1>8, <1>9, <1>10 DEF PublicationSafe, ReportIsTrue

\* Every byte handed over is in exactly one of the four accounts, every credit is
\* returned once, and what the destination took is a prefix (PublicationSafe), for
\* every mixture of short writes, errors, panics, revocations and discards.
THEOREM PublicationIsSafe == PubSpec => []PublicationSafe
<1>1. PubInit => PubInv
  BY Zenon, PubStarts
<1>2. PubInv /\ [PubNext]_pubVars => PubInv'
  BY Zenon, PubSteps
<1>3. PubInv => PublicationSafe
  BY Zenon, PubInvSuffices
<1> QED BY <1>1, <1>2, <1>3, PTL DEF PubSpec

\* The report that finish_until froze accounts for every byte delivered by then,
\* bounds what a late write may add, and means all when it says drained
\* (ReportIsTrue), whatever the worker and the destination do afterwards.
THEOREM ReportsStayTrue == PubSpec => []ReportIsTrue
<1>1. PubInit => PubInv
  BY PubStarts
<1>2. PubInv /\ [PubNext]_pubVars => PubInv'
  BY PubSteps
<1>3. PubInv => ReportIsTrue
  BY Zenon, PubInvSuffices
<1> QED BY <1>1, <1>2, <1>3, PTL DEF PubSpec

=============================================================================
