---------------------------- MODULE SamplerRates ----------------------------
(***************************************************************************)
(* More proofs about Sampler, with what they need of finite sets and sums: *)
(* no goroutine is stuck with its result, and rates are the growth of the  *)
(* counters over the time they are computed over.                          *)
(***************************************************************************)
EXTENDS SamplerProofs, FiniteSetTheorems

USE ZenonT(90)

-----------------------------------------------------------------------------
(* Sums                                                                    *)

\* The element that a fold takes next, and the recursion of SumFunction over subsets of D.
Pick(s) == CHOOSE x \in s : TRUE
Adds(g, v, s) == g[s] = IF s = {} THEN 0 ELSE v[Pick(s)] + g[s \ {Pick(s)}]
Adding(g, v, D) == DOMAIN g = SUBSET D /\ \A s \in SUBSET D : Adds(g, v, s)

\* The numbers of elements of finite sets.
LEMMA Sizes ==
    ASSUME NEW S, IsFiniteSet(S)
    PROVE  /\ Cardinality(S) \in Nat /\ (Cardinality(S) = 0 <=> S = {})
           /\ \A x \in S : /\ IsFiniteSet(S \ {x}) /\ Cardinality(S \ {x}) \in Nat
                           /\ Cardinality(S) = Cardinality(S \ {x}) + 1
<1>1. Cardinality(S) \in Nat /\ (Cardinality(S) = 0 <=> S = {})
  BY FS_CardinalityType, FS_EmptySet
<1>2. ASSUME NEW x \in S
      PROVE  /\ IsFiniteSet(S \ {x}) /\ Cardinality(S \ {x}) \in Nat
             /\ Cardinality(S) = Cardinality(S \ {x}) + 1
  <2>1. IsFiniteSet(S \ {x}) /\ Cardinality(S \ {x}) = Cardinality(S) - 1
    BY FS_RemoveElement
  <2>2. Cardinality(S \ {x}) \in Nat
    BY <2>1, FS_CardinalityType
  <2> QED
    BY <1>1, <2>1, <2>2, SMT
<1> QED
  BY <1>1, <1>2

LEMMA AddingExists ==
    ASSUME NEW v, NEW D, IsFiniteSet(D)
    PROVE  \E g : Adding(g, v, D)
<1> DEFINE Up(n) == {s \in SUBSET D : Cardinality(s) <= n}
           T == {n \in Nat : \E g : \A s \in Up(n) : Adds(g, v, s)}
<1>1. \A s \in SUBSET D : IsFiniteSet(s)
  BY FS_Subset
<1>2. \A s \in SUBSET D : s # {} => Pick(s) \in s
  BY DEF Pick
<1>3. 0 \in T
  <2>1. 0 \in Nat /\ \A n \in Nat : n <= 0 => n = 0
    BY SMT
  <2>2. \A s \in Up(0) : s = {}
    BY <1>1, <2>1, Sizes
  <2>3. \A s \in Up(0) : Adds([t \in {{}} |-> 0], v, s)
    BY <2>2 DEF Adds
  <2> QED
    BY <2>1, <2>3
<1>4. ASSUME NEW n \in T PROVE n + 1 \in T
  <2>1. PICK g : \A s \in Up(n) : Adds(g, v, s)
    OBVIOUS
  <2> DEFINE h == [s \in SUBSET D |-> IF s \in Up(n) THEN g[s] ELSE v[Pick(s)] + g[s \ {Pick(s)}]]
  <2>2. n + 1 \in Nat /\ n \in Nat /\ \A a \in Nat : (a + 1 <= n + 1 => a <= n) /\ (a + 1 <= n => a <= n) /\ 0 <= n
    BY SMT
  <2>3. ASSUME NEW s \in Up(n + 1), s # {} PROVE s \ {Pick(s)} \in Up(n)
    <3>1. PICK u : u = s \ {Pick(s)}
      OBVIOUS
    <3>2. s \in SUBSET D /\ IsFiniteSet(s) /\ Pick(s) \in s /\ Cardinality(s) <= n + 1 /\ u \in SUBSET D
      BY <1>1, <1>2, <2>3, <3>1
    <3>3. Cardinality(u) \in Nat /\ Cardinality(s) = Cardinality(u) + 1
      BY <3>1, <3>2, Sizes
    <3>4. Cardinality(u) <= n
      BY <2>2, <3>2, <3>3
    <3> QED
      BY <3>1, <3>2, <3>4
  <2>4. {} \in Up(n)
    BY <2>2, FS_EmptySet
  <2>5. \A s \in Up(n) : h[s] = g[s]
    OBVIOUS
  <2>6. ASSUME NEW s \in Up(n + 1) PROVE Adds(h, v, s)
    <3>1. CASE s = {}
      BY <2>1, <2>4, <2>5, <3>1 DEF Adds
    <3>2. CASE s # {} /\ s \in Up(n)
      <4>1. s \ {Pick(s)} \in Up(n) /\ Adds(g, v, s)
        BY <2>1, <2>3, <3>2
      <4> QED
        BY <2>5, <3>2, <4>1 DEF Adds
    <3>3. CASE s # {} /\ s \notin Up(n)
      <4>1. s \ {Pick(s)} \in Up(n) /\ s \in SUBSET D
        BY <2>3, <3>3
      <4>2. h[s] = v[Pick(s)] + g[s \ {Pick(s)}] /\ h[s \ {Pick(s)}] = g[s \ {Pick(s)}]
        BY <2>5, <3>3, <4>1
      <4> QED
        BY <3>3, <4>2 DEF Adds
    <3> QED
      BY <3>1, <3>2, <3>3
  <2> QED
    BY <2>2, <2>6
<1>5. Nat \subseteq T
  <2>1. T \in SUBSET Nat
    OBVIOUS
  <2> HIDE DEF T
  <2> QED
    BY <1>3, <1>4, <2>1, Induction
<1>6. PICK g : \A s \in Up(Cardinality(D)) : Adds(g, v, s)
  BY <1>5, FS_CardinalityType
<1>7. \A s \in SUBSET D : s \in Up(Cardinality(D))
  BY FS_Subset
<1> DEFINE h == [s \in SUBSET D |-> g[s]]
<1>8. ASSUME NEW s \in SUBSET D PROVE Adds(h, v, s)
  <2>1. Adds(g, v, s) /\ s \ {Pick(s)} \in SUBSET D
    BY <1>6, <1>7
  <2>2. h[s] = g[s] /\ h[s \ {Pick(s)}] = g[s \ {Pick(s)}]
    BY <2>1
  <2> HIDE DEF h
  <2> QED
    BY <2>1, <2>2 DEF Adds
<1> QED
  BY <1>8 DEF Adding

\* What SumFunction of a function v with values in Int computes.
LEMMA SumIsAdded ==
    ASSUME NEW v, IsFiniteSet(DOMAIN v)
    PROVE  \E g : Adding(g, v, DOMAIN v) /\ SumFunction(v) = g[DOMAIN v]
<1>1. PICK D : D = DOMAIN v
  OBVIOUS
<1> DEFINE Body(g) == [s \in SUBSET D |-> IF s = {} THEN 0 ELSE v[Pick(s)] + g[s \ {Pick(s)}]]
           g0 == CHOOSE g : g = Body(g)
<1>2. SumFunction(v) = g0[D]
  BY <1>1 DEF SumFunction, SumFunctionOnSet, FoldFunctionOnSet, MapThenFoldSet, Pick
<1>3. PICK g : Adding(g, v, D)
  BY <1>1, AddingExists
<1> DEFINE h == [s \in SUBSET D |-> g[s]]
<1>4. h = Body(h)
  <2>1. ASSUME NEW s \in SUBSET D PROVE h[s] = IF s = {} THEN 0 ELSE v[Pick(s)] + h[s \ {Pick(s)}]
    <3>1. s \ {Pick(s)} \in SUBSET D /\ Adds(g, v, s)
      BY <1>3 DEF Adding
    <3>2. h[s] = g[s] /\ h[s \ {Pick(s)}] = g[s \ {Pick(s)}]
      BY <3>1
    <3> HIDE DEF h
    <3> QED
      BY <3>1, <3>2 DEF Adds
  <2>2. \A s \in SUBSET D : h[s] = Body(h)[s]
    BY <2>1
  <2>3. DOMAIN h = SUBSET D /\ DOMAIN Body(h) = SUBSET D /\ h = [s \in DOMAIN h |-> h[s]]
    OBVIOUS
  <2> HIDE DEF h
  <2> QED
    BY <2>2, <2>3
<1>5. g0 = Body(g0)
  <2> HIDE DEF h
  <2> QED
    BY <1>4
<1>6. Adding(g0, v, D)
  <2> HIDE DEF g0
  <2>1. DOMAIN g0 = SUBSET D
    BY <1>5
  <2>2. \A s \in SUBSET D : g0[s] = IF s = {} THEN 0 ELSE v[Pick(s)] + g0[s \ {Pick(s)}]
    BY <1>5
  <2> QED
    BY <2>1, <2>2 DEF Adding, Adds
<1> QED
  <2> HIDE DEF g0
  <2> QED
    BY <1>1, <1>2, <1>6

LEMMA SumsAreNumbers ==
    ASSUME NEW v, NEW D, IsFiniteSet(D), \A x \in D : v[x] \in Int, NEW g, Adding(g, v, D)
    PROVE  \A s \in SUBSET D : g[s] \in Int
<1> DEFINE T == {n \in Nat : \A s \in SUBSET D : Cardinality(s) = n => g[s] \in Int}
<1>1. \A s \in SUBSET D : IsFiniteSet(s) /\ Cardinality(s) \in Nat /\ (Cardinality(s) = 0 <=> s = {})
  BY FS_Subset, Sizes
<1>2. 0 \in T
  <2>1. 0 \in Nat /\ 0 \in Int
    BY SMT
  <2> QED
    BY <1>1, <2>1 DEF Adding, Adds
<1>3. ASSUME NEW n \in T, NEW s \in SUBSET D, Cardinality(s) = n + 1 PROVE g[s] \in Int
  <2>1. PICK x, u : x = Pick(s) /\ u = s \ {Pick(s)}
    OBVIOUS
  <2>2. n \in Nat /\ n + 1 # 0 /\ \A a \in Nat : a + 1 = n + 1 => a = n
    BY SMT
  <2>3. s # {}
    BY <1>1, <1>3, <2>2
  <2>4. x \in s /\ u = s \ {x} /\ g[s] = v[x] + g[u] /\ u \in SUBSET D
    BY <2>1, <2>3 DEF Adding, Adds, Pick
  <2>5. Cardinality(u) \in Nat /\ Cardinality(s) = Cardinality(u) + 1
    BY <1>1, <2>4, Sizes
  <2>6. v[x] \in Int /\ g[u] \in Int
    BY <1>3, <2>2, <2>4, <2>5
  <2> QED
    BY <2>4, <2>6, SMT
<1> QED
  <2>1. T \in SUBSET Nat /\ \A n \in T : n + 1 \in T
    <3>1. \A n \in Nat : n + 1 \in Nat
      BY SMT
    <3> QED
      BY <1>3, <3>1
  <2>2. Nat \subseteq T
    <3> HIDE DEF T
    <3> QED
      BY <1>2, <2>1, Induction
  <2> QED
    BY <1>1, <2>2

\* g[s] is a sum: an element that is taken out is what is missing.
SumIn(g, v, s) == g[s] \in Int /\ \A y \in s : g[s] = v[y] + g[s \ {y}]

LEMMA AnyOrder ==
    ASSUME NEW v, NEW D, IsFiniteSet(D), \A x \in D : v[x] \in Int, NEW g, Adding(g, v, D)
    PROVE  \A s \in SUBSET D : SumIn(g, v, s)
<1> DEFINE T == {n \in Nat : \A s \in SUBSET D : Cardinality(s) = n => SumIn(g, v, s)}
<1>1. \A s \in SUBSET D : IsFiniteSet(s) /\ Cardinality(s) \in Nat /\ (Cardinality(s) = 0 <=> s = {})
  BY FS_Subset, Sizes
<1>2. \A s \in SUBSET D : \A x \in s : Cardinality(s) = Cardinality(s \ {x}) + 1
  BY <1>1, Sizes
<1>3. \A s \in SUBSET D : Adds(g, v, s)
  BY DEF Adding
<1>4. 0 \in T
  <2>1. 0 \in Nat /\ 0 \in Int
    BY SMT
  <2> QED
    BY <1>1, <1>3, <2>1 DEF SumIn, Adds
<1>5. ASSUME NEW n \in T, NEW s \in SUBSET D, Cardinality(s) = n + 1 PROVE SumIn(g, v, s)
  <2>1. PICK x, u : x = Pick(s) /\ u = s \ {Pick(s)}
    OBVIOUS
  <2>2. n \in Nat /\ \A a \in Nat : a + 1 = n + 1 => a = n
    BY SMT
  <2>3. s # {}
    <3>1. n + 1 # 0
      BY <2>2, SMT
    <3> QED
      BY <1>1, <1>5, <3>1
  <2>4. x \in s /\ u = s \ {x} /\ g[s] = v[x] + g[u]
    BY <1>3, <2>1, <2>3 DEF Adds, Pick
  <2>5. \A y \in s : Cardinality(s \ {y}) = n /\ s \ {y} \in SUBSET D
    <3>1. SUFFICES ASSUME NEW y \in s PROVE Cardinality(s \ {y}) = n /\ s \ {y} \in SUBSET D
      OBVIOUS
    <3>2. s \ {y} \in SUBSET D
      OBVIOUS
    <3>3. Cardinality(s \ {y}) \in Nat /\ Cardinality(s \ {y}) + 1 = n + 1
      BY <1>1, <1>2, <1>5, <3>2
    <3> QED
      BY <2>2, <3>2, <3>3
  <2>6. \A y \in s : SumIn(g, v, s \ {y})
    BY <2>5
  <2>7. v[x] \in Int /\ g[u] \in Int
    BY <2>4, <2>6 DEF SumIn
  <2>8. g[s] \in Int
    BY <2>4, <2>7, SMT
  <2>9. ASSUME NEW y \in s, y # x PROVE g[s] = v[y] + g[s \ {y}]
    <3>1. PICK w, z : w = u \ {y} /\ z = s \ {y}
      OBVIOUS
    <3>2. y \in u /\ x \in z /\ w = z \ {x} /\ v[y] \in Int
      BY <2>4, <2>9, <3>1
    <3>3. g[u] = v[y] + g[w] /\ g[z] = v[x] + g[w]
      <4>1. SumIn(g, v, u) /\ SumIn(g, v, z)
        BY <2>4, <2>6, <3>1
      <4> QED
        BY <3>1, <3>2, <4>1 DEF SumIn
    <3>4. g[w] \in Int
      <4>1. w \in SUBSET D
        BY <2>4, <3>1
      <4> QED
        BY <4>1, SumsAreNumbers
    <3>5. \A a, b, c \in Int : a + (b + c) = b + (a + c)
      BY SMT
    <3>6. v[x] + (v[y] + g[w]) = v[y] + (v[x] + g[w])
      BY <2>7, <3>2, <3>4, <3>5
    <3> QED
      BY <2>4, <3>1, <3>3, <3>6
  <2> QED
    BY <2>4, <2>8, <2>9 DEF SumIn
<1> QED
  <2>1. T \in SUBSET Nat /\ \A n \in T : n + 1 \in T
    <3>1. \A n \in Nat : n + 1 \in Nat
      BY SMT
    <3> QED
      BY <1>5, <3>1
  <2>2. Nat \subseteq T
    <3> HIDE DEF T
    <3> QED
      BY <1>4, <2>1, Induction
  <2> QED
    BY <1>1, <2>2

\* The values of E are the same, and the sums over its subsets.
Match(w, v, E) == \A x \in E : w[x] = v[x]
Agree(g, h, E) == \A s \in SUBSET E : g[s] = h[s]

\* Sums over subsets do not depend on the rest of the domain.
LEMMA SameSums ==
    ASSUME NEW v, NEW D, IsFiniteSet(D), NEW g, Adding(g, v, D),
           NEW w, NEW E \in SUBSET D, NEW h, Adding(h, w, E), Match(w, v, E)
    PROVE  Agree(g, h, E)
<1> DEFINE T == {n \in Nat : \A s \in SUBSET E : Cardinality(s) = n => g[s] = h[s]}
<1>1. \A s \in SUBSET E : /\ IsFiniteSet(s) /\ Cardinality(s) \in Nat /\ (Cardinality(s) = 0 <=> s = {})
                          /\ s \in SUBSET D
  BY FS_Subset, Sizes
<1>2. \A s \in SUBSET E : Adds(g, v, s) /\ Adds(h, w, s)
  BY <1>1 DEF Adding
<1>3. 0 \in T
  <2>1. 0 \in Nat
    BY SMT
  <2> QED
    BY <1>1, <1>2, <2>1 DEF Adds
<1>4. ASSUME NEW n \in T, NEW s \in SUBSET E, Cardinality(s) = n + 1 PROVE g[s] = h[s]
  <2>1. PICK x, u : x = Pick(s) /\ u = s \ {Pick(s)}
    OBVIOUS
  <2>2. n \in Nat /\ n + 1 # 0 /\ \A a \in Nat : a + 1 = n + 1 => a = n
    BY SMT
  <2>3. s # {}
    BY <1>1, <1>4, <2>2
  <2>4. x \in s /\ u = s \ {x} /\ g[s] = v[x] + g[u] /\ h[s] = w[x] + h[u] /\ u \in SUBSET E
    BY <1>2, <2>1, <2>3 DEF Adds, Pick
  <2>5. Cardinality(u) \in Nat /\ Cardinality(s) = Cardinality(u) + 1
    BY <1>1, <2>4, Sizes
  <2>6. g[u] = h[u] /\ v[x] = w[x]
    BY <1>4, <2>2, <2>4, <2>5 DEF Match
  <2> QED
    BY <2>4, <2>6
<1> QED
  <2>1. T \in SUBSET Nat /\ \A n \in T : n + 1 \in T
    <3>1. \A n \in Nat : n + 1 \in Nat
      BY SMT
    <3> QED
      BY <1>4, <3>1
  <2>2. Nat \subseteq T
    <3> HIDE DEF T
    <3> QED
      BY <1>3, <2>1, Induction
  <2> QED
    BY <1>1, <2>2 DEF Agree

\* What is zero adds nothing.
LEMMA ZerosAddNothing ==
    ASSUME NEW v, IsFiniteSet(DOMAIN v), \A x \in DOMAIN v : v[x] \in Int,
           NEW w, DOMAIN w \subseteq DOMAIN v, \A x \in DOMAIN w : w[x] = v[x],
           \A x \in DOMAIN v \ DOMAIN w : v[x] = 0
    PROVE  SumFunction(v) = SumFunction(w)
<1>1. PICK D, E : D = DOMAIN v /\ E = DOMAIN w
  OBVIOUS
<1>2. IsFiniteSet(D) /\ E \in SUBSET D /\ IsFiniteSet(E)
  BY <1>1, FS_Subset
<1>3. PICK g : Adding(g, v, D) /\ SumFunction(v) = g[D]
  BY <1>1, SumIsAdded
<1>4. PICK h : Adding(h, w, E) /\ SumFunction(w) = h[E]
  BY <1>1, <1>2, SumIsAdded
<1>5. g[E] = h[E]
  <2>1. Match(w, v, E) /\ Adding(g, v, D) /\ Adding(h, w, E)
    BY <1>1, <1>3, <1>4 DEF Match
  <2>2. Agree(g, h, E)
    BY <1>2, <2>1, SameSums
  <2> QED
    BY <2>2 DEF Agree
<1>6. \A s \in SUBSET D : SumIn(g, v, s)
  BY <1>1, <1>2, <1>3, AnyOrder
<1> DEFINE Rest(s) == s \ E
           T == {n \in Nat : \A s \in SUBSET D : E \subseteq s /\ Cardinality(s \ E) = n => g[s] = g[E]}
<1>7. \A s \in SUBSET D : /\ IsFiniteSet(s \ E) /\ Cardinality(s \ E) \in Nat
                          /\ (Cardinality(s \ E) = 0 <=> s \ E = {})
  <2>1. SUFFICES ASSUME NEW s \in SUBSET D
                 PROVE  /\ IsFiniteSet(s \ E) /\ Cardinality(s \ E) \in Nat
                        /\ (Cardinality(s \ E) = 0 <=> s \ E = {})
    OBVIOUS
  <2>2. s \ E \in SUBSET D
    OBVIOUS
  <2>3. IsFiniteSet(s \ E)
    BY <1>2, <2>2, FS_Subset
  <2> QED
    BY <2>3, Sizes
<1>8. 0 \in T
  <2>1. 0 \in Nat
    BY SMT
  <2>2. \A s : E \subseteq s /\ s \ E = {} => s = E
    OBVIOUS
  <2> QED
    BY <1>7, <2>1, <2>2
<1>9. ASSUME NEW n \in T, NEW s \in SUBSET D, E \subseteq s, Cardinality(s \ E) = n + 1 PROVE g[s] = g[E]
  <2>1. n \in Nat /\ n + 1 # 0 /\ \A a \in Nat : a + 1 = n + 1 => a = n
    BY SMT
  <2>2. PICK y : y \in s \ E
    BY <1>7, <1>9, <2>1
  <2>3. PICK u : u = s \ {y}
    OBVIOUS
  <2>4. u \in SUBSET D /\ E \subseteq u /\ u \ E = (s \ E) \ {y} /\ y \in s
    BY <1>9, <2>2, <2>3
  <2>5. Cardinality(u \ E) = n
    <3>1. Cardinality((s \ E) \ {y}) \in Nat /\ Cardinality(s \ E) = Cardinality((s \ E) \ {y}) + 1
      BY <1>7, <2>2, Sizes
    <3> QED
      BY <1>9, <2>1, <2>4, <3>1
  <2>6. g[u] = g[E]
    BY <2>4, <2>5
  <2>7. g[s] = v[y] + g[u] /\ v[y] = 0 /\ g[u] \in Int
    BY <1>1, <1>6, <2>2, <2>3, <2>4 DEF SumIn
  <2>8. \A a \in Int : 0 + a = a
    BY SMT
  <2> QED
    BY <2>6, <2>7, <2>8
<1>10. Nat \subseteq T
  <2>1. T \in SUBSET Nat /\ \A n \in T : n + 1 \in T
    <3>1. \A n \in Nat : n + 1 \in Nat
      BY SMT
    <3> QED
      BY <1>9, <3>1
  <2> HIDE DEF T
  <2> QED
    BY <1>8, <2>1, Induction
<1>11. D \in SUBSET D
  OBVIOUS
<1>12. g[D] = g[E]
  BY <1>2, <1>7, <1>10, <1>11
<1> QED
  BY <1>3, <1>4, <1>5, <1>12

\* A function on a finite set has finitely many values.
LEMMA FiniteValues ==
    ASSUME NEW S, IsFiniteSet(S), NEW g, g = [x \in S |-> g[x]]
    PROVE  IsFiniteSet(Range(g))
<1>1. DOMAIN g = S
  OBVIOUS
<1>2. g \in Surjection(S, Range(g))
  BY <1>1 DEF Range, Surjection
<1> QED
  BY <1>2, FS_Surjection

\* The values of a sequence are finitely many.
LEMMA FiniteRange == ASSUME NEW S, NEW s \in Seq(S) PROVE IsFiniteSet(Range(s))
<1>1. PICK n : n \in Nat /\ s \in [1..n -> S]
  BY Items
<1>2. IsFiniteSet(1..n)
  <2>1. 1 \in Int /\ n \in Int
    BY <1>1, SMT
  <2> QED
    BY <2>1, FS_Interval
<1>3. s = [i \in 1..n |-> s[i]]
  BY <1>1
<1> QED
  BY <1>2, <1>3, FiniteValues

-----------------------------------------------------------------------------
(* The channel                                                             *)

\* A goroutine that has a result finds room for it.
SendersFit == \A r \in Rounds, c \in Names : go[r][c].pc = "sending" => Cardinality(chan[ChanOf(r)]) < Capacity

LEMMA NamesFit ==
    IsFiniteSet(Names) /\ Cardinality(Names) \in Nat /\ Cardinality(Names) <= Capacity /\ Capacity \in Nat
<1>1. DOMAIN collectors = 1..9 /\ Len(collectors) = 9
  BY SMT DEF collectors
<1>2. collectors \in Surjection(1..9, Names)
  <2>1. collectors = [i \in 1..9 |-> collectors[i]]
    BY <1>1, SMTT(60) DEF collectors
  <2> QED
    BY <1>1, <2>1 DEF Names, Range, Surjection
<1>3. IsFiniteSet(1..9) /\ Cardinality(1..9) = 9
  <2>1. 1 \in Int /\ 9 \in Int /\ ~(1 > 9) /\ 9 - 1 + 1 = 9
    BY SMT
  <2> QED
    BY <2>1, FS_Interval
<1>4. IsFiniteSet(Names) /\ Cardinality(Names) <= 9
  <2>1. IsFiniteSet(Names) /\ Cardinality(Names) <= Cardinality(1..9)
    BY <1>2, <1>3, FS_Surjection
  <2> QED
    BY <1>3, <2>1
<1>5. Cardinality(Names) \in Nat
  BY <1>4, FS_CardinalityType
<1>6. 9 \in Nat
  BY SMT
<1> QED
  BY <1>1, <1>4, <1>5, <1>6 DEF Capacity

\* The channel of a round has room for all its goroutines: none is ever blocked on its
\* result, also when its round is over and nobody receives (resultCh is made with
\* len(collectors)).  With the fairness of the scheduler this is why SendersFinish holds.
THEOREM NoSenderBlocks == Spec => []SendersFit
<1>1. Inv => SendersFit
  <2> SUFFICES ASSUME Inv, NEW r \in Rounds, NEW c \in Names, go[r][c].pc = "sending"
               PROVE  Cardinality(chan[r]) < Capacity
    BY DEF SendersFit, ChanOf
  <2> DEFINE S == Names \ {c}
             T == {<<r, n>> : n \in S}
             f == [n \in S |-> <<r, n>>]
  <2>1. IsFiniteSet(S) /\ Cardinality(S) = Cardinality(Names) - 1
    BY NamesFit, FS_RemoveElement
  <2>2. f \in Surjection(S, T)
    BY DEF Surjection
  <2>3. IsFiniteSet(T) /\ Cardinality(T) <= Cardinality(S)
    BY <2>1, <2>2, FS_Surjection
  <2>4. chan[r] \in SUBSET T
    <3>1. SUFFICES ASSUME NEW m \in chan[r] PROVE m \in T
      OBVIOUS
    <3>2. PICK d \in Names : m = <<r, d>> /\ go[r][d].pc = "done"
      BY DEF Inv, Channels
    <3>3. d # c
      BY <3>2
    <3> QED
      BY <3>2, <3>3
  <2>5. IsFiniteSet(chan[r]) /\ Cardinality(chan[r]) <= Cardinality(T)
    BY <2>3, <2>4, FS_Subset
  <2>6. Cardinality(chan[r]) \in Nat /\ Cardinality(T) \in Nat /\ Cardinality(S) \in Nat
    BY <2>1, <2>3, <2>5, FS_CardinalityType
  <2> HIDE DEF S, T, f
  <2>7. /\ Cardinality(Names) \in Nat /\ Cardinality(Names) <= Capacity /\ Capacity \in Nat
    BY NamesFit
  <2>8. \A a, b, s, n, k \in Nat : a <= b /\ b <= s /\ s = n - 1 /\ n <= k => a < k
    BY SMT
  <2> QED
    BY <2>1, <2>3, <2>5, <2>6, <2>7, <2>8
<1> QED
  BY <1>1, SpecInv, PTL

-----------------------------------------------------------------------------
(* Rates                                                                   *)

\* A pair of counters in each round.
NetBytes   == [r \in Rounds |-> NetCounters(scenario[r], "bytes")]
NetPackets == [r \in Rounds |-> NetCounters(scenario[r], "packets")]
DiskBytes  == [r \in Rounds |-> DiskCounters(scenario[r], "bytes")]
DiskOps    == [r \in Rounds |-> DiskCounters(scenario[r], "ops")]

\* The rounds whose counters were used are over.
UsedSoFar ==
    /\ used.net \subseteq Rounds /\ used.disk \subseteq Rounds
    /\ \A r \in used.net \cup used.disk : IF phase = "idle" THEN r <= round ELSE r < round

\* The sampler remembers the counters of the last round that had them.
Kept(prev, rounds, bytes, count) ==
    IF rounds = {} THEN prev.at = 0
    ELSE /\ prev.at \in rounds /\ \A r \in rounds : r <= prev.at
         /\ prev.bytes = bytes[prev.at] /\ prev.count = count[prev.at]

Memory ==
    /\ UsedSoFar
    /\ Kept(prevNet, used.net, NetBytes, NetPackets)
    /\ Kept(prevDisk, used.disk, DiskBytes, DiskOps)

\* The largest of the rounds so far.
LEMMA LastOf ==
    ASSUME NEW S \in SUBSET Rounds, NEW m \in S, \A r \in S : r <= m
    PROVE  Max(S) = m
<1>1. S \in SUBSET Nat
  BY RoundNumbers
<1> QED
  BY <1>1, IsMax

\* at is the last of the rounds, and old is what counters were in it.
Latest(rounds, counters, at, old) ==
    IF rounds = {} THEN at = 0
    ELSE at \in rounds /\ (\A r \in rounds : r <= at) /\ old = counters[at]

\* The growth of counters in round n since the round before it.
GrowthIn(rounds, counters, n, k) ==
    IF rounds \ {n} = {} \/ n \notin rounds THEN 0
    ELSE Grown(counters[n], counters[Max(rounds \ {n})], n - Max(rounds \ {n}))[k]

RateGrows(rounds, counters, at, old, n) ==
    \A k \in 1..2 : calculateRate(old, counters[n], at, n)[k] = GrowthIn(rounds \cup {n}, counters, n, k)

\* calculateRate gives the growth since the last round that had counters, none if there is
\* no such round.
LEMMA RateIsGrowth ==
    ASSUME NEW rounds \in SUBSET Rounds, NEW n \in Rounds, \A r \in rounds : r < n,
           NEW counters, NEW at, NEW old, Latest(rounds, counters, at, old)
    PROVE  RateGrows(rounds, counters, at, old, n)
<1> SUFFICES ASSUME NEW k \in 1..2
             PROVE  calculateRate(old, counters[n], at, n)[k] = GrowthIn(rounds \cup {n}, counters, n, k)
  BY DEF RateGrows
<1>1. (rounds \cup {n}) \ {n} = rounds
  <2>1. \A r \in rounds : r # n
    BY RoundNumbers
  <2> QED
    BY <2>1
<1>2. CASE rounds = {}
  <2>1. calculateRate(old, counters[n], at, n) = <<0, 0>>
    BY <1>2 DEF calculateRate, Latest
  <2>2. <<0, 0>>[k] = 0
    BY SMT
  <2> QED
    BY <1>1, <1>2, <2>1, <2>2 DEF GrowthIn
<1>3. CASE rounds # {}
  <2>1. at \in rounds /\ (\A r \in rounds : r <= at) /\ old = counters[at]
    BY <1>3 DEF Latest
  <2>2. Max(rounds) = at
    BY <2>1, LastOf
  <2>3. at # 0 /\ ~(n <= at)
    BY <2>1, RoundNumbers
  <2>4. calculateRate(old, counters[n], at, n) = Grown(counters[n], counters[at], n - at)
    BY <2>1, <2>3 DEF calculateRate, Grown
  <2> QED
    BY <1>1, <1>3, <2>2, <2>4 DEF GrowthIn
<1> QED
  BY <1>2, <1>3

\* The rates in the summary of a round.
LEMMA SampledRates ==
    ASSUME NEW system
    PROVE  LET d == Sample(system)
               rx == calculateRate(prevNet.bytes, NetSample(system).bytes, prevNet.at, round)
               packets == calculateRate(prevNet.count, NetSample(system).count, prevNet.at, round)
               io == calculateRate(prevDisk.bytes, DiskSample(system).bytes, prevDisk.at, round)
               ops == calculateRate(prevDisk.count, DiskSample(system).count, prevDisk.at, round)
               none == <<0, 0>>
           IN /\ d["host_net_rx_bps"] = (IF system.interfaces = {} THEN none ELSE rx)[1]
              /\ d["host_net_tx_bps"] = (IF system.interfaces = {} THEN none ELSE rx)[2]
              /\ d["host_net_rx_packets_ps"] = (IF system.interfaces = {} THEN none ELSE packets)[1]
              /\ d["host_net_tx_packets_ps"] = (IF system.interfaces = {} THEN none ELSE packets)[2]
              /\ d["host_disk_read_bps"] = (IF system.disks = {} THEN none ELSE io)[1]
              /\ d["host_disk_write_bps"] = (IF system.disks = {} THEN none ELSE io)[2]
              /\ d["host_disk_read_iops"] = (IF system.disks = {} THEN none ELSE ops)[1]
              /\ d["host_disk_write_iops"] = (IF system.disks = {} THEN none ELSE ops)[2]
<1>1. {"host_net_rx_bps", "host_net_tx_bps", "host_net_rx_packets_ps", "host_net_tx_packets_ps",
       "host_disk_read_bps", "host_disk_write_bps", "host_disk_read_iops", "host_disk_write_iops"}
        \subseteq DigestNames
  BY SMT DEF DigestNames, digestPoints, Range
<1>2. CASE system.interfaces = {} /\ system.disks = {}
  BY <1>1, <1>2 DEF Sample
<1>3. CASE system.interfaces = {} /\ system.disks # {}
  BY <1>1, <1>3 DEF Sample
<1>4. CASE system.interfaces # {} /\ system.disks = {}
  BY <1>1, <1>4 DEF Sample
<1>5. CASE system.interfaces # {} /\ system.disks # {}
  BY <1>1, <1>5 DEF Sample
<1> QED
  BY <1>2, <1>3, <1>4, <1>5

\* A collector that is present gave the readings of this round.
LEMMA PresentIsNow ==
    ASSUME Inv, NEW c \in Names, Present(c)
    PROVE  /\ round \in Rounds /\ W(c) = scenario[round]
           /\ Failed(c) \subseteq Reads(c, scenario[round])
<1>1. byName[c] # 0
  <2>1. SUFFICES ASSUME byName[c] = 0 PROVE FALSE
    OBVIOUS
  <2>2. Points(c) = <<>>
    BY <2>1 DEF Points, Completed
  <2>3. State(c) = "unavailable"
    BY <2>2 DEF State
  <2> QED
    BY <2>3 DEF Present
<1>2. round \in Rounds /\ byName[c] = round
  BY <1>1 DEF Inv, Results
<1> QED
  BY <1>2 DEF Inv, Results, W, Failed

\* Interfaces without counters add nothing.
LEMMA NetAddsUp ==
    ASSUME NEW w \in Readings, NEW failed, NEW f \in {"bytes", "packets"}
    PROVE  Sum(InterfaceMetrics(w, failed), f) = NetCounters(w, f)
<1> DEFINE L == IF "interfaces" \in failed THEN {} ELSE 1..w.listed \ {i.interface : i \in Range(w.interfaces)}
           Z == {NetworkInterfaceMetrics(l, <<0, 0>>, <<0, 0>>) : l \in L}
           E == Range(w.interfaces)
           D == InterfaceMetrics(w, failed)
<1>1. w.interfaces \in Seq(InterfaceStat) /\ w.listed \in Nat
  BY DEF Readings
<1>2. E \subseteq InterfaceStat /\ IsFiniteSet(E)
  <2>1. E \subseteq InterfaceStat
    BY <1>1, Elements
  <2> QED
    BY <1>1, <2>1, FiniteRange
<1>3. \A i \in InterfaceStat : NetworkInterfaceMetrics(i.interface, i.bytes, i.packets) = i
  BY SMT DEF InterfaceStat, NetworkInterfaceMetrics
<1>4. D = E \cup Z
  <2>1. D = {NetworkInterfaceMetrics(i.interface, i.bytes, i.packets) : i \in E} \cup Z
    BY DEF InterfaceMetrics
  <2>2. {NetworkInterfaceMetrics(i.interface, i.bytes, i.packets) : i \in E} = E
    <3> HIDE DEF E, Z, D
    <3> QED
      BY <1>2, <1>3
  <2> QED
    BY <2>1, <2>2
<1>5. IsFiniteSet(Z)
  <2>1. IsFiniteSet(1..w.listed)
    <3>1. 1 \in Int /\ w.listed \in Int
      BY <1>1, SMT
    <3> QED
      BY <3>1, FS_Interval
  <2>2. L \subseteq 1..w.listed
    OBVIOUS
  <2>3. IsFiniteSet(L)
    BY <2>1, <2>2, FS_Subset
  <2> HIDE DEF L
  <2>4. PICK g : g = [l \in L |-> NetworkInterfaceMetrics(l, <<0, 0>>, <<0, 0>>)]
    OBVIOUS
  <2>5. DOMAIN g = L /\ \A l \in L : g[l] = NetworkInterfaceMetrics(l, <<0, 0>>, <<0, 0>>)
    BY <2>4
  <2>6. g = [l \in L |-> g[l]]
    BY <2>4, <2>5
  <2>7. IsFiniteSet(Range(g))
    BY <2>3, <2>6, FiniteValues
  <2>8. Range(g) = Z
    BY <2>5 DEF Range
  <2> QED
    BY <2>7, <2>8
<1>6. \A i \in InterfaceStat : \A k \in 1..2 : i[f][k] \in Int
  BY SMT DEF InterfaceStat, Counters
<1>7. \A l : \A k \in 1..2 : NetworkInterfaceMetrics(l, <<0, 0>>, <<0, 0>>)[f][k] = 0
  BY SMT DEF NetworkInterfaceMetrics
<1>8. \A x \in Z : \A k \in 1..2 : x[f][k] = 0
  BY <1>7
<1> HIDE DEF Z, D, E
<1> 0 \in Int
  BY SMT
<1>9. IsFiniteSet(D)
  BY <1>2, <1>4, <1>5, FS_Union
<1>10. ASSUME NEW k \in 1..2 PROVE SumFunction([x \in D |-> x[f][k]]) = SumFunction([x \in E |-> x[f][k]])
  <2>1. PICK v, u : v = [x \in D |-> x[f][k]] /\ u = [x \in E |-> x[f][k]]
    OBVIOUS
  <2>2. DOMAIN v = D /\ DOMAIN u = E /\ E \subseteq D
    BY <1>4, <2>1
  <2>3. /\ \A x \in D : v[x] \in Int
        /\ \A x \in E : u[x] = v[x]
        /\ \A x \in D \ E : v[x] = 0
    BY <1>2, <1>4, <1>6, <1>8, <2>1, <2>2
  <2>4. SumFunction(v) = SumFunction(u)
    BY <1>9, <2>2, <2>3, ZerosAddNothing
  <2> QED
    BY <2>1, <2>4
<1> QED
  BY <1>10 DEF Sum, NetCounters, D, E

\* Of a device the entry of the whole disk counts.
LEMMA DisksAddUp ==
    ASSUME NEW w \in Readings, NEW f \in {"bytes", "ops"},
           WholeDisks(Range(w.disks))
    PROVE  sumStructuredDiskCounters({DiskIOMetrics(d) : d \in Range(w.disks)}, f) = DiskCounters(w, f)
<1> DEFINE E == Range(w.disks)
           D == {DiskIOMetrics(d) : d \in E}
           Devices == {v \in {normalizeDiskName(d) : d \in D} : ~skipDiskCounter(v)}
           Most(v, k) == Max({d[f][k] : d \in {e \in D : normalizeDiskName(e) = v}})
           Whole(v) == CHOOSE d \in E : d.device = v /\ d.whole
<1>1. E \subseteq DiskStat
  <2>1. w.disks \in Seq(DiskStat)
    BY DEF Readings
  <2> QED
    BY <2>1, Elements
<1>2. \A d \in DiskStat : /\ DiskIOMetrics(d).device = d.device /\ DiskIOMetrics(d)[f] = d[f]
                          /\ \A k \in 1..2 : d[f][k] \in Nat
  BY SMT DEF DiskStat, DiskIOMetrics, Counters
<1>3. ASSUME NEW d \in E, d.whole, NEW e \in E, e.device = d.device, NEW k \in 1..2
      PROVE  e[f][k] <= d[f][k]
  <2>1. e.bytes[k] <= d.bytes[k] /\ e.ops[k] <= d.ops[k]
    BY <1>3 DEF WholeDisks, normalizeDiskName
  <2> QED
    BY <2>1
<1> HIDE DEF E
<1>4. Devices = {d.device : d \in E} \ {"loop"}
  <2>1. {normalizeDiskName(d) : d \in D} = {d.device : d \in E}
    <3>1. \A e \in E : DiskIOMetrics(e).device = e.device
      BY <1>1, <1>2
    <3>2. ASSUME NEW d \in D PROVE d.device \in {e.device : e \in E}
      BY <3>1
    <3>3. ASSUME NEW e \in E PROVE \E d \in D : e.device = d.device
      BY <3>1
    <3> HIDE DEF D
    <3> QED
      BY <3>2, <3>3 DEF normalizeDiskName
  <2> QED
    BY <2>1 DEF skipDiskCounter
<1>5. ASSUME NEW v \in Devices, NEW k \in 1..2 PROVE Most(v, k) = Whole(v)[f][k]
  <2>1. PICK d \in E : d = Whole(v) /\ d.device = v /\ d.whole
    <3>1. PICK e \in E : e.device = v
      BY <1>4
    <3>2. \E d \in E : d.device = v /\ d.whole
      BY <3>1 DEF E, WholeDisks, normalizeDiskName
    <3> QED
      BY <3>2
  <2>2. PICK S : S = {x[f][k] : x \in {e \in D : normalizeDiskName(e) = v}}
    OBVIOUS
  <2>3. \A y : y \in S <=> \E e \in E : e.device = v /\ y = e[f][k]
    BY <1>1, <1>2, <2>2 DEF normalizeDiskName
  <2>4. S \in SUBSET Nat
    <3>1. ASSUME NEW y \in S PROVE y \in Nat
      <4>1. PICK e \in E : y = e[f][k]
        BY <2>3
      <4> QED
        BY <1>1, <1>2, <4>1
    <3> QED
      BY <3>1
  <2>5. d[f][k] \in S
    BY <2>1, <2>3
  <2>6. ASSUME NEW y \in S PROVE y <= d[f][k]
    <3>1. PICK e \in E : e.device = v /\ y = e[f][k]
      BY <2>3
    <3> QED
      BY <1>3, <2>1, <3>1
  <2>7. Max(S) = d[f][k]
    BY <2>4, <2>5, <2>6, IsMax
  <2> QED
    BY <2>1, <2>2, <2>7
<1>6. ASSUME NEW k \in 1..2 PROVE [v \in Devices |-> Most(v, k)] = [v \in Devices |-> Whole(v)[f][k]]
  BY <1>5
<1>7. sumStructuredDiskCounters(D, f) = [k \in 1..2 |-> SumFunction([v \in Devices |-> Most(v, k)])]
  BY DEF sumStructuredDiskCounters
<1>8. DiskCounters(w, f) = [k \in 1..2 |-> SumFunction([v \in Devices |-> Whole(v)[f][k]])]
  <2>1. PICK V : V = {d.device : d \in E} \ {"loop"}
    OBVIOUS
  <2>2. DiskCounters(w, f) = [k \in 1..2 |-> SumFunction([v \in V |-> Whole(v)[f][k]])]
    BY <2>1 DEF DiskCounters, E
  <2> QED
    BY <1>4, <2>1, <2>2
<1> HIDE DEF Devices, Most, Whole, D
<1> QED
  BY <1>6, <1>7, <1>8 DEF D, E

\* The counters of a batch are those of its round.
LEMMA CountersOfRound ==
    ASSUME Inv
    PROVE  /\ SystemMetrics.interfaces # {} =>
                /\ NetSample(SystemMetrics).bytes = NetBytes[round]
                /\ NetSample(SystemMetrics).count = NetPackets[round]
           /\ SystemMetrics.disks # {} =>
                /\ DiskSample(SystemMetrics).bytes = DiskBytes[round]
                /\ DiskSample(SystemMetrics).count = DiskOps[round]
           /\ NetSample(SystemMetrics).at = round /\ DiskSample(SystemMetrics).at = round
<1>1. "network" \in Names /\ "disk_io" \in Names
  BY SMTT(60) DEF Names, collectors, Range
<1>2. /\ SystemMetrics.interfaces = IF Present("network") THEN InterfaceMetrics(W("network"), Failed("network")) ELSE {}
      /\ SystemMetrics.disks = IF Present("disk_io") THEN {DiskIOMetrics(d) : d \in Range(W("disk_io").disks)} ELSE {}
  BY DEF SystemMetrics
<1>3. scenario \in Scenarios
  BY DEF Inv, Control
<1>4. ASSUME SystemMetrics.interfaces # {}
      PROVE  /\ Sum(SystemMetrics.interfaces, "bytes") = NetBytes[round]
             /\ Sum(SystemMetrics.interfaces, "packets") = NetPackets[round]
  <2>1. Present("network") /\ SystemMetrics.interfaces = InterfaceMetrics(W("network"), Failed("network"))
    BY <1>2, <1>4
  <2>2. /\ round \in Rounds /\ W("network") = scenario[round]
        /\ Failed("network") \in SUBSET Reads("network", scenario[round])
    BY <1>1, <2>1, PresentIsNow
  <2>3. /\ Sum(InterfaceMetrics(scenario[round], Failed("network")), "bytes") = NetCounters(scenario[round], "bytes")
        /\ Sum(InterfaceMetrics(scenario[round], Failed("network")), "packets") = NetCounters(scenario[round], "packets")
    <3>1. scenario[round] \in Readings
      BY <1>3, <2>2, ReadingsAssumption DEF Rounds
    <3> QED
      BY <3>1, NetAddsUp
  <2> QED
    BY <2>1, <2>2, <2>3 DEF NetBytes, NetPackets
<1>5. ASSUME SystemMetrics.disks # {}
      PROVE  /\ sumStructuredDiskCounters(SystemMetrics.disks, "bytes") = DiskBytes[round]
             /\ sumStructuredDiskCounters(SystemMetrics.disks, "ops") = DiskOps[round]
  <2>1. Present("disk_io") /\ SystemMetrics.disks = {DiskIOMetrics(d) : d \in Range(W("disk_io").disks)}
    BY <1>2, <1>5
  <2>2. round \in Rounds /\ W("disk_io") = scenario[round]
    BY <1>1, <2>1, PresentIsNow
  <2>3. /\ sumStructuredDiskCounters({DiskIOMetrics(d) : d \in Range(scenario[round].disks)}, "bytes") = DiskCounters(scenario[round], "bytes")
        /\ sumStructuredDiskCounters({DiskIOMetrics(d) : d \in Range(scenario[round].disks)}, "ops") = DiskCounters(scenario[round], "ops")
    <3>1. scenario[round] \in Readings /\ WholeDisks(Range(scenario[round].disks))
      BY <1>3, <2>2, ReadingsAssumption DEF Rounds
    <3> QED
      BY <3>1, DisksAddUp
  <2> QED
    BY <2>1, <2>2, <2>3 DEF DiskBytes, DiskOps
<1> QED
  BY <1>4, <1>5 DEF NetSample, DiskSample

\* The rounds with counters once round n is over.
With(part, rounds, n) == IF part # {} THEN rounds \cup {n} ELSE rounds

\* Only a round with counters becomes the one that is remembered.
LEMMA Remembers ==
    ASSUME NEW prev, NEW rounds \in SUBSET Rounds, NEW part, NEW sample, NEW bytes, NEW count,
           NEW n \in Rounds, \A r \in rounds : r < n, Kept(prev, rounds, bytes, count),
           sample.at = n,
           part # {} => sample.bytes = bytes[n] /\ sample.count = count[n]
    PROVE  Kept(Remember(prev, part, sample), With(part, rounds, n), bytes, count)
<1>1. CASE part = {}
  BY <1>1 DEF Remember, With
<1>2. CASE part # {}
  <2>1. Remember(prev, part, sample) = sample /\ With(part, rounds, n) = rounds \cup {n}
    BY <1>2 DEF Remember, With
  <2>2. \A r \in rounds \cup {n} : r <= n
    BY RoundNumbers
  <2>3. rounds \cup {n} # {} /\ n \in rounds \cup {n}
    OBVIOUS
  <2> QED
    BY <1>2, <2>1, <2>2, <2>3 DEF Kept
<1> QED
  BY <1>1, <1>2

\* The two values under names are the growth of the counters.
Rates(rounds, counters, n, digest, a, b) ==
    /\ digest[a] = GrowthIn(rounds, counters, n, 1)
    /\ digest[b] = GrowthIn(rounds, counters, n, 2)

\* The values under a and b as Sample computes them.
Sampled(part, old, cur, at, n, digest, a, b) ==
    /\ digest[a] = (IF part = {} THEN <<0, 0>> ELSE calculateRate(old, cur, at, n))[1]
    /\ digest[b] = (IF part = {} THEN <<0, 0>> ELSE calculateRate(old, cur, at, n))[2]

\* They are honest.
LEMMA Honest ==
    ASSUME NEW rounds \in SUBSET Rounds, NEW n \in Rounds, \A r \in rounds : r < n,
           NEW part, NEW counters, NEW at, NEW old, NEW cur, NEW digest, NEW a, NEW b,
           part # {} => cur = counters[n],
           Latest(rounds, counters, at, old), Sampled(part, old, cur, at, n, digest, a, b)
    PROVE  Rates(With(part, rounds, n), counters, n, digest, a, b)
<1>1. 1 \in 1..2 /\ 2 \in 1..2 /\ <<0, 0>>[1] = 0 /\ <<0, 0>>[2] = 0
  BY SMT
<1>2. CASE part = {}
  <2>1. n \notin rounds
    BY RoundNumbers
  <2>2. GrowthIn(rounds, counters, n, 1) = 0 /\ GrowthIn(rounds, counters, n, 2) = 0
    BY <2>1 DEF GrowthIn
  <2> QED
    BY <1>1, <1>2, <2>2 DEF Rates, Sampled, With
<1>3. CASE part # {}
  <2>1. RateGrows(rounds, counters, at, old, n)
    BY RateIsGrowth
  <2>2. digest[a] = calculateRate(old, counters[n], at, n)[1] /\ digest[b] = calculateRate(old, counters[n], at, n)[2]
    BY <1>3 DEF Sampled
  <2> QED
    BY <1>1, <1>3, <2>1, <2>2 DEF Rates, RateGrows, With
<1> QED
  BY <1>2, <1>3

\* RatesAreHonest without its LET.
AllRates ==
    /\ Rates(used.net, NetBytes, round, batch.digest, "host_net_rx_bps", "host_net_tx_bps")
    /\ Rates(used.net, NetPackets, round, batch.digest, "host_net_rx_packets_ps", "host_net_tx_packets_ps")
    /\ Rates(used.disk, DiskBytes, round, batch.digest, "host_disk_read_bps", "host_disk_write_bps")
    /\ Rates(used.disk, DiskOps, round, batch.digest, "host_disk_read_iops", "host_disk_write_iops")

LEMMA RatesOfPair ==
    ASSUME NEW rounds, NEW counters, NEW a, NEW b
    PROVE  Rates(rounds, counters, round, batch.digest, a, b) => HonestRate(rounds, counters, <<a, b>>)
<1>1. <<a, b>>[1] = a /\ <<a, b>>[2] = b
  OBVIOUS
<1>2. \A k \in 1..2 : k = 1 \/ k = 2
  BY SMT
<1> QED
  BY <1>1, <1>2 DEF Rates, HonestRate, GrowthIn

LEMMA AllRatesHonest == (Sent => AllRates) => RatesAreHonest
  BY RatesOfPair DEF AllRates, RatesAreHonest, NetBytes, NetPackets, DiskBytes, DiskOps

\* What is kept is the latest of each counter.
LEMMA KeptIsLatest ==
    ASSUME NEW prev, NEW rounds, NEW bytes, NEW count, Kept(prev, rounds, bytes, count)
    PROVE  Latest(rounds, bytes, prev.at, prev.bytes) /\ Latest(rounds, count, prev.at, prev.count)
  BY DEF Kept, Latest

\* Push moves the memory on and reports honest rates.
LEMMA PushRates ==
    ASSUME Inv, Memory, Push
    PROVE  Memory' /\ AllRates'
<1>1. PICK nb, np, db, do : nb = NetBytes /\ np = NetPackets /\ db = DiskBytes /\ do = DiskOps
  OBVIOUS
<1>2. PICK ifs, disks, ns, ds, n : /\ ifs = SystemMetrics.interfaces /\ disks = SystemMetrics.disks
                                   /\ ns = NetSample(SystemMetrics) /\ ds = DiskSample(SystemMetrics)
                                   /\ n = round
  OBVIOUS
<1>3. PICK pn, pd, un, ud, d : /\ pn = prevNet /\ pd = prevDisk /\ un = used.net /\ ud = used.disk
                               /\ d = Sample(SystemMetrics)
  OBVIOUS
<1>4. /\ NetBytes' = nb /\ NetPackets' = np /\ DiskBytes' = db /\ DiskOps' = do /\ round' = n
      /\ phase = "collected" /\ phase' = "idle"
  BY <1>1, <1>2, Pushed DEF NetBytes, NetPackets, DiskBytes, DiskOps
<1>5. /\ used'.net = With(ifs, un, n) /\ used'.disk = With(disks, ud, n)
      /\ prevNet' = Remember(pn, ifs, ns) /\ prevDisk' = Remember(pd, disks, ds)
      /\ batch'.digest = d
  <2>1. used' = [net |-> With(ifs, un, n), disk |-> With(disks, ud, n)]
    BY <1>2, <1>3, Pushed DEF With
  <2> QED
    BY <1>2, <1>3, <2>1, Pushed
<1>6. n \in Rounds
  BY <1>2, <1>4 DEF Inv, Control
<1>7. /\ un \in SUBSET Rounds /\ ud \in SUBSET Rounds
      /\ (\A r \in un : r < n) /\ (\A r \in ud : r < n)
      /\ Kept(pn, un, nb, np) /\ Kept(pd, ud, db, do)
  BY <1>1, <1>2, <1>3, <1>4 DEF Memory, UsedSoFar
<1>8. /\ ifs # {} => ns.bytes = nb[n] /\ ns.count = np[n]
      /\ disks # {} => ds.bytes = db[n] /\ ds.count = do[n]
      /\ ns.at = n /\ ds.at = n
  BY <1>1, <1>2, CountersOfRound
<1>9. /\ Sampled(ifs, pn.bytes, ns.bytes, pn.at, n, d, "host_net_rx_bps", "host_net_tx_bps")
      /\ Sampled(ifs, pn.count, ns.count, pn.at, n, d, "host_net_rx_packets_ps", "host_net_tx_packets_ps")
      /\ Sampled(disks, pd.bytes, ds.bytes, pd.at, n, d, "host_disk_read_bps", "host_disk_write_bps")
      /\ Sampled(disks, pd.count, ds.count, pd.at, n, d, "host_disk_read_iops", "host_disk_write_iops")
  BY <1>2, <1>3, SampledRates DEF Sampled
<1>10. UsedSoFar'
  <2>1. \A r \in un \cup ud \cup {n} : r \in Rounds /\ r <= n
    BY <1>6, <1>7, RoundNumbers
  <2> QED
    BY <1>4, <1>5, <1>7, <2>1 DEF UsedSoFar, With
<1>11. /\ Kept(Remember(pn, ifs, ns), With(ifs, un, n), nb, np)
       /\ Kept(Remember(pd, disks, ds), With(disks, ud, n), db, do)
  BY <1>6, <1>7, <1>8, Remembers
<1>12. /\ Rates(With(ifs, un, n), nb, n, d, "host_net_rx_bps", "host_net_tx_bps")
       /\ Rates(With(ifs, un, n), np, n, d, "host_net_rx_packets_ps", "host_net_tx_packets_ps")
       /\ Rates(With(disks, ud, n), db, n, d, "host_disk_read_bps", "host_disk_write_bps")
       /\ Rates(With(disks, ud, n), do, n, d, "host_disk_read_iops", "host_disk_write_iops")
  <2>1. /\ Latest(un, nb, pn.at, pn.bytes) /\ Latest(un, np, pn.at, pn.count)
        /\ Latest(ud, db, pd.at, pd.bytes) /\ Latest(ud, do, pd.at, pd.count)
    BY <1>7, KeptIsLatest
  <2>2. Rates(With(ifs, un, n), nb, n, d, "host_net_rx_bps", "host_net_tx_bps")
    BY <1>6, <1>7, <1>8, <1>9, <2>1, Honest
  <2>3. Rates(With(ifs, un, n), np, n, d, "host_net_rx_packets_ps", "host_net_tx_packets_ps")
    BY <1>6, <1>7, <1>8, <1>9, <2>1, Honest
  <2>4. Rates(With(disks, ud, n), db, n, d, "host_disk_read_bps", "host_disk_write_bps")
    BY <1>6, <1>7, <1>8, <1>9, <2>1, Honest
  <2>5. Rates(With(disks, ud, n), do, n, d, "host_disk_read_iops", "host_disk_write_iops")
    BY <1>6, <1>7, <1>8, <1>9, <2>1, Honest
  <2> QED
    BY <2>2, <2>3, <2>4, <2>5
<1>13. Memory'
  BY <1>4, <1>5, <1>10, <1>11 DEF Memory
<1>14. AllRates'
  BY <1>4, <1>5, <1>12 DEF AllRates
<1> QED
  BY <1>13, <1>14

\* At the start nothing was used or sent.
LEMMA InitRates == Init => Memory /\ ~Sent
<1> SUFFICES ASSUME Init PROVE Memory /\ ~Sent
  OBVIOUS
<1>1. used.net = {} /\ used.disk = {} /\ prevNet.at = 0 /\ prevDisk.at = 0
  <2>1. used = [net |-> {}, disk |-> {}] /\ prevNet = NoSample /\ prevDisk = NoSample
    BY DEF Init
  <2> QED
    BY <2>1 DEF NoSample
<1>2. UsedSoFar
  BY <1>1 DEF UsedSoFar
<1>3. Memory
  BY <1>1, <1>2 DEF Memory, Kept
<1>4. ~(0 > 0)
  BY SMT
<1>5. ~Sent
  BY <1>4 DEF Init, Sent
<1> QED
  BY <1>3, <1>5

LEMMA StartRates ==
    ASSUME Inv, Memory, Start
    PROVE  Memory' /\ ~Sent'
<1>1. /\ scenario' = scenario /\ prevNet' = prevNet /\ prevDisk' = prevDisk /\ used' = used
      /\ round' = round + 1 /\ phase = "idle" /\ phase' # "idle"
  BY DEF Start
<1>2. \A r \in used.net \cup used.disk : r < round + 1
  <2>1. round \in Nat
    BY SMTT(60), SamplerAssumption DEF Inv, Control
  <2>2. \A r \in used.net \cup used.disk : r \in Nat /\ r <= round
    BY <1>1, RoundNumbers DEF Memory, UsedSoFar
  <2>3. \A r, s \in Nat : r <= s => r < s + 1
    BY SMT
  <2> QED
    BY <2>1, <2>2, <2>3
<1>3. UsedSoFar'
  BY <1>1, <1>2 DEF Memory, UsedSoFar
<1> QED
  BY <1>1, <1>3 DEF Memory, Kept, NetBytes, NetPackets, DiskBytes, DiskOps, Sent

\* The collectors and the deadline touch neither the memory nor a batch.
LEMMA CollectRates ==
    ASSUME Inv, Memory, Sent => AllRates,
           \/ \E r \in Rounds, c \in Names : Read(r, c) \/ Send(r, c)
           \/ Receive \/ Expire \/ GiveUp
    PROVE  Memory' /\ (Sent' => AllRates')
<1>1. /\ scenario' = scenario /\ prevNet' = prevNet /\ prevDisk' = prevDisk /\ used' = used
      /\ round' = round /\ batch' = batch
      /\ phase' = "idle" <=> phase = "idle"
  <2>1. ASSUME NEW r \in Rounds, NEW c \in Names, Read(r, c) \/ Send(r, c)
        PROVE  UNCHANGED <<scenario, round, phase, prevNet, prevDisk, used, batch>>
    BY <2>1 DEF Read, Send
  <2>2. CASE Receive
    BY <2>2 DEF Receive
  <2>3. CASE Expire
    BY <2>3 DEF Expire
  <2>4. CASE GiveUp
    BY <2>4 DEF GiveUp
  <2> QED
    BY <2>1, <2>2, <2>3, <2>4
<1>2. NetBytes' = NetBytes /\ NetPackets' = NetPackets /\ DiskBytes' = DiskBytes /\ DiskOps' = DiskOps
  BY <1>1 DEF NetBytes, NetPackets, DiskBytes, DiskOps
<1>3. UsedSoFar'
  BY <1>1 DEF Memory, UsedSoFar
<1>4. Memory'
  BY <1>1, <1>2, <1>3 DEF Memory
<1>5. Sent' => AllRates'
  BY <1>1, <1>2 DEF Sent, AllRates
<1> QED
  BY <1>4, <1>5

LEMMA StepRates == Inv /\ Memory /\ (Sent => AllRates) /\ [Next]_vars => (Memory /\ (Sent => AllRates))'
<1> SUFFICES ASSUME Inv, Memory, Sent => AllRates, [Next]_vars
             PROVE  (Memory /\ (Sent => AllRates))'
  OBVIOUS
<1>1. CASE UNCHANGED vars
  BY <1>1 DEF vars, Memory, UsedSoFar, Kept, NetBytes, NetPackets, DiskBytes, DiskOps, Sent, AllRates, Rates, GrowthIn
<1>2. CASE Start
  BY <1>2, StartRates
<1>3. CASE Push
  BY <1>3, PushRates
<1> QED
  BY <1>1, <1>2, <1>3, CollectRates DEF Next

\* Whatever the counters do, restart from zero included, and whatever rounds come without
\* them, a rate of a batch is the growth since the last round that had the counters over
\* the time since that round, and zero if there is none (Sample and calculateRate).
THEOREM HonestRates == Spec => []RatesAreHonest
<1>1. Init => Memory /\ (Sent => AllRates)
  BY InitRates
<1>2. Spec => [](Memory /\ (Sent => AllRates))
  BY <1>1, SpecInv, StepRates, PTL DEF Spec
<1> QED
  BY <1>2, AllRatesHonest, PTL
=============================================================================
