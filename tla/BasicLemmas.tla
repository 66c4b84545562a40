------------------------------ MODULE BasicLemmas -----------------------------
(***************************************************************************)
(* Facts about numbers, finite sets, sums and queues that the proofs of    *)
(* the components share.                                                   *)
(***************************************************************************)
EXTENDS Integers, SequencesExt, Maps, FiniteSetTheorems, SequenceTheorems,
        WellFoundedInduction, TLAPS

------------------------------------------------------------------------------
\* Finite sets

\* The cardinality of a disjoint union.
LEMMA CardDisjointUnion ==
  ASSUME NEW S, NEW T, IsFiniteSet(S), IsFiniteSet(T), S \cap T = {}
  PROVE  /\ IsFiniteSet(S \cup T)
         /\ Cardinality(S \cup T) = Cardinality(S) + Cardinality(T)
         /\ Cardinality(S) \in Nat /\ Cardinality(T) \in Nat
<1>1. Cardinality(S \cup T) = Cardinality(S) + Cardinality(T) - Cardinality(S \cap T)
  BY FS_Union
<1>2. Cardinality(S \cap T) = 0
  BY FS_EmptySet
<1>3. IsFiniteSet(S \cup T)
  BY FS_Union
<1>4. Cardinality(S) \in Nat /\ Cardinality(T) \in Nat
  BY FS_CardinalityType
<1>. QED
  BY <1>1, <1>2, <1>3, <1>4

\* The cardinality of a part, and of what it leaves.
LEMMA CardPart ==
  ASSUME NEW S, NEW T, IsFiniteSet(S), T \subseteq S
  PROVE  /\ IsFiniteSet(T) /\ IsFiniteSet(S \ T)
         /\ Cardinality(S \ T) = Cardinality(S) - Cardinality(T)
         /\ Cardinality(S) \in Nat /\ Cardinality(T) \in Nat
         /\ Cardinality(S \ T) = 0 <=> S \ T = {}
<1>1. IsFiniteSet(T)
  BY FS_Subset
<1>2. IsFiniteSet(S \ T) /\ Cardinality(S \ T) = Cardinality(S) - Cardinality(S \cap T)
  BY FS_Difference
<1>3. S \cap T = T
  OBVIOUS
<1>4. Cardinality(S) \in Nat /\ Cardinality(T) \in Nat
  BY <1>1, FS_CardinalityType
<1>5. Cardinality(S \ T) = 0 <=> S \ T = {}
  BY <1>2, FS_EmptySet
<1>. QED
  BY <1>1, <1>2, <1>3, <1>4, <1>5

------------------------------------------------------------------------------
\* Numbers

\* The natural numbers are well ordered.
LEMMA LeastNatural ==
  ASSUME NEW T \in SUBSET Nat, T # {}
  PROVE  \E x \in T : \A y \in T : x <= y
<1>. DEFINE R == {ss \in Nat \X Nat : ss[1] < ss[2]}
<1>1. IsWellFoundedOn(R, Nat)
  BY NatLessThanWellFounded DEF OpToRel
<1>2. \A x, y \in Nat : y < x => <<y, x>> \in R
  OBVIOUS
<1>. HIDE DEF R
<1>3. PICK x \in T : \A y \in T : ~ (<<y, x>> \in R)
  BY <1>1, WFMin
<1>4. \A y \in T : ~ (y < x)
  BY <1>2, <1>3
<1>. QED
  BY <1>4

\* A non-empty bounded set of naturals has a maximum.
LEMMA MaxMember ==
  ASSUME NEW k \in Int, NEW S \in SUBSET (0 .. k), S # {}
  PROVE  Max(S) \in S /\ \A y \in S : Max(S) >= y
<1>. DEFINE T == {k - n : n \in S}
<1>0. \A n \in S : n \in Int /\ 0 <= n /\ n <= k
  OBVIOUS
<1>1. T \in SUBSET Nat /\ T # {}
  <2>1. \A n \in S : k - n \in Nat
    BY <1>0
  <2>2. PICK n \in S : TRUE
    OBVIOUS
  <2>3. k - n \in T
    OBVIOUS
  <2>. QED
    BY <2>1, <2>3
<1>2. PICK x \in T : \A y \in T : x <= y
  <2>. HIDE DEF T
  <2>. QED
    BY <1>1, LeastNatural
<1>3. PICK m \in S : x = k - m
  OBVIOUS
<1>4. \A y \in S : m >= y
  BY <1>0, <1>2, <1>3
<1>5. \E z \in S : \A y \in S : z >= y
  BY <1>4
<1>. QED
  BY <1>5, Zenon DEF Max
------------------------------------------------------------------------------
\* Sums

\* A non-empty family of subsets of a finite set has a member that contains no
\* other.
LEMMA SmallestMember ==
  ASSUME NEW D, IsFiniteSet(D), NEW B \in SUBSET SUBSET D, B # {}
  PROVE  \E s \in B : \A t \in B : t \subseteq s => t = s
<1>. DEFINE T == {Cardinality(s) : s \in B}
<1>1. \A s \in B : IsFiniteSet(s) /\ Cardinality(s) \in Nat
  BY FS_Subset, FS_CardinalityType
<1>2. T \in SUBSET Nat /\ T # {}
  BY <1>1
<1>3. PICK n \in T : \A m \in T : n <= m
  <2>. HIDE DEF T
  <2>. QED
    BY <1>2, LeastNatural
<1>4. PICK s \in B : n = Cardinality(s)
  OBVIOUS
<1>5. ASSUME NEW t \in B, t \subseteq s PROVE t = s
  <2>1. Cardinality(s) <= Cardinality(t)
    BY <1>3, <1>4, <1>5
  <2>. QED
    BY <1>1, <1>5, <2>1, FS_Subset
<1>. QED
  BY <1>5

\* The member a fold takes next.
Chosen(s) == CHOOSE y \in s : TRUE

\* g holds the sums of f over the subsets of D.
Sums(g, f, D) ==
    /\ g \in [SUBSET D -> Nat]
    /\ \A s \in SUBSET D : g[s] = IF s = {} THEN 0 ELSE f[Chosen(s)] + g[s \ {Chosen(s)}]

\* The sums of a function of naturals exist.
LEMMA SumsExist ==
  ASSUME NEW D, IsFiniteSet(D), NEW f, \A d \in D : f[d] \in Nat
  PROVE  \E g : Sums(g, f, D)
<1>. DEFINE Small(n) == {s \in SUBSET D : Cardinality(s) <= n}
            UpTo(g, n) == /\ g \in [Small(n) -> Nat]
                          /\ \A s \in Small(n) :
                                g[s] = IF s = {} THEN 0 ELSE f[Chosen(s)] + g[s \ {Chosen(s)}]
            Bad == {n \in Nat : ~ \E g : UpTo(g, n)}
<1>0. \A s \in SUBSET D : s # {} => Chosen(s) \in s
  BY DEF Chosen
<1>1. \A s \in SUBSET D : IsFiniteSet(s) /\ Cardinality(s) \in Nat /\ (Cardinality(s) = 0 <=> s = {})
  BY FS_Subset, FS_CardinalityType, FS_EmptySet
<1>2. \A s \in SUBSET D : s # {} => Cardinality(s \ {Chosen(s)}) = Cardinality(s) - 1
  BY <1>0, <1>1, FS_RemoveElement
<1>3. UpTo([s \in Small(0) |-> 0], 0)
  BY <1>1
<1>4. ASSUME NEW n \in Nat, n # 0, NEW g, UpTo(g, n - 1) PROVE \E h : UpTo(h, n)
  <2>. DEFINE h == [s \in Small(n) |-> IF s = {} THEN 0 ELSE f[Chosen(s)] + g[s \ {Chosen(s)}]]
  <2>1. \A s \in Small(n) : s # {} => s \ {Chosen(s)} \in Small(n - 1)
    BY <1>1, <1>2, <1>4
  <2>2. ASSUME NEW s \in Small(n), s # {}
        PROVE  f[Chosen(s)] \in Nat /\ g[s \ {Chosen(s)}] \in Nat
    BY <1>0, <1>4, <2>1, <2>2
  <2>3. h \in [Small(n) -> Nat]
    BY <2>2, SMTT(30)
  <2>4. ASSUME NEW s \in Small(n), s # {}
        PROVE  h[s \ {Chosen(s)}] = g[s \ {Chosen(s)}]
    <3>. DEFINE t == s \ {Chosen(s)}
    <3>1. t \in Small(n - 1) /\ t \in Small(n)
      BY <1>1, <1>4, <2>1, <2>4
    <3>2. g[t] = IF t = {} THEN 0 ELSE f[Chosen(t)] + g[t \ {Chosen(t)}]
      BY <1>4, <3>1
    <3>3. h[t] = IF t = {} THEN 0 ELSE f[Chosen(t)] + g[t \ {Chosen(t)}]
      <4>. HIDE DEF t
      <4>. QED
        BY <3>1
    <3>. QED
      BY <3>2, <3>3
  <2>5. ASSUME NEW s \in Small(n)
        PROVE  h[s] = IF s = {} THEN 0 ELSE f[Chosen(s)] + h[s \ {Chosen(s)}]
    <3>1. h[s] = IF s = {} THEN 0 ELSE f[Chosen(s)] + g[s \ {Chosen(s)}]
      OBVIOUS
    <3>. HIDE DEF h
    <3>. QED
      BY <2>4, <3>1
  <2>. HIDE DEF h
  <2>. QED
    BY <2>3, <2>5
<1>5. Bad = {}
  <2>. SUFFICES ASSUME Bad # {} PROVE FALSE
    OBVIOUS
  <2>1. PICK n \in Bad : \A m \in Bad : n <= m
    <3>1. Bad \in SUBSET Nat
      OBVIOUS
    <3>. HIDE DEF Bad
    <3>. QED
      BY <3>1, LeastNatural
  <2>. HIDE DEF UpTo
  <2>2. n \in Nat /\ n # 0
    BY <1>3, <2>1
  <2>3. n - 1 \in Nat /\ n - 1 \notin Bad
    BY <2>1, <2>2
  <2>4. PICK g : UpTo(g, n - 1)
    BY <2>3
  <2>. QED
    BY <1>4, <2>1, <2>2, <2>4
<1>6. PICK g : UpTo(g, Cardinality(D))
  <2>1. Cardinality(D) \in Nat
    BY FS_CardinalityType
  <2>. HIDE DEF UpTo
  <2>. QED
    BY <1>5, <2>1
<1>7. Small(Cardinality(D)) = SUBSET D
  BY FS_Subset, FS_CardinalityType
<1>. QED
  BY <1>6, <1>7 DEF Sums

\* A sum over a subset is what the fold computes.
LEMMA SumsAre ==
  ASSUME NEW D, IsFiniteSet(D), NEW f, NEW g, Sums(g, f, D), NEW s \in SUBSET D
  PROVE  SumFunctionOnSet(f, s) = g[s]
<1>. DEFINE it == CHOOSE h : h = [u \in SUBSET s |->
                     IF u = {} THEN 0 ELSE f[Chosen(u)] + h[u \ {Chosen(u)}]]
<1>1. SumFunctionOnSet(f, s) = it[s]
  BY Zenon DEF SumFunctionOnSet, FoldFunctionOnSet, MapThenFoldSet, Chosen
<1>2. it = [u \in SUBSET s |-> IF u = {} THEN 0 ELSE f[Chosen(u)] + it[u \ {Chosen(u)}]]
  <2>. DEFINE h == [u \in SUBSET s |-> g[u]]
  <2>1. ASSUME NEW u \in SUBSET s
        PROVE  g[u] = IF u = {} THEN 0 ELSE f[Chosen(u)] + h[u \ {Chosen(u)}]
    <3>1. u \in SUBSET D /\ u \ {Chosen(u)} \in SUBSET s
      OBVIOUS
    <3>2. h[u \ {Chosen(u)}] = g[u \ {Chosen(u)}]
      BY <3>1
    <3>. HIDE DEF h
    <3>. QED
      BY <3>1, <3>2 DEF Sums
  <2>2. h = [u \in SUBSET s |-> IF u = {} THEN 0 ELSE f[Chosen(u)] + h[u \ {Chosen(u)}]]
    BY <2>1, Zenon
  <2>. HIDE DEF h
  <2>. QED
    BY <2>2, Zenon
<1>. HIDE DEF it
<1>. DEFINE Bad == {u \in SUBSET s : it[u] # g[u]}
<1>3. Bad = {}
  <2>. SUFFICES ASSUME Bad # {} PROVE FALSE
    OBVIOUS
  <2>1. PICK u \in Bad : \A t \in Bad : t \subseteq u => t = u
    <3>1. IsFiniteSet(s) /\ Bad \in SUBSET SUBSET s
      BY FS_Subset
    <3>. HIDE DEF Bad
    <3>. QED
      BY <3>1, SmallestMember
  <2>2. u \in SUBSET s /\ u \in SUBSET D /\ it[u] # g[u]
    BY <2>1
  <2>3. it[u] = IF u = {} THEN 0 ELSE f[Chosen(u)] + it[u \ {Chosen(u)}]
    BY <1>2, <2>2
  <2>4. g[u] = IF u = {} THEN 0 ELSE f[Chosen(u)] + g[u \ {Chosen(u)}]
    BY <2>2 DEF Sums
  <2>5. CASE u # {}
    <3>1. Chosen(u) \in u /\ u \ {Chosen(u)} \in SUBSET s /\ u \ {Chosen(u)} # u
      BY <2>2, <2>5 DEF Chosen
    <3>2. it[u \ {Chosen(u)}] = g[u \ {Chosen(u)}]
      BY <2>1, <3>1
    <3>. QED
      BY <2>2, <2>3, <2>4, <3>2
  <2>. QED
    BY <2>2, <2>3, <2>4, <2>5
<1>. QED
  BY <1>1, <1>3

\* What a sum is, whichever member it begins with.
LEMMA SumFacts ==
  ASSUME NEW D, IsFiniteSet(D), NEW f, \A d \in D : f[d] \in Nat
  PROVE  /\ \A s \in SUBSET D : SumFunctionOnSet(f, s) \in Nat
         /\ SumFunctionOnSet(f, {}) = 0
         /\ \A s \in SUBSET D : \A x \in s :
               SumFunctionOnSet(f, s) = f[x] + SumFunctionOnSet(f, s \ {x})
<1>1. PICK g : Sums(g, f, D)
  BY SumsExist
<1>2. \A s \in SUBSET D : SumFunctionOnSet(f, s) = g[s]
  BY <1>1, SumsAre
<1>. DEFINE Bad == {s \in SUBSET D : \E x \in s : g[s] # f[x] + g[s \ {x}]}
<1>3. Bad = {}
  <2>. SUFFICES ASSUME Bad # {} PROVE FALSE
    OBVIOUS
  <2>1. PICK s \in Bad : \A t \in Bad : t \subseteq s => t = s
    <3>1. Bad \in SUBSET SUBSET D
      OBVIOUS
    <3>. HIDE DEF Bad
    <3>. QED
      BY <3>1, SmallestMember
  <2>2. PICK x \in s : g[s] # f[x] + g[s \ {x}]
    BY <2>1
  <2>. DEFINE y == Chosen(s)
  <2>3. y \in s /\ s \in SUBSET D
    BY <2>1, <2>2 DEF Chosen
  <2>4. g[s] = f[y] + g[s \ {y}]
    BY <1>1, <2>2, <2>3 DEF Sums
  <2>. HIDE DEF y
  <2>5. x # y
    BY <2>2, <2>4
  <2>6. g[s \ {y}] = f[x] + g[(s \ {y}) \ {x}]
    <3>1. s \ {y} \notin Bad /\ s \ {y} \in SUBSET D /\ x \in s \ {y}
      BY <2>1, <2>3, <2>5
    <3>. QED
      BY <3>1
  <2>7. g[s \ {x}] = f[y] + g[(s \ {x}) \ {y}]
    <3>1. s \ {x} \notin Bad /\ s \ {x} \in SUBSET D /\ y \in s \ {x}
      BY <2>1, <2>2, <2>3, <2>5
    <3>. QED
      BY <3>1
  <2>8. (s \ {x}) \ {y} = (s \ {y}) \ {x}
    OBVIOUS
  <2>9. f[x] \in Nat /\ f[y] \in Nat /\ g[(s \ {y}) \ {x}] \in Nat
    BY <1>1, <2>3 DEF Sums
  <2>10. g[s] = f[y] + (f[x] + g[(s \ {y}) \ {x}])
    BY <2>4, <2>6
  <2>11. f[x] + g[s \ {x}] = f[x] + (f[y] + g[(s \ {y}) \ {x}])
    BY <2>7, <2>8
  <2>. QED
    BY <2>2, <2>9, <2>10, <2>11
<1>4. /\ \A s \in SUBSET D : g[s] \in Nat
      /\ g[{}] = 0
  BY <1>1 DEF Sums
<1>. QED
  BY <1>2, <1>3, <1>4

\* Sums of the same numbers are the same, sums of smaller ones smaller.
LEMMA SumMonotone ==
  ASSUME NEW D, IsFiniteSet(D), NEW f, NEW g,
         \A d \in D : f[d] \in Nat /\ g[d] \in Nat /\ f[d] <= g[d]
  PROVE  SumFunctionOnSet(f, D) <= SumFunctionOnSet(g, D)
<1>. DEFINE F(s) == SumFunctionOnSet(f, s)
            G(s) == SumFunctionOnSet(g, s)
            Bad == {s \in SUBSET D : ~(F(s) <= G(s))}
<1>1. /\ \A s \in SUBSET D : F(s) \in Nat /\ G(s) \in Nat
      /\ F({}) = 0 /\ G({}) = 0
      /\ \A s \in SUBSET D : \A x \in s : F(s) = f[x] + F(s \ {x}) /\ G(s) = g[x] + G(s \ {x})
  BY SumFacts
<1>. HIDE DEF F, G
<1>2. Bad = {}
  <2>. SUFFICES ASSUME Bad # {} PROVE FALSE
    OBVIOUS
  <2>1. PICK s \in Bad : \A t \in Bad : t \subseteq s => t = s
    <3>1. Bad \in SUBSET SUBSET D
      OBVIOUS
    <3>. HIDE DEF Bad
    <3>. QED
      BY <3>1, SmallestMember
  <2>2. s # {}
    <3>. SUFFICES ASSUME s = {} PROVE FALSE
      OBVIOUS
    <3>1. ~(F({}) <= G({}))
      BY <2>1
    <3>. QED
      BY <1>1, <3>1
  <2>3. PICK x \in s : TRUE
    BY <2>2
  <2>4. s \ {x} \in SUBSET D /\ s \ {x} \notin Bad
    BY <2>1, <2>3
  <2>5. F(s) = f[x] + F(s \ {x}) /\ G(s) = g[x] + G(s \ {x}) /\ F(s \ {x}) <= G(s \ {x})
    BY <1>1, <2>1, <2>3, <2>4
  <2>6. F(s \ {x}) \in Nat /\ G(s \ {x}) \in Nat /\ f[x] \in Nat /\ g[x] \in Nat /\ f[x] <= g[x]
    BY <1>1, <2>1, <2>3, <2>4
  <2>. QED
    BY <2>1, <2>5, <2>6
<1>. QED
  BY <1>1, <1>2 DEF F, G

LEMMA SumSame ==
  ASSUME NEW D, IsFiniteSet(D), NEW f, NEW g, \A d \in D : f[d] \in Nat /\ g[d] = f[d]
  PROVE  SumFunctionOnSet(f, D) = SumFunctionOnSet(g, D)
<1>1. SumFunctionOnSet(f, D) <= SumFunctionOnSet(g, D) /\ SumFunctionOnSet(g, D) <= SumFunctionOnSet(f, D)
  BY SumMonotone
<1>2. SumFunctionOnSet(f, D) \in Nat /\ SumFunctionOnSet(g, D) \in Nat
  BY SumFacts
<1>. QED
  BY <1>1, <1>2

\* A sum over a disjoint union.
LEMMA SumDisjointUnion ==
  ASSUME NEW S, NEW T, IsFiniteSet(S), IsFiniteSet(T), S \cap T = {},
         NEW f, \A d \in S \cup T : f[d] \in Nat
  PROVE  /\ SumFunctionOnSet(f, S \cup T) = SumFunctionOnSet(f, S) + SumFunctionOnSet(f, T)
         /\ SumFunctionOnSet(f, S) \in Nat /\ SumFunctionOnSet(f, T) \in Nat
<1>. DEFINE F(s) == SumFunctionOnSet(f, s)
            Bad == {t \in SUBSET T : F(S \cup t) # F(S) + F(t)}
<1>1. /\ \A s \in SUBSET (S \cup T) : F(s) \in Nat
      /\ F({}) = 0
      /\ \A s \in SUBSET (S \cup T) : \A x \in s : F(s) = f[x] + F(s \ {x})
  <2>1. IsFiniteSet(S \cup T)
    BY FS_Union
  <2>. QED
    BY <2>1, SumFacts
<1>. HIDE DEF F
<1>2. Bad = {}
  <2>. SUFFICES ASSUME Bad # {} PROVE FALSE
    OBVIOUS
  <2>1. PICK t \in Bad : \A u \in Bad : u \subseteq t => u = t
    <3>1. Bad \in SUBSET SUBSET T
      OBVIOUS
    <3>. HIDE DEF Bad
    <3>. QED
      BY <3>1, SmallestMember
  <2>2. t # {}
    <3>. SUFFICES ASSUME t = {} PROVE FALSE
      OBVIOUS
    <3>1. S \cup t = S /\ F(S) \in Nat
      BY <1>1
    <3>. QED
      BY <1>1, <2>1, <3>1
  <2>3. PICK x \in t : TRUE
    BY <2>2
  <2>4. t \in SUBSET T /\ t \ {x} \in SUBSET T /\ t \ {x} \notin Bad /\ x \notin S
        /\ (S \cup t) \ {x} = S \cup (t \ {x})
    BY <2>1, <2>3
  <2>5. F(S \cup t) = f[x] + F(S \cup (t \ {x})) /\ F(t) = f[x] + F(t \ {x})
        /\ F(S \cup (t \ {x})) = F(S) + F(t \ {x})
    BY <1>1, <2>3, <2>4
  <2>6. F(S) \in Nat /\ F(t \ {x}) \in Nat /\ f[x] \in Nat
    BY <1>1, <2>3, <2>4
  <2>. QED
    BY <2>1, <2>5, <2>6
<1>3. F(S \cup T) = F(S) + F(T) /\ F(S) \in Nat /\ F(T) \in Nat
  BY <1>1, <1>2
<1>. QED
  BY <1>3 DEF F

\* A sum that exceeds another one by at most what one of its members gained.
LEMMA SumGrowsBy ==
  ASSUME NEW D, NEW E, IsFiniteSet(D), IsFiniteSet(E), NEW f, NEW g,
         \A d \in D : f[d] \in Nat, \A d \in E : g[d] \in Nat, NEW k, NEW a \in Nat
  PROVE  (\A d \in E : g[d] <= (IF d \in D THEN f[d] ELSE 0) + (IF d = k THEN a ELSE 0))
            => SumFunctionOnSet(g, E) <= SumFunctionOnSet(f, D) + a
<1>. DEFINE F(s) == SumFunctionOnSet(f, s)
            G(s) == SumFunctionOnSet(g, s)
            old(d) == IF d \in D THEN f[d] ELSE 0
            more(d) == IF d = k THEN a ELSE 0
            gain(s) == IF k \in s THEN a ELSE 0
            U == D \cup E
            Bad == {s \in SUBSET U : ~(G(s \cap E) <= F(s \cap D) + gain(s))}
<1>1. /\ \A s \in SUBSET D : F(s) \in Nat
      /\ F({}) = 0
      /\ \A s \in SUBSET D : \A x \in s : F(s) = f[x] + F(s \ {x})
  BY SumFacts
<1>2. /\ \A s \in SUBSET E : G(s) \in Nat
      /\ G({}) = 0
      /\ \A s \in SUBSET E : \A x \in s : G(s) = g[x] + G(s \ {x})
  BY SumFacts
<1>. HAVE \A d \in E : g[d] <= (IF d \in D THEN f[d] ELSE 0) + (IF d = k THEN a ELSE 0)
<1>3. \A d \in E : g[d] \in Nat /\ g[d] <= old(d) + more(d)
  OBVIOUS
<1>4. \A d : old(d) \in Nat /\ more(d) \in Nat
  OBVIOUS
<1>5. \A s : gain(s) \in Nat
  OBVIOUS
<1>. HIDE DEF F, G
<1>6. ASSUME NEW s \in SUBSET U, NEW x \in s,
             G((s \ {x}) \cap E) <= F((s \ {x}) \cap D) + gain(s \ {x})
      PROVE  G(s \cap E) <= F(s \cap D) + gain(s)
  <2>. DEFINE t == s \ {x}
  <2>1. F(s \cap D) = old(x) + F(t \cap D) /\ F(t \cap D) \in Nat
    <3>1. CASE x \in D
      <4>1. x \in s \cap D /\ (s \cap D) \ {x} = t \cap D
        BY <3>1
      <4>2. F(s \cap D) = f[x] + F(t \cap D)
        BY <1>1, <4>1
      <4>. QED
        BY <1>1, <3>1, <4>2
    <3>2. CASE x \notin D
      <4>1. s \cap D = t \cap D
        BY <3>2
      <4>2. F(t \cap D) \in Nat
        BY <1>1
      <4>. QED
        BY <3>2, <4>1, <4>2
    <3>. QED
      BY <3>1, <3>2
  <2>2. /\ G(t \cap E) \in Nat
        /\ \/ x \in E /\ G(s \cap E) = g[x] + G(t \cap E)
           \/ G(s \cap E) = G(t \cap E)
    <3>1. G(t \cap E) \in Nat
      BY <1>2
    <3>2. CASE x \in E
      <4>1. x \in s \cap E /\ (s \cap E) \ {x} = t \cap E
        BY <3>2
      <4>2. G(s \cap E) = g[x] + G(t \cap E)
        BY <1>2, <4>1
      <4>. QED
        BY <3>1, <3>2, <4>2
    <3>3. CASE x \notin E
      <4>1. s \cap E = t \cap E
        BY <3>3
      <4>. QED
        BY <3>1, <4>1
    <3>. QED
      BY <3>2, <3>3
  <2>3. gain(s) = gain(t) + more(x)
    BY <1>6
  <2>4. G(t \cap E) <= F(t \cap D) + gain(t)
    BY <1>6
  <2>5. old(x) \in Nat /\ more(x) \in Nat /\ gain(t) \in Nat
    BY <1>4, <1>5
  <2>6. x \in E => g[x] \in Nat /\ g[x] <= old(x) + more(x)
    BY <1>3
  <2>. DEFINE Gs == G(s \cap E)
              Gt == G(t \cap E)
              Fs == F(s \cap D)
              Ft == F(t \cap D)
              o == old(x)
              m == more(x)
              w == gain(t)
              ws == gain(s)
  <2>7. /\ Gt \in Nat /\ Ft \in Nat /\ o \in Nat /\ m \in Nat /\ w \in Nat
        /\ Gt <= Ft + w /\ Fs = o + Ft /\ ws = w + m
        /\ \/ g[x] \in Nat /\ g[x] <= o + m /\ Gs = g[x] + Gt
           \/ Gs = Gt
    BY <2>1, <2>2, <2>3, <2>4, <2>5, <2>6
  <2>8. Gs <= Fs + ws
    <3>. HIDE DEF Gs, Gt, Fs, Ft, o, m, w, ws
    <3>. QED
      BY <2>7
  <2>. QED
    BY <2>8
<1>7. Bad = {}
  <2>. SUFFICES ASSUME Bad # {} PROVE FALSE
    OBVIOUS
  <2>1. PICK s \in Bad : \A t \in Bad : t \subseteq s => t = s
    <3>1. Bad \in SUBSET SUBSET U /\ IsFiniteSet(U)
      BY FS_Union
    <3>. HIDE DEF Bad, U
    <3>. QED
      BY <3>1, SmallestMember
  <2>2. s # {}
    <3>. SUFFICES ASSUME s = {} PROVE FALSE
      OBVIOUS
    <3>1. s \cap E = {} /\ s \cap D = {} /\ gain(s) = 0
      OBVIOUS
    <3>. QED
      BY <1>1, <1>2, <2>1, <3>1
  <2>3. PICK x \in s : TRUE
    BY <2>2
  <2>4. s \in SUBSET U /\ s \ {x} \in SUBSET U /\ s \ {x} \notin Bad /\ s \in Bad
    BY <2>1, <2>3
  <2>5. G((s \ {x}) \cap E) <= F((s \ {x}) \cap D) + gain(s \ {x})
    BY <2>4
  <2>6. G(s \cap E) <= F(s \cap D) + gain(s)
    BY <1>6, <2>3, <2>4, <2>5
  <2>. QED
    BY <2>4, <2>6
<1>8. G(U \cap E) <= F(U \cap D) + gain(U)
  BY <1>7
<1>9. U \cap E = E /\ U \cap D = D
  OBVIOUS
<1>10. G(E) <= F(D) + gain(U) /\ G(E) \in Nat /\ F(D) \in Nat
  BY <1>1, <1>2, <1>8, <1>9
<1>11. gain(U) <= a /\ gain(U) \in Nat
  BY <1>5
<1>12. G(E) <= F(D) + a
  <2>. HIDE DEF gain, U
  <2>. QED
    BY <1>10, <1>11
<1>. QED
  BY <1>12 DEF F, G

\* A map of numbers that gains or loses keys.
LEMMA SumWith ==
  ASSUME NEW f, IsFiniteSet(DOMAIN f), \A k \in DOMAIN f : f[k] \in Nat,
         NEW key, key \notin DOMAIN f, NEW v \in Nat
  PROVE  /\ SumFunction(With(f, key, v)) = SumFunction(f) + v
         /\ SumFunction(f) \in Nat
<1>. DEFINE g == With(f, key, v)
            D == DOMAIN f
<1>1. /\ DOMAIN g = D \cup {key} /\ g[key] = v /\ \A k \in D : g[k] = f[k]
  BY DEF With
<1>2. IsFiniteSet(D \cup {key})
  BY FS_AddElement
<1>. HIDE DEF g
<1>3. \A k \in D \cup {key} : g[k] \in Nat
  BY <1>1
<1>4. SumFunctionOnSet(g, D \cup {key}) = g[key] + SumFunctionOnSet(g, (D \cup {key}) \ {key})
  BY <1>2, <1>3, SumFacts
<1>5. (D \cup {key}) \ {key} = D
  OBVIOUS
<1>6. SumFunctionOnSet(g, D) = SumFunctionOnSet(f, D) /\ SumFunctionOnSet(f, D) \in Nat
  BY <1>1, SumSame, SumFacts
<1>. QED
  BY <1>1, <1>4, <1>5, <1>6 DEF SumFunction, g

LEMMA SumWithout ==
  ASSUME NEW f, IsFiniteSet(DOMAIN f), \A k \in DOMAIN f : f[k] \in Nat, NEW S
  PROVE  /\ SumFunction(f) = SumFunction(Without(f, S)) + SumFunctionOnSet(f, DOMAIN f \cap S)
         /\ SumFunction(f) \in Nat /\ SumFunction(Without(f, S)) \in Nat
         /\ SumFunctionOnSet(f, DOMAIN f \cap S) \in Nat
<1>. DEFINE g == Without(f, S)
            D == DOMAIN f
<1>1. DOMAIN g = D \ S /\ \A k \in D \ S : g[k] = f[k]
  BY DEF Without
<1>2. IsFiniteSet(D \ S) /\ IsFiniteSet(D \cap S) /\ (D \ S) \cap (D \cap S) = {}
      /\ (D \ S) \cup (D \cap S) = D
  BY FS_Subset
<1>. HIDE DEF g
<1>3. SumFunctionOnSet(f, (D \ S) \cup (D \cap S)) = SumFunctionOnSet(f, D \ S) + SumFunctionOnSet(f, D \cap S)
      /\ SumFunctionOnSet(f, D \ S) \in Nat /\ SumFunctionOnSet(f, D \cap S) \in Nat
  <2>1. \A d \in (D \ S) \cup (D \cap S) : f[d] \in Nat
    OBVIOUS
  <2>. DEFINE A == D \ S
              B == D \cap S
  <2>2. IsFiniteSet(A) /\ IsFiniteSet(B) /\ A \cap B = {} /\ \A d \in A \cup B : f[d] \in Nat
    BY <1>2, <2>1
  <2>. HIDE DEF A, B
  <2>3. SumFunctionOnSet(f, A \cup B) = SumFunctionOnSet(f, A) + SumFunctionOnSet(f, B)
        /\ SumFunctionOnSet(f, A) \in Nat /\ SumFunctionOnSet(f, B) \in Nat
    BY <2>2, SumDisjointUnion
  <2>. QED
    BY <2>3 DEF A, B
<1>4. SumFunctionOnSet(f, D \ S) = SumFunctionOnSet(g, D \ S)
  BY <1>1, <1>2, SumSame
<1>. QED
  BY <1>1, <1>2, <1>3, <1>4 DEF SumFunction, g
------------------------------------------------------------------------------
\* Queues

\* f builds what is selected of the first m entries of q.
Selects(f, q, S, T, m) ==
    /\ f \in [0 .. m -> Seq(T)] /\ f[0] = <<>>
    /\ \A k \in 1 .. m : f[k] = IF q[k] \in S THEN Append(f[k - 1], q[k]) ELSE f[k - 1]

LEMMA SelectsExists ==
  ASSUME NEW T, NEW q \in Seq(T), NEW S
  PROVE  \E f : Selects(f, q, S, T, Len(q))
<1>. DEFINE Bad == {m \in 0 .. Len(q) : ~ \E f : Selects(f, q, S, T, m)}
<1>1. Len(q) \in Nat /\ \A k \in 1 .. Len(q) : q[k] \in T
  OBVIOUS
<1>2. Selects([k \in 0 .. 0 |-> <<>>], q, S, T, 0)
  BY DEF Selects
<1>3. ASSUME NEW m \in 1 .. Len(q), NEW f, Selects(f, q, S, T, m - 1)
      PROVE  \E g : Selects(g, q, S, T, m)
  <2>. DEFINE last == IF q[m] \in S THEN Append(f[m - 1], q[m]) ELSE f[m - 1]
              g == [k \in 0 .. m |-> IF k < m THEN f[k] ELSE last]
  <2>1. f[m - 1] \in Seq(T) /\ q[m] \in T
    BY <1>1, <1>3 DEF Selects
  <2>2. last \in Seq(T)
    BY <2>1
  <2>3. g \in [0 .. m -> Seq(T)] /\ g[0] = <<>>
    BY <1>1, <1>3, <2>2 DEF Selects
  <2>4. \A k \in 1 .. m : g[k] = IF q[k] \in S THEN Append(g[k - 1], q[k]) ELSE g[k - 1]
    <3>1. g[m] = last /\ g[m - 1] = f[m - 1]
      BY <1>1
    <3>2. ASSUME NEW k \in 1 .. m - 1
          PROVE  /\ g[k] = f[k] /\ g[k - 1] = f[k - 1]
                 /\ f[k] = IF q[k] \in S THEN Append(f[k - 1], q[k]) ELSE f[k - 1]
      BY <1>1, <1>3, SMTT(30) DEF Selects
    <3>. HIDE DEF g
    <3>3. ASSUME NEW k \in 1 .. m
          PROVE  g[k] = IF q[k] \in S THEN Append(g[k - 1], q[k]) ELSE g[k - 1]
      <4>1. CASE k = m
        BY <3>1, <4>1
      <4>2. CASE k # m
        <5>1. k \in 1 .. m - 1
          BY <1>1, <4>2
        <5>. QED
          BY <3>2, <5>1
      <4>. QED
        BY <4>1, <4>2
    <3>. QED
      BY <3>3
  <2>5. Selects(g, q, S, T, m)
    BY <2>3, <2>4 DEF Selects
  <2>. QED
    BY <2>5
<1>4. Bad = {}
  <2>. SUFFICES ASSUME Bad # {} PROVE FALSE
    OBVIOUS
  <2>1. PICK m \in Bad : \A y \in Bad : m <= y
    <3>1. Bad \in SUBSET Nat
      BY <1>1
    <3>. HIDE DEF Bad
    <3>. QED
      BY <3>1, LeastNatural
  <2>2. m \in 1 .. Len(q) /\ m - 1 \in 0 .. Len(q) /\ m - 1 \notin Bad
    BY <1>1, <1>2, <2>1
  <2>. QED
    BY <1>3, <2>1, <2>2
<1>. QED
  BY <1>1, <1>4

\* What is selected, and that its order is that of the queue.
LEMMA SelectedIs ==
  ASSUME NEW T, NEW q \in Seq(T), NEW S
  PROVE  \E f : Selects(f, q, S, T, Len(q)) /\ Selected(q, S) = f[Len(q)]
<1>. DEFINE it == CHOOSE h : h = [k \in 0 .. Len(q) |-> IF k = 0 THEN <<>>
                      ELSE IF q[k] \in S THEN Append(h[k - 1], q[k]) ELSE h[k - 1]]
<1>1. Selected(q, S) = it[Len(q)]
  BY Zenon DEF Selected
<1>2. PICK f : Selects(f, q, S, T, Len(q))
  BY SelectsExists
<1>3. f = [k \in 0 .. Len(q) |-> IF k = 0 THEN <<>>
              ELSE IF q[k] \in S THEN Append(f[k - 1], q[k]) ELSE f[k - 1]]
  <2>1. f = [k \in 0 .. Len(q) |-> f[k]]
    BY <1>2 DEF Selects
  <2>2. ASSUME NEW k \in 0 .. Len(q)
        PROVE  f[k] = IF k = 0 THEN <<>>
                      ELSE IF q[k] \in S THEN Append(f[k - 1], q[k]) ELSE f[k - 1]
    <3>1. k = 0 \/ k \in 1 .. Len(q)
      OBVIOUS
    <3>2. f[0] = <<>> /\ \A i \in 1 .. Len(q) :
             f[i] = IF q[i] \in S THEN Append(f[i - 1], q[i]) ELSE f[i - 1]
      BY <1>2 DEF Selects
    <3>3. CASE k = 0
      BY <3>2, <3>3
    <3>4. CASE k # 0
      <4>1. k \in 1 .. Len(q)
        BY <3>1, <3>4
      <4>2. f[k] = IF q[k] \in S THEN Append(f[k - 1], q[k]) ELSE f[k - 1]
        BY <3>2, <4>1
      <4>. QED
        BY <3>4, <4>2, Zenon
    <3>. QED
      BY <3>3, <3>4
  <2>. QED
    BY <2>1, <2>2, Zenon
<1>4. it = [k \in 0 .. Len(q) |-> IF k = 0 THEN <<>>
               ELSE IF q[k] \in S THEN Append(it[k - 1], q[k]) ELSE it[k - 1]]
  BY <1>3, Zenon
<1>. HIDE DEF it
<1>5. Len(q) \in Nat /\ Len(q) \in 0 .. Len(q)
  OBVIOUS
<1>6. /\ it[0] = <<>>
      /\ \A k \in 1 .. Len(q) : it[k] = IF q[k] \in S THEN Append(it[k - 1], q[k]) ELSE it[k - 1]
  <2>1. \A k \in 0 .. Len(q) : it[k] = IF k = 0 THEN <<>>
               ELSE IF q[k] \in S THEN Append(it[k - 1], q[k]) ELSE it[k - 1]
    BY <1>4, Zenon
  <2>2. 0 \in 0 .. Len(q) /\ \A k \in 1 .. Len(q) : k # 0 /\ k \in 0 .. Len(q)
    BY <1>5
  <2>. QED
    BY <2>1, <2>2, Zenon
<1>. DEFINE Bad == {k \in 0 .. Len(q) : it[k] # f[k]}
<1>7. Bad = {}
  <2>. SUFFICES ASSUME Bad # {} PROVE FALSE
    OBVIOUS
  <2>1. PICK m \in Bad : \A y \in Bad : m <= y
    <3>1. Bad \in SUBSET Nat
      BY <1>5
    <3>. HIDE DEF Bad
    <3>. QED
      BY <3>1, LeastNatural
  <2>2. m \in 1 .. Len(q) /\ m - 1 \in 0 .. Len(q) /\ m - 1 \notin Bad
    BY <1>2, <1>5, <1>6, <2>1 DEF Selects
  <2>3. it[m - 1] = f[m - 1]
    BY <2>2
  <2>. QED
    BY <1>2, <1>6, <2>1, <2>2, <2>3 DEF Selects
<1>. QED
  BY <1>1, <1>2, <1>5, <1>7

LEMMA SelectedFacts ==
  ASSUME NEW T, NEW q \in Seq(T), NEW S
  PROVE  /\ Selected(q, S) \in Seq(T) /\ Len(Selected(q, S)) <= Len(q)
         /\ ToSet(Selected(q, S)) = ToSet(q) \cap S
         /\ IsInjective(q) => IsInjective(Selected(q, S))
<1>1. PICK f : Selects(f, q, S, T, Len(q)) /\ Selected(q, S) = f[Len(q)]
  BY SelectedIs
<1>. DEFINE Good(k) == /\ f[k] \in Seq(T) /\ Len(f[k]) <= k
                       /\ ToSet(f[k]) = {q[i] : i \in 1 .. k} \cap S
                       /\ IsInjective(q) => IsInjective(f[k])
            Bad == {k \in 0 .. Len(q) : ~Good(k)}
<1>2. Len(q) \in Nat /\ Len(q) \in 0 .. Len(q) /\ DOMAIN q = 1 .. Len(q)
  OBVIOUS
<1>3. Good(0)
  BY <1>1 DEF Selects, ToSet, IsInjective
<1>4. ASSUME NEW k \in 1 .. Len(q), Good(k - 1) PROVE Good(k)
  <2>1. f[k] = IF q[k] \in S THEN Append(f[k - 1], q[k]) ELSE f[k - 1]
    BY <1>1 DEF Selects
  <2>2. {q[i] : i \in 1 .. k} = {q[i] : i \in 1 .. k - 1} \cup {q[k]}
    BY <1>2
  <2>3. CASE q[k] \notin S
    BY <1>2, <1>4, <2>1, <2>2, <2>3
  <2>4. CASE q[k] \in S
    <3>1. /\ f[k] \in Seq(T) /\ Len(f[k]) = Len(f[k - 1]) + 1 /\ Len(f[k - 1]) \in Nat
          /\ DOMAIN f[k] = 1 .. Len(f[k - 1]) + 1 /\ DOMAIN f[k - 1] = 1 .. Len(f[k - 1])
          /\ \A i \in 1 .. Len(f[k - 1]) : f[k][i] = f[k - 1][i]
          /\ f[k][Len(f[k - 1]) + 1] = q[k]
      BY <1>2, <1>4, <2>1, <2>4
    <3>. DEFINE e == f[k - 1]
                g == f[k]
    <3>2. /\ DOMAIN g = 1 .. Len(e) + 1 /\ DOMAIN e = 1 .. Len(e) /\ Len(e) \in Nat
          /\ \A i \in 1 .. Len(e) : g[i] = e[i]
          /\ g[Len(e) + 1] = q[k]
      BY <3>1
    <3>3. ToSet(g) = ToSet(e) \cup {q[k]}
      <4>. HIDE DEF e, g
      <4>1. ToSet(g) \subseteq ToSet(e) \cup {q[k]}
        BY <3>2 DEF ToSet
      <4>2. Len(e) + 1 \in DOMAIN g /\ DOMAIN e \subseteq DOMAIN g
        BY <3>2
      <4>3. ToSet(e) \cup {q[k]} \subseteq ToSet(g)
        BY <3>2, <4>2 DEF ToSet
      <4>. QED
        BY <4>1, <4>3
    <3>4. IsInjective(q) => q[k] \notin ToSet(f[k - 1])
      BY <1>2, <1>4 DEF IsInjective
    <3>5. IsInjective(q) => IsInjective(f[k])
      <4>. SUFFICES ASSUME IsInjective(e), q[k] \notin ToSet(e),
                           NEW i \in 1 .. Len(e) + 1, NEW j \in 1 .. Len(e) + 1, g[i] = g[j]
                    PROVE  i = j
        BY <1>4, <3>2, <3>4 DEF IsInjective
      <4>. HIDE DEF e, g
      <4>1. \A n \in 1 .. Len(e) : g[n] \in ToSet(e)
        BY <3>2 DEF ToSet
      <4>2. (i \in 1 .. Len(e) \/ i = Len(e) + 1) /\ (j \in 1 .. Len(e) \/ j = Len(e) + 1)
        BY <3>2
      <4>. QED
        BY <3>2, <4>1, <4>2 DEF IsInjective
    <3>. QED
      BY <1>2, <1>4, <2>2, <2>4, <3>1, <3>3, <3>5
  <2>. QED
    BY <2>3, <2>4
<1>5. Bad = {}
  <2>. SUFFICES ASSUME Bad # {} PROVE FALSE
    OBVIOUS
  <2>1. PICK m \in Bad : \A y \in Bad : m <= y
    <3>1. Bad \in SUBSET Nat
      BY <1>2
    <3>. HIDE DEF Bad
    <3>. QED
      BY <3>1, LeastNatural
  <2>. HIDE DEF Good
  <2>2. m \in 1 .. Len(q) /\ m - 1 \in 0 .. Len(q) /\ m - 1 \notin Bad
    BY <1>2, <1>3, <2>1
  <2>. QED
    BY <1>4, <2>1, <2>2
<1>6. Good(Len(q))
  <2>. HIDE DEF Good
  <2>. QED
    BY <1>2, <1>5
<1>7. {q[i] : i \in 1 .. Len(q)} = ToSet(q)
  BY <1>2 DEF ToSet
<1>. QED
  BY <1>1, <1>6, <1>7

\* A queue that grows by an entry, or loses its first one.
LEMMA AppendQueue ==
  ASSUME NEW T, NEW q \in Seq(T), NEW x \in T
  PROVE  /\ Append(q, x) \in Seq(T) /\ Len(Append(q, x)) = Len(q) + 1
         /\ ToSet(Append(q, x)) = ToSet(q) \cup {x}
         /\ IsInjective(q) /\ x \notin ToSet(q) => IsInjective(Append(q, x))
<1>1. /\ Append(q, x) \in Seq(T) /\ Len(Append(q, x)) = Len(q) + 1 /\ Len(q) \in Nat
      /\ DOMAIN Append(q, x) = 1 .. Len(q) + 1 /\ DOMAIN q = 1 .. Len(q)
      /\ \A i \in 1 .. Len(q) : Append(q, x)[i] = q[i]
      /\ Append(q, x)[Len(q) + 1] = x
  OBVIOUS
<1>. QED
  BY <1>1 DEF ToSet, IsInjective

LEMMA TailQueue ==
  ASSUME NEW T, NEW q \in Seq(T), q # <<>>
  PROVE  /\ Head(q) \in ToSet(q) /\ Head(q) \in T
         /\ Tail(q) \in Seq(T) /\ Len(Tail(q)) = Len(q) - 1
         /\ ToSet(Tail(q)) \subseteq ToSet(q) /\ ToSet(q) \subseteq ToSet(Tail(q)) \cup {Head(q)}
         /\ IsInjective(q) => IsInjective(Tail(q)) /\ Head(q) \notin ToSet(Tail(q))
<1>1. /\ Head(q) = q[1] /\ Tail(q) \in Seq(T) /\ Len(Tail(q)) = Len(q) - 1 /\ Len(q) \in Nat
      /\ Len(q) >= 1 /\ DOMAIN q = 1 .. Len(q) /\ DOMAIN Tail(q) = 1 .. Len(q) - 1
      /\ \A i \in 1 .. Len(q) - 1 : Tail(q)[i] = q[i + 1]
      /\ \A i \in 1 .. Len(q) : q[i] \in T
  OBVIOUS
<1>2. \A i \in 1 .. Len(q) : i = 1 \/ (i - 1 \in 1 .. Len(q) - 1 /\ Tail(q)[i - 1] = q[i])
  BY <1>1
<1>3. Head(q) \in ToSet(q) /\ Head(q) \in T
  BY <1>1 DEF ToSet
<1>4. ToSet(Tail(q)) \subseteq ToSet(q)
  BY <1>1 DEF ToSet
<1>5. ToSet(q) \subseteq ToSet(Tail(q)) \cup {Head(q)}
  <2>. SUFFICES ASSUME NEW i \in 1 .. Len(q), i # 1 PROVE q[i] \in ToSet(Tail(q))
    BY <1>1 DEF ToSet
  <2>1. i - 1 \in DOMAIN Tail(q) /\ Tail(q)[i - 1] = q[i]
    BY <1>1, <1>2
  <2>. QED
    BY <2>1, Zenon DEF ToSet
<1>6. IsInjective(q) => IsInjective(Tail(q)) /\ Head(q) \notin ToSet(Tail(q))
  BY <1>1 DEF ToSet, IsInjective
<1>. QED
  BY <1>1, <1>3, <1>4, <1>5, <1>6

\* Two queues joined.
LEMMA JoinQueues ==
  ASSUME NEW T, NEW p \in Seq(T), NEW q \in Seq(T)
  PROVE  /\ p \o q \in Seq(T) /\ Len(p \o q) = Len(p) + Len(q)
         /\ ToSet(p \o q) = ToSet(p) \cup ToSet(q)
         /\ IsInjective(p) /\ IsInjective(q) /\ ToSet(p) \cap ToSet(q) = {} => IsInjective(p \o q)
<1>1. /\ p \o q \in Seq(T) /\ Len(p \o q) = Len(p) + Len(q) /\ Len(p) \in Nat /\ Len(q) \in Nat
      /\ DOMAIN (p \o q) = 1 .. Len(p) + Len(q) /\ DOMAIN p = 1 .. Len(p) /\ DOMAIN q = 1 .. Len(q)
      /\ \A i \in 1 .. Len(p) : (p \o q)[i] = p[i]
      /\ \A i \in Len(p) + 1 .. Len(p) + Len(q) : (p \o q)[i] = q[i - Len(p)]
      /\ \A i \in 1 .. Len(q) : (p \o q)[Len(p) + i] = q[i]
  <2>1. \A i \in 1 .. Len(p) + Len(q) : (p \o q)[i] = IF i <= Len(p) THEN p[i] ELSE q[i - Len(p)]
    BY ConcatProperties
  <2>2. \A i \in 1 .. Len(q) : (p \o q)[Len(p) + i] = q[i]
    BY <2>1
  <2>. QED
    BY <2>1, <2>2
<1>2. \A i \in 1 .. Len(p) + Len(q) :
         \/ i \in 1 .. Len(p) /\ (p \o q)[i] = p[i]
         \/ i - Len(p) \in 1 .. Len(q) /\ (p \o q)[i] = q[i - Len(p)]
  BY <1>1
<1>3. ToSet(p \o q) = ToSet(p) \cup ToSet(q)
  <2>1. ToSet(p \o q) \subseteq ToSet(p) \cup ToSet(q)
    BY <1>1, <1>2 DEF ToSet
  <2>2. ToSet(p) \subseteq ToSet(p \o q)
    BY <1>1 DEF ToSet
  <2>3. ToSet(q) \subseteq ToSet(p \o q)
    <3>. SUFFICES ASSUME NEW i \in 1 .. Len(q) PROVE q[i] \in ToSet(p \o q)
      BY <1>1 DEF ToSet
    <3>1. Len(p) + i \in DOMAIN (p \o q) /\ (p \o q)[Len(p) + i] = q[i]
      BY <1>1
    <3>. QED
      BY <3>1, Zenon DEF ToSet
  <2>. QED
    BY <2>1, <2>2, <2>3
<1>4. IsInjective(p) /\ IsInjective(q) /\ ToSet(p) \cap ToSet(q) = {} => IsInjective(p \o q)
  <2>. SUFFICES ASSUME IsInjective(p), IsInjective(q), ToSet(p) \cap ToSet(q) = {},
                       NEW i \in 1 .. Len(p) + Len(q), NEW j \in 1 .. Len(p) + Len(q),
                       (p \o q)[i] = (p \o q)[j]
                PROVE  i = j
    BY <1>1 DEF IsInjective
  <2>1. CASE i \in 1 .. Len(p) /\ j \in 1 .. Len(p)
    BY <1>1, <2>1 DEF IsInjective
  <2>2. CASE i \in 1 .. Len(p) /\ j \notin 1 .. Len(p)
    <3>1. (p \o q)[i] \in ToSet(p) /\ (p \o q)[j] \in ToSet(q)
      BY <1>1, <1>2, <2>2 DEF ToSet
    <3>. QED
      BY <3>1
  <2>3. CASE i \notin 1 .. Len(p) /\ j \in 1 .. Len(p)
    <3>1. (p \o q)[i] \in ToSet(q) /\ (p \o q)[j] \in ToSet(p)
      BY <1>1, <1>2, <2>3 DEF ToSet
    <3>. QED
      BY <3>1
  <2>4. CASE i \notin 1 .. Len(p) /\ j \notin 1 .. Len(p)
    <3>1. i - Len(p) \in 1 .. Len(q) /\ j - Len(p) \in 1 .. Len(q)
          /\ q[i - Len(p)] = q[j - Len(p)]
      BY <1>2, <2>4
    <3>2. i - Len(p) = j - Len(p)
      BY <1>1, <3>1 DEF IsInjective
    <3>. QED
      BY <1>1, <3>2
  <2>. QED
    BY <2>1, <2>2, <2>3, <2>4
<1>. QED
  BY <1>1, <1>3, <1>4

------------------------------------------------------------------------------
\* Division

\* A quotient is known by its bounds.
LEMMA QuotientUnique ==
  ASSUME NEW b \in Nat \ {0}, NEW a \in Int, NEW q \in Int, b * q <= a, a < b * (q + 1)
  PROVE  a \div b = q
<1>. DEFINE p == a \div b
<1>1. p \in Int /\ b * p <= a /\ a < b * (p + 1)
  OBVIOUS
<1>. HIDE DEF p
<1>2. ASSUME p >= q + 1 PROVE FALSE
  <2>1. b * p >= b * (q + 1)
    BY <1>1, <1>2
  <2>. QED
    BY <1>1, <2>1
<1>3. ASSUME q >= p + 1 PROVE FALSE
  <2>1. b * q >= b * (p + 1)
    BY <1>1, <1>3
  <2>. QED
    BY <1>1, <2>1
<1>4. p = q
  BY <1>1, <1>2, <1>3
<1>. QED
  BY <1>4 DEF p

------------------------------------------------------------------------------
\* Iteration

\* A step at a time, up to m.
LEMMA Stepwise ==
  ASSUME NEW m \in Nat, NEW X, 0 \in X, \A n \in 1 .. m : n - 1 \in X => n \in X
  PROVE  \A n \in 0 .. m : n \in X
<1>. DEFINE Bad == {n \in 0 .. m : n \notin X}
<1>. SUFFICES ASSUME Bad # {} PROVE FALSE
  OBVIOUS
<1>1. PICK n \in Bad : \A y \in Bad : n <= y
  <2>1. Bad \in SUBSET Nat
    OBVIOUS
  <2>. HIDE DEF Bad
  <2>. QED
    BY <2>1, LeastNatural
<1>2. n \in 1 .. m /\ n - 1 \in 0 .. m /\ n - 1 \notin Bad
  BY <1>1
<1>. QED
  BY <1>1, <1>2

\* f is the start and then what each step makes of it.
Orbit(f, m, start, move) ==
    f = [n \in 0 .. m |-> IF n = 0 THEN start ELSE move[n][f[n - 1]]]

\* If the n-th step leads from S[n - 1] to S[n], the iteration exists, and stays in S.
LEMMA OrbitExists ==
  ASSUME NEW m \in Nat, NEW S, NEW move, NEW start, start \in S[0],
         \A n \in 1 .. m : \A s \in S[n - 1] : move[n][s] \in S[n]
  PROVE  \E f : Orbit(f, m, start, move) /\ \A n \in 0 .. m : f[n] \in S[n]
<1>. DEFINE Good(f, k) == Orbit(f, k, start, move) /\ \A n \in 0 .. k : f[n] \in S[n]
            X == {k \in 0 .. m : \E f : Good(f, k)}
<1>1. 0 \in X
  <2>1. Good([n \in 0 .. 0 |-> start], 0)
    <3>1. [n \in 0 .. 0 |-> start][0] = start
      OBVIOUS
    <3>2. [n \in 0 .. 0 |-> start] =
             [n \in 0 .. 0 |-> IF n = 0 THEN start ELSE move[n][[i \in 0 .. 0 |-> start][n - 1]]]
      OBVIOUS
    <3>. QED
      BY <3>1, <3>2 DEF Orbit
  <2>. QED
    BY <2>1
<1>2. ASSUME NEW k \in 1 .. m, k - 1 \in X PROVE k \in X
  <2>1. PICK f : Good(f, k - 1)
    BY <1>2
  <2>. DEFINE g == [n \in 0 .. k |-> IF n < k THEN f[n] ELSE move[k][f[k - 1]]]
  <2>2. /\ k \in Nat /\ k - 1 \in 0 .. k - 1 /\ k - 1 \in 0 .. k /\ k # 0 /\ ~ (k < k) /\ k - 1 < k
        /\ \A n \in 0 .. k - 1 : n \in 0 .. k /\ n < k
        /\ \A n \in 0 .. k : n = k \/ n \in 0 .. k - 1
        /\ \A n \in 0 .. k - 1 : n = 0 \/ n - 1 \in 0 .. k - 1
    OBVIOUS
  <2>3. \A n \in 0 .. k - 1 : g[n] = f[n]
    BY <2>2, Zenon
  <2>4. g[k] = move[k][g[k - 1]]
    <3>1. k \in 0 .. k
      OBVIOUS
    <3>2. g[k] = move[k][f[k - 1]]
      BY <2>2, <3>1, Zenon
    <3>3. g[k - 1] = f[k - 1]
      BY <2>2, <2>3
    <3>. QED
      BY <3>2, <3>3
  <2>5. \A n \in 0 .. k - 1 : f[n] = IF n = 0 THEN start ELSE move[n][f[n - 1]]
    BY <2>1, Zenon DEF Orbit
  <2>6. ASSUME NEW n \in 0 .. k
        PROVE  g[n] = (IF n = 0 THEN start ELSE move[n][g[n - 1]]) /\ g[n] \in S[n]
    <3>1. CASE n = k
      <4>1. g[k - 1] \in S[k - 1]
        BY <2>1, <2>2, <2>3
      <4>2. g[k] \in S[k]
        BY <2>4, <4>1
      <4>. QED
        BY <2>2, <2>4, <3>1, <4>2, Zenon
    <3>2. CASE n \in 0 .. k - 1
      <4>1. g[n] = f[n] /\ f[n] = (IF n = 0 THEN start ELSE move[n][f[n - 1]]) /\ f[n] \in S[n]
        BY <2>1, <2>3, <2>5, <3>2
      <4>2. n = 0 \/ g[n - 1] = f[n - 1]
        BY <2>2, <2>3, <3>2
      <4>. QED
        BY <4>1, <4>2, Zenon
    <3>. QED
      BY <2>2, <3>1, <3>2
  <2>7. g = [n \in 0 .. k |-> g[n]]
    OBVIOUS
  <2>. HIDE DEF g
  <2>8. Orbit(g, k, start, move)
    BY <2>6, <2>7, Zenon DEF Orbit
  <2>9. Good(g, k)
    BY <2>6, <2>8
  <2>. QED
    BY <2>9
<1>. HIDE DEF X
<1>3. \A k \in 0 .. m : k \in X
  BY <1>1, <1>2, Stepwise
<1>4. m \in 0 .. m
  OBVIOUS
<1>. QED
  BY <1>3, <1>4 DEF X

------------------------------------------------------------------------------
\* The lexicographic order

\* x and y agree in n entries, and then x is over or smaller.
LexAt(x, y, n) ==
    /\ n \in 0 .. Len(x) /\ n < Len(y) /\ \A i \in 1 .. n : x[i] = y[i]
    /\ n = Len(x) \/ x[n + 1] < y[n + 1]

LEMMA LexIs ==
  ASSUME NEW x \in Seq(Nat), NEW y \in Seq(Nat)
  PROVE  LexLess(x, y) <=> \E n \in Nat : LexAt(x, y, n)
<1>1. ASSUME NEW n \in 0 .. Len(x), n < Len(y)
      PROVE  SubSeq(x, 1, n) = SubSeq(y, 1, n) <=> \A i \in 1 .. n : x[i] = y[i]
  <2>1. /\ SubSeq(x, 1, n) = [i \in 1 .. n |-> x[i]]
        /\ SubSeq(y, 1, n) = [i \in 1 .. n |-> y[i]]
    BY <1>1
  <2>. QED
    BY <2>1, Zenon
<1>. QED
  BY <1>1 DEF LexLess, LexAt

\* It is total and transitive.
LEMMA LexTotal ==
  ASSUME NEW x \in Seq(Nat), NEW y \in Seq(Nat), x # y
  PROVE  LexLess(x, y) \/ LexLess(y, x)
<1>. DEFINE D == {i \in 1 .. Len(x) : i > Len(y) \/ x[i] # y[i]}
<1>0. Len(x) \in Nat /\ Len(y) \in Nat
  OBVIOUS
<1>1. CASE D = {}
  <2>1. Len(x) <= Len(y) /\ \A i \in 1 .. Len(x) : x[i] = y[i]
    <3>1. \A i \in 1 .. Len(x) : i <= Len(y) /\ x[i] = y[i]
      BY <1>1
    <3>. QED
      BY <1>0, <3>1
  <2>2. Len(x) # Len(y)
    BY <2>1
  <2>3. LexAt(x, y, Len(x))
    BY <1>0, <2>1, <2>2 DEF LexAt
  <2>. QED
    BY <1>0, <2>3, LexIs
<1>2. CASE D # {}
  <2>1. PICK i \in D : \A j \in D : i <= j
    <3>1. D \in SUBSET Nat
      OBVIOUS
    <3>. HIDE DEF D
    <3>. QED
      BY <1>2, <3>1, LeastNatural
  <2>2. /\ i \in 1 .. Len(x) /\ i - 1 \in Nat /\ i - 1 < Len(x) /\ i - 1 + 1 = i
        /\ i > Len(y) \/ x[i] # y[i]
    BY <2>1
  <2>3. \A j \in 1 .. i - 1 : j <= Len(y) /\ x[j] = y[j]
    BY <2>1, <2>2
  <2>4. i - 1 <= Len(y)
    BY <1>0, <2>2, <2>3
  <2>5. CASE i > Len(y)
    <3>1. LexAt(y, x, i - 1)
      BY <1>0, <2>2, <2>3, <2>4, <2>5 DEF LexAt
    <3>. QED
      BY <2>2, <3>1, LexIs
  <2>6. CASE i <= Len(y)
    <3>1. x[i] \in Nat /\ y[i] \in Nat /\ i - 1 < Len(y) /\ x[i] # y[i]
      BY <1>0, <2>2, <2>6
    <3>2. LexAt(x, y, i - 1) \/ LexAt(y, x, i - 1)
      <4>1. i - 1 \in 0 .. Len(x) /\ i - 1 \in 0 .. Len(y)
        BY <1>0, <2>2, <2>4
      <4>2. x[i] < y[i] \/ y[i] < x[i]
        BY <3>1
      <4>. QED
        BY <2>2, <2>3, <3>1, <4>1, <4>2 DEF LexAt
    <3>. QED
      BY <2>2, <3>2, LexIs
  <2>. QED
    BY <1>0, <2>2, <2>5, <2>6
<1>. QED
  BY <1>1, <1>2

LEMMA LexTransitive ==
  ASSUME NEW x \in Seq(Nat), NEW y \in Seq(Nat), NEW z \in Seq(Nat), LexLess(x, y), LexLess(y, z)
  PROVE  LexLess(x, z)
<1>1. PICK n \in Nat : LexAt(x, y, n)
  BY LexIs
<1>2. PICK k \in Nat : LexAt(y, z, k)
  BY LexIs
<1>0. /\ Len(x) \in Nat /\ Len(y) \in Nat /\ Len(z) \in Nat
      /\ \A i \in 1 .. Len(x) : x[i] \in Nat
      /\ \A i \in 1 .. Len(y) : y[i] \in Nat
      /\ \A i \in 1 .. Len(z) : z[i] \in Nat
  OBVIOUS
<1>3. CASE n < k
  <2>1. /\ n \in 0 .. Len(x) /\ n < Len(z) /\ n + 1 \in 1 .. k
        /\ \A i \in 1 .. n : x[i] = z[i]
        /\ y[n + 1] = z[n + 1]
    BY <1>0, <1>1, <1>2, <1>3 DEF LexAt
  <2>2. LexAt(x, z, n)
    BY <1>1, <2>1 DEF LexAt
  <2>. QED
    BY <2>2, LexIs
<1>4. CASE n = k
  <2>1. /\ n \in 0 .. Len(x) /\ n < Len(z) /\ n < Len(y)
        /\ \A i \in 1 .. n : x[i] = z[i]
        /\ n = Len(x) \/ x[n + 1] < y[n + 1]
        /\ y[n + 1] < z[n + 1]
    BY <1>0, <1>1, <1>2, <1>4 DEF LexAt
  <2>2. n = Len(x) \/ x[n + 1] < z[n + 1]
    <3>1. n = Len(x) \/ n + 1 \in 1 .. Len(x)
      BY <1>0, <2>1
    <3>2. n + 1 \in 1 .. Len(y) /\ n + 1 \in 1 .. Len(z)
      BY <1>0, <2>1
    <3>3. y[n + 1] \in Nat /\ z[n + 1] \in Nat
      BY <1>0, <3>2
    <3>4. ASSUME n # Len(x) PROVE x[n + 1] < z[n + 1]
      <4>1. x[n + 1] \in Nat /\ x[n + 1] < y[n + 1]
        BY <1>0, <2>1, <3>1, <3>4
      <4>2. y[n + 1] < z[n + 1]
        BY <2>1
      <4>3. \A a, b, c \in Nat : a < b /\ b < c => a < c
        OBVIOUS
      <4>. QED
        BY <3>3, <4>1, <4>2, <4>3, ZenonT(60)
    <3>. QED
      BY <3>4
  <2>3. LexAt(x, z, n)
    BY <2>1, <2>2 DEF LexAt
  <2>. QED
    BY <2>3, LexIs
<1>5. CASE n > k
  <2>1. /\ k \in 0 .. Len(x) /\ k < Len(z) /\ k # Len(x) /\ k + 1 \in 1 .. n /\ k < Len(y)
        /\ \A i \in 1 .. k : x[i] = z[i]
        /\ x[k + 1] = y[k + 1] /\ y[k + 1] < z[k + 1]
    BY <1>0, <1>1, <1>2, <1>5 DEF LexAt
  <2>2. LexAt(x, z, k)
    BY <2>1 DEF LexAt
  <2>. QED
    BY <2>2, LexIs
<1>. QED
  BY <1>3, <1>4, <1>5

\* So a finite set of sequences has a least one.
LEMMA LexLeast ==
  ASSUME NEW K \in SUBSET Seq(Nat), IsFiniteSet(K), K # {}
  PROVE  \E k \in K : \A l \in K \ {k} : LexLess(k, l)
<1>. DEFINE Least(s, k) == k \in s /\ \A l \in s \ {k} : LexLess(k, l)
            B == {s \in SUBSET K : s # {} /\ ~ \E k \in s : Least(s, k)}
<1>1. B = {}
  <2>. SUFFICES ASSUME B # {} PROVE FALSE
    OBVIOUS
  <2>1. B \in SUBSET SUBSET K
    OBVIOUS
  <2>2. PICK s \in B : \A t \in B : t \subseteq s => t = s
    <3>. HIDE DEF B
    <3>. QED
      BY <2>1, SmallestMember
  <2>3. PICK x \in s : x \in Seq(Nat)
    OBVIOUS
  <2>. DEFINE t == s \ {x}
  <2>4. t \notin B
    BY <2>2, <2>3
  <2>5. CASE t = {}
    <3>1. Least(s, x)
      BY <2>5
    <3>. QED
      BY <3>1
  <2>6. CASE t # {}
    <3>1. PICK m \in t : Least(t, m)
      BY <2>4, <2>6
    <3>2. m \in Seq(Nat) /\ m # x /\ s = t \cup {x} /\ x \in Seq(Nat) /\ t \subseteq Seq(Nat)
      BY <2>3
    <3>3. LexLess(m, x) \/ LexLess(x, m)
      BY <3>2, LexTotal
    <3>4. CASE LexLess(m, x)
      <4>1. Least(s, m)
        BY <3>1, <3>2, <3>4
      <4>. QED
        BY <4>1
    <3>5. CASE LexLess(x, m)
      <4>1. ASSUME NEW l \in s \ {x} PROVE LexLess(x, l)
        <5>1. CASE l = m
          BY <3>5, <5>1
        <5>2. CASE l # m
          <6>1. LexLess(m, l) /\ l \in Seq(Nat)
            BY <3>1, <3>2, <4>1, <5>2
          <6>. QED
            BY <3>2, <3>5, <6>1, LexTransitive
        <5>. QED
          BY <5>1, <5>2
      <4>2. Least(s, x)
        BY <2>3, <4>1
      <4>. QED
        BY <2>3, <4>2
    <3>. QED
      BY <3>3, <3>4, <3>5
  <2>. QED
    BY <2>5, <2>6
<1>2. K \notin B
  BY <1>1
<1>. QED
  BY <1>2
==============================================================================
