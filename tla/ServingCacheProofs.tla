--------------------------- MODULE ServingCacheProofs --------------------------
(***************************************************************************)
(* Proofs about the paged cache of the serving example, for every number   *)
(* and size of blocks: whatever is shared, copied, evicted, planned,       *)
(* written, published or released, the counters and the free list account  *)
(* for every holder, and every table and snapshot leads to the vectors of  *)
(* the tokens it stands for.                                               *)
(***************************************************************************)
EXTENDS PagedKVCache, BasicLemmas

------------------------------------------------------------------------------
\* Who holds a block

\* Those that map to a block, of the tables or of the snapshots.
HoldersOf(f, b) == {k \in DOMAIN f : Contains(f[k], b)}

\* 1 if k is one of them.
Holds(f, k, b) == IF k \in DOMAIN f /\ Contains(f[k], b) THEN 1 ELSE 0

LEMMA HoldersCounted ==
  ASSUME NEW f, IsFiniteSet(DOMAIN f), NEW b
  PROVE  IsFiniteSet(HoldersOf(f, b)) /\ Cardinality(HoldersOf(f, b)) \in Nat
<1>1. HoldersOf(f, b) \subseteq DOMAIN f
  BY DEF HoldersOf
<1>. QED
  BY <1>1, FS_Subset, FS_CardinalityType

\* A mapping is entered in place of another, or goes.
LEMMA HoldersWith ==
  ASSUME NEW f, IsFiniteSet(DOMAIN f), NEW k, NEW m, NEW b
  PROVE  /\ IsFiniteSet(DOMAIN With(f, k, m))
         /\ Cardinality(HoldersOf(With(f, k, m), b)) =
               Cardinality(HoldersOf(f, b)) - Holds(f, k, b) + (IF Contains(m, b) THEN 1 ELSE 0)
<1>. DEFINE H == HoldersOf(f, b)
            G == HoldersOf(With(f, k, m), b)
<1>1. IsFiniteSet(H) /\ Cardinality(H) \in Nat
  BY HoldersCounted
<1>2. /\ DOMAIN With(f, k, m) = DOMAIN f \cup {k}
      /\ With(f, k, m)[k] = m
      /\ \A x \in DOMAIN f \ {k} : With(f, k, m)[x] = f[x]
  BY DEF With
<1>3. IsFiniteSet(DOMAIN With(f, k, m))
  BY <1>2, FS_AddElement
<1>4. /\ k \in H <=> Holds(f, k, b) = 1
      /\ Holds(f, k, b) \in {0, 1}
      /\ G = IF Contains(m, b) THEN H \cup {k} ELSE H \ {k}
  BY <1>2 DEF HoldersOf, Holds
<1>5. /\ Cardinality(H \cup {k}) = IF k \in H THEN Cardinality(H) ELSE Cardinality(H) + 1
      /\ Cardinality(H \ {k}) = IF k \in H THEN Cardinality(H) - 1 ELSE Cardinality(H)
  <2>. HIDE DEF H
  <2>. QED
    BY <1>1, FS_AddElement, FS_RemoveElement
<1>. HIDE DEF H, G
<1>6. Cardinality(G) = Cardinality(H) - Holds(f, k, b) + (IF Contains(m, b) THEN 1 ELSE 0)
  <2>1. CASE Contains(m, b)
    BY <1>1, <1>4, <1>5, <2>1
  <2>2. CASE ~Contains(m, b)
    BY <1>1, <1>4, <1>5, <2>2
  <2>. QED
    BY <2>1, <2>2
<1>. QED
  BY <1>3, <1>6 DEF G, H

LEMMA HoldersWithout ==
  ASSUME NEW f, IsFiniteSet(DOMAIN f), NEW k, NEW b
  PROVE  /\ IsFiniteSet(DOMAIN Without(f, {k}))
         /\ Cardinality(HoldersOf(Without(f, {k}), b)) = Cardinality(HoldersOf(f, b)) - Holds(f, k, b)
<1>. DEFINE H == HoldersOf(f, b)
<1>1. IsFiniteSet(H) /\ Cardinality(H) \in Nat
  BY HoldersCounted
<1>2. /\ DOMAIN Without(f, {k}) = DOMAIN f \ {k}
      /\ \A x \in DOMAIN f \ {k} : Without(f, {k})[x] = f[x]
  BY DEF Without
<1>3. IsFiniteSet(DOMAIN Without(f, {k}))
  BY <1>2, FS_RemoveElement
<1>4. /\ k \in H <=> Holds(f, k, b) = 1
      /\ Holds(f, k, b) \in {0, 1}
      /\ HoldersOf(Without(f, {k}), b) = H \ {k}
  BY <1>2 DEF HoldersOf, Holds
<1>5. Cardinality(H \ {k}) = IF k \in H THEN Cardinality(H) - 1 ELSE Cardinality(H)
  <2>. HIDE DEF H
  <2>. QED
    BY <1>1, FS_RemoveElement
<1>. HIDE DEF H
<1>6. Cardinality(HoldersOf(Without(f, {k}), b)) = Cardinality(H) - Holds(f, k, b)
  BY <1>1, <1>4, <1>5
<1>. QED
  BY <1>3, <1>6 DEF H

\* A block that is held is one of somebody's.
LEMMA HeldBySomebody ==
  ASSUME NEW f, IsFiniteSet(DOMAIN f), NEW b
  PROVE  /\ Cardinality(HoldersOf(f, b)) = 0 <=> \A k \in DOMAIN f : ~Contains(f[k], b)
         /\ \A k \in DOMAIN f : Holds(f, k, b) <= Cardinality(HoldersOf(f, b))
<1>1. IsFiniteSet(HoldersOf(f, b)) /\ Cardinality(HoldersOf(f, b)) \in Nat
  BY HoldersCounted
<1>2. Cardinality(HoldersOf(f, b)) = 0 <=> HoldersOf(f, b) = {}
  BY <1>1, FS_EmptySet
<1>. QED
  BY <1>1, <1>2 DEF HoldersOf, Holds

\* A mapping without repetitions names a block once.
LEMMA UsesOnce ==
  ASSUME NEW m \in Seq(Block), IsInjective(m), NEW b
  PROVE  Uses(m, b) = IF Contains(m, b) THEN 1 ELSE 0
<1>. DEFINE S == {i \in DOMAIN m : m[i] = b}
<1>1. DOMAIN m = 1 .. Len(m)
  OBVIOUS
<1>2. CASE Contains(m, b)
  <2>1. PICK i \in DOMAIN m : m[i] = b
    BY <1>1, <1>2 DEF Contains
  <2>2. S = {i}
    BY <2>1 DEF IsInjective
  <2>. HIDE DEF S
  <2>3. Cardinality(S) = 1
    BY <2>2, FS_Singleton
  <2>. QED
    BY <1>2, <2>3 DEF Uses, S
<1>3. CASE ~Contains(m, b)
  <2>1. S = {}
    BY <1>1, <1>3 DEF Contains
  <2>. HIDE DEF S
  <2>2. Cardinality(S) = 0
    BY <2>1, FS_EmptySet
  <2>. QED
    BY <1>3, <2>2 DEF Uses, S
<1>. QED
  BY <1>2, <1>3

------------------------------------------------------------------------------
\* Positions and blocks

\* Position n is slot SlotAt(n) of the BlocksFor(n)-th block of a table.
LEMMA PositionOf ==
  ASSUME NEW n \in Nat \ {0}
  PROVE  /\ BlocksFor(n) \in Nat \ {0} /\ SlotAt(n) \in Slot
         /\ n = BlockSize * (BlocksFor(n) - 1) + SlotAt(n) + 1
         /\ \A table : BlockAt(table, n) = table[BlocksFor(n)]
<1>. DEFINE q == (n - 1) \div BlockSize
            s == (n - 1) % BlockSize
<1>1. BlockSize \in Nat \ {0}
  BY CacheAssumption
<1>2. q \in Int /\ BlockSize * q <= n - 1 /\ n - 1 < BlockSize * (q + 1)
  BY <1>1
<1>3. s \in Int /\ 0 <= s /\ s < BlockSize /\ n - 1 = BlockSize * q + s
  BY <1>1
<1>. HIDE DEF q, s
<1>4. q >= 0
  BY <1>1, <1>2
<1>5. BlocksFor(n) = q + 1
  <2>. DEFINE a == n + BlockSize - 1
              r == q + 1
  <2>1. a \in Int /\ r \in Int /\ BlockSize * r <= a /\ a < BlockSize * (r + 1)
    BY <1>1, <1>2
  <2>. HIDE DEF a, r
  <2>2. a \div BlockSize = r
    BY <1>1, <2>1, QuotientUnique
  <2>. QED
    BY <2>2 DEF a, r, BlocksFor
<1>6. SlotAt(n) = s
  BY DEF SlotAt, s
<1>7. \A table : BlockAt(table, n) = table[BlocksFor(n)]
  BY <1>5 DEF BlockAt, q
<1>8. BlocksFor(n) \in Nat \ {0}
  BY <1>2, <1>4, <1>5
<1>9. SlotAt(n) \in Slot
  BY <1>1, <1>3, <1>6 DEF Slot
<1>10. n = BlockSize * (BlocksFor(n) - 1) + SlotAt(n) + 1
  <2>1. BlocksFor(n) - 1 = q
    BY <1>2, <1>5
  <2>. QED
    BY <1>3, <1>6, <2>1
<1>. QED
  BY <1>7, <1>8, <1>9, <1>10

LEMMA NoBlocks == BlocksFor(0) = 0
<1>1. BlockSize \in Nat \ {0}
  BY CacheAssumption
<1>. DEFINE a == 0 + BlockSize - 1
<1>2. a \in Int /\ BlockSize * 0 <= a /\ a < BlockSize * (0 + 1)
  BY <1>1
<1>. HIDE DEF a
<1>3. a \div BlockSize = 0
  BY <1>1, <1>2, QuotientUnique
<1>. QED
  BY <1>3 DEF a, BlocksFor

\* Blocks suffice for no more than they have slots for, and more tokens take no
\* fewer blocks.
LEMMA BlocksEnough ==
  ASSUME NEW n \in Nat
  PROVE  /\ BlocksFor(n) \in Nat
         /\ n > 0 => BlocksFor(n) > 0
         /\ \A k \in Nat : n <= k * BlockSize => BlocksFor(n) <= k
         /\ \A m \in Nat : m <= n => BlocksFor(m) <= BlocksFor(n)
<1>1. BlockSize \in Nat /\ BlockSize > 0
  BY CacheAssumption
<1>2. CASE n = 0
  <2>1. \A m \in Nat : m <= n => m = 0
    BY <1>2
  <2>. QED
    BY <1>2, <2>1, NoBlocks
<1>3. CASE n # 0
  <2>. DEFINE b == BlocksFor(n)
              s == SlotAt(n)
  <2>1. b \in Nat \ {0} /\ s \in Nat /\ s < BlockSize /\ n = BlockSize * (b - 1) + s + 1
    BY <1>1, <1>3, PositionOf DEF Slot
  <2>. HIDE DEF b, s
  <2>2. ASSUME NEW k \in Nat, n <= k * BlockSize, b >= k + 1 PROVE FALSE
    <3>1. BlockSize * (b - 1) >= BlockSize * k
      BY <1>1, <2>1, <2>2
    <3>2. BlockSize * k = k * BlockSize /\ BlockSize * k \in Nat
      BY <1>1, <2>2
    <3>. HIDE DEF b
    <3>3. BlockSize * (b - 1) \in Int
      BY <1>1, <2>1
    <3>. QED
      BY <1>1, <2>1, <2>2, <3>1, <3>2, <3>3
  <2>3. ASSUME NEW m \in Nat, m <= n PROVE BlocksFor(m) <= b
    <3>1. CASE m = 0
      BY <2>1, <3>1, NoBlocks
    <3>2. CASE m # 0
      <4>. DEFINE c == BlocksFor(m)
                  t == SlotAt(m)
      <4>1. c \in Nat \ {0} /\ t \in Nat /\ t < BlockSize /\ m = BlockSize * (c - 1) + t + 1
        BY <1>1, <3>2, PositionOf DEF Slot
      <4>. HIDE DEF c, t
      <4>2. ASSUME c - 1 >= b PROVE FALSE
        <5>1. BlockSize * (c - 1) >= BlockSize * b
          BY <1>1, <2>1, <4>1, <4>2
        <5>2. BlockSize * (b - 1) = BlockSize * b - BlockSize
          BY <1>1, <2>1
        <5>3. BlockSize * b \in Int /\ BlockSize * (c - 1) \in Int
          BY <1>1, <2>1, <4>1
        <5>. QED
          BY <1>1, <2>1, <2>3, <4>1, <5>1, <5>2, <5>3
      <4>3. c <= b
        BY <2>1, <4>1, <4>2
      <4>. QED
        BY <4>3 DEF c
    <3>. QED
      BY <3>1, <3>2
  <2>4. \A k \in Nat : n <= k * BlockSize => b <= k
    BY <2>1, <2>2
  <2>. QED
    BY <1>3, <2>1, <2>3, <2>4 DEF b
<1>. QED
  BY <1>2, <1>3

\* No two positions share a slot of one block.
LEMMA PositionUnique ==
  ASSUME NEW m \in Nat \ {0}, NEW n \in Nat \ {0},
         BlocksFor(m) = BlocksFor(n), SlotAt(m) = SlotAt(n)
  PROVE  m = n
  BY PositionOf

------------------------------------------------------------------------------
\* Maps

\* The maps from some keys in A to values in B.
PartialMaps(A, B) == UNION {[D -> B] : D \in SUBSET A}

LEMMA MapsAre ==
  ASSUME NEW A, NEW B, NEW f
  PROVE  f \in PartialMaps(A, B) <=> f \in [DOMAIN f -> B] /\ DOMAIN f \subseteq A
<1>1. f \in PartialMaps(A, B) <=> \E D \in SUBSET A : f \in [D -> B]
  BY DEF PartialMaps
<1>2. \A D : f \in [D -> B] => DOMAIN f = D
  OBVIOUS
<1>. QED
  BY <1>1, <1>2

LEMMA MapsEmpty ==
  ASSUME NEW A, NEW B
  PROVE  <<>> \in PartialMaps(A, B) /\ DOMAIN <<>> = {}
<1>1. <<>> \in [{} -> B] /\ DOMAIN <<>> = {}
  OBVIOUS
<1>. QED
  BY <1>1, MapsAre

LEMMA MapsWith ==
  ASSUME NEW A, NEW B, NEW f \in PartialMaps(A, B), NEW k \in A, NEW v \in B
  PROVE  With(f, k, v) \in PartialMaps(A, B)
<1>1. f \in [DOMAIN f -> B] /\ DOMAIN f \subseteq A
  BY MapsAre
<1>2. With(f, k, v) \in [DOMAIN f \cup {k} -> B] /\ DOMAIN With(f, k, v) = DOMAIN f \cup {k}
  BY <1>1 DEF With
<1>. QED
  BY <1>1, <1>2, MapsAre

LEMMA MapsWithout ==
  ASSUME NEW A, NEW B, NEW f \in PartialMaps(A, B), NEW S
  PROVE  Without(f, S) \in PartialMaps(A, B)
<1>1. f \in [DOMAIN f -> B] /\ DOMAIN f \subseteq A
  BY MapsAre
<1>2. Without(f, S) \in [DOMAIN f \ S -> B] /\ DOMAIN Without(f, S) = DOMAIN f \ S
  BY <1>1 DEF Without
<1>. QED
  BY <1>1, <1>2, MapsAre

------------------------------------------------------------------------------
\* Caches

Vectors == [token : Nat, at : Nat]
Memories == [Block -> [Slot -> Vectors]]

Caches == [tables : PartialMaps(Nat, Seq(Block)), lengths : PartialMaps(Nat, Nat),
           prefixes : PartialMaps(Seq(Nat), Seq(Block)), refs : [Block -> Nat],
           free : Seq(Block), memory : Memories]

\* The counters count the holders, each of which names a block once.
Accounted(c) ==
    /\ IsFiniteSet(DOMAIN c.tables) /\ IsFiniteSet(DOMAIN c.prefixes)
    /\ \A id \in DOMAIN c.tables : IsInjective(c.tables[id])
    /\ \A key \in DOMAIN c.prefixes : IsInjective(c.prefixes[key])
    /\ CountsHolders(c)

\* In this memory, attention finds the vectors of these tokens through a table.
ReadsAs(memory, table, tokens) ==
    \A n \in 1 .. Len(tokens) :
        memory[table[BlocksFor(n)]][SlotAt(n)] = [token |-> tokens[n], at |-> n]

\* Tables and snapshots are long enough for the tokens they are known to stand for,
\* and in this memory stand for them.
Stored(c, memory, known) ==
    /\ known \in PartialMaps(Nat, Seq(Nat)) /\ DOMAIN c.tables \subseteq DOMAIN known
    /\ \A id \in DOMAIN known :
          /\ BlocksFor(Len(known[id])) <= Len(Table(c, id))
          /\ ReadsAs(memory, Table(c, id), known[id])
    /\ \A key \in DOMAIN c.prefixes :
          /\ key # <<>> /\ Len(c.prefixes[key]) = BlocksFor(Len(key))
          /\ ReadsAs(memory, c.prefixes[key], key)

GoodCaches(known, memory) == {c \in Caches : Accounted(c) /\ Stored(c, memory, known)}

\* Every table is as long as its length asks for.
Fitted(c) ==
    /\ DOMAIN c.lengths = DOMAIN c.tables
    /\ \A id \in DOMAIN c.tables : Len(c.tables[id]) = BlocksFor(c.lengths[id])

LEMMA CacheFields ==
  ASSUME NEW c \in Caches
  PROVE  /\ c.tables \in PartialMaps(Nat, Seq(Block)) /\ c.lengths \in PartialMaps(Nat, Nat)
         /\ c.prefixes \in PartialMaps(Seq(Nat), Seq(Block)) /\ c.refs \in [Block -> Nat]
         /\ c.free \in Seq(Block) /\ c.memory \in Memories
         /\ DOMAIN c.tables \subseteq Nat /\ DOMAIN c.prefixes \subseteq Seq(Nat)
         /\ DOMAIN c.lengths \subseteq Nat
         /\ \A id \in DOMAIN c.tables : c.tables[id] \in Seq(Block)
         /\ \A id \in DOMAIN c.lengths : c.lengths[id] \in Nat
         /\ \A key \in DOMAIN c.prefixes : c.prefixes[key] \in Seq(Block)
         /\ \A id : Table(c, id) \in Seq(Block) /\ Length(c, id) \in Nat
<1>1. /\ c.tables \in PartialMaps(Nat, Seq(Block)) /\ c.lengths \in PartialMaps(Nat, Nat)
      /\ c.prefixes \in PartialMaps(Seq(Nat), Seq(Block)) /\ c.refs \in [Block -> Nat]
      /\ c.free \in Seq(Block) /\ c.memory \in Memories
  BY DEF Caches
<1>2. /\ DOMAIN c.tables \subseteq Nat /\ c.tables \in [DOMAIN c.tables -> Seq(Block)]
      /\ DOMAIN c.lengths \subseteq Nat /\ c.lengths \in [DOMAIN c.lengths -> Nat]
      /\ DOMAIN c.prefixes \subseteq Seq(Nat) /\ c.prefixes \in [DOMAIN c.prefixes -> Seq(Block)]
  BY <1>1, MapsAre
<1>3. \A id : Table(c, id) \in Seq(Block) /\ Length(c, id) \in Nat
  BY <1>2 DEF Table, Length
<1>. QED
  BY <1>1, <1>2, <1>3

\* The counters, in terms of the holders.
LEMMA CountsAre ==
  ASSUME NEW c
  PROVE  CountsHolders(c) <=>
            /\ \A b \in Block : c.refs[b] = Cardinality(HoldersOf(c.tables, b))
                                          + Cardinality(HoldersOf(c.prefixes, b))
            /\ ToSet(c.free) = {b \in Block : c.refs[b] = 0} /\ IsInjective(c.free)
  BY DEF CountsHolders, HoldersOf

\* Nobody holds a free block, and a block held once is held by one only.
LEMMA HoldersKnown ==
  ASSUME NEW c \in Caches, Accounted(c), NEW b \in Block
  PROVE  /\ c.refs[b] = 0 => /\ \A id \in DOMAIN c.tables : ~Contains(c.tables[id], b)
                             /\ \A key \in DOMAIN c.prefixes : ~Contains(c.prefixes[key], b)
         /\ \A id \in DOMAIN c.tables : Contains(c.tables[id], b) =>
               /\ c.refs[b] > 0
               /\ c.refs[b] = 1 =>
                     /\ \A other \in DOMAIN c.tables \ {id} : ~Contains(c.tables[other], b)
                     /\ \A key \in DOMAIN c.prefixes : ~Contains(c.prefixes[key], b)
         /\ \A key \in DOMAIN c.prefixes : Contains(c.prefixes[key], b) => c.refs[b] > 0
<1>. DEFINE T == HoldersOf(c.tables, b)
            P == HoldersOf(c.prefixes, b)
<1>1. /\ IsFiniteSet(T) /\ Cardinality(T) \in Nat /\ IsFiniteSet(P) /\ Cardinality(P) \in Nat
      /\ c.refs[b] = Cardinality(T) + Cardinality(P)
  BY HoldersCounted, CountsAre DEF Accounted
<1>2. /\ Cardinality(T) = 0 <=> \A k \in DOMAIN c.tables : ~Contains(c.tables[k], b)
      /\ Cardinality(P) = 0 <=> \A k \in DOMAIN c.prefixes : ~Contains(c.prefixes[k], b)
  BY HeldBySomebody DEF Accounted
<1>3. ASSUME NEW id \in DOMAIN c.tables, Contains(c.tables[id], b), Cardinality(T) = 1
      PROVE  \A other \in DOMAIN c.tables \ {id} : ~Contains(c.tables[other], b)
  <2>1. id \in T
    BY <1>3 DEF HoldersOf
  <2>2. T \ {id} = {}
    <3>. HIDE DEF T
    <3>1. IsFiniteSet(T \ {id}) /\ Cardinality(T \ {id}) = Cardinality(T) - 1
      BY <1>1, <2>1, FS_RemoveElement
    <3>. QED
      BY <1>3, <3>1, FS_EmptySet
  <2>. QED
    BY <2>2 DEF HoldersOf
<1>. HIDE DEF T, P
<1>. QED
  BY <1>1, <1>2, <1>3

------------------------------------------------------------------------------
\* Sharing and dropping

LEMMA ContainsIs ==
  ASSUME NEW T, NEW m \in Seq(T), NEW b
  PROVE  Contains(m, b) <=> b \in ToSet(m)
<1>1. DOMAIN m = 1 .. Len(m)
  OBVIOUS
<1>. QED
  BY <1>1 DEF Contains, ToSet

\* A new key is another holder of the blocks it maps to.
LEMMA SharedCounts ==
  ASSUME NEW f, IsFiniteSet(DOMAIN f), NEW k, k \notin DOMAIN f,
         NEW m \in Seq(Block), IsInjective(m), NEW b
  PROVE  /\ IsFiniteSet(DOMAIN With(f, k, m))
         /\ Cardinality(HoldersOf(With(f, k, m), b)) = Cardinality(HoldersOf(f, b)) + Uses(m, b)
         /\ Cardinality(HoldersOf(f, b)) \in Nat /\ Uses(m, b) \in {0, 1}
<1>1. Holds(f, k, b) = 0
  BY DEF Holds
<1>2. Cardinality(HoldersOf(f, b)) \in Nat
  BY HoldersCounted
<1>3. Uses(m, b) = IF Contains(m, b) THEN 1 ELSE 0
  BY UsesOnce
<1>4. /\ IsFiniteSet(DOMAIN With(f, k, m))
      /\ Cardinality(HoldersOf(With(f, k, m), b)) =
               Cardinality(HoldersOf(f, b)) - Holds(f, k, b) + (IF Contains(m, b) THEN 1 ELSE 0)
  BY HoldersWith
<1>. QED
  BY <1>1, <1>2, <1>3, <1>4

\* One holder less of the blocks a key maps to.
LEMMA DroppedCounts ==
  ASSUME NEW f, IsFiniteSet(DOMAIN f), NEW k \in DOMAIN f,
         f[k] \in Seq(Block), IsInjective(f[k]), NEW b
  PROVE  /\ IsFiniteSet(DOMAIN Without(f, {k}))
         /\ Cardinality(HoldersOf(Without(f, {k}), b)) = Cardinality(HoldersOf(f, b)) - Uses(f[k], b)
         /\ Cardinality(HoldersOf(f, b)) \in Nat
         /\ Uses(f[k], b) \in {0, 1} /\ Uses(f[k], b) <= Cardinality(HoldersOf(f, b))
<1>1. Holds(f, k, b) = Uses(f[k], b) /\ Uses(f[k], b) \in {0, 1}
  BY UsesOnce DEF Holds
<1>2. Cardinality(HoldersOf(f, b)) \in Nat
  BY HoldersCounted
<1>3. /\ IsFiniteSet(DOMAIN Without(f, {k}))
      /\ Cardinality(HoldersOf(Without(f, {k}), b)) = Cardinality(HoldersOf(f, b)) - Holds(f, k, b)
  BY HoldersWithout
<1>4. Holds(f, k, b) <= Cardinality(HoldersOf(f, b))
  BY HeldBySomebody
<1>. QED
  BY <1>1, <1>2, <1>3, <1>4

\* Sharing changes the counters only.
LEMMA SharedFields ==
  ASSUME NEW c \in Caches, NEW m \in Seq(Block), IsInjective(m)
  PROVE  /\ Shared(c, m) = [c EXCEPT !.refs = [b \in Block |-> c.refs[b] + Uses(m, b)]]
         /\ Shared(c, m).tables = c.tables /\ Shared(c, m).lengths = c.lengths
         /\ Shared(c, m).prefixes = c.prefixes /\ Shared(c, m).free = c.free
         /\ Shared(c, m).memory = c.memory
         /\ \A b \in Block : Shared(c, m).refs[b] = c.refs[b] + Uses(m, b)
         /\ \A b \in Block : Uses(m, b) \in {0, 1}
         /\ Shared(c, m) \in Caches
<1>1. Shared(c, m) = [c EXCEPT !.refs = [b \in Block |-> c.refs[b] + Uses(m, b)]]
  BY DEF Shared, Caches
<1>2. \A b \in Block : Uses(m, b) \in {0, 1}
  BY UsesOnce
<1>3. [b \in Block |-> c.refs[b] + Uses(m, b)] \in [Block -> Nat]
  BY <1>2, CacheFields
<1>. QED
  BY <1>1, <1>2, <1>3 DEF Caches

\* Dropping a mapping that somebody holds leaves exactly the unheld blocks free.
LEMMA DroppedFields ==
  ASSUME NEW c \in Caches, Accounted(c), NEW m \in Seq(Block), IsInjective(m),
         \A b \in Block : Contains(m, b) => c.refs[b] > 0
  PROVE  /\ Dropped(c, m).tables = c.tables /\ Dropped(c, m).lengths = c.lengths
         /\ Dropped(c, m).prefixes = c.prefixes /\ Dropped(c, m).memory = c.memory
         /\ \A b \in Block : Dropped(c, m).refs[b] = c.refs[b] - Uses(m, b)
         /\ ToSet(Dropped(c, m).free) = {b \in Block : Dropped(c, m).refs[b] = 0}
         /\ IsInjective(Dropped(c, m).free)
         /\ Dropped(c, m) \in Caches
<1>. DEFINE r == [b \in Block |-> c.refs[b] - Uses(m, b)]
            Z == {b \in Block : r[b] = 0}
            f == c.free \o Selected(m, Z)
<1>1. Dropped(c, m) = [c EXCEPT !.refs = r, !.free = f]
  BY DEF Dropped, Caches
<1>2. \A b \in Block : Uses(m, b) = IF Contains(m, b) THEN 1 ELSE 0
  BY UsesOnce
<1>3. c.refs \in [Block -> Nat] /\ c.free \in Seq(Block)
  BY CacheFields
<1>4. r \in [Block -> Nat] /\ \A b \in Block : r[b] = c.refs[b] - Uses(m, b)
  BY <1>2, <1>3
<1>. DEFINE s == Selected(m, Z)
<1>5. s \in Seq(Block) /\ ToSet(s) = ToSet(m) \cap Z /\ IsInjective(s)
  BY SelectedFacts
<1>6. ToSet(c.free) = {b \in Block : c.refs[b] = 0} /\ IsInjective(c.free)
  BY CountsAre DEF Accounted
<1>7. \A b \in Block : b \in ToSet(m) <=> Contains(m, b)
  BY ContainsIs
<1>8. \A b \in Block : b \in Z <=> c.refs[b] = Uses(m, b)
  <2>. SUFFICES ASSUME NEW b \in Block PROVE r[b] = 0 <=> c.refs[b] = Uses(m, b)
    OBVIOUS
  <2>1. Uses(m, b) \in Nat /\ c.refs[b] \in Nat /\ r[b] = c.refs[b] - Uses(m, b)
    BY <1>2, <1>3, <1>4, SMTT(30)
  <2>. QED
    BY <2>1
<1>. HIDE DEF r, s, Z
<1>9. ToSet(c.free) \cap ToSet(s) = {}
  BY <1>3, <1>5, <1>6, <1>7
<1>10. f \in Seq(Block) /\ ToSet(f) = ToSet(c.free) \cup ToSet(s) /\ IsInjective(f)
  BY <1>3, <1>5, <1>6, <1>9, JoinQueues DEF s
<1>11. ToSet(f) = Z
  <2>1. Z \subseteq Block
    BY DEF Z
  <2>2. ASSUME NEW b \in Block PROVE b \in ToSet(f) <=> b \in Z
    <3>1. Uses(m, b) = IF Contains(m, b) THEN 1 ELSE 0
      BY <1>2
    <3>2. c.refs[b] = 0 => ~Contains(m, b)
      BY <1>3
    <3>. QED
      BY <1>5, <1>6, <1>7, <1>8, <1>10, <3>1, <3>2
  <2>3. ToSet(f) \subseteq Block
    BY <1>5, <1>6, <1>10, <2>1
  <2>. QED
    BY <2>1, <2>2, <2>3
<1>. HIDE DEF f
<1>12. /\ Dropped(c, m).tables = c.tables /\ Dropped(c, m).lengths = c.lengths
       /\ Dropped(c, m).prefixes = c.prefixes /\ Dropped(c, m).memory = c.memory
       /\ Dropped(c, m).refs = r /\ Dropped(c, m).free = f
       /\ Dropped(c, m) \in Caches
  BY <1>1, <1>4, <1>10 DEF Caches
<1>. QED
  BY <1>4, <1>10, <1>11, <1>12 DEF Z

------------------------------------------------------------------------------
\* Snapshots

\* A new snapshot of blocks that somebody holds.
LEMMA SnapshotGood ==
  ASSUME NEW known, NEW memory, NEW c \in GoodCaches(known, memory), NEW key \in Seq(Nat), key # <<>>,
         key \notin DOMAIN c.prefixes, NEW m \in Seq(Block), IsInjective(m),
         Len(m) = BlocksFor(Len(key)), ReadsAs(memory, m, key),
         \A b \in Block : Contains(m, b) => c.refs[b] > 0
  PROVE  /\ Snapshot(c, key, m) \in GoodCaches(known, memory)
         /\ Snapshot(c, key, m).tables = c.tables /\ Snapshot(c, key, m).lengths = c.lengths
         /\ Snapshot(c, key, m).memory = c.memory
         /\ Snapshot(c, key, m).prefixes = With(c.prefixes, key, m)
<1>. DEFINE d == Snapshot(c, key, m)
            s == Shared(c, m)
            p == With(c.prefixes, key, m)
<1>1. c \in Caches /\ Accounted(c) /\ Stored(c, memory, known)
  BY DEF GoodCaches
<1>2. /\ s.tables = c.tables /\ s.lengths = c.lengths /\ s.prefixes = c.prefixes
      /\ s.free = c.free /\ s.memory = c.memory /\ s \in Caches
      /\ \A b \in Block : s.refs[b] = c.refs[b] + Uses(m, b)
  BY <1>1, SharedFields
<1>3. /\ c.prefixes \in PartialMaps(Seq(Nat), Seq(Block)) /\ c.refs \in [Block -> Nat]
      /\ c.free \in Seq(Block)
      /\ \A k \in DOMAIN c.prefixes : c.prefixes[k] \in Seq(Block)
  BY <1>1, CacheFields
<1>4. /\ p \in PartialMaps(Seq(Nat), Seq(Block)) /\ DOMAIN p = DOMAIN c.prefixes \cup {key}
      /\ p[key] = m /\ \A k \in DOMAIN c.prefixes : p[k] = c.prefixes[k]
  <2>1. p \in PartialMaps(Seq(Nat), Seq(Block))
    BY <1>3, MapsWith
  <2>. QED
    BY <2>1 DEF With
<1>5. d = [s EXCEPT !.prefixes = p]
  BY <1>2 DEF Snapshot
<1>. HIDE DEF s, p
<1>6. /\ d \in Caches /\ d.tables = c.tables /\ d.lengths = c.lengths /\ d.memory = c.memory
      /\ d.free = c.free /\ d.prefixes = p
      /\ \A b \in Block : d.refs[b] = c.refs[b] + Uses(m, b)
  BY <1>2, <1>4, <1>5 DEF Caches
<1>. HIDE DEF d
<1>7. Accounted(d)
  <2>1. ASSUME NEW b \in Block
        PROVE  /\ d.refs[b] = Cardinality(HoldersOf(d.tables, b)) + Cardinality(HoldersOf(d.prefixes, b))
               /\ d.refs[b] = 0 <=> c.refs[b] = 0
    <3>1. /\ IsFiniteSet(DOMAIN p)
          /\ Cardinality(HoldersOf(p, b)) = Cardinality(HoldersOf(c.prefixes, b)) + Uses(m, b)
          /\ Cardinality(HoldersOf(c.prefixes, b)) \in Nat /\ Uses(m, b) \in {0, 1}
      BY <1>1, SharedCounts DEF Accounted, p
    <3>2. Cardinality(HoldersOf(c.tables, b)) \in Nat
      BY <1>1, HoldersCounted DEF Accounted
    <3>3. c.refs[b] = Cardinality(HoldersOf(c.tables, b)) + Cardinality(HoldersOf(c.prefixes, b))
      BY <1>1, CountsAre DEF Accounted
    <3>4. Uses(m, b) = 1 => c.refs[b] > 0
      BY UsesOnce
    <3>5. d.refs[b] = c.refs[b] + Uses(m, b) /\ c.refs[b] \in Nat
      BY <1>3, <1>6
    <3>6. d.refs[b] = 0 <=> c.refs[b] = 0
      BY <3>1, <3>4, <3>5
    <3>. QED
      BY <1>6, <3>1, <3>2, <3>3, <3>5, <3>6
  <2>2. ToSet(d.free) = {b \in Block : d.refs[b] = 0} /\ IsInjective(d.free)
    BY <1>1, <1>6, <2>1, CountsAre DEF Accounted
  <2>3. IsFiniteSet(DOMAIN d.prefixes)
    <3>1. IsFiniteSet(DOMAIN c.prefixes)
      BY <1>1 DEF Accounted
    <3>2. IsFiniteSet(DOMAIN c.prefixes \cup {key})
      BY <3>1, FS_AddElement
    <3>. QED
      BY <1>4, <1>6, <3>2
  <2>4. CountsHolders(d)
    BY <2>1, <2>2, CountsAre
  <2>5. \A k \in DOMAIN d.prefixes : IsInjective(d.prefixes[k])
    BY <1>1, <1>4, <1>6 DEF Accounted
  <2>. QED
    BY <1>1, <1>6, <2>3, <2>4, <2>5 DEF Accounted
<1>8. Stored(d, memory, known)
  <2>1. \A id : Table(d, id) = Table(c, id)
    BY <1>6 DEF Table
  <2>2. \A k \in DOMAIN d.prefixes :
          /\ k # <<>> /\ Len(d.prefixes[k]) = BlocksFor(Len(k))
          /\ ReadsAs(memory, d.prefixes[k], k)
    BY <1>1, <1>4, <1>6 DEF Stored
  <2>. QED
    BY <1>1, <1>6, <2>1, <2>2 DEF Stored
<1>. QED
  BY <1>6, <1>7, <1>8 DEF GoodCaches, d, p

\* The snapshot evict_one takes is one of those there are.
LEMMA EvictionGood ==
  ASSUME NEW known, NEW memory, NEW c \in GoodCaches(known, memory), DOMAIN c.prefixes # {}
  PROVE  /\ EvictedOne(c) \in GoodCaches(known, memory)
         /\ EvictedOne(c).tables = c.tables /\ EvictedOne(c).lengths = c.lengths
         /\ EvictedOne(c).memory = c.memory
         /\ Cardinality(DOMAIN EvictedOne(c).prefixes) = Cardinality(DOMAIN c.prefixes) - 1
<1>. DEFINE key == CHOOSE k \in DOMAIN c.prefixes : \A l \in DOMAIN c.prefixes \ {k} : LexLess(k, l)
            m == c.prefixes[key]
            s == Dropped(c, m)
            p == Without(c.prefixes, {key})
            d == EvictedOne(c)
<1>1. c \in Caches /\ Accounted(c) /\ Stored(c, memory, known)
  BY DEF GoodCaches
<1>2. /\ c.prefixes \in PartialMaps(Seq(Nat), Seq(Block)) /\ c.refs \in [Block -> Nat]
      /\ c.free \in Seq(Block) /\ DOMAIN c.prefixes \subseteq Seq(Nat)
      /\ \A k \in DOMAIN c.prefixes : c.prefixes[k] \in Seq(Block)
      /\ IsFiniteSet(DOMAIN c.prefixes)
  BY <1>1, CacheFields DEF Accounted
<1>3. key \in DOMAIN c.prefixes
  <2>1. \E k \in DOMAIN c.prefixes : \A l \in DOMAIN c.prefixes \ {k} : LexLess(k, l)
    BY <1>2, LexLeast
  <2>. QED
    BY <2>1
<1>4. d = [s EXCEPT !.prefixes = Without(s.prefixes, {key})]
  BY DEF EvictedOne
<1>. HIDE DEF key, d
<1>5. m \in Seq(Block) /\ IsInjective(m) /\ \A b \in Block : Contains(m, b) => c.refs[b] > 0
  BY <1>1, <1>2, <1>3, HoldersKnown DEF Accounted
<1>6. /\ s.tables = c.tables /\ s.lengths = c.lengths
      /\ s.prefixes = c.prefixes /\ s.memory = c.memory
      /\ \A b \in Block : s.refs[b] = c.refs[b] - Uses(m, b)
      /\ ToSet(s.free) = {b \in Block : s.refs[b] = 0}
      /\ IsInjective(s.free)
      /\ s \in Caches
  BY <1>1, <1>5, DroppedFields
<1>7. /\ p \in PartialMaps(Seq(Nat), Seq(Block)) /\ DOMAIN p = DOMAIN c.prefixes \ {key}
      /\ \A k \in DOMAIN p : p[k] = c.prefixes[k]
  <2>1. p \in PartialMaps(Seq(Nat), Seq(Block))
    BY <1>2, MapsWithout
  <2>. QED
    BY <2>1 DEF Without
<1>. HIDE DEF s, p
<1>8. /\ d \in Caches /\ d.tables = c.tables /\ d.lengths = c.lengths /\ d.memory = c.memory
      /\ d.free = s.free /\ d.prefixes = p /\ d.refs = s.refs
  <2>1. d = [s EXCEPT !.prefixes = p]
    BY <1>4, <1>6 DEF p
  <2>. QED
    BY <1>6, <1>7, <2>1 DEF Caches
<1>9. IsFiniteSet(DOMAIN d.prefixes) /\ Cardinality(DOMAIN d.prefixes) = Cardinality(DOMAIN c.prefixes) - 1
  <2>1. /\ IsFiniteSet(DOMAIN c.prefixes \ {key})
        /\ Cardinality(DOMAIN c.prefixes \ {key}) = Cardinality(DOMAIN c.prefixes) - 1
    BY <1>2, <1>3, FS_RemoveElement
  <2>2. DOMAIN d.prefixes = DOMAIN c.prefixes \ {key}
    BY <1>7, <1>8
  <2>. QED
    BY <2>1, <2>2
<1>10. CountsHolders(d)
  <2>1. ASSUME NEW b \in Block
        PROVE  d.refs[b] = Cardinality(HoldersOf(d.tables, b)) + Cardinality(HoldersOf(d.prefixes, b))
    <3>1. /\ Cardinality(HoldersOf(p, b)) = Cardinality(HoldersOf(c.prefixes, b)) - Uses(m, b)
          /\ Cardinality(HoldersOf(c.prefixes, b)) \in Nat /\ Uses(m, b) \in {0, 1}
      BY <1>2, <1>3, <1>5, DroppedCounts DEF p
    <3>2. Cardinality(HoldersOf(c.tables, b)) \in Nat
      BY <1>1, HoldersCounted DEF Accounted
    <3>3. c.refs[b] = Cardinality(HoldersOf(c.tables, b)) + Cardinality(HoldersOf(c.prefixes, b))
      BY <1>1, CountsAre DEF Accounted
    <3>. QED
      BY <1>6, <1>8, <3>1, <3>2, <3>3
  <2>. QED
    BY <1>6, <1>8, <2>1, CountsAre
<1>11. Accounted(d)
  BY <1>1, <1>7, <1>8, <1>9, <1>10 DEF Accounted
<1>12. Stored(d, memory, known)
  <2>1. \A id : Table(d, id) = Table(c, id)
    BY <1>8 DEF Table
  <2>. QED
    BY <1>1, <1>7, <1>8, <2>1 DEF Stored
<1>. QED
  BY <1>8, <1>9, <1>11, <1>12 DEF GoodCaches, d

\* release
LEMMA ReleasedGood ==
  ASSUME NEW known, NEW memory, NEW c \in GoodCaches(known, memory), Fitted(c), NEW id \in DOMAIN c.tables
  PROVE  /\ Released(c, id) \in GoodCaches(Without(known, {id}), memory) /\ Fitted(Released(c, id))
         /\ Released(c, id).tables = Without(c.tables, {id})
         /\ Released(c, id).lengths = Without(c.lengths, {id})
         /\ Released(c, id).memory = c.memory
<1>. DEFINE m == c.tables[id]
            s == Dropped(c, m)
            t == Without(c.tables, {id})
            l == Without(c.lengths, {id})
            k == Without(known, {id})
            d == Released(c, id)
<1>1. c \in Caches /\ Accounted(c) /\ Stored(c, memory, known)
  BY DEF GoodCaches
<1>2. /\ c.tables \in PartialMaps(Nat, Seq(Block)) /\ c.refs \in [Block -> Nat]
      /\ c.lengths \in PartialMaps(Nat, Nat)
      /\ c.free \in Seq(Block) /\ m \in Seq(Block) /\ IsInjective(m)
      /\ IsFiniteSet(DOMAIN c.tables)
      /\ \A b \in Block : Contains(m, b) => c.refs[b] > 0
  BY <1>1, CacheFields, HoldersKnown DEF Accounted
<1>3. /\ s.tables = c.tables /\ s.lengths = c.lengths
      /\ s.prefixes = c.prefixes /\ s.memory = c.memory
      /\ \A b \in Block : s.refs[b] = c.refs[b] - Uses(m, b)
      /\ ToSet(s.free) = {b \in Block : s.refs[b] = 0}
      /\ IsInjective(s.free)
      /\ s \in Caches
  BY <1>1, <1>2, DroppedFields
<1>4. /\ t \in PartialMaps(Nat, Seq(Block)) /\ DOMAIN t = DOMAIN c.tables \ {id}
      /\ \A x \in DOMAIN t : t[x] = c.tables[x]
      /\ l \in PartialMaps(Nat, Nat) /\ DOMAIN l = DOMAIN c.lengths \ {id}
      /\ \A x \in DOMAIN l : l[x] = c.lengths[x]
  <2>1. t \in PartialMaps(Nat, Seq(Block)) /\ l \in PartialMaps(Nat, Nat)
    BY <1>2, MapsWithout
  <2>. QED
    BY <2>1 DEF Without
<1>5. d = [s EXCEPT !.tables = Without(s.tables, {id}), !.lengths = Without(s.lengths, {id})]
  BY <1>3 DEF Released
<1>6. /\ k \in PartialMaps(Nat, Seq(Nat)) /\ DOMAIN k = DOMAIN known \ {id}
      /\ \A x \in DOMAIN k : k[x] = known[x]
  <2>1. k \in PartialMaps(Nat, Seq(Nat))
    BY <1>1, MapsWithout DEF Stored
  <2>. QED
    BY <2>1 DEF Without
<1>. HIDE DEF s, t, l, k, d
<1>7. /\ d \in Caches /\ d.tables = t /\ d.lengths = l /\ d.memory = c.memory
      /\ d.free = s.free /\ d.prefixes = c.prefixes /\ d.refs = s.refs
  <2>1. d = [s EXCEPT !.tables = t, !.lengths = l]
    BY <1>3, <1>5 DEF t, l
  <2>. QED
    BY <1>3, <1>4, <2>1 DEF Caches
<1>8. IsFiniteSet(DOMAIN d.tables)
  <2>1. IsFiniteSet(DOMAIN c.tables \ {id})
    BY <1>2, FS_RemoveElement
  <2>. QED
    BY <1>4, <1>7, <2>1
<1>9. CountsHolders(d)
  <2>1. ASSUME NEW b \in Block
        PROVE  d.refs[b] = Cardinality(HoldersOf(d.tables, b)) + Cardinality(HoldersOf(d.prefixes, b))
    <3>1. /\ Cardinality(HoldersOf(t, b)) = Cardinality(HoldersOf(c.tables, b)) - Uses(m, b)
          /\ Cardinality(HoldersOf(c.tables, b)) \in Nat /\ Uses(m, b) \in {0, 1}
      BY <1>2, DroppedCounts DEF t
    <3>2. Cardinality(HoldersOf(c.prefixes, b)) \in Nat
      BY <1>1, HoldersCounted DEF Accounted
    <3>3. c.refs[b] = Cardinality(HoldersOf(c.tables, b)) + Cardinality(HoldersOf(c.prefixes, b))
      BY <1>1, CountsAre DEF Accounted
    <3>. QED
      BY <1>3, <1>7, <3>1, <3>2, <3>3
  <2>. QED
    BY <1>3, <1>7, <2>1, CountsAre
<1>10. Accounted(d)
  BY <1>1, <1>4, <1>7, <1>8, <1>9 DEF Accounted
<1>11. Stored(d, memory, k)
  <2>1. \A x \in DOMAIN k : Table(d, x) = Table(c, x)
    BY <1>4, <1>6, <1>7 DEF Table
  <2>. QED
    BY <1>1, <1>4, <1>6, <1>7, <2>1 DEF Stored
<1>12. Fitted(d)
  BY <1>4, <1>7 DEF Fitted
<1>. QED
  BY <1>7, <1>10, <1>11, <1>12 DEF GoodCaches, d, t, l, k

\* Of what is not there, nothing is known.
LEMMA NothingStored ==
  ASSUME NEW known, NEW memory, NEW c \in GoodCaches(known, memory), NEW id \in Nat \ DOMAIN c.tables
  PROVE  c \in GoodCaches(With(known, id, <<>>), memory)
<1>. DEFINE k == With(known, id, <<>>)
<1>1. c \in Caches /\ Accounted(c) /\ Stored(c, memory, known)
  BY DEF GoodCaches
<1>2. k \in PartialMaps(Nat, Seq(Nat))
  <2>1. <<>> \in Seq(Nat)
    OBVIOUS
  <2>. QED
    BY <1>1, <2>1, MapsWith DEF Stored
<1>3. DOMAIN k = DOMAIN known \cup {id} /\ k[id] = <<>> /\ \A x \in DOMAIN known \ {id} : k[x] = known[x]
  BY DEF With
<1>. HIDE DEF k
<1>4. BlocksFor(Len(k[id])) <= Len(Table(c, id)) /\ ReadsAs(memory, Table(c, id), k[id])
  <2>1. Table(c, id) = <<>> /\ Len(k[id]) = 0 /\ Len(<<>>) = 0
    BY <1>3 DEF Table
  <2>. QED
    BY <2>1, NoBlocks DEF ReadsAs
<1>5. Stored(c, memory, k)
  BY <1>1, <1>2, <1>3, <1>4 DEF Stored
<1>. QED
  BY <1>1, <1>5 DEF GoodCaches, k

\* reuse_prefix: what is taken over is a prefix of the tokens.
LEMMA ReusedGood ==
  ASSUME NEW known, NEW memory, NEW c \in GoodCaches(known, memory), Fitted(c), NEW id \in Nat \ DOMAIN c.tables,
         NEW tokens \in Seq(Nat), NEW most \in Nat,
         NEW d, d = Reused(c, id, tokens, most)
  PROVE  /\ d \in GoodCaches(With(known, id, SubSeq(tokens, 1, Length(d, id))), memory) /\ Fitted(d)
         /\ Length(d, id) \in Nat /\ Length(d, id) <= most /\ Length(d, id) <= Len(tokens)
         /\ DOMAIN d.tables \subseteq DOMAIN c.tables \cup {id} /\ DOMAIN c.tables \subseteq DOMAIN d.tables
         /\ \A other \in Nat : other # id => Length(d, other) = Length(c, other)
         /\ d.memory = c.memory
<1>. DEFINE R == Reusable(c, tokens, most)
            key == CHOOSE k \in R : \A l \in R : Len(l) <= Len(k)
            m == c.prefixes[key]
            s == Shared(c, m)
            t == With(c.tables, id, m)
            l == With(c.lengths, id, Len(key))
            k == With(known, id, key)
<1>1. /\ c \in Caches /\ Accounted(c) /\ Stored(c, memory, known)
      /\ DOMAIN c.prefixes \subseteq Seq(Nat)
      /\ \A x \in DOMAIN c.prefixes : c.prefixes[x] \in Seq(Block)
  BY CacheFields DEF GoodCaches
<1>2. CASE R = {}
  <2>1. d = c /\ Length(d, id) = 0 /\ SubSeq(tokens, 1, 0) = <<>>
    BY <1>2 DEF Reused, Length, Fitted
  <2>2. c \in GoodCaches(With(known, id, <<>>), memory)
    BY NothingStored
  <2>3. SubSeq(tokens, 1, Length(d, id)) = <<>>
    BY <2>1
  <2>4. Len(tokens) \in Nat
    OBVIOUS
  <2>. DEFINE x == SubSeq(tokens, 1, Length(d, id))
  <2>5. d \in GoodCaches(With(known, id, x), memory)
    <3>. HIDE DEF x
    <3>1. x = <<>>
      BY <2>3 DEF x
    <3>. QED
      BY <2>1, <2>2, <3>1
  <2>6. /\ Fitted(d) /\ Length(d, id) <= most /\ Length(d, id) <= Len(tokens)
        /\ \A other : other # id => Length(d, other) = Length(c, other)
        /\ DOMAIN d.tables = DOMAIN c.tables
    BY <2>1, <2>4
  <2>. QED
    BY <2>1, <2>5, <2>6
<1>3. CASE R # {}
  <2>1. key \in R
    <3>. DEFINE S == {Len(x) : x \in R}
    <3>1. S \in SUBSET (0 .. most) /\ S # {}
      <4>1. \A x \in R : x \in Seq(Nat) /\ Len(x) <= most
        BY <1>1 DEF Reusable
      <4>2. \A x \in Seq(Nat) : Len(x) \in Nat
        OBVIOUS
      <4>. HIDE DEF R
      <4>3. \A x \in R : Len(x) \in 0 .. most
        BY <4>1, <4>2
      <4>4. PICK x \in R : TRUE
        BY <1>3
      <4>5. Len(x) \in S
        OBVIOUS
      <4>. QED
        BY <4>3, <4>5
    <3>2. PICK x \in R : \A y \in R : Len(y) <= Len(x)
      <4>1. Max(S) \in S /\ \A y \in S : Max(S) >= y
        <5>1. most \in Int
          OBVIOUS
        <5>. HIDE DEF S
        <5>. QED
          BY <3>1, <5>1, MaxMember
      <4>2. \A y \in R : Len(y) \in S /\ Len(y) \in Nat
        BY <1>1 DEF Reusable
      <4>. HIDE DEF R
      <4>. QED
        BY <4>1, <4>2
    <3>. QED
      BY <3>2
  <2>2. d = [s EXCEPT !.tables = With(s.tables, id, m), !.lengths = With(s.lengths, id, Len(key))]
    BY <1>3 DEF Reused
  <2>. HIDE DEF key
  <2>3. /\ key \in DOMAIN c.prefixes /\ key \in Seq(Nat) /\ Len(key) <= most
        /\ Len(key) <= Len(tokens) /\ Len(key) \in Nat
        /\ key = SubSeq(tokens, 1, Len(key))
    <3>1. key \in DOMAIN c.prefixes /\ key \in Seq(Nat) /\ Len(key) <= most /\ IsPrefix(key, tokens)
      BY <1>1, <2>1 DEF Reusable
    <3>2. SubSeq(key, 1, Len(key)) = key
      BY <3>1
    <3>. QED
      BY <3>1, <3>2 DEF IsPrefix
  <2>4. /\ m \in Seq(Block) /\ IsInjective(m) /\ \A b \in Block : Contains(m, b) => c.refs[b] > 0
        /\ Len(m) = BlocksFor(Len(key)) /\ ReadsAs(memory, m, key)
    BY <1>1, <2>3, HoldersKnown DEF Accounted, Stored
  <2>5. /\ s.tables = c.tables /\ s.lengths = c.lengths /\ s.prefixes = c.prefixes
        /\ s.free = c.free /\ s.memory = c.memory /\ s \in Caches
        /\ \A b \in Block : s.refs[b] = c.refs[b] + Uses(m, b)
    BY <1>1, <2>4, SharedFields
  <2>6. c.tables \in PartialMaps(Nat, Seq(Block)) /\ c.lengths \in PartialMaps(Nat, Nat)
    BY <1>1, CacheFields
  <2>7. t \in PartialMaps(Nat, Seq(Block)) /\ l \in PartialMaps(Nat, Nat) /\ k \in PartialMaps(Nat, Seq(Nat))
    BY <1>1, <2>3, <2>4, <2>6, MapsWith DEF Stored
  <2>8. /\ DOMAIN t = DOMAIN c.tables \cup {id} /\ t[id] = m
        /\ \A x \in DOMAIN c.tables : t[x] = c.tables[x]
        /\ DOMAIN l = DOMAIN c.lengths \cup {id} /\ l[id] = Len(key)
        /\ \A x \in DOMAIN c.lengths \ {id} : l[x] = c.lengths[x]
        /\ DOMAIN k = DOMAIN known \cup {id} /\ k[id] = key
        /\ \A x \in DOMAIN known \ {id} : k[x] = known[x]
    BY DEF With
  <2>9. d = [s EXCEPT !.tables = t, !.lengths = l]
    BY <2>2, <2>5
  <2>. HIDE DEF s, t, l, k, m, R
  <2>10. /\ d \in Caches /\ d.tables = t /\ d.lengths = l /\ d.memory = c.memory
         /\ d.free = c.free /\ d.prefixes = c.prefixes
         /\ \A b \in Block : d.refs[b] = c.refs[b] + Uses(m, b)
    BY <2>5, <2>7, <2>9 DEF Caches
  <2>11. Accounted(d)
    <3>1. ASSUME NEW b \in Block
          PROVE  /\ d.refs[b] = Cardinality(HoldersOf(d.tables, b)) + Cardinality(HoldersOf(d.prefixes, b))
                 /\ d.refs[b] = 0 <=> c.refs[b] = 0
      <4>1. /\ Cardinality(HoldersOf(t, b)) = Cardinality(HoldersOf(c.tables, b)) + Uses(m, b)
            /\ Cardinality(HoldersOf(c.tables, b)) \in Nat /\ Uses(m, b) \in {0, 1}
        BY <1>1, <2>4, SharedCounts DEF Accounted, t
      <4>2. Cardinality(HoldersOf(c.prefixes, b)) \in Nat
        BY <1>1, HoldersCounted DEF Accounted
      <4>3. c.refs[b] = Cardinality(HoldersOf(c.tables, b)) + Cardinality(HoldersOf(c.prefixes, b))
        BY <1>1, CountsAre DEF Accounted
      <4>4. Uses(m, b) = 1 => c.refs[b] > 0
        BY <2>4, UsesOnce
      <4>5. d.refs[b] = c.refs[b] + Uses(m, b) /\ c.refs[b] \in Nat
        BY <1>1, <2>10, CacheFields
      <4>6. d.refs[b] = 0 <=> c.refs[b] = 0
        BY <4>1, <4>4, <4>5
      <4>. QED
        BY <2>10, <4>1, <4>2, <4>3, <4>5, <4>6
    <3>2. ToSet(d.free) = {b \in Block : d.refs[b] = 0} /\ IsInjective(d.free)
      BY <1>1, <2>10, <3>1, CountsAre DEF Accounted
    <3>3. IsFiniteSet(DOMAIN d.tables)
      <4>1. IsFiniteSet(DOMAIN c.tables)
        BY <1>1 DEF Accounted
      <4>2. IsFiniteSet(DOMAIN c.tables \cup {id})
        BY <4>1, FS_AddElement
      <4>. QED
        BY <2>8, <2>10, <4>2
    <3>4. CountsHolders(d)
      BY <3>1, <3>2, CountsAre
    <3>5. \A x \in DOMAIN d.tables : IsInjective(d.tables[x])
      BY <1>1, <2>4, <2>8, <2>10 DEF Accounted
    <3>. QED
      BY <1>1, <2>10, <3>3, <3>4, <3>5 DEF Accounted
  <2>12. Stored(d, memory, k)
    <3>1. \A x : x # id => Table(d, x) = Table(c, x)
      BY <2>8, <2>10 DEF Table
    <3>2. Table(d, id) = m
      BY <2>8, <2>10 DEF Table
    <3>3. \A x \in DOMAIN k : /\ BlocksFor(Len(k[x])) <= Len(Table(d, x))
                              /\ ReadsAs(memory, Table(d, x), k[x])
      <4>1. BlocksFor(Len(k[id])) <= Len(m)
        BY <2>3, <2>4, <2>8, BlocksEnough
      <4>. QED
        BY <1>1, <2>4, <2>8, <2>10, <3>1, <3>2, <4>1 DEF Stored
    <3>. QED
      BY <1>1, <2>7, <2>8, <2>10, <3>3 DEF Stored
  <2>13. Length(d, id) = Len(key) /\ \A other : other # id => Length(d, other) = Length(c, other)
    BY <2>8, <2>10 DEF Length
  <2>14. Fitted(d)
    BY <2>4, <2>8, <2>10 DEF Fitted
  <2>. QED
    BY <2>3, <2>8, <2>10, <2>11, <2>12, <2>13, <2>14 DEF GoodCaches, k
<1>. QED
  BY <1>2, <1>3

\* Clearing drops every reference, and the vectors stay in the memory.
LEMMA ClearedGood ==
  ASSUME NEW memory \in Memories
  PROVE  /\ [NewCache EXCEPT !.memory = memory] \in GoodCaches(<<>>, memory)
         /\ Fitted([NewCache EXCEPT !.memory = memory])
         /\ [NewCache EXCEPT !.memory = memory].tables = <<>>
<1>. DEFINE d == [NewCache EXCEPT !.memory = memory]
            r == [b \in Block |-> 0]
            f == [i \in Block |-> Blocks + 1 - i]
<1>1. /\ d.tables = <<>> /\ d.lengths = <<>> /\ d.prefixes = <<>> /\ d.refs = r
      /\ d.free = f /\ d.memory = memory
      /\ d = [tables |-> <<>>, lengths |-> <<>>, prefixes |-> <<>>, refs |-> r,
              free |-> f, memory |-> memory]
  <2>. DEFINE old == [b \in Block |-> [s \in Slot |-> Junk]]
  <2>1. NewCache = [tables |-> <<>>, lengths |-> <<>>, prefixes |-> <<>>, refs |-> r,
                    free |-> f, memory |-> old]
    BY Zenon DEF NewCache
  <2>. HIDE DEF r, f, old
  <2>. QED
    BY <2>1
<1>2. Blocks \in Nat /\ Block = 1 .. Blocks
  BY CacheAssumption DEF Block
<1>3. /\ \A A, B : <<>> \in PartialMaps(A, B)
      /\ DOMAIN <<>> = {}
  BY MapsEmpty
<1>4. r \in [Block -> Nat] /\ \A b \in Block : r[b] = 0
  OBVIOUS
<1>5. f \in Seq(Block) /\ IsInjective(f) /\ ToSet(f) = Block
  <2>1. f \in [1 .. Blocks -> Block] /\ DOMAIN f = Block /\ \A i \in Block : f[i] = Blocks + 1 - i
    BY <1>2
  <2>. HIDE DEF f
  <2>2. f \in Seq(Block)
    BY <1>2, <2>1
  <2>3. IsInjective(f)
    BY <1>2, <2>1 DEF IsInjective
  <2>4. \A b \in Block : Blocks + 1 - b \in Block /\ f[Blocks + 1 - b] = b
    BY <1>2, <2>1
  <2>5. \A i \in Block : f[i] \in Block
    BY <1>2, <2>1
  <2>6. ToSet(f) \subseteq Block
    BY <2>1, <2>5 DEF ToSet
  <2>7. Block \subseteq ToSet(f)
    BY <2>1, <2>4 DEF ToSet
  <2>. QED
    BY <2>2, <2>3, <2>6, <2>7
<1>. HIDE DEF d, r, f
<1>6. d \in Caches
  BY <1>1, <1>3, <1>4, <1>5 DEF Caches
<1>7. CountsHolders(d)
  <2>1. ASSUME NEW b \in Block PROVE Cardinality(HoldersOf(<<>>, b)) = 0
    <3>1. HoldersOf(<<>>, b) = {}
      BY <1>3 DEF HoldersOf
    <3>. QED
      BY <3>1, FS_EmptySet
  <2>. QED
    BY <1>1, <1>4, <1>5, <2>1, CountsAre
<1>8. IsFiniteSet({})
  BY FS_EmptySet
<1>9. Accounted(d)
  BY <1>1, <1>3, <1>7, <1>8 DEF Accounted
<1>10. Stored(d, memory, <<>>)
  BY <1>1, <1>3 DEF Stored
<1>11. Fitted(d)
  BY <1>1, <1>3 DEF Fitted
<1>. QED
  BY <1>1, <1>6, <1>9, <1>10, <1>11 DEF GoodCaches, d

\* Any number of evictions leaves the tables and the memory alone.
LEMMA EvictionsGood ==
  ASSUME NEW known, NEW memory, NEW c \in GoodCaches(known, memory)
  PROVE  /\ Cardinality(DOMAIN c.prefixes) \in Nat
         /\ \A k \in 0 .. Cardinality(DOMAIN c.prefixes) :
               /\ Evictions(c)[k] \in GoodCaches(known, memory)
               /\ Evictions(c)[k].tables = c.tables /\ Evictions(c)[k].lengths = c.lengths
               /\ Evictions(c)[k].memory = c.memory
<1>. DEFINE N == Cardinality(DOMAIN c.prefixes)
            Left(k) == {d \in GoodCaches(known, memory) :
                           /\ d.tables = c.tables /\ d.lengths = c.lengths /\ d.memory = c.memory
                           /\ Cardinality(DOMAIN d.prefixes) = N - k}
            S == [k \in 0 .. N |-> Left(k)]
            move == [n \in 1 .. N |-> [d \in GoodCaches(known, memory) |-> EvictedOne(d)]]
            it == CHOOSE h : h = [k \in 0 .. N |-> IF k = 0 THEN c ELSE EvictedOne(h[k - 1])]
<1>1. N \in Nat
  BY FS_CardinalityType DEF GoodCaches, Accounted
<1>2. Evictions(c) = it
  BY Zenon DEF Evictions
<1>. HIDE DEF N
<1>3. c \in Left(0)
  BY <1>1 DEF N
<1>4. ASSUME NEW n \in 1 .. N, NEW d \in Left(n - 1) PROVE EvictedOne(d) \in Left(n)
  <2>1. d \in GoodCaches(known, memory) /\ Cardinality(DOMAIN d.prefixes) = N - (n - 1)
    OBVIOUS
  <2>2. DOMAIN d.prefixes # {}
    <3>1. N - (n - 1) # 0
      BY <1>1
    <3>. QED
      BY <2>1, <3>1, FS_EmptySet
  <2>3. /\ EvictedOne(d) \in GoodCaches(known, memory)
        /\ EvictedOne(d).tables = d.tables /\ EvictedOne(d).lengths = d.lengths
        /\ EvictedOne(d).memory = d.memory
        /\ Cardinality(DOMAIN EvictedOne(d).prefixes) = Cardinality(DOMAIN d.prefixes) - 1
    BY <2>1, <2>2, EvictionGood
  <2>4. Cardinality(DOMAIN EvictedOne(d).prefixes) = N - n
    BY <1>1, <2>1, <2>3
  <2>. QED
    BY <2>3, <2>4
<1>5. /\ \A k \in 0 .. N : S[k] = Left(k)
      /\ \A k \in 0 .. N : Left(k) \subseteq GoodCaches(known, memory)
      /\ 0 \in 0 .. N /\ \A n \in 1 .. N : n \in 0 .. N /\ n - 1 \in 0 .. N /\ n # 0
      /\ \A n \in 0 .. N : n = 0 \/ n \in 1 .. N
  BY <1>1
<1>. HIDE DEF Left, S
<1>6. \A n \in 1 .. N : \A d \in S[n - 1] : move[n][d] = EvictedOne(d) /\ move[n][d] \in S[n]
  BY <1>4, <1>5
<1>. HIDE DEF move
<1>7. PICK f : Orbit(f, N, c, move) /\ \A n \in 0 .. N : f[n] \in S[n]
  <2>1. c \in S[0] /\ \A n \in 1 .. N : \A d \in S[n - 1] : move[n][d] \in S[n]
    BY <1>3, <1>5, <1>6
  <2>. QED
    BY <1>1, <2>1, OrbitExists
<1>8. f = [k \in 0 .. N |-> IF k = 0 THEN c ELSE EvictedOne(f[k - 1])]
  <2>1. f = [k \in 0 .. N |-> IF k = 0 THEN c ELSE move[k][f[k - 1]]]
    BY <1>7 DEF Orbit
  <2>2. \A k \in 0 .. N : k # 0 => move[k][f[k - 1]] = EvictedOne(f[k - 1])
    BY <1>5, <1>6, <1>7
  <2>. QED
    BY <2>1, <2>2, Zenon
<1>9. it = [k \in 0 .. N |-> IF k = 0 THEN c ELSE EvictedOne(it[k - 1])]
  BY <1>8, Zenon
<1>. HIDE DEF it
<1>10. it[0] = c /\ \A n \in 1 .. N : it[n] = EvictedOne(it[n - 1])
  <2>1. \A k \in 0 .. N : it[k] = IF k = 0 THEN c ELSE EvictedOne(it[k - 1])
    BY <1>9, Zenon
  <2>. QED
    BY <1>5, <2>1, Zenon
<1>. DEFINE X == {n \in 0 .. N : it[n] \in Left(n)}
<1>11. \A n \in 0 .. N : n \in X
  <2>1. 0 \in X
    BY <1>3, <1>5, <1>10
  <2>2. \A n \in 1 .. N : n - 1 \in X => n \in X
    BY <1>4, <1>5, <1>10
  <2>. HIDE DEF X
  <2>. QED
    BY <1>1, <2>1, <2>2, Stepwise
<1>12. \A k \in 0 .. N : it[k] \in Left(k)
  BY <1>11
<1>. QED
  BY <1>1, <1>2, <1>12 DEF Left, N

------------------------------------------------------------------------------
\* Copies of tails

Copies == [from : Block, to : Block]

\* The memory once the copies of a plan are made.
Resolved(memory, copies) == Iterated(Copied, memory, copies)

LEMMA CopiedType ==
  ASSUME NEW memory \in Memories, NEW copy \in Copies
  PROVE  /\ Copied(memory, copy) \in Memories
         /\ Copied(memory, copy)[copy.to] = memory[copy.from]
         /\ \A b \in Block \ {copy.to} : Copied(memory, copy)[b] = memory[b]
<1>1. copy.to \in Block /\ copy.from \in Block
  BY DEF Copies
<1>. QED
  BY <1>1 DEF Copied, Memories

LEMMA ResolvedSteps ==
  ASSUME NEW memory \in Memories, NEW copies \in Seq(Copies)
  PROVE  \E it : /\ Resolved(memory, copies) = it[Len(copies)]
                 /\ it[0] = memory
                 /\ \A n \in 1 .. Len(copies) : it[n] = Copied(it[n - 1], copies[n])
                 /\ \A n \in 0 .. Len(copies) : it[n] \in Memories
<1>. DEFINE N == Len(copies)
            S == [k \in 0 .. N |-> Memories]
            move == [n \in 1 .. N |-> [m \in Memories |-> Copied(m, copies[n])]]
            it == CHOOSE h : h = [k \in 0 .. Len(copies) |->
                                     IF k = 0 THEN memory ELSE Copied(h[k - 1], copies[k])]
<1>1. N \in Nat /\ \A n \in 1 .. N : copies[n] \in Copies
  OBVIOUS
<1>2. Resolved(memory, copies) = it[Len(copies)]
  BY Zenon DEF Resolved, Iterated
<1>3. /\ 0 \in 0 .. N /\ \A n \in 1 .. N : n \in 0 .. N /\ n - 1 \in 0 .. N /\ n # 0
      /\ \A n \in 0 .. N : n = 0 \/ n \in 1 .. N
      /\ \A k \in 0 .. N : S[k] = Memories
  BY <1>1
<1>. HIDE DEF S
<1>4. \A n \in 1 .. N : \A m \in S[n - 1] :
         move[n][m] = Copied(m, copies[n]) /\ move[n][m] \in S[n]
  BY <1>1, <1>3, CopiedType, ZenonT(60)
<1>. HIDE DEF move
<1>5. PICK f : Orbit(f, N, memory, move) /\ \A n \in 0 .. N : f[n] \in S[n]
  <2>1. memory \in S[0] /\ \A n \in 1 .. N : \A d \in S[n - 1] : move[n][d] \in S[n]
    BY <1>3, <1>4
  <2>. QED
    BY <1>1, <2>1, OrbitExists
<1>6. f = [k \in 0 .. N |-> IF k = 0 THEN memory ELSE Copied(f[k - 1], copies[k])]
  <2>1. f = [k \in 0 .. N |-> IF k = 0 THEN memory ELSE move[k][f[k - 1]]]
    BY <1>5 DEF Orbit
  <2>2. \A k \in 0 .. N : k # 0 => move[k][f[k - 1]] = Copied(f[k - 1], copies[k])
    BY <1>3, <1>4, <1>5
  <2>. QED
    BY <2>1, <2>2, Zenon
<1>7. it = [k \in 0 .. N |-> IF k = 0 THEN memory ELSE Copied(it[k - 1], copies[k])]
  BY <1>6, Zenon
<1>. HIDE DEF it
<1>8. it[0] = memory /\ \A n \in 1 .. N : it[n] = Copied(it[n - 1], copies[n])
  <2>1. \A k \in 0 .. N : it[k] = IF k = 0 THEN memory ELSE Copied(it[k - 1], copies[k])
    BY <1>7, Zenon
  <2>. QED
    BY <1>3, <2>1, Zenon
<1>. DEFINE X == {n \in 0 .. N : it[n] \in Memories}
<1>9. \A n \in 0 .. N : n \in X
  <2>1. 0 \in X
    BY <1>3, <1>8
  <2>2. \A n \in 1 .. N : n - 1 \in X => n \in X
    BY <1>1, <1>3, <1>8, CopiedType, ZenonT(60)
  <2>. HIDE DEF X
  <2>. QED
    BY <1>1, <2>1, <2>2, Stepwise
<1>10. \A n \in 0 .. N : it[n] \in Memories
  BY <1>9
<1>. QED
  BY <1>2, <1>8, <1>10

\* A later copy is made after the earlier ones.
LEMMA ResolvedAppend ==
  ASSUME NEW memory \in Memories, NEW copies \in Seq(Copies), NEW copy \in Copies
  PROVE  /\ Resolved(memory, copies) \in Memories
         /\ Resolved(memory, <<>>) = memory
         /\ Append(copies, copy) \in Seq(Copies)
         /\ Resolved(memory, Append(copies, copy)) = Copied(Resolved(memory, copies), copy)
<1>. DEFINE N == Len(copies)
            more == Append(copies, copy)
<1>1. N \in Nat /\ more \in Seq(Copies) /\ Len(more) = N + 1 /\ more[N + 1] = copy
      /\ \A n \in 1 .. N : more[n] = copies[n]
  OBVIOUS
<1>2. PICK f : /\ Resolved(memory, copies) = f[N] /\ f[0] = memory
               /\ \A n \in 1 .. N : f[n] = Copied(f[n - 1], copies[n])
               /\ \A n \in 0 .. N : f[n] \in Memories
  BY ResolvedSteps
<1>. HIDE DEF N, more
<1>3. PICK g : /\ Resolved(memory, more) = g[N + 1] /\ g[0] = memory
               /\ \A n \in 1 .. N + 1 : g[n] = Copied(g[n - 1], more[n])
  <2>1. \E it : /\ Resolved(memory, more) = it[Len(more)]
                /\ it[0] = memory
                /\ \A n \in 1 .. Len(more) : it[n] = Copied(it[n - 1], more[n])
    BY <1>1, ResolvedSteps, SMTT(30)
  <2>. QED
    BY <1>1, <2>1
<1>. DEFINE X == {n \in 0 .. N : g[n] = f[n]}
<1>4. \A n \in 0 .. N : n \in X
  <2>1. 0 \in X
    BY <1>1, <1>2, <1>3
  <2>2. \A n \in 1 .. N : n \in 0 .. N /\ n - 1 \in 0 .. N /\ n \in 1 .. N + 1
    BY <1>1
  <2>3. \A n \in 1 .. N : n - 1 \in X => n \in X
    BY <1>1, <1>2, <1>3, <2>2
  <2>. HIDE DEF X
  <2>. QED
    BY <1>1, <2>1, <2>3, Stepwise
<1>5. g[N] = f[N] /\ g[N + 1] = Copied(g[N], more[N + 1])
  <2>1. N \in 0 .. N /\ N + 1 \in 1 .. N + 1 /\ N + 1 - 1 = N
    BY <1>1
  <2>. QED
    BY <1>3, <1>4, <2>1
<1>6. Resolved(memory, <<>>) = memory
  <2>. DEFINE none == <<>>
  <2>1. none \in Seq(Copies) /\ Len(none) = 0
    OBVIOUS
  <2>. HIDE DEF none
  <2>2. PICK it : /\ Resolved(memory, none) = it[Len(none)]
                  /\ it[0] = memory
                  /\ \A n \in 1 .. Len(none) : it[n] = Copied(it[n - 1], none[n])
                  /\ \A n \in 0 .. Len(none) : it[n] \in Memories
    BY <2>1, ResolvedSteps, Zenon
  <2>3. Resolved(memory, none) = memory
    BY <2>1, <2>2
  <2>. QED
    BY <2>3 DEF none
<1>7. Resolved(memory, copies) \in Memories
  BY <1>1, <1>2
<1>. QED
  BY <1>1, <1>2, <1>3, <1>5, <1>6, <1>7 DEF more

\* What attention finds depends only on the blocks it looks into.
LEMMA ReadsSame ==
  ASSUME NEW old, NEW new, NEW T, NEW U, NEW tokens \in Seq(Nat),
         \A i \in 1 .. BlocksFor(Len(tokens)) : new[U[i]] = old[T[i]],
         ReadsAs(old, T, tokens)
  PROVE  ReadsAs(new, U, tokens)
<1>1. ASSUME NEW n \in 1 .. Len(tokens)
      PROVE  BlocksFor(n) \in 1 .. BlocksFor(Len(tokens))
  <2>1. n \in Nat \ {0} /\ Len(tokens) \in Nat /\ n \in Nat /\ n <= Len(tokens)
    OBVIOUS
  <2>2. BlocksFor(n) \in Nat \ {0}
    BY <2>1, PositionOf
  <2>3. BlocksFor(n) <= BlocksFor(Len(tokens)) /\ BlocksFor(Len(tokens)) \in Nat
    BY <2>1, BlocksEnough
  <2>. QED
    BY <2>2, <2>3
<1>. QED
  BY <1>1 DEF ReadsAs

------------------------------------------------------------------------------
\* Growing a table

LEMMA FrontQueue ==
  ASSUME NEW T, NEW q \in Seq(T), q # <<>>
  PROVE  /\ Front(q) \in Seq(T) /\ Len(Front(q)) = Len(q) - 1 /\ Len(q) \in Nat \ {0}
         /\ \A i \in 1 .. Len(q) - 1 : Front(q)[i] = q[i]
         /\ Last(q) = q[Len(q)] /\ Last(q) \in T /\ Last(q) \in ToSet(q)
         /\ IsInjective(q) => IsInjective(Front(q)) /\ ToSet(Front(q)) = ToSet(q) \ {Last(q)}
<1>1. /\ Len(q) \in Nat \ {0} /\ DOMAIN q = 1 .. Len(q) /\ \A i \in 1 .. Len(q) : q[i] \in T
  OBVIOUS
<1>. DEFINE f == Front(q)
            n == Len(q)
<1>2. /\ f \in Seq(T) /\ Len(f) = n - 1 /\ DOMAIN f = 1 .. n - 1
      /\ \A i \in 1 .. n - 1 : f[i] = q[i]
  BY <1>1 DEF Front
<1>. HIDE DEF f, n
<1>3. Last(q) = q[n] /\ n \in 1 .. n /\ n \in Nat \ {0}
  BY <1>1 DEF Last, n
<1>4. Last(q) \in T /\ Last(q) \in ToSet(q)
  BY <1>1, <1>3 DEF ToSet, n
<1>5. ASSUME IsInjective(q)
      PROVE  IsInjective(f) /\ ToSet(f) = ToSet(q) \ {Last(q)}
  <2>1. \A i, j \in 1 .. n : q[i] = q[j] => i = j
    BY <1>1, <1>5 DEF IsInjective, n
  <2>2. \A i \in 1 .. n : i \in 1 .. n - 1 \/ i = n
    BY <1>3
  <2>3. \A i \in 1 .. n - 1 : i \in 1 .. n /\ i # n
    BY <1>3
  <2>4. IsInjective(f)
    BY <1>2, <2>1, <2>3 DEF IsInjective
  <2>5. ToSet(f) = {q[i] : i \in 1 .. n - 1} /\ ToSet(q) = {q[i] : i \in 1 .. n}
    BY <1>1, <1>2 DEF ToSet, n
  <2>6. {q[i] : i \in 1 .. n - 1} = {q[i] : i \in 1 .. n} \ {q[n]}
    BY <1>3, <2>1, <2>2, <2>3
  <2>. QED
    BY <1>3, <2>4, <2>5, <2>6
<1>. QED
  BY <1>1, <1>2, <1>3, <1>4, <1>5 DEF f, n

\* The last free block joins the table of id, which may lose a block that somebody
\* else holds too.
LEMMA TableGrows ==
  ASSUME NEW c \in Caches, Accounted(c), c.free # <<>>, NEW id \in Nat,
         NEW m \in Seq(Block), IsInjective(m), NEW lost,
         \A x \in Block : Contains(m, x) <=>
             x = Last(c.free) \/ (Contains(Table(c, id), x) /\ x \notin lost),
         \A x \in lost : x \in Block /\ Contains(Table(c, id), x) /\ c.refs[x] > 1,
         NEW d \in Caches, d.tables = With(c.tables, id, m), d.prefixes = c.prefixes,
         d.free = Front(c.free),
         \A x \in Block : d.refs[x] = IF x = Last(c.free) THEN 1
                                      ELSE IF x \in lost THEN c.refs[x] - 1 ELSE c.refs[x]
  PROVE  Accounted(d)
<1>. DEFINE b == Last(c.free)
<1>1. /\ c.tables \in PartialMaps(Nat, Seq(Block)) /\ c.refs \in [Block -> Nat]
      /\ c.free \in Seq(Block)
  BY CacheFields
<1>2. ToSet(c.free) = {x \in Block : c.refs[x] = 0} /\ IsInjective(c.free)
  BY CountsAre DEF Accounted
<1>3. /\ b \in Block /\ c.refs[b] = 0
      /\ IsInjective(d.free) /\ ToSet(d.free) = ToSet(c.free) \ {b}
  <2>1. /\ Last(c.free) \in Block /\ Last(c.free) \in ToSet(c.free)
        /\ IsInjective(Front(c.free)) /\ ToSet(Front(c.free)) = ToSet(c.free) \ {Last(c.free)}
    BY <1>1, <1>2, FrontQueue
  <2>. QED
    BY <1>2, <2>1
<1>. HIDE DEF b
<1>4. ASSUME NEW x \in Block
      PROVE  d.refs[x] = Cardinality(HoldersOf(d.tables, x)) + Cardinality(HoldersOf(d.prefixes, x))
  <2>. DEFINE new == IF Contains(m, x) THEN 1 ELSE 0
              old == Holds(c.tables, id, x)
  <2>1. /\ Cardinality(HoldersOf(d.tables, x)) = Cardinality(HoldersOf(c.tables, x)) - old + new
        /\ Cardinality(HoldersOf(c.tables, x)) \in Nat /\ Cardinality(HoldersOf(c.prefixes, x)) \in Nat
    BY HoldersWith, HoldersCounted DEF Accounted
  <2>2. c.refs[x] = Cardinality(HoldersOf(c.tables, x)) + Cardinality(HoldersOf(c.prefixes, x))
    BY CountsAre DEF Accounted
  <2>3. old = IF Contains(Table(c, id), x) THEN 1 ELSE 0
    <3>1. ~Contains(<<>>, x)
      BY DEF Contains
    <3>. QED
      BY <3>1 DEF Holds, Table
  <2>4. x = b => ~Contains(Table(c, id), x)
    <3>1. ~Contains(<<>>, x)
      BY DEF Contains
    <3>. QED
      BY <1>3, <3>1, HoldersKnown DEF Table
  <2>5. d.refs[x] = c.refs[x] - old + new
    <3>1. c.refs[x] \in Nat
      BY <1>1
    <3>2. CASE x = b
      BY <1>3, <2>3, <2>4, <3>2 DEF b
    <3>3. CASE x # b /\ x \in lost
      <4>1. ~Contains(m, x) /\ Contains(Table(c, id), x) /\ d.refs[x] = c.refs[x] - 1
        BY <3>3 DEF b
      <4>. QED
        BY <2>3, <3>1, <4>1
    <3>4. CASE x # b /\ x \notin lost
      <4>1. Contains(m, x) <=> Contains(Table(c, id), x)
        BY <3>4 DEF b
      <4>2. d.refs[x] = c.refs[x]
        BY <3>4 DEF b
      <4>3. new = old /\ new \in {0, 1}
        BY <2>3, <4>1
      <4>. HIDE DEF new, old
      <4>. QED
        BY <3>1, <4>2, <4>3
    <3>. QED
      BY <3>2, <3>3, <3>4
  <2>6. old \in {0, 1} /\ new \in {0, 1}
    BY <2>3
  <2>. HIDE DEF old, new
  <2>. QED
    BY <2>1, <2>2, <2>5, <2>6
<1>5. ToSet(d.free) = {x \in Block : d.refs[x] = 0}
  <2>1. \A x \in Block : d.refs[x] = 0 <=> c.refs[x] = 0 /\ x # b
    BY <1>1, <1>3 DEF b
  <2>. QED
    BY <1>2, <1>3, <2>1
<1>6. CountsHolders(d)
  BY <1>3, <1>4, <1>5, CountsAre
<1>7. IsFiniteSet(DOMAIN d.tables)
  BY HoldersWith DEF Accounted
<1>8. \A x \in DOMAIN d.tables : IsInjective(d.tables[x])
  BY DEF Accounted, With
<1>. QED
  BY <1>6, <1>7, <1>8 DEF Accounted

\* What the other tables and the snapshots stand for is untouched.
LEMMA StoredGrows ==
  ASSUME NEW known, NEW memory, NEW c \in GoodCaches(known, memory), c.free # <<>>,
         NEW id \in DOMAIN known, NEW m \in Seq(Block),
         NEW after, \A x \in Block \ {Last(c.free)} : after[x] = memory[x],
         BlocksFor(Len(known[id])) <= Len(m), ReadsAs(after, m, known[id]),
         NEW d, d.tables = With(c.tables, id, m), d.prefixes = c.prefixes
  PROVE  Stored(d, after, known)
<1>. DEFINE b == Last(c.free)
<1>1. c \in Caches /\ Accounted(c) /\ Stored(c, memory, known)
  BY DEF GoodCaches
<1>2. ToSet(c.free) = {x \in Block : c.refs[x] = 0} /\ c.free \in Seq(Block)
  BY <1>1, CountsAre, CacheFields DEF Accounted
<1>3. b \in Block /\ c.refs[b] = 0
  BY <1>2, FrontQueue
<1>. HIDE DEF b
<1>4. /\ DOMAIN d.tables = DOMAIN c.tables \cup {id} /\ Table(d, id) = m
      /\ \A x : x # id => Table(d, x) = Table(c, x)
  BY DEF With, Table
<1>5. ASSUME NEW T \in Seq(Block), ~Contains(T, b), NEW tokens \in Seq(Nat),
             BlocksFor(Len(tokens)) <= Len(T), ReadsAs(memory, T, tokens)
      PROVE  ReadsAs(after, T, tokens)
  <2>1. ASSUME NEW i \in 1 .. BlocksFor(Len(tokens)) PROVE after[T[i]] = memory[T[i]]
    <3>1. BlocksFor(Len(tokens)) \in Nat
      BY BlocksEnough
    <3>2. i \in 1 .. Len(T)
      BY <1>5, <3>1
    <3>3. T[i] \in Block /\ T[i] # b
      BY <1>5, <3>2 DEF Contains
    <3>. QED
      BY <3>3 DEF b
  <2>. QED
    BY <1>5, <2>1, ReadsSame
<1>6. known \in [DOMAIN known -> Seq(Nat)]
  BY <1>1, MapsAre DEF Stored
<1>7. ASSUME NEW x \in DOMAIN known
      PROVE  BlocksFor(Len(known[x])) <= Len(Table(d, x)) /\ ReadsAs(after, Table(d, x), known[x])
  <2>1. CASE x = id
    BY <1>4, <2>1
  <2>2. CASE x # id
    <3>1. /\ Table(d, x) = Table(c, x) /\ BlocksFor(Len(known[x])) <= Len(Table(c, x))
          /\ ReadsAs(memory, Table(c, x), known[x])
      BY <1>1, <1>4, <2>2 DEF Stored
    <3>2. Table(c, x) \in Seq(Block) /\ known[x] \in Seq(Nat)
      BY <1>1, <1>6, CacheFields
    <3>3. ~Contains(Table(c, x), b)
      <4>1. ~Contains(<<>>, b)
        BY DEF Contains
      <4>. QED
        BY <1>1, <1>3, <4>1, HoldersKnown DEF Table
    <3>. QED
      BY <1>5, <3>1, <3>2, <3>3
  <2>. QED
    BY <2>1, <2>2
<1>8. ASSUME NEW key \in DOMAIN c.prefixes
      PROVE  /\ key # <<>> /\ Len(c.prefixes[key]) = BlocksFor(Len(key))
             /\ ReadsAs(after, c.prefixes[key], key)
  <2>1. /\ key # <<>> /\ Len(c.prefixes[key]) = BlocksFor(Len(key))
        /\ ReadsAs(memory, c.prefixes[key], key)
    BY <1>1 DEF Stored
  <2>2. c.prefixes[key] \in Seq(Block) /\ key \in Seq(Nat) /\ ~Contains(c.prefixes[key], b)
    BY <1>1, <1>3, CacheFields, HoldersKnown
  <2>3. BlocksFor(Len(key)) <= Len(c.prefixes[key])
    BY <2>1, <2>2, BlocksEnough
  <2>. QED
    BY <1>5, <2>1, <2>2, <2>3
<1>. QED
  BY <1>1, <1>4, <1>7, <1>8 DEF Stored

------------------------------------------------------------------------------
\* Plans

Plans == [cache : Caches, copies : Seq(Copies), fits : BOOLEAN]

\* A step of a plan for id changes no other table.
OthersKept(c, d, id) ==
    /\ d.lengths = c.lengths
    /\ \A x : x # id => (x \in DOMAIN d.tables <=> x \in DOMAIN c.tables) /\ Table(d, x) = Table(c, x)

\* Evicting until a block is free.
LEMMA FreedGood ==
  ASSUME NEW known, NEW memory, NEW c \in GoodCaches(known, memory),
         NEW d, d = EvictedUntil(c, HasFree)
  PROVE  /\ d \in GoodCaches(known, memory) /\ d.tables = c.tables /\ d.lengths = c.lengths
         /\ d.memory = c.memory
<1>. DEFINE N == Cardinality(DOMAIN c.prefixes)
            done == {k \in 0 .. N : HasFree(Evictions(c)[k])}
            first == IF done = {} THEN N ELSE CHOOSE k \in done : \A j \in done : k <= j
<1>1. d = Evictions(c)[first]
  BY Zenon DEF EvictedUntil
<1>2. N \in Nat /\ done \in SUBSET (0 .. N)
  BY EvictionsGood
<1>. HIDE DEF N, done
<1>3. first \in 0 .. N
  <2>1. CASE done = {}
    BY <1>2, <2>1
  <2>2. CASE done # {}
    <3>1. done \in SUBSET Nat
      BY <1>2
    <3>2. \E k \in done : \A j \in done : k <= j
      BY <2>2, <3>1, LeastNatural
    <3>3. (CHOOSE k \in done : \A j \in done : k <= j) \in done
      BY <3>2
    <3>. QED
      BY <1>2, <2>2, <3>3
  <2>. QED
    BY <2>1, <2>2
<1>. HIDE DEF first
<1>. QED
  BY <1>1, <1>3, EvictionsGood DEF N

LEMMA AllocatedGood ==
  ASSUME NEW known, NEW memory, NEW plan \in Plans, plan.cache \in GoodCaches(known, memory),
         NEW id \in DOMAIN known, NEW p, p = Allocated(plan, id)
  PROVE  /\ p \in Plans /\ p.cache \in GoodCaches(known, memory)
         /\ p.copies = plan.copies /\ p.cache.memory = plan.cache.memory
         /\ p.fits => plan.fits
         /\ OthersKept(plan.cache, p.cache, id)
         /\ p.fits => /\ id \in DOMAIN p.cache.tables
                      /\ Len(Table(p.cache, id)) = Len(Table(plan.cache, id)) + 1
<1>. DEFINE c == EvictedUntil(plan.cache, HasFree)
            b == Last(c.free)
            m == Append(Table(c, id), b)
            t == With(c.tables, id, m)
            r == [c.refs EXCEPT ![b] = 1]
            f == Front(c.free)
            d == [c EXCEPT !.free = f, !.refs = r, !.tables = t]
<1>1. /\ c \in GoodCaches(known, memory) /\ c.tables = plan.cache.tables
      /\ c.lengths = plan.cache.lengths /\ c.memory = plan.cache.memory
  BY FreedGood
<1>2. p = IF ~plan.fits \/ ~HasFree(c) THEN [plan EXCEPT !.fits = FALSE] ELSE [plan EXCEPT !.cache = d]
  BY DEF Allocated
<1>3. plan.cache \in Caches /\ plan.copies \in Seq(Copies) /\ plan.fits \in BOOLEAN
  BY DEF Plans
<1>. HIDE DEF c
<1>4. CASE ~plan.fits \/ ~HasFree(c)
  <2>1. p = [plan EXCEPT !.fits = FALSE]
    BY <1>2, <1>4
  <2>2. p \in Plans /\ p.cache = plan.cache /\ p.copies = plan.copies /\ ~p.fits
    BY <2>1 DEF Plans
  <2>. QED
    BY <2>2 DEF OthersKept
<1>5. CASE plan.fits /\ HasFree(c)
  <2>1. /\ c \in Caches /\ Accounted(c) /\ Stored(c, memory, known) /\ c.free # <<>>
        /\ id \in Nat /\ DOMAIN known \subseteq Nat /\ known[id] \in Seq(Nat)
    BY <1>1, <1>5, MapsAre DEF GoodCaches, HasFree, Stored
  <2>2. /\ c.tables \in PartialMaps(Nat, Seq(Block)) /\ c.refs \in [Block -> Nat]
        /\ c.free \in Seq(Block) /\ Table(c, id) \in Seq(Block)
    BY <2>1, CacheFields
  <2>3. /\ b \in Block /\ b \in ToSet(c.free) /\ f \in Seq(Block)
    BY <2>1, <2>2, FrontQueue
  <2>4. c.refs[b] = 0
    BY <2>1, <2>3, CountsAre DEF Accounted
  <2>5. ~Contains(Table(c, id), b)
    <3>1. ~Contains(<<>>, b)
      BY DEF Contains
    <3>. QED
      BY <2>1, <2>3, <2>4, <3>1, HoldersKnown DEF Table
  <2>6. IsInjective(Table(c, id))
    <3>1. IsInjective(<<>>)
      BY DEF IsInjective
    <3>. QED
      BY <2>1, <3>1 DEF Accounted, Table
  <2>. DEFINE old == Table(c, id)
  <2>. HIDE DEF b, old
  <2>7. /\ m \in Seq(Block) /\ Len(m) = Len(old) + 1 /\ Len(old) \in Nat
        /\ \A i \in 1 .. Len(old) : m[i] = old[i] /\ m[Len(old) + 1] = b
    BY <2>2, <2>3 DEF old
  <2>8. IsInjective(m) /\ \A x \in Block : Contains(m, x) <=> x = b \/ Contains(old, x)
    <3>1. b \notin ToSet(old)
      BY <2>2, <2>5, ContainsIs DEF old
    <3>2. IsInjective(Append(old, b)) /\ ToSet(Append(old, b)) = ToSet(old) \cup {b}
          /\ Append(old, b) \in Seq(Block)
      BY <2>2, <2>3, <2>6, <3>1, AppendQueue DEF old
    <3>3. \A x \in Block : (Contains(m, x) <=> x \in ToSet(m)) /\ (Contains(old, x) <=> x \in ToSet(old))
      BY <2>2, <2>7, ContainsIs DEF old
    <3>. QED
      BY <3>2, <3>3 DEF old
  <2>9. t \in PartialMaps(Nat, Seq(Block)) /\ t = With(c.tables, id, m)
    <3>1. t \in PartialMaps(Nat, Seq(Block))
      BY <2>1, <2>2, <2>7, MapsWith
    <3>. QED
      BY <3>1
  <2>10. r \in [Block -> Nat] /\ \A x \in Block : r[x] = IF x = b THEN 1 ELSE c.refs[x]
    BY <2>2, <2>3
  <2>. HIDE DEF m, t, r, f
  <2>11. d \in Caches /\ d.tables = t /\ d.refs = r /\ d.free = f /\ d.prefixes = c.prefixes
         /\ d.lengths = c.lengths /\ d.memory = c.memory
    BY <2>1, <2>3, <2>9, <2>10 DEF Caches
  <2>12. p.cache = d /\ p.copies = plan.copies /\ p.fits = plan.fits /\ p \in Plans
    <3>1. p = [plan EXCEPT !.cache = d]
      BY <1>2, <1>5
    <3>. HIDE DEF d
    <3>. QED
      BY <2>11, <3>1 DEF Plans
  <2>. HIDE DEF d
  <2>13. Accounted(d)
    <3>. DEFINE lost == {}
    <3>1. \A x : x \notin lost
      OBVIOUS
    <3>. HIDE DEF lost
    <3>2. d.free = Front(c.free) /\ d.tables = With(c.tables, id, m)
      BY <2>9, <2>11 DEF f
    <3>3. \A x \in Block : d.refs[x] = IF x = Last(c.free) THEN 1
                                       ELSE IF x \in lost THEN c.refs[x] - 1 ELSE c.refs[x]
      BY <2>10, <2>11, <3>1 DEF b
    <3>4. \A x \in Block : Contains(m, x) <=>
             x = Last(c.free) \/ (Contains(Table(c, id), x) /\ x \notin lost)
      BY <2>8, <3>1 DEF b, old
    <3>5. \A x \in lost : x \in Block /\ Contains(Table(c, id), x) /\ c.refs[x] > 1
      BY <3>1
    <3>. QED
      BY <2>1, <2>7, <2>8, <2>11, <3>2, <3>3, <3>4, <3>5, TableGrows, ZenonT(60)
  <2>14. Stored(d, memory, known)
    <3>1. BlocksFor(Len(known[id])) <= Len(old) /\ ReadsAs(memory, old, known[id])
      BY <2>1 DEF Stored, old
    <3>2. BlocksFor(Len(known[id])) \in Nat
      BY <2>1, BlocksEnough
    <3>3. ReadsAs(memory, m, known[id])
      <4>1. \A i \in 1 .. BlocksFor(Len(known[id])) : memory[m[i]] = memory[old[i]]
        BY <2>7, <3>1, <3>2
      <4>. QED
        BY <2>1, <3>1, <4>1, ReadsSame
    <3>4. BlocksFor(Len(known[id])) <= Len(m)
      BY <2>7, <3>1, <3>2
    <3>5. d.tables = With(c.tables, id, m)
      BY <2>9, <2>11
    <3>. QED
      BY <1>1, <2>1, <2>7, <2>11, <3>3, <3>4, <3>5, StoredGrows
  <2>15. /\ OthersKept(plan.cache, d, id) /\ id \in DOMAIN d.tables
         /\ Table(d, id) = m /\ Table(plan.cache, id) = old
    <3>1. /\ DOMAIN t = DOMAIN c.tables \cup {id} /\ t[id] = m
          /\ \A x \in DOMAIN c.tables : x # id => t[x] = c.tables[x]
      BY <2>9 DEF With
    <3>. QED
      BY <1>1, <2>11, <3>1 DEF OthersKept, Table, old
  <2>16. d \in GoodCaches(known, memory) /\ d.memory = plan.cache.memory
    BY <1>1, <2>11, <2>13, <2>14 DEF GoodCaches
  <2>17. Len(Table(d, id)) = Len(Table(plan.cache, id)) + 1
    BY <2>7, <2>15
  <2>. QED
    BY <1>5, <2>12, <2>15, <2>16, <2>17
<1>. QED
  BY <1>3, <1>4, <1>5

\* Evicting until a block is free or the tail of id is nobody else's.
LEMMA FreedForTailGood ==
  ASSUME NEW known, NEW memory, NEW c \in GoodCaches(known, memory), NEW id,
         NEW d, d = RoomForTail(c, id)
  PROVE  /\ d \in GoodCaches(known, memory) /\ d.tables = c.tables /\ d.lengths = c.lengths
         /\ d.memory = c.memory
<1>. DEFINE N == Cardinality(DOMAIN c.prefixes)
            done == {k \in 0 .. N : HasFree(Evictions(c)[k]) \/ ~TailShared(Evictions(c)[k], id)}
            first == IF done = {} THEN N ELSE CHOOSE k \in done : \A j \in done : k <= j
<1>1. d = Evictions(c)[first]
  BY Zenon DEF RoomForTail, EvictedUntil
<1>2. N \in Nat /\ done \in SUBSET (0 .. N)
  BY EvictionsGood
<1>. HIDE DEF N, done
<1>3. first \in 0 .. N
  <2>1. CASE done = {}
    BY <1>2, <2>1
  <2>2. CASE done # {}
    <3>1. done \in SUBSET Nat
      BY <1>2
    <3>2. \E k \in done : \A j \in done : k <= j
      BY <2>2, <3>1, LeastNatural
    <3>3. (CHOOSE k \in done : \A j \in done : k <= j) \in done
      BY <3>2
    <3>. QED
      BY <1>2, <2>2, <3>3
  <2>. QED
    BY <2>1, <2>2
<1>. HIDE DEF first
<1>. QED
  BY <1>1, <1>3, EvictionsGood DEF N

\* A tail somebody else holds too is replaced by a block of its own, and what
\* attention will find through the table is the same.
LEMMA TailReplacedGood ==
  ASSUME NEW known, NEW plan \in Plans, Fitted(plan.cache),
         plan.cache \in GoodCaches(known, Resolved(plan.cache.memory, plan.copies)),
         NEW id \in DOMAIN known, NEW p, p = TailReplaced(plan, id)
  PROVE  /\ p \in Plans
         /\ p.cache \in GoodCaches(known, Resolved(p.cache.memory, p.copies))
         /\ p.fits => plan.fits
         /\ OthersKept(plan.cache, p.cache, id)
         /\ id \in DOMAIN p.cache.tables <=> id \in DOMAIN plan.cache.tables
         /\ Len(Table(p.cache, id)) = Len(Table(plan.cache, id))
<1>. DEFINE c == RoomForTail(plan.cache, id)
            memory == Resolved(plan.cache.memory, plan.copies)
            T == Table(c, id)
            old == Last(Table(c, id))
            b == Last(c.free)
            m == Append(Front(T), b)
            t == With(c.tables, id, m)
            r == [c.refs EXCEPT ![b] = 1, ![old] = @ - 1]
            f == Front(c.free)
            d == [c EXCEPT !.free = f, !.refs = r, !.tables = t]
            copy == [from |-> old, to |-> b]
<1>1. /\ c \in GoodCaches(known, memory) /\ c.tables = plan.cache.tables
      /\ c.lengths = plan.cache.lengths /\ c.memory = plan.cache.memory
  BY FreedForTailGood
<1>2. p = IF ~TailShared(c, id) THEN [plan EXCEPT !.cache = c]
          ELSE IF ~HasFree(c) THEN [plan EXCEPT !.fits = FALSE]
          ELSE [plan EXCEPT
                   !.cache = [c EXCEPT !.free = Front(@),
                                       !.refs[b] = 1, !.refs[old] = @ - 1,
                                       !.tables = With(@, id, Append(Front(Table(c, id)), b))],
                   !.copies = Append(@, [from |-> old, to |-> b])]
  BY Zenon DEF TailReplaced
<1>3. plan.cache \in Caches /\ plan.copies \in Seq(Copies) /\ plan.fits \in BOOLEAN
  BY DEF Plans
<1>4. memory \in Memories /\ plan.cache.memory \in Memories
  <2>1. plan.cache.memory \in Memories /\ Len(plan.copies) \in 0 .. Len(plan.copies)
    BY <1>3, CacheFields
  <2>2. \E it : memory = it[Len(plan.copies)] /\ \A n \in 0 .. Len(plan.copies) : it[n] \in Memories
    <3>1. \E it : /\ Resolved(plan.cache.memory, plan.copies) = it[Len(plan.copies)]
                  /\ it[0] = plan.cache.memory
                  /\ \A n \in 1 .. Len(plan.copies) : it[n] = Copied(it[n - 1], plan.copies[n])
                  /\ \A n \in 0 .. Len(plan.copies) : it[n] \in Memories
      BY <1>3, <2>1, ResolvedSteps
    <3>. QED
      BY <3>1, ZenonT(30)
  <2>. QED
    BY <2>1, <2>2
<1>. HIDE DEF c, memory
<1>5. /\ c \in Caches /\ Accounted(c) /\ Stored(c, memory, known)
      /\ id \in Nat /\ DOMAIN known \subseteq Nat /\ known[id] \in Seq(Nat)
  BY <1>1, MapsAre DEF GoodCaches, Stored
<1>6. \A x : Table(c, x) = Table(plan.cache, x)
  BY <1>1 DEF Table
<1>7. CASE ~TailShared(c, id)
  <2>1. p = [plan EXCEPT !.cache = c]
    BY <1>2, <1>7
  <2>2. p \in Plans /\ p.cache = c /\ p.copies = plan.copies /\ p.fits = plan.fits
    BY <1>5, <2>1 DEF Plans
  <2>. QED
    BY <1>1, <1>6, <2>2 DEF OthersKept, memory
<1>8. CASE TailShared(c, id) /\ ~HasFree(c)
  <2>1. p = [plan EXCEPT !.fits = FALSE]
    BY <1>2, <1>8
  <2>2. p \in Plans /\ p.cache = plan.cache /\ p.copies = plan.copies /\ ~p.fits
    BY <2>1 DEF Plans
  <2>. QED
    BY <2>2 DEF OthersKept
<1>9. CASE TailShared(c, id) /\ HasFree(c)
  <2>1. /\ c.tables \in PartialMaps(Nat, Seq(Block)) /\ c.refs \in [Block -> Nat]
        /\ c.free \in Seq(Block) /\ T \in Seq(Block) /\ c.free # <<>>
    BY <1>5, <1>9, CacheFields DEF HasFree
  <2>2. /\ id \in DOMAIN c.tables /\ T = c.tables[id] /\ IsInjective(T) /\ T # <<>>
    <3>1. Length(c, id) # 0
      <4>1. BlockSize \in Nat /\ BlockSize > 0
        BY CacheAssumption
      <4>2. 0 % BlockSize = 0
        BY <4>1
      <4>. QED
        BY <1>9, <4>2 DEF TailShared
    <3>2. id \in DOMAIN c.lengths /\ Length(c, id) = c.lengths[id]
      BY <3>1 DEF Length
    <3>3. id \in DOMAIN c.tables /\ Len(c.tables[id]) = BlocksFor(c.lengths[id])
      BY <1>1, <3>2 DEF Fitted
    <3>4. c.lengths[id] \in Nat /\ c.lengths[id] > 0
      BY <1>5, <3>1, <3>2, CacheFields
    <3>5. Len(c.tables[id]) > 0
      BY <3>3, <3>4, BlocksEnough
    <3>. QED
      BY <1>5, <3>3, <3>5 DEF Table, Accounted
  <2>3. /\ b \in Block /\ b \in ToSet(c.free) /\ f \in Seq(Block)
    BY <2>1, FrontQueue
  <2>4. c.refs[b] = 0
    BY <1>5, <2>3, CountsAre DEF Accounted
  <2>5. ~Contains(T, b)
    BY <1>5, <2>2, <2>3, <2>4, HoldersKnown
  <2>. DEFINE front == Front(T)
              n == Len(T)
  <2>6. /\ front \in Seq(Block) /\ Len(front) = n - 1 /\ n \in Nat \ {0}
        /\ \A i \in 1 .. n - 1 : front[i] = T[i]
        /\ old = T[n] /\ old \in Block /\ old \in ToSet(T)
        /\ IsInjective(front) /\ ToSet(front) = ToSet(T) \ {old}
    BY <2>1, <2>2, FrontQueue
  <2>7. c.refs[old] > 1
    BY <1>9 DEF TailShared
  <2>8. m = Append(front, b)
    BY <2>2
  <2>. HIDE DEF b, old, m, front, T
  <2>9. /\ m \in Seq(Block) /\ Len(m) = n
        /\ \A i \in 1 .. n - 1 : m[i] = T[i] /\ m[n] = b
    <3>. HIDE DEF n
    <3>. QED
      BY <2>3, <2>6, <2>8
  <2>10. m[n] = b
    <3>. HIDE DEF n
    <3>. QED
      BY <2>3, <2>6, <2>8
  <2>11. IsInjective(m) /\ \A x \in Block : Contains(m, x) <=> x = b \/ (Contains(T, x) /\ x # old)
    <3>1. b \notin ToSet(front)
      BY <2>1, <2>3, <2>5, <2>6, ContainsIs
    <3>2. IsInjective(Append(front, b)) /\ ToSet(Append(front, b)) = ToSet(front) \cup {b}
      BY <2>3, <2>6, <3>1, AppendQueue
    <3>3. \A x \in Block : (Contains(m, x) <=> x \in ToSet(m)) /\ (Contains(T, x) <=> x \in ToSet(T))
      BY <2>1, <2>9, ContainsIs
    <3>. QED
      BY <2>6, <2>8, <3>2, <3>3
  <2>12. t \in PartialMaps(Nat, Seq(Block)) /\ t = With(c.tables, id, m)
    BY <1>5, <2>1, <2>9, MapsWith
  <2>13. old # b
    BY <2>4, <2>7
  <2>14. r \in [Block -> Nat] /\ \A x \in Block :
             r[x] = IF x = b THEN 1 ELSE IF x = old THEN c.refs[x] - 1 ELSE c.refs[x]
    <3>1. c.refs[old] \in Nat /\ c.refs[old] - 1 \in Nat
      BY <2>1, <2>6, <2>7
    <3>. QED
      BY <2>1, <2>3, <2>6, <2>13, <3>1
  <2>15. copy \in Copies /\ copy.to = b /\ copy.from = old
    BY <2>3, <2>6 DEF Copies
  <2>16. p = [plan EXCEPT !.cache = d, !.copies = Append(plan.copies, copy)]
    <3>1. [c EXCEPT !.free = Front(@), !.refs[b] = 1, !.refs[old] = @ - 1,
                    !.tables = With(@, id, Append(Front(Table(c, id)), b))] = d
      BY Zenon DEF m, T
    <3>. HIDE DEF d
    <3>2. p = [plan EXCEPT !.cache = d, !.copies = Append(@, copy)]
      BY <1>2, <1>9, <3>1, Zenon
    <3>. QED
      BY <3>2
  <2>. HIDE DEF t, r, f, copy, n
  <2>17. d \in Caches /\ d.tables = t /\ d.refs = r /\ d.free = f /\ d.prefixes = c.prefixes
         /\ d.lengths = c.lengths /\ d.memory = c.memory
    BY <1>5, <2>3, <2>12, <2>14 DEF Caches
  <2>. HIDE DEF d
  <2>. DEFINE after == Copied(memory, copy)
  <2>18. /\ after = Resolved(plan.cache.memory, Append(plan.copies, copy))
         /\ Append(plan.copies, copy) \in Seq(Copies)
         /\ after[b] = memory[old] /\ \A x \in Block \ {b} : after[x] = memory[x]
    BY <1>3, <1>4, <2>15, ResolvedAppend, CopiedType DEF memory
  <2>19. p.cache = d /\ p.copies = Append(plan.copies, copy) /\ p.fits = plan.fits /\ p \in Plans
    BY <2>16, <2>17, <2>18 DEF Plans
  <2>. HIDE DEF after
  <2>20. Accounted(d)
    <3>. DEFINE lost == {old}
    <3>1. \A x : x \in lost <=> x = old
      OBVIOUS
    <3>. HIDE DEF lost
    <3>2. d.free = Front(c.free) /\ d.tables = With(c.tables, id, m)
      BY <2>12, <2>17 DEF f
    <3>3. \A x \in Block : d.refs[x] = IF x = Last(c.free) THEN 1
                                       ELSE IF x \in lost THEN c.refs[x] - 1 ELSE c.refs[x]
      BY <2>14, <2>17, <3>1 DEF b
    <3>4. \A x \in Block : Contains(m, x) <=>
             x = Last(c.free) \/ (Contains(Table(c, id), x) /\ x \notin lost)
      BY <2>11, <3>1 DEF b, T
    <3>5. \A x \in lost : x \in Block /\ Contains(Table(c, id), x) /\ c.refs[x] > 1
      BY <2>1, <2>6, <2>7, <3>1, ContainsIs DEF T
    <3>6. /\ c \in Caches /\ Accounted(c) /\ c.free # <<>> /\ id \in Nat
          /\ m \in Seq(Block) /\ IsInjective(m) /\ d \in Caches /\ d.prefixes = c.prefixes
      BY <1>5, <2>1, <2>9, <2>11, <2>17
    <3>. QED
      BY <3>2, <3>3, <3>4, <3>5, <3>6, TableGrows, ZenonT(60)
  <2>21. Stored(d, after, known)
    <3>1. BlocksFor(Len(known[id])) <= n /\ ReadsAs(memory, T, known[id])
      BY <1>5 DEF Stored, T, n
    <3>2. BlocksFor(Len(known[id])) \in Nat
      BY <1>5, BlocksEnough
    <3>3. ReadsAs(after, m, known[id])
      <4>1. ASSUME NEW i \in 1 .. BlocksFor(Len(known[id])) PROVE after[m[i]] = memory[T[i]]
        <5>1. CASE i = n
          BY <2>6, <2>10, <2>18, <5>1, SMTT(30)
        <5>2. CASE i # n
          <6>1. i \in 1 .. n - 1 /\ i \in 1 .. n
            BY <2>6, <3>1, <3>2, <5>2
          <6>2. m[i] = T[i] /\ T[i] \in Block
            BY <2>1, <2>9, <6>1 DEF n
          <6>3. T[i] # b
            BY <2>5, <6>1 DEF Contains, n
          <6>. QED
            BY <2>18, <6>2, <6>3
        <5>. QED
          BY <5>1, <5>2
      <4>. QED
        BY <1>5, <3>1, <4>1, ReadsSame
    <3>4. BlocksFor(Len(known[id])) <= Len(m)
      BY <2>9, <3>1
    <3>5. d.tables = With(c.tables, id, m)
      BY <2>12, <2>17
    <3>6. \A x \in Block \ {Last(c.free)} : after[x] = memory[x]
      BY <2>18 DEF b
    <3>. QED
      BY <1>1, <2>1, <2>9, <2>17, <3>3, <3>4, <3>5, <3>6, StoredGrows
  <2>22. /\ OthersKept(plan.cache, d, id) /\ id \in DOMAIN d.tables
         /\ Table(d, id) = m /\ Table(plan.cache, id) = T
    <3>1. /\ DOMAIN t = DOMAIN c.tables \cup {id} /\ t[id] = m
          /\ \A x \in DOMAIN c.tables : x # id => t[x] = c.tables[x]
      BY <2>12 DEF With
    <3>. QED
      BY <1>1, <2>17, <3>1 DEF OthersKept, Table, T
  <2>23. d \in GoodCaches(known, after) /\ d.memory = plan.cache.memory
    BY <1>1, <2>17, <2>20, <2>21 DEF GoodCaches
  <2>24. Len(Table(d, id)) = Len(Table(plan.cache, id))
    BY <2>9, <2>22 DEF n
  <2>25. after = Resolved(p.cache.memory, p.copies)
    BY <2>18, <2>19, <2>23
  <2>. QED
    BY <1>1, <2>2, <2>19, <2>22, <2>23, <2>24, <2>25
<1>. QED
  BY <1>7, <1>8, <1>9

\* Several blocks for the table of id.
LEMMA GrownGood ==
  ASSUME NEW known, NEW memory, NEW start \in Plans,
         start.fits => start.cache \in GoodCaches(known, memory),
         NEW id \in DOMAIN known, NEW N \in Nat,
         NEW p, p = Grown(start, id, N)
  PROVE  /\ p \in Plans
         /\ p.fits => /\ start.fits /\ p.cache \in GoodCaches(known, memory)
                      /\ p.copies = start.copies /\ p.cache.memory = start.cache.memory
                      /\ OthersKept(start.cache, p.cache, id)
                      /\ Len(Table(p.cache, id)) = Len(Table(start.cache, id)) + N
                      /\ id \in DOMAIN p.cache.tables <=> id \in DOMAIN start.cache.tables \/ N > 0
<1>. DEFINE Longer(n) == {q \in Plans : q.fits =>
                            /\ start.fits /\ q.cache \in GoodCaches(known, memory)
                            /\ q.copies = start.copies /\ q.cache.memory = start.cache.memory
                            /\ OthersKept(start.cache, q.cache, id)
                            /\ Len(Table(q.cache, id)) = Len(Table(start.cache, id)) + n
                            /\ id \in DOMAIN q.cache.tables <=> id \in DOMAIN start.cache.tables \/ n > 0}
            S == [n \in 0 .. N |-> Longer(n)]
            move == [n \in 1 .. N |-> [q \in Plans |-> Allocated(q, id)]]
            list == [i \in 1 .. N |-> i]
            it == CHOOSE h : h = [n \in 0 .. Len(list) |->
                                     IF n = 0 THEN start ELSE Allocated(h[n - 1], id)]
<1>1. p = it[Len(list)]
  BY Zenon DEF Grown, Iterated
<1>2. Len(list) = N
  OBVIOUS
<1>. HIDE DEF list
<1>3. start \in Longer(0)
  <2>1. start.cache \in Caches
    BY DEF Plans
  <2>2. Len(Table(start.cache, id)) \in Nat
    BY <2>1, CacheFields
  <2>. QED
    BY <2>2 DEF OthersKept
<1>4. ASSUME NEW n \in 1 .. N, NEW q \in Longer(n - 1) PROVE Allocated(q, id) \in Longer(n)
  <2>. DEFINE r == Allocated(q, id)
  <2>1. CASE ~q.fits
    <3>1. r = [q EXCEPT !.fits = FALSE]
      BY <2>1, Zenon DEF Allocated
    <3>. HIDE DEF r
    <3>2. r \in Plans /\ ~r.fits
      BY <3>1 DEF Plans
    <3>. QED
      BY <3>2 DEF r
  <2>2. CASE q.fits
    <3>1. /\ q \in Plans /\ start.fits /\ q.cache \in GoodCaches(known, memory)
          /\ q.copies = start.copies /\ q.cache.memory = start.cache.memory
          /\ OthersKept(start.cache, q.cache, id)
          /\ Len(Table(q.cache, id)) = Len(Table(start.cache, id)) + (n - 1)
          /\ id \in DOMAIN q.cache.tables <=> id \in DOMAIN start.cache.tables \/ n - 1 > 0
      BY <2>2
    <3>2. /\ r \in Plans /\ r.cache \in GoodCaches(known, memory)
          /\ r.copies = q.copies /\ r.cache.memory = q.cache.memory
          /\ OthersKept(q.cache, r.cache, id)
          /\ r.fits => /\ id \in DOMAIN r.cache.tables
                       /\ Len(Table(r.cache, id)) = Len(Table(q.cache, id)) + 1
      BY <3>1, AllocatedGood
    <3>. HIDE DEF r, Longer
    <3>3. OthersKept(start.cache, r.cache, id)
      BY <3>1, <3>2 DEF OthersKept
    <3>4. Len(Table(start.cache, id)) \in Nat
      <4>1. start.cache \in Caches
        BY DEF Plans
      <4>. QED
        BY <4>1, CacheFields
    <3>5. n > 0 /\ n \in Nat
      OBVIOUS
    <3>6. r.fits => Len(Table(r.cache, id)) = Len(Table(start.cache, id)) + n
      BY <3>1, <3>2, <3>4
    <3>7. r \in Longer(n)
      BY <3>1, <3>2, <3>3, <3>5, <3>6 DEF Longer
    <3>. QED
      BY <3>7 DEF r
  <2>. QED
    BY <2>1, <2>2 DEF Plans
<1>5. /\ \A n \in 0 .. N : S[n] = Longer(n)
      /\ \A n \in 0 .. N : Longer(n) \subseteq Plans
      /\ 0 \in 0 .. N /\ N \in 0 .. N
      /\ \A n \in 1 .. N : n \in 0 .. N /\ n - 1 \in 0 .. N /\ n # 0
      /\ \A n \in 0 .. N : n = 0 \/ n \in 1 .. N
  OBVIOUS
<1>. HIDE DEF S
<1>6. p \in Longer(N)
  <2>. HIDE DEF Longer
  <2>1. \A n \in 1 .. N : \A q \in S[n - 1] : move[n][q] = Allocated(q, id) /\ move[n][q] \in S[n]
    BY <1>4, <1>5
  <2>. HIDE DEF move
  <2>2. PICK f : Orbit(f, N, start, move) /\ \A n \in 0 .. N : f[n] \in S[n]
    <3>1. start \in S[0] /\ \A n \in 1 .. N : \A d \in S[n - 1] : move[n][d] \in S[n]
      BY <1>3, <1>5, <2>1
    <3>. QED
      BY <3>1, OrbitExists
  <2>3. f = [n \in 0 .. N |-> IF n = 0 THEN start ELSE Allocated(f[n - 1], id)]
    <3>1. f = [n \in 0 .. N |-> IF n = 0 THEN start ELSE move[n][f[n - 1]]]
      BY <2>2 DEF Orbit
    <3>2. \A n \in 0 .. N : n # 0 => move[n][f[n - 1]] = Allocated(f[n - 1], id)
      BY <1>5, <2>1, <2>2
    <3>. QED
      BY <3>1, <3>2, Zenon
  <2>4. it = [n \in 0 .. N |-> IF n = 0 THEN start ELSE Allocated(it[n - 1], id)]
    BY <1>2, <2>3, Zenon
  <2>. HIDE DEF it
  <2>5. it[0] = start /\ \A n \in 1 .. N : it[n] = Allocated(it[n - 1], id)
    <3>1. \A n \in 0 .. N : it[n] = IF n = 0 THEN start ELSE Allocated(it[n - 1], id)
      BY <2>4, Zenon
    <3>. QED
      BY <1>5, <3>1, Zenon
  <2>. DEFINE X == {n \in 0 .. N : it[n] \in Longer(n)}
  <2>6. \A n \in 0 .. N : n \in X
    <3>1. 0 \in X
      BY <1>3, <1>5, <2>5
    <3>2. \A n \in 1 .. N : n - 1 \in X => n \in X
      BY <1>4, <1>5, <2>5
    <3>. HIDE DEF X
    <3>. QED
      BY <3>1, <3>2, Stepwise
  <2>7. it[N] \in Longer(N)
    BY <1>5, <2>6
  <2>. QED
    BY <1>1, <1>2, <2>7
<1>. QED
  BY <1>6

LEMMA LengthsChanged ==
  ASSUME NEW known, NEW memory, NEW c \in GoodCaches(known, memory),
         NEW l \in PartialMaps(Nat, Nat), NEW d, d = [c EXCEPT !.lengths = l]
  PROVE  /\ d \in GoodCaches(known, memory) /\ d.lengths = l /\ d.tables = c.tables
         /\ d.memory = c.memory
<1>1. c \in Caches /\ Accounted(c) /\ Stored(c, memory, known)
  BY DEF GoodCaches
<1>2. /\ d \in Caches /\ d.lengths = l /\ d.tables = c.tables /\ d.prefixes = c.prefixes
      /\ d.refs = c.refs /\ d.free = c.free /\ d.memory = c.memory
  BY <1>1 DEF Caches
<1>3. CountsHolders(d)
  BY <1>1, <1>2, CountsAre DEF Accounted
<1>4. \A x : Table(d, x) = Table(c, x)
  BY <1>2 DEF Table
<1>. QED
  BY <1>1, <1>2, <1>3, <1>4 DEF GoodCaches, Accounted, Stored

\* What a batch asks of the table of a request.
TargetsOf == [id : Nat, length : Nat \ {0}]

\* One target of a plan that fits.
LEMMA TargetedGood ==
  ASSUME NEW known, NEW plan \in Plans, plan.fits, Fitted(plan.cache),
         plan.cache \in GoodCaches(known, Resolved(plan.cache.memory, plan.copies)),
         NEW target \in TargetsOf, target.id \in DOMAIN known,
         Length(plan.cache, target.id) <= target.length,
         NEW p, p = Targeted(plan, target)
  PROVE  /\ p \in Plans
         /\ p.fits => /\ p.cache \in GoodCaches(known, Resolved(p.cache.memory, p.copies))
                      /\ Fitted(p.cache)
                      /\ DOMAIN p.cache.tables = DOMAIN plan.cache.tables \cup {target.id}
                      /\ Length(p.cache, target.id) = target.length
                      /\ \A x \in Nat : x # target.id => Length(p.cache, x) = Length(plan.cache, x)
<1>. DEFINE c == plan.cache
            id == target.id
            start == IF Length(c, id) < target.length /\ TailShared(c, id)
                     THEN TailReplaced(plan, id) ELSE plan
            N == BlocksFor(target.length) - Len(Table(c, id))
            g == Grown(start, id, N)
            l == With(g.cache.lengths, id, target.length)
            d == [g.cache EXCEPT !.lengths = l]
<1>1. p = [g EXCEPT !.cache = d]
  BY Zenon DEF Targeted
<1>2. id \in Nat /\ target.length \in Nat /\ target.length > 0 /\ id \in DOMAIN known
  BY DEF TargetsOf
<1>3. /\ start \in Plans
      /\ start.fits => /\ start.cache \in GoodCaches(known, Resolved(start.cache.memory, start.copies))
                       /\ OthersKept(c, start.cache, id)
                       /\ id \in DOMAIN start.cache.tables <=> id \in DOMAIN c.tables
                       /\ Len(Table(start.cache, id)) = Len(Table(c, id))
  <2>1. CASE Length(c, id) < target.length /\ TailShared(c, id)
    <3>1. start = TailReplaced(plan, id)
      BY <2>1
    <3>. HIDE DEF start
    <3>. QED
      BY <1>2, <3>1, TailReplacedGood
  <2>2. CASE ~(Length(c, id) < target.length /\ TailShared(c, id))
    <3>1. start = plan
      BY <2>2, Zenon
    <3>. HIDE DEF start
    <3>. QED
      BY <3>1 DEF OthersKept
  <2>. QED
    BY <2>1, <2>2
<1>. HIDE DEF start
<1>4. /\ c \in Caches /\ Length(c, id) \in Nat
      /\ Len(Table(c, id)) = BlocksFor(Length(c, id))
  <2>1. c \in Caches
    BY DEF Plans
  <2>2. Length(c, id) \in Nat
    BY <2>1, CacheFields
  <2>3. Len(Table(c, id)) = BlocksFor(Length(c, id))
    BY NoBlocks DEF Fitted, Table, Length
  <2>. QED
    BY <2>1, <2>2, <2>3
<1>5. /\ N \in Nat /\ BlocksFor(target.length) = Len(Table(c, id)) + N /\ BlocksFor(target.length) > 0
      /\ Len(Table(c, id)) \in Nat
  <2>. DEFINE t == target.length
              o == Length(c, id)
  <2>1. t \in Nat /\ t > 0 /\ o \in Nat /\ o <= t
    BY <1>2, <1>4
  <2>. HIDE DEF t, o
  <2>2. BlocksFor(t) \in Nat /\ BlocksFor(t) > 0 /\ BlocksFor(o) \in Nat /\ BlocksFor(o) <= BlocksFor(t)
    BY <2>1, BlocksEnough
  <2>3. Len(Table(c, id)) = BlocksFor(o) /\ N = BlocksFor(t) - Len(Table(c, id))
    BY <1>4 DEF o, t
  <2>. HIDE DEF N
  <2>4. N \in Nat /\ BlocksFor(t) = Len(Table(c, id)) + N
    BY <2>2, <2>3
  <2>. QED
    BY <2>2, <2>3, <2>4 DEF t
<1>6. id \in DOMAIN c.tables \/ N > 0
  <2>1. id \notin DOMAIN c.tables => Len(Table(c, id)) = 0
    BY DEF Table
  <2>. QED
    BY <1>5, <2>1
<1>. HIDE DEF N
<1>7. /\ g \in Plans
      /\ g.fits => /\ start.fits
                   /\ g.cache \in GoodCaches(known, Resolved(start.cache.memory, start.copies))
                   /\ g.copies = start.copies /\ g.cache.memory = start.cache.memory
                   /\ OthersKept(start.cache, g.cache, id)
                   /\ Len(Table(g.cache, id)) = Len(Table(start.cache, id)) + N
                   /\ id \in DOMAIN g.cache.tables <=> id \in DOMAIN start.cache.tables \/ N > 0
  <2>. DEFINE memory == Resolved(start.cache.memory, start.copies)
  <2>1. start.fits => start.cache \in GoodCaches(known, memory)
    BY <1>3
  <2>2. start \in Plans /\ N \in Nat /\ id \in DOMAIN known
    BY <1>2, <1>3, <1>5
  <2>. HIDE DEF memory
  <2>3. /\ g \in Plans
        /\ g.fits => /\ start.fits /\ g.cache \in GoodCaches(known, memory)
                     /\ g.copies = start.copies /\ g.cache.memory = start.cache.memory
                     /\ OthersKept(start.cache, g.cache, id)
                     /\ Len(Table(g.cache, id)) = Len(Table(start.cache, id)) + N
                     /\ id \in DOMAIN g.cache.tables <=> id \in DOMAIN start.cache.tables \/ N > 0
    BY <2>1, <2>2, GrownGood
  <2>. QED
    BY <2>3 DEF memory
<1>. HIDE DEF g
<1>8. g.cache \in Caches /\ g.cache.lengths \in PartialMaps(Nat, Nat)
  BY <1>7, CacheFields DEF Plans
<1>9. l \in PartialMaps(Nat, Nat)
  BY <1>2, <1>8, MapsWith
<1>10. /\ DOMAIN l = DOMAIN g.cache.lengths \cup {id} /\ l[id] = target.length
       /\ \A x \in DOMAIN g.cache.lengths : x # id => l[x] = g.cache.lengths[x]
  BY DEF With
<1>. HIDE DEF l
<1>11. d \in Caches /\ d.lengths = l /\ d.tables = g.cache.tables /\ d.memory = g.cache.memory
  BY <1>8, <1>9 DEF Caches
<1>12. p \in Plans /\ p.cache = d /\ p.copies = g.copies /\ p.fits = g.fits
  <2>. HIDE DEF d
  <2>. QED
    BY <1>1, <1>7, <1>11 DEF Plans
<1>13. ASSUME p.fits
       PROVE  /\ d \in GoodCaches(known, Resolved(p.cache.memory, p.copies))
              /\ Fitted(d)
              /\ DOMAIN d.tables = DOMAIN c.tables \cup {id}
              /\ Length(d, id) = target.length
              /\ \A x : x # id => Length(d, x) = Length(c, x)
  <2>1. /\ start.fits
        /\ g.cache \in GoodCaches(known, Resolved(start.cache.memory, start.copies))
        /\ g.copies = start.copies /\ g.cache.memory = start.cache.memory
        /\ OthersKept(start.cache, g.cache, id)
        /\ Len(Table(g.cache, id)) = Len(Table(start.cache, id)) + N
        /\ id \in DOMAIN g.cache.tables <=> id \in DOMAIN start.cache.tables \/ N > 0
    BY <1>7, <1>12, <1>13
  <2>2. /\ OthersKept(c, start.cache, id)
        /\ id \in DOMAIN start.cache.tables <=> id \in DOMAIN c.tables
        /\ Len(Table(start.cache, id)) = Len(Table(c, id))
    BY <1>3, <2>1
  <2>3. d \in GoodCaches(known, Resolved(p.cache.memory, p.copies))
    <3>1. d \in GoodCaches(known, Resolved(start.cache.memory, start.copies))
      BY <1>9, <2>1, LengthsChanged
    <3>. HIDE DEF d
    <3>. QED
      BY <1>11, <1>12, <2>1, <3>1
  <2>. HIDE DEF d
  <2>4. OthersKept(c, g.cache, id)
    BY <2>1, <2>2 DEF OthersKept
  <2>5. id \in DOMAIN d.tables /\ Len(Table(d, id)) = BlocksFor(target.length)
    <3>1. Table(d, id) = Table(g.cache, id)
      BY <1>11 DEF Table
    <3>. QED
      BY <1>5, <1>6, <1>11, <2>1, <2>2, <3>1
  <2>6. DOMAIN d.tables = DOMAIN c.tables \cup {id}
    BY <1>11, <2>4, <2>5 DEF OthersKept
  <2>7. DOMAIN d.lengths = DOMAIN d.tables
    BY <1>10, <1>11, <2>4, <2>6 DEF OthersKept, Fitted
  <2>8. Length(d, id) = target.length /\ \A x : x # id => Length(d, x) = Length(c, x)
    BY <1>10, <1>11, <2>4 DEF OthersKept, Length
  <2>9. ASSUME NEW x \in DOMAIN d.tables PROVE Len(d.tables[x]) = BlocksFor(d.lengths[x])
    <3>1. CASE x = id
      BY <1>10, <1>11, <2>5, <3>1 DEF Table
    <3>2. CASE x # id
      <4>1. x \in DOMAIN c.tables /\ x \in DOMAIN c.lengths /\ x \in DOMAIN g.cache.lengths
        BY <2>6, <3>2, <2>4 DEF Fitted, OthersKept
      <4>2. d.lengths[x] = c.lengths[x]
        BY <1>10, <1>11, <2>4, <3>2, <4>1 DEF OthersKept
      <4>3. d.tables[x] = c.tables[x]
        <5>1. Table(g.cache, x) = Table(c, x)
          BY <2>4, <3>2 DEF OthersKept
        <5>. QED
          BY <1>11, <4>1, <5>1 DEF Table
      <4>. QED
        BY <4>1, <4>2, <4>3 DEF Fitted
    <3>. QED
      BY <3>1, <3>2
  <2>10. Fitted(d)
    BY <2>7, <2>9 DEF Fitted
  <2>. QED
    BY <2>3, <2>6, <2>8, <2>10
<1>. HIDE DEF d
<1>. QED
  BY <1>12, <1>13

\* A plan for a batch.
LEMMA PlannedGood ==
  ASSUME NEW known, NEW c, c \in GoodCaches(known, c.memory), Fitted(c),
         NEW targets \in Seq(TargetsOf),
         \A i, j \in 1 .. Len(targets) : targets[i].id = targets[j].id => i = j,
         \A i \in 1 .. Len(targets) : /\ targets[i].id \in DOMAIN known
                                      /\ Length(c, targets[i].id) <= targets[i].length,
         NEW p, p = Planned(c, targets)
  PROVE  /\ p \in Plans
         /\ p.fits =>
              /\ p.cache \in GoodCaches(known, Resolved(p.cache.memory, p.copies)) /\ Fitted(p.cache)
              /\ DOMAIN p.cache.tables = DOMAIN c.tables \cup {targets[i].id : i \in 1 .. Len(targets)}
              /\ \A i \in 1 .. Len(targets) : Length(p.cache, targets[i].id) = targets[i].length
              /\ \A x \in Nat : x \notin {targets[i].id : i \in 1 .. Len(targets)} =>
                    Length(p.cache, x) = Length(c, x)
<1>. DEFINE N == Len(targets)
            start == [cache |-> c, copies |-> <<>>, fits |-> TRUE]
            Reached(n) == {q \in Plans : q.fits =>
                /\ q.cache \in GoodCaches(known, Resolved(q.cache.memory, q.copies))
                /\ Fitted(q.cache)
                /\ DOMAIN q.cache.tables = DOMAIN c.tables \cup {targets[i].id : i \in 1 .. n}
                /\ \A i \in 1 .. N : i <= n => Length(q.cache, targets[i].id) = targets[i].length
                /\ \A x \in Nat : x \notin {targets[i].id : i \in 1 .. n} =>
                      Length(q.cache, x) = Length(c, x)}
            it == CHOOSE h : h = [n \in 0 .. Len(targets) |->
                                     IF n = 0 THEN start ELSE Targeted(h[n - 1], targets[n])]
<1>1. p = it[N]
  BY Zenon DEF Planned, Iterated
<1>2. N \in Nat /\ \A n \in 1 .. N : targets[n] \in TargetsOf
  OBVIOUS
<1>. HIDE DEF N
<1>3. start \in Reached(0)
  <2>1. c \in Caches /\ c.memory \in Memories
    BY CacheFields DEF GoodCaches
  <2>2. Resolved(c.memory, <<>>) = c.memory
    <3>. DEFINE none == <<>>
    <3>1. none \in Seq(Copies) /\ Len(none) = 0
      OBVIOUS
    <3>. HIDE DEF none
    <3>. DEFINE m == c.memory
    <3>2. m \in Memories
      BY <2>1
    <3>. HIDE DEF m
    <3>3. PICK h : /\ Resolved(m, none) = h[Len(none)]
                   /\ h[0] = m
                   /\ \A n \in 1 .. Len(none) : h[n] = Copied(h[n - 1], none[n])
                   /\ \A n \in 0 .. Len(none) : h[n] \in Memories
      BY <3>1, <3>2, ResolvedSteps, Zenon
    <3>4. Resolved(c.memory, none) = c.memory
      BY <3>1, <3>3 DEF m
    <3>. QED
      BY <3>4 DEF none
  <2>3. start \in Plans /\ start.cache = c /\ start.copies = <<>> /\ start.fits
    BY <2>1 DEF Plans
  <2>. HIDE DEF start
  <2>4. \A i \in 1 .. N : ~(i <= 0) /\ i > 0
    BY <1>2
  <2>5. DOMAIN c.tables = DOMAIN c.tables \cup {targets[i].id : i \in 1 .. 0}
    OBVIOUS
  <2>. QED
    BY <2>2, <2>3, <2>4, <2>5
<1>4. ASSUME NEW n \in 1 .. N, NEW q \in Reached(n - 1) PROVE Targeted(q, targets[n]) \in Reached(n)
  <2>. DEFINE r == Targeted(q, targets[n])
  <2>1. CASE ~q.fits
    <3>1. r = q
      BY <2>1, Zenon DEF Targeted
    <3>. QED
      BY <2>1, <3>1
  <2>2. CASE q.fits
    <3>1. /\ q \in Plans /\ q.cache \in GoodCaches(known, Resolved(q.cache.memory, q.copies))
          /\ Fitted(q.cache)
          /\ DOMAIN q.cache.tables = DOMAIN c.tables \cup {targets[i].id : i \in 1 .. n - 1}
          /\ \A i \in 1 .. N : i <= n - 1 => Length(q.cache, targets[i].id) = targets[i].length
          /\ \A x \in Nat : x \notin {targets[i].id : i \in 1 .. n - 1} => Length(q.cache, x) = Length(c, x)
      BY <2>2
    <3>2. /\ n \in Nat /\ n > n - 1 /\ targets[n] \in TargetsOf
          /\ \A i \in 1 .. N : (i <= n <=> i <= n - 1 \/ i = n) /\ (i > n => i > n - 1 /\ i # n)
                               /\ (i <= n - 1 => i # n)
          /\ 1 .. n = (1 .. n - 1) \cup {n}
      BY <1>2
    <3>. DEFINE t == targets[n]
    <3>3. t.id \in DOMAIN known /\ Length(q.cache, t.id) <= t.length /\ t \in TargetsOf
      <4>1. t.id \in DOMAIN known /\ Length(c, t.id) <= t.length /\ t \in TargetsOf
        BY <3>2 DEF N
      <4>2. t.id \notin {targets[i].id : i \in 1 .. n - 1}
        <5>1. \A i \in 1 .. n - 1 : i \in 1 .. N /\ i # n
          BY <1>2
        <5>. QED
          BY <5>1 DEF N
      <4>3. t.id \in Nat
        BY <4>1 DEF TargetsOf
      <4>. QED
        BY <3>1, <4>1, <4>2, <4>3
    <3>. HIDE DEF Reached
    <3>4. /\ r \in Plans
          /\ r.fits => /\ r.cache \in GoodCaches(known, Resolved(r.cache.memory, r.copies))
                       /\ Fitted(r.cache)
                       /\ DOMAIN r.cache.tables = DOMAIN q.cache.tables \cup {t.id}
                       /\ Length(r.cache, t.id) = t.length
                       /\ \A x \in Nat : x # t.id => Length(r.cache, x) = Length(q.cache, x)
      <4>1. r = Targeted(q, t)
        OBVIOUS
      <4>. HIDE DEF r, t, start, it
      <4>2. /\ q \in Plans /\ q.fits /\ Fitted(q.cache)
            /\ q.cache \in GoodCaches(known, Resolved(q.cache.memory, q.copies))
        BY <2>2, <3>1
      <4>3. r \in Plans /\ (r.fits => Fitted(r.cache))
        BY <3>3, <4>1, <4>2, TargetedGood
      <4>4. r.fits => r.cache \in GoodCaches(known, Resolved(r.cache.memory, r.copies))
        BY <3>3, <4>1, <4>2, TargetedGood
      <4>5. r.fits => Length(r.cache, t.id) = t.length
        BY <3>3, <4>1, <4>2, TargetedGood
      <4>6. r.fits => DOMAIN r.cache.tables = DOMAIN q.cache.tables \cup {t.id}
        BY <3>3, <4>1, <4>2, TargetedGood
      <4>7. r.fits => \A x \in Nat : x # t.id => Length(r.cache, x) = Length(q.cache, x)
        BY <3>3, <4>1, <4>2, TargetedGood
      <4>. QED
        BY <4>3, <4>4, <4>5, <4>6, <4>7
    <3>. HIDE DEF r
    <3>5. {targets[i].id : i \in 1 .. n} = {targets[i].id : i \in 1 .. n - 1} \cup {t.id}
      BY <3>2
    <3>6. \A i \in 1 .. N : targets[i].id \in Nat /\ (i # n => targets[i].id # t.id)
      <4>1. \A i \in 1 .. N : targets[i] \in TargetsOf
        BY <1>2
      <4>2. \A i \in 1 .. N : i # n => targets[i].id # t.id
        BY DEF N
      <4>. HIDE DEF t
      <4>. QED
        BY <4>1, <4>2 DEF TargetsOf
    <3>7. r.fits =>
             /\ DOMAIN r.cache.tables = DOMAIN c.tables \cup {targets[i].id : i \in 1 .. n}
             /\ \A i \in 1 .. N : i <= n => Length(r.cache, targets[i].id) = targets[i].length
             /\ \A x \in Nat : x \notin {targets[i].id : i \in 1 .. n} => Length(r.cache, x) = Length(c, x)
      <4>1. ASSUME r.fits PROVE DOMAIN r.cache.tables = DOMAIN c.tables \cup {targets[i].id : i \in 1 .. n}
        BY <3>1, <3>4, <3>5, <4>1
      <4>2. ASSUME r.fits, NEW i \in 1 .. N, i <= n PROVE Length(r.cache, targets[i].id) = targets[i].length
        BY <3>1, <3>2, <3>4, <3>6, <4>2
      <4>3. ASSUME r.fits, NEW x \in Nat, x \notin {targets[i].id : i \in 1 .. n}
            PROVE  Length(r.cache, x) = Length(c, x)
        <5>1. x # t.id /\ x \notin {targets[i].id : i \in 1 .. n - 1}
          BY <3>5, <4>3
        <5>. HIDE DEF t
        <5>. QED
          BY <3>1, <3>4, <4>3, <5>1
      <4>. QED
        BY <4>1, <4>2, <4>3
    <3>8. r \in Reached(n)
      BY <3>4, <3>7 DEF Reached
    <3>. QED
      BY <3>8 DEF r
  <2>. QED
    BY <2>1, <2>2 DEF Plans
<1>5. N = Len(targets)
  BY DEF N
<1>. HIDE DEF start
<1>. DEFINE S == [n \in 0 .. N |-> Reached(n)]
            move == [n \in 1 .. N |-> [q \in Plans |-> Targeted(q, targets[n])]]
<1>6. /\ \A n \in 0 .. N : S[n] = Reached(n)
      /\ \A n \in 0 .. N : Reached(n) \subseteq Plans
      /\ 0 \in 0 .. N /\ N \in 0 .. N
      /\ \A n \in 1 .. N : n \in 0 .. N /\ n - 1 \in 0 .. N /\ n # 0
      /\ \A n \in 0 .. N : n = 0 \/ n \in 1 .. N
  BY <1>2
<1>. HIDE DEF S, Reached
<1>7. \A n \in 1 .. N : \A q \in S[n - 1] : move[n][q] = Targeted(q, targets[n]) /\ move[n][q] \in S[n]
  BY <1>4, <1>6
<1>. HIDE DEF move
<1>8. PICK f : Orbit(f, N, start, move) /\ \A n \in 0 .. N : f[n] \in S[n]
  <2>1. start \in S[0] /\ \A n \in 1 .. N : \A d \in S[n - 1] : move[n][d] \in S[n]
    BY <1>3, <1>6, <1>7
  <2>. QED
    BY <1>2, <2>1, OrbitExists
<1>9. f = [n \in 0 .. N |-> IF n = 0 THEN start ELSE Targeted(f[n - 1], targets[n])]
  <2>1. f = [n \in 0 .. N |-> IF n = 0 THEN start ELSE move[n][f[n - 1]]]
    BY <1>8 DEF Orbit
  <2>2. \A n \in 0 .. N : n # 0 => move[n][f[n - 1]] = Targeted(f[n - 1], targets[n])
    BY <1>6, <1>7, <1>8
  <2>. QED
    BY <2>1, <2>2, Zenon
<1>10. it = [n \in 0 .. N |-> IF n = 0 THEN start ELSE Targeted(it[n - 1], targets[n])]
  BY <1>5, <1>9, Zenon
<1>. HIDE DEF it
<1>11. it[0] = start /\ \A n \in 1 .. N : it[n] = Targeted(it[n - 1], targets[n])
  <2>1. \A n \in 0 .. N : it[n] = IF n = 0 THEN start ELSE Targeted(it[n - 1], targets[n])
    BY <1>10, Zenon
  <2>. QED
    BY <1>6, <2>1, Zenon
<1>. DEFINE X == {n \in 0 .. N : it[n] \in Reached(n)}
<1>12. \A n \in 0 .. N : n \in X
  <2>1. 0 \in X
    BY <1>3, <1>6, <1>11
  <2>2. \A n \in 1 .. N : n - 1 \in X => n \in X
    BY <1>4, <1>6, <1>11
  <2>. HIDE DEF X
  <2>. QED
    BY <1>2, <2>1, <2>2, Stepwise
<1>13. it[N] \in Reached(N)
  BY <1>6, <1>12
<1>14. p \in Reached(N)
  BY <1>1, <1>13
<1>15. \A i \in 1 .. N : i <= N
  BY <1>2
<1>. QED
  BY <1>5, <1>14, <1>15 DEF Reached

------------------------------------------------------------------------------
\* The memory changes

LEMMA MemoryChanged ==
  ASSUME NEW known, NEW old, NEW c \in GoodCaches(known, old), NEW memory \in Memories,
         Stored(c, memory, known), NEW d, d = [c EXCEPT !.memory = memory]
  PROVE  /\ d \in GoodCaches(known, memory) /\ d.lengths = c.lengths /\ d.tables = c.tables
         /\ d.memory = memory /\ d.refs = c.refs
<1>1. c \in Caches /\ Accounted(c)
  BY DEF GoodCaches
<1>2. /\ d \in Caches /\ d.lengths = c.lengths /\ d.tables = c.tables /\ d.prefixes = c.prefixes
      /\ d.refs = c.refs /\ d.free = c.free /\ d.memory = memory
  BY <1>1 DEF Caches
<1>3. CountsHolders(d)
  BY <1>1, <1>2, CountsAre DEF Accounted
<1>4. \A x : Table(d, x) = Table(c, x)
  BY <1>2 DEF Table
<1>. QED
  BY <1>1, <1>2, <1>3, <1>4 DEF GoodCaches, Accounted, Stored

\* A plan that fits is committed.
LEMMA CommittedGood ==
  ASSUME NEW known, NEW plan \in Plans, Fitted(plan.cache),
         plan.cache \in GoodCaches(known, Resolved(plan.cache.memory, plan.copies)),
         NEW d, d = Committed(plan)
  PROVE  /\ d \in GoodCaches(known, d.memory) /\ Fitted(d)
         /\ d.lengths = plan.cache.lengths /\ d.tables = plan.cache.tables
<1>. DEFINE c == plan.cache
            memory == Resolved(c.memory, plan.copies)
<1>1. c \in Caches /\ plan.copies \in Seq(Copies) /\ c.memory \in Memories
  BY CacheFields DEF Plans
<1>2. memory \in Memories
  <2>. DEFINE m == c.memory
              copies == plan.copies
  <2>1. m \in Memories /\ copies \in Seq(Copies)
    BY <1>1
  <2>. HIDE DEF m, copies
  <2>2. PICK h : /\ Resolved(m, copies) = h[Len(copies)]
                 /\ h[0] = m
                 /\ \A n \in 1 .. Len(copies) : h[n] = Copied(h[n - 1], copies[n])
                 /\ \A n \in 0 .. Len(copies) : h[n] \in Memories
    BY <2>1, ResolvedSteps, Zenon
  <2>3. Len(copies) \in 0 .. Len(copies)
    BY <2>1
  <2>4. Resolved(m, copies) \in Memories
    BY <2>2, <2>3
  <2>. QED
    BY <2>4 DEF m, copies
<1>3. d = [c EXCEPT !.memory = memory]
  BY Zenon DEF Committed, Resolved
<1>. HIDE DEF memory
<1>4. c \in GoodCaches(known, memory) /\ Fitted(c)
  BY DEF memory
<1>. HIDE DEF c
<1>5. Stored(c, memory, known)
  BY <1>4 DEF GoodCaches
<1>6. d \in GoodCaches(known, memory) /\ d.lengths = c.lengths /\ d.tables = c.tables /\ d.memory = memory
  BY <1>2, <1>3, <1>4, <1>5, MemoryChanged
<1>7. Fitted(d)
  BY <1>4, <1>6 DEF Fitted
<1>. QED
  BY <1>6, <1>7 DEF c

\* The vectors of a sequence of tokens.
LEMMA VectorsOf ==
  ASSUME NEW tokens \in Seq(Nat)
  PROVE  \A n \in 1 .. Len(tokens) : KVOf(tokens)[n] = [token |-> tokens[n], at |-> n]
                                     /\ KVOf(tokens)[n] \in Vectors
  BY DEF KVOf, Vectors

\* write: the positions a request has not written yet, all in blocks of its own.
LEMMA WrittenGood ==
  ASSUME NEW known, NEW c, c \in GoodCaches(known, c.memory), NEW id \in DOMAIN c.tables,
         NEW tokens \in Seq(Nat), NEW old, old = Len(known[id]), old <= Len(tokens),
         \A n \in 1 .. old : tokens[n] = known[id][n],
         BlocksFor(Len(tokens)) <= Len(c.tables[id]),
         \A n \in old + 1 .. Len(tokens) : Writable(c, id, n),
         NEW d, d = Written(c, id, old + 1 .. Len(tokens), KVOf(tokens))
  PROVE  /\ d \in GoodCaches(With(known, id, tokens), d.memory)
         /\ d.lengths = c.lengths /\ d.tables = c.tables
<1>. DEFINE t == c.tables[id]
            P == old + 1 .. Len(tokens)
            here(b, s) == {n \in P : BlockAt(t, n) = b /\ SlotAt(n) = s}
            kv == KVOf(tokens)
            memory == [b \in Block |-> [s \in Slot |->
                         IF here(b, s) = {} THEN c.memory[b][s] ELSE kv[CHOOSE n \in here(b, s) : TRUE]]]
            k == With(known, id, tokens)
<1>1. c \in Caches /\ Accounted(c) /\ Stored(c, c.memory, known)
  BY DEF GoodCaches
<1>2. /\ c.tables \in PartialMaps(Nat, Seq(Block)) /\ c.memory \in Memories
      /\ DOMAIN c.tables \subseteq Nat
      /\ \A x \in DOMAIN c.tables : c.tables[x] \in Seq(Block) /\ IsInjective(c.tables[x])
      /\ \A key \in DOMAIN c.prefixes : c.prefixes[key] \in Seq(Block)
      /\ t \in Seq(Block) /\ IsInjective(t)
  BY <1>1, CacheFields DEF Accounted
<1>3. /\ id \in DOMAIN known /\ id \in Nat /\ known \in PartialMaps(Nat, Seq(Nat))
      /\ \A x \in DOMAIN known : known[x] \in Seq(Nat)
  <2>1. known \in [DOMAIN known -> Seq(Nat)]
    BY <1>1, MapsAre DEF Stored
  <2>. QED
    BY <1>1, <1>2, <2>1 DEF Stored
<1>4. d = [c EXCEPT !.memory = memory]
  BY Zenon DEF Written
<1>. HIDE DEF here
<1>5. /\ old \in Nat /\ Len(tokens) \in Nat
      /\ \A n \in P : n \in Nat \ {0} /\ n \in 1 .. Len(tokens) /\ n > old
      /\ \A n \in 1 .. Len(tokens) : n \in Nat \ {0} /\ (n \in 1 .. old \/ n \in P)
      /\ \A n \in 1 .. old : n \in 1 .. Len(tokens) /\ n \notin P
  BY <1>3
<1>. HIDE DEF P
<1>6. \A b \in Block, s \in Slot : here(b, s) # {} => kv[CHOOSE n \in here(b, s) : TRUE] \in Vectors
  <2>. TAKE b \in Block, s \in Slot
  <2>. HAVE here(b, s) # {}
  <2>1. (CHOOSE n \in here(b, s) : TRUE) \in here(b, s) /\ here(b, s) \subseteq P
    BY DEF here
  <2>. HIDE DEF kv
  <2>. QED
    BY <1>5, <2>1, VectorsOf DEF kv
<1>7. memory \in Memories
  <2>. HIDE DEF kv
  <2>1. \A b \in Block, s \in Slot : c.memory[b][s] \in Vectors
    BY <1>2 DEF Memories
  <2>. QED
    BY <1>6, <2>1 DEF Memories
<1>8. \A b \in Block, s \in Slot :
         memory[b][s] = IF here(b, s) = {} THEN c.memory[b][s] ELSE kv[CHOOSE n \in here(b, s) : TRUE]
  OBVIOUS
<1>. HIDE DEF memory
\* Where the rows go.
<1>9. ASSUME NEW n \in 1 .. Len(tokens)
      PROVE  /\ n \in Nat \ {0} /\ BlocksFor(n) \in 1 .. Len(t) /\ t[BlocksFor(n)] \in Block /\ SlotAt(n) \in Slot
             /\ BlockAt(t, n) = t[BlocksFor(n)] /\ Contains(t, t[BlocksFor(n)])
  <2>1. n \in Nat \ {0} /\ n \in Nat /\ n <= Len(tokens)
    OBVIOUS
  <2>2. BlocksFor(n) \in Nat \ {0} /\ SlotAt(n) \in Slot /\ BlockAt(t, n) = t[BlocksFor(n)]
    <3>. HIDE DEF t
    <3>. QED
      BY <2>1, PositionOf
  <2>3. BlocksFor(n) <= BlocksFor(Len(tokens)) /\ BlocksFor(Len(tokens)) \in Nat
    BY <1>5, <2>1, BlocksEnough
  <2>. HIDE DEF t
  <2>4. BlocksFor(n) \in 1 .. Len(t)
    <3>1. Len(t) \in Nat /\ BlocksFor(Len(tokens)) <= Len(t)
      BY <1>2 DEF t
    <3>. QED
      BY <2>2, <2>3, <3>1
  <2>5. t[BlocksFor(n)] \in Block /\ t[BlocksFor(n)] \in ToSet(t)
    BY <1>2, <2>4 DEF ToSet
  <2>. QED
    BY <1>2, <2>1, <2>2, <2>4, <2>5, ContainsIs
<1>10. ASSUME NEW b \in Block, NEW s \in Slot, here(b, s) # {}
       PROVE  Contains(t, b) /\ c.refs[b] = 1
  <2>1. PICK n \in P : BlockAt(t, n) = b
    BY <1>10 DEF here
  <2>2. n \in 1 .. Len(tokens) /\ Writable(c, id, n)
    BY <1>5, <2>1 DEF P
  <2>. QED
    BY <1>9, <2>1, <2>2 DEF Writable
\* Nothing else is written to.
<1>11. ASSUME NEW m \in Seq(Block), NEW known1 \in Seq(Nat), BlocksFor(Len(known1)) <= Len(m),
              ReadsAs(c.memory, m, known1),
              \A b \in Block : Contains(m, b) /\ Contains(t, b) => c.refs[b] # 1
       PROVE  ReadsAs(memory, m, known1)
  <2>1. SUFFICES ASSUME NEW n \in 1 .. Len(known1)
                 PROVE  memory[m[BlocksFor(n)]][SlotAt(n)] = [token |-> known1[n], at |-> n]
    BY DEF ReadsAs
  <2>2. n \in Nat \ {0} /\ n \in Nat /\ n <= Len(known1) /\ Len(known1) \in Nat /\ Len(m) \in Nat
    OBVIOUS
  <2>3. BlocksFor(n) \in Nat \ {0} /\ SlotAt(n) \in Slot
    BY <2>2, PositionOf
  <2>4. BlocksFor(n) <= BlocksFor(Len(known1)) /\ BlocksFor(Len(known1)) \in Nat
    BY <2>2, BlocksEnough
  <2>5. BlocksFor(n) \in 1 .. Len(m)
    BY <1>11, <2>2, <2>3, <2>4
  <2>6. m[BlocksFor(n)] \in Block /\ m[BlocksFor(n)] \in ToSet(m)
    BY <2>5 DEF ToSet
  <2>7. Contains(m, m[BlocksFor(n)])
    BY <2>6, ContainsIs
  <2>8. here(m[BlocksFor(n)], SlotAt(n)) = {}
    BY <1>10, <1>11, <2>3, <2>6, <2>7
  <2>9. memory[m[BlocksFor(n)]][SlotAt(n)] = c.memory[m[BlocksFor(n)]][SlotAt(n)]
    BY <1>8, <2>3, <2>6, <2>8
  <2>. QED
    BY <1>11, <2>9 DEF ReadsAs
<1>12. k \in PartialMaps(Nat, Seq(Nat)) /\ DOMAIN k = DOMAIN known /\ k[id] = tokens
       /\ \A x \in DOMAIN known \ {id} : k[x] = known[x]
  <2>1. k \in PartialMaps(Nat, Seq(Nat))
    BY <1>3, MapsWith
  <2>. QED
    BY <1>3, <2>1 DEF With
<1>. HIDE DEF k
<1>13. ReadsAs(memory, t, tokens)
  <2>1. SUFFICES ASSUME NEW n \in 1 .. Len(tokens)
                 PROVE  memory[t[BlocksFor(n)]][SlotAt(n)] = [token |-> tokens[n], at |-> n]
    BY DEF ReadsAs
  <2>. DEFINE b == t[BlocksFor(n)]
              s == SlotAt(n)
  <2>2. b \in Block /\ s \in Slot /\ BlockAt(t, n) = b /\ n \in Nat \ {0}
    BY <1>9
  <2>3. \A m \in here(b, s) : m = n /\ m \in P
    <3>. SUFFICES ASSUME NEW m \in here(b, s) PROVE m = n /\ m \in P
      OBVIOUS
    <3>1. m \in P /\ BlockAt(t, m) = b /\ SlotAt(m) = s
      BY DEF here
    <3>2. m \in 1 .. Len(tokens)
      BY <1>5, <3>1
    <3>3. BlocksFor(m) = BlocksFor(n)
      <4>1. t[BlocksFor(m)] = t[BlocksFor(n)] /\ BlocksFor(m) \in 1 .. Len(t) /\ BlocksFor(n) \in 1 .. Len(t)
        BY <1>9, <3>1, <3>2
      <4>2. DOMAIN t = 1 .. Len(t)
        BY <1>2
      <4>. HIDE DEF t
      <4>. QED
        BY <1>2, <4>1, <4>2 DEF IsInjective
    <3>4. m = n
      BY <1>5, <1>9, <3>1, <3>2, <3>3, PositionUnique
    <3>. QED
      BY <3>1, <3>4
  <2>4. n \in P => n \in here(b, s)
    BY <2>2 DEF here
  <2>. HIDE DEF kv, b, s
  <2>5. CASE n \in P
    <3>1. here(b, s) # {} /\ (CHOOSE m \in here(b, s) : TRUE) = n
      BY <2>3, <2>4, <2>5
    <3>2. memory[b][s] = kv[n]
      BY <1>8, <2>2, <3>1
    <3>. QED
      BY <3>2, VectorsOf DEF b, s, kv
  <2>6. CASE n \in 1 .. old
    <3>1. here(b, s) = {}
      BY <1>5, <2>3, <2>6
    <3>2. memory[b][s] = c.memory[b][s]
      BY <1>8, <2>2, <3>1
    <3>3. Table(c, id) = t
      BY DEF Table
    <3>4. c.memory[b][s] = [token |-> known[id][n], at |-> n]
      <4>1. ReadsAs(c.memory, t, known[id])
        BY <1>1, <1>3, <3>3 DEF Stored
      <4>2. n \in 1 .. Len(known[id])
        BY <2>6
      <4>. HIDE DEF t
      <4>. QED
        BY <4>1, <4>2 DEF ReadsAs, b, s
    <3>. QED
      BY <2>6, <3>2, <3>4 DEF b, s
  <2>. QED
    BY <1>5, <2>5, <2>6
<1>14. ASSUME NEW x \in DOMAIN known \ {id}
       PROVE  ReadsAs(memory, Table(c, x), known[x])
  <2>1. BlocksFor(Len(known[x])) <= Len(Table(c, x)) /\ ReadsAs(c.memory, Table(c, x), known[x])
    BY <1>1 DEF Stored
  <2>2. Table(c, x) \in Seq(Block) /\ known[x] \in Seq(Nat)
    BY <1>1, <1>3, CacheFields
  <2>3. \A b \in Block : Contains(Table(c, x), b) /\ Contains(t, b) => c.refs[b] # 1
    <3>1. CASE x \in DOMAIN c.tables
      <4>1. Table(c, x) = c.tables[x]
        BY <3>1 DEF Table
      <4>. QED
        BY <1>1, <3>1, <4>1, HoldersKnown
    <3>2. CASE x \notin DOMAIN c.tables
      <4>1. Table(c, x) = <<>>
        BY <3>2 DEF Table
      <4>2. \A b : ~Contains(<<>>, b)
        BY DEF Contains
      <4>. QED
        BY <4>1, <4>2
    <3>. QED
      BY <3>1, <3>2
  <2>. HIDE DEF t
  <2>. QED
    BY <1>11, <2>1, <2>2, <2>3
<1>15. ASSUME NEW key \in DOMAIN c.prefixes
       PROVE  ReadsAs(memory, c.prefixes[key], key)
  <2>1. /\ c.prefixes[key] \in Seq(Block) /\ key \in Seq(Nat)
        /\ Len(c.prefixes[key]) = BlocksFor(Len(key)) /\ ReadsAs(c.memory, c.prefixes[key], key)
    BY <1>1, <1>2, CacheFields DEF Stored
  <2>2. \A b \in Block : Contains(c.prefixes[key], b) /\ Contains(t, b) => c.refs[b] # 1
    BY <1>1, HoldersKnown
  <2>3. BlocksFor(Len(key)) <= Len(c.prefixes[key])
    <3>1. Len(key) \in Nat
      BY <2>1
    <3>2. BlocksFor(Len(key)) \in Nat
      BY <3>1, BlocksEnough
    <3>. QED
      BY <2>1, <3>2
  <2>. HIDE DEF t
  <2>. QED
    BY <1>11, <2>1, <2>2, <2>3
<1>16. Stored(c, memory, k)
  <2>1. \A x \in DOMAIN k : /\ BlocksFor(Len(k[x])) <= Len(Table(c, x))
                            /\ ReadsAs(memory, Table(c, x), k[x])
    <3>. TAKE x \in DOMAIN k
    <3>1. CASE x = id
      <4>1. Table(c, id) = t
        BY DEF Table
      <4>. QED
        BY <1>12, <1>13, <3>1, <4>1
    <3>2. CASE x # id
      BY <1>1, <1>12, <1>14, <3>2 DEF Stored
    <3>. QED
      BY <3>1, <3>2
  <2>2. DOMAIN c.tables \subseteq DOMAIN k
    BY <1>1, <1>12 DEF Stored
  <2>3. \A key \in DOMAIN c.prefixes : key # <<>> /\ Len(c.prefixes[key]) = BlocksFor(Len(key))
    BY <1>1 DEF Stored
  <2>. QED
    BY <1>12, <1>15, <2>1, <2>2, <2>3 DEF Stored
<1>17. /\ d \in Caches /\ d.lengths = c.lengths /\ d.tables = c.tables /\ d.prefixes = c.prefixes
       /\ d.refs = c.refs /\ d.free = c.free /\ d.memory = memory
  BY <1>1, <1>4, <1>7 DEF Caches
<1>18. CountsHolders(d)
  BY <1>1, <1>17, CountsAre DEF Accounted
<1>19. \A x : Table(d, x) = Table(c, x)
  BY <1>17 DEF Table
<1>20. d \in GoodCaches(k, memory)
  BY <1>1, <1>16, <1>17, <1>18, <1>19 DEF GoodCaches, Accounted, Stored
<1>. QED
  BY <1>17, <1>20 DEF k

\* publish_prefix: what is published is known to be stored.
LEMMA PublishedGood ==
  ASSUME NEW known, NEW memory, NEW c \in GoodCaches(known, memory), NEW id \in DOMAIN c.tables,
         NEW tokens, tokens = known[id],
         NEW p, p = Published(c, id, tokens)
  PROVE  /\ p \in GoodCaches(known, memory) /\ p.lengths = c.lengths /\ p.tables = c.tables
         /\ p.memory = c.memory
<1>. DEFINE ends == {e \in 1 .. Len(tokens) : (e % BlockSize = 0) \/ e \in {Len(tokens) - 1, Len(tokens)}}
            cut(d, e) ==
                IF e \notin ends \/ SubSeq(tokens, 1, e) \in DOMAIN d.prefixes THEN d
                ELSE Snapshot(d, SubSeq(tokens, 1, e), SubSeq(d.tables[id], 1, BlocksFor(e)))
            list == [e \in 1 .. Len(tokens) |-> e]
            N == Len(list)
            Same(n) == {d \in GoodCaches(known, memory) :
                           d.lengths = c.lengths /\ d.tables = c.tables /\ d.memory = c.memory}
            it == CHOOSE h : h = [n \in 0 .. Len(list) |->
                                     IF n = 0 THEN c ELSE cut(h[n - 1], list[n])]
<1>1. p = it[N]
  BY Zenon DEF Published, Iterated
<1>2. /\ c \in Caches /\ Accounted(c) /\ Stored(c, memory, known)
      /\ id \in DOMAIN known /\ id \in Nat /\ tokens \in Seq(Nat)
  <2>1. c \in Caches /\ Accounted(c) /\ Stored(c, memory, known)
    BY DEF GoodCaches
  <2>2. known \in [DOMAIN known -> Seq(Nat)] /\ id \in DOMAIN known
    BY <2>1, MapsAre DEF Stored
  <2>3. id \in Nat
    BY <2>1, CacheFields
  <2>. QED
    BY <2>1, <2>2, <2>3
<1>3. N = Len(tokens) /\ N \in Nat /\ \A n \in 1 .. N : list[n] = n
  BY <1>2
<1>4. N = Len(list)
  OBVIOUS
<1>. HIDE DEF list, N
<1>5. ASSUME NEW n \in 1 .. N, NEW d \in Same(n - 1) PROVE cut(d, list[n]) \in Same(n)
  <2>1. list[n] = n /\ n \in 1 .. Len(tokens)
    BY <1>3
  <2>2. d \in GoodCaches(known, memory) /\ d.lengths = c.lengths /\ d.tables = c.tables /\ d.memory = c.memory
    OBVIOUS
  <2>. DEFINE key == SubSeq(tokens, 1, n)
              t == d.tables[id]
              m == SubSeq(t, 1, BlocksFor(n))
              s == Snapshot(d, key, m)
  <2>3. CASE n \notin ends \/ key \in DOMAIN d.prefixes
    <3>1. cut(d, n) = d
      <4>. HIDE DEF ends
      <4>. QED
        BY <2>3, Zenon
    <3>. QED
      BY <2>1, <3>1
  <2>4. CASE ~(n \notin ends \/ key \in DOMAIN d.prefixes)
    <3>1. cut(d, n) = s
      <4>. HIDE DEF ends
      <4>. QED
        BY <2>4, Zenon
    <3>2. d \in Caches /\ Accounted(d) /\ Stored(d, memory, known) /\ id \in DOMAIN d.tables
      BY <2>2 DEF GoodCaches
    <3>3. /\ t \in Seq(Block) /\ IsInjective(t) /\ Table(d, id) = t
          /\ BlocksFor(Len(tokens)) <= Len(t) /\ ReadsAs(memory, t, tokens)
      <4>1. t \in Seq(Block) /\ IsInjective(t) /\ Table(d, id) = t
        BY <3>2, CacheFields DEF Accounted, Table
      <4>. QED
        BY <1>2, <3>2, <4>1 DEF Stored
    <3>. HIDE DEF t
    <3>4. /\ n \in Nat \ {0} /\ n \in Nat /\ n <= Len(tokens) /\ Len(tokens) \in Nat /\ Len(t) \in Nat
      BY <1>2, <2>1, <3>3
    <3>5. /\ BlocksFor(n) \in Nat \ {0} /\ BlocksFor(n) <= Len(t)
      <4>1. BlocksFor(n) \in Nat \ {0}
        BY <3>4, PositionOf
      <4>2. BlocksFor(n) <= BlocksFor(Len(tokens)) /\ BlocksFor(Len(tokens)) \in Nat
        BY <3>4, BlocksEnough
      <4>. QED
        BY <3>3, <3>4, <4>1, <4>2
    <3>6. key \in Seq(Nat) /\ Len(key) = n /\ key # <<>> /\ \A i \in 1 .. n : key[i] = tokens[i]
      <4>1. key \in Seq(Nat) /\ Len(key) = n /\ \A i \in 1 .. n : key[i] = tokens[i]
        BY <1>2, <3>4
      <4>. HIDE DEF key
      <4>. QED
        BY <3>4, <4>1
    <3>7. /\ m \in Seq(Block) /\ Len(m) = BlocksFor(n)
          /\ \A i \in 1 .. BlocksFor(n) : m[i] = t[i] /\ i \in 1 .. Len(t)
      <4>. DEFINE k == BlocksFor(n)
      <4>1. k \in Nat \ {0} /\ k <= Len(t)
        BY <3>5
      <4>2. m = SubSeq(t, 1, k)
        OBVIOUS
      <4>. HIDE DEF k, m
      <4>3. /\ m \in Seq(Block) /\ Len(m) = k /\ \A i \in 1 .. k : m[i] = t[i] /\ i \in 1 .. Len(t)
        BY <3>3, <3>4, <4>1, <4>2
      <4>. QED
        BY <4>3 DEF k
    <3>. HIDE DEF key, m, s
    <3>8. IsInjective(m)
      <4>1. DOMAIN m = 1 .. BlocksFor(n) /\ DOMAIN t = 1 .. Len(t)
        BY <3>3, <3>7
      <4>. QED
        BY <3>3, <3>7, <4>1 DEF IsInjective
    <3>9. \A b \in Block : Contains(m, b) => d.refs[b] > 0
      <4>1. \A b : Contains(m, b) => Contains(t, b)
        <5>1. DOMAIN m = 1 .. BlocksFor(n) /\ DOMAIN t = 1 .. Len(t)
          BY <3>3, <3>7
        <5>2. \A b : b \in ToSet(m) => b \in ToSet(t)
          BY <3>7, <5>1 DEF ToSet
        <5>. QED
          BY <3>3, <3>7, <5>2, ContainsIs
      <4>. QED
        BY <3>2, <4>1, HoldersKnown DEF t
    <3>10. ReadsAs(memory, m, key)
      <4>1. ASSUME NEW i \in 1 .. Len(key)
            PROVE  memory[m[BlocksFor(i)]][SlotAt(i)] = [token |-> key[i], at |-> i]
        <5>1. i \in Nat \ {0} /\ i \in Nat /\ i <= n /\ i \in 1 .. n /\ i \in 1 .. Len(tokens)
          BY <3>4, <3>6
        <5>2. BlocksFor(i) \in Nat \ {0}
          BY <5>1, PositionOf
        <5>3. BlocksFor(i) <= BlocksFor(n)
          BY <3>4, <5>1, BlocksEnough
        <5>4. BlocksFor(i) \in 1 .. BlocksFor(n)
          BY <3>5, <5>2, <5>3
        <5>. QED
          BY <3>3, <3>6, <3>7, <5>1, <5>4 DEF ReadsAs
      <4>. QED
        BY <4>1 DEF ReadsAs
    <3>11. key \notin DOMAIN d.prefixes
      BY <2>4
    <3>12. /\ s \in GoodCaches(known, memory)
           /\ s.tables = d.tables /\ s.lengths = d.lengths /\ s.memory = d.memory
      BY <2>2, <3>6, <3>7, <3>8, <3>9, <3>10, <3>11, SnapshotGood DEF s
    <3>. HIDE DEF cut
    <3>. QED
      BY <2>1, <2>2, <3>1, <3>12
  <2>. QED
    BY <2>3, <2>4
<1>6. c \in Same(0)
  OBVIOUS
<1>. HIDE DEF cut
<1>. DEFINE S == [n \in 0 .. N |-> Same(n)]
            move == [n \in 1 .. N |-> [d \in GoodCaches(known, memory) |-> cut(d, list[n])]]
<1>7. /\ \A n \in 0 .. N : S[n] = Same(n)
      /\ \A n \in 0 .. N : Same(n) \subseteq GoodCaches(known, memory)
      /\ 0 \in 0 .. N /\ N \in 0 .. N
      /\ \A n \in 1 .. N : n \in 0 .. N /\ n - 1 \in 0 .. N /\ n # 0
      /\ \A n \in 0 .. N : n = 0 \/ n \in 1 .. N
  BY <1>3
<1>. HIDE DEF S, Same
<1>8. \A n \in 1 .. N : \A d \in S[n - 1] : move[n][d] = cut(d, list[n]) /\ move[n][d] \in S[n]
  BY <1>5, <1>7
<1>. HIDE DEF move
<1>9. PICK f : Orbit(f, N, c, move) /\ \A n \in 0 .. N : f[n] \in S[n]
  <2>1. c \in S[0] /\ \A n \in 1 .. N : \A e \in S[n - 1] : move[n][e] \in S[n]
    BY <1>6, <1>7, <1>8
  <2>. QED
    BY <1>3, <2>1, OrbitExists
<1>10. f = [n \in 0 .. N |-> IF n = 0 THEN c ELSE cut(f[n - 1], list[n])]
  <2>1. f = [n \in 0 .. N |-> IF n = 0 THEN c ELSE move[n][f[n - 1]]]
    BY <1>9 DEF Orbit
  <2>2. \A n \in 0 .. N : n # 0 => move[n][f[n - 1]] = cut(f[n - 1], list[n])
    BY <1>7, <1>8, <1>9
  <2>. QED
    BY <2>1, <2>2, Zenon
<1>11. it = [n \in 0 .. N |-> IF n = 0 THEN c ELSE cut(it[n - 1], list[n])]
  BY <1>4, <1>10, Zenon
<1>. HIDE DEF it
<1>12. it[0] = c /\ \A n \in 1 .. N : it[n] = cut(it[n - 1], list[n])
  <2>1. \A n \in 0 .. N : it[n] = IF n = 0 THEN c ELSE cut(it[n - 1], list[n])
    BY <1>11, Zenon
  <2>. QED
    BY <1>7, <2>1, Zenon
<1>. DEFINE X == {n \in 0 .. N : it[n] \in Same(n)}
<1>13. \A n \in 0 .. N : n \in X
  <2>1. 0 \in X
    BY <1>6, <1>7, <1>12
  <2>2. \A n \in 1 .. N : n - 1 \in X => n \in X
    BY <1>5, <1>7, <1>12
  <2>. HIDE DEF X
  <2>. QED
    BY <1>3, <2>1, <2>2, Stepwise
<1>14. it[N] \in Same(N)
  BY <1>7, <1>13
<1>15. p \in Same(N)
  BY <1>1, <1>14
<1>. QED
  BY <1>15 DEF Same
================================================================================
