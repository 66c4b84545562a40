---------------------------- MODULE KVManagerProofs ---------------------------
(***************************************************************************)
(* Proofs about KVManager: its types, that the reference counters of the   *)
(* pool count exactly the leases there are, and that reservations are      *)
(* honoured.                                                               *)
(***************************************************************************)
EXTENDS KVManager, BasicLemmas, SequenceTheorems

------------------------------------------------------------------------------
\* The pool

\* The number of pages a history occupies.
LEMMA PagesForType ==
  ASSUME NEW n \in Nat
  PROVE  PagesFor(n) \in Nat /\ (n > 0 <=> PagesFor(n) > 0)
<1>. DEFINE m == n + BlockTokens - 1
            q == m \div BlockTokens
<1>1. m \in Nat /\ BlockTokens \in Nat /\ BlockTokens > 0
  BY ManagerAssumption
<1>2. q \in Int /\ BlockTokens * q <= m /\ m < BlockTokens * (q + 1)
  BY <1>1
<1>3. q >= 0
  BY <1>1, <1>2
<1>4. n > 0 => q > 0
  BY <1>1, <1>2
<1>5. n = 0 => q = 0
  BY <1>1, <1>2
<1>. QED
  BY <1>2, <1>3, <1>4, <1>5 DEF PagesFor

\* A lease set whose leases of each page are finitely many.
FiniteLeases(L) == \A p \in Page : IsFiniteSet(On(p, L))

\* Retaining a set of new leases keeps the counters exact.
LEMMA RetainCounts ==
  ASSUME NEW q \in Pool, NEW L, NEW A, Counts(q, L), FiniteLeases(L),
         FiniteLeases(A), L \cap A = {}, \A p \in Page : On(p, A) # {} => On(p, L) # {}
  PROVE  /\ Retain(q, A) \in Pool
         /\ Counts(Retain(q, A), L \cup A)
         /\ FiniteLeases(L \cup A)
<1>1. ASSUME NEW p \in Page
      PROVE  /\ On(p, L \cup A) = On(p, L) \cup On(p, A)
             /\ On(p, L) \cap On(p, A) = {}
             /\ IsFiniteSet(On(p, L)) /\ IsFiniteSet(On(p, A))
  BY DEF On, FiniteLeases
<1>2. ASSUME NEW p \in Page
      PROVE  /\ IsFiniteSet(On(p, L \cup A))
             /\ Cardinality(On(p, L \cup A)) = Cardinality(On(p, L)) + Cardinality(On(p, A))
             /\ Cardinality(On(p, L)) \in Nat /\ Cardinality(On(p, A)) \in Nat
  <2>. DEFINE S == On(p, L)
              T == On(p, A)
  <2>1. IsFiniteSet(S) /\ IsFiniteSet(T) /\ S \cap T = {} /\ On(p, L \cup A) = S \cup T
    BY <1>1
  <2>. HIDE DEF S, T
  <2>2. /\ IsFiniteSet(S \cup T)
        /\ Cardinality(S \cup T) = Cardinality(S) + Cardinality(T)
        /\ Cardinality(S) \in Nat /\ Cardinality(T) \in Nat
    BY <2>1, CardDisjointUnion
  <2>. QED
    BY <2>1, <2>2 DEF S, T
<1>3. FiniteLeases(L \cup A)
  BY <1>2 DEF FiniteLeases
<1>4. Retain(q, A) \in Pool
  BY <1>2 DEF Retain, Pool
<1>5. ASSUME NEW p \in Page
      PROVE  /\ Retain(q, A).refs[p] = Cardinality(On(p, L \cup A))
             /\ p \in Retain(q, A).free <=> On(p, L \cup A) = {}
  BY <1>1, <1>2 DEF Retain, Pool, Counts
<1>. QED
  BY <1>3, <1>4, <1>5 DEF Counts

\* Giving back some of the leases keeps the counters exact, and frees exactly
\* the pages nothing leases any more.
LEMMA UnrefCounts ==
  ASSUME NEW q \in Pool, NEW L, NEW D, Counts(q, L), FiniteLeases(L), D \subseteq L
  PROVE  /\ Unref(q, D) \in Pool
         /\ Counts(Unref(q, D), L \ D)
         /\ FiniteLeases(L \ D)
<1>1. ASSUME NEW p \in Page
      PROVE  /\ On(p, L \ D) = On(p, L) \ On(p, D)
             /\ On(p, L) \cap On(p, D) = On(p, D)
             /\ IsFiniteSet(On(p, L))
             /\ On(p, D) \in SUBSET On(p, L)
  BY DEF On, FiniteLeases
<1>2. ASSUME NEW p \in Page
      PROVE  /\ IsFiniteSet(On(p, L \ D))
             /\ Cardinality(On(p, L \ D)) = Cardinality(On(p, L)) - Cardinality(On(p, D))
             /\ Cardinality(On(p, L)) \in Nat /\ Cardinality(On(p, D)) \in Nat
             /\ Cardinality(On(p, L \ D)) = 0 <=> On(p, L \ D) = {}
  <2>. DEFINE S == On(p, L)
              T == On(p, D)
  <2>1. IsFiniteSet(S) /\ T \subseteq S /\ On(p, L \ D) = S \ T
    BY <1>1
  <2>. HIDE DEF S, T
  <2>2. /\ IsFiniteSet(S \ T)
        /\ Cardinality(S \ T) = Cardinality(S) - Cardinality(T)
        /\ Cardinality(S) \in Nat /\ Cardinality(T) \in Nat
        /\ Cardinality(S \ T) = 0 <=> S \ T = {}
    BY <2>1, CardPart
  <2>. QED
    BY <2>1, <2>2 DEF S, T
<1>3. FiniteLeases(L \ D)
  BY <1>2 DEF FiniteLeases
<1>4. Unref(q, D) \in Pool
  BY <1>2 DEF Unref, Pool
<1>5. ASSUME NEW p \in Page
      PROVE  /\ Unref(q, D).refs[p] = Cardinality(On(p, L \ D))
             /\ p \in Unref(q, D).free <=> On(p, L \ D) = {}
  <2>1. Unref(q, D).refs[p] = Cardinality(On(p, L \ D))
    BY <1>2 DEF Unref, Pool, Counts
  <2>2. p \in Unref(q, D).free <=> p \in q.free \/ (On(p, D) # {} /\ On(p, L \ D) = {})
    BY <1>2 DEF Unref, Pool, Counts
  <2>3. p \in q.free <=> On(p, L) = {}
    BY DEF Counts
  <2>. QED
    BY <1>1, <2>1, <2>2, <2>3
<1>. QED
  BY <1>3, <1>4, <1>5 DEF Counts

\* Handing out free pages, one new lease for each, keeps the counters exact.
LEMMA TakeCounts ==
  ASSUME NEW q \in Pool, NEW L, NEW A, Counts(q, L), FiniteLeases(L),
         \A p \in Page : On(p, A) # {} => p \in q.free /\ \E a : On(p, A) = {a}
  PROVE  /\ Take(q, A) \in Pool
         /\ Counts(Take(q, A), L \cup A)
         /\ FiniteLeases(L \cup A)
<1>1. ASSUME NEW p \in Page
      PROVE  /\ On(p, L \cup A) = On(p, L) \cup On(p, A)
             /\ On(p, A) = {} \/ (On(p, L) = {} /\ \E a : On(p, A) = {a})
  BY DEF On, Counts
<1>2. ASSUME NEW p \in Page
      PROVE  /\ IsFiniteSet(On(p, L \cup A))
             /\ Cardinality(On(p, L \cup A)) =
                   IF On(p, A) = {} THEN Cardinality(On(p, L)) ELSE 1
             /\ On(p, L \cup A) = {} <=> On(p, L) = {} /\ On(p, A) = {}
  <2>1. CASE On(p, A) = {}
    BY <1>1, <2>1 DEF FiniteLeases
  <2>2. CASE On(p, L) = {} /\ \E a : On(p, A) = {a}
    <3>1. PICK a : On(p, A) = {a}
      BY <2>2
    <3>2. IsFiniteSet({a}) /\ Cardinality({a}) = 1
      BY FS_Singleton
    <3>. QED
      BY <1>1, <2>2, <3>1, <3>2
  <2>. QED
    BY <1>1, <2>1, <2>2
<1>3. FiniteLeases(L \cup A)
  BY <1>2 DEF FiniteLeases
<1>4. Take(q, A) \in Pool
  BY DEF Take, Pool
<1>5. ASSUME NEW p \in Page
      PROVE  /\ Take(q, A).refs[p] = Cardinality(On(p, L \cup A))
             /\ p \in Take(q, A).free <=> On(p, L \cup A) = {}
  BY <1>1, <1>2 DEF Take, Pool, Counts
<1>. QED
  BY <1>3, <1>4, <1>5 DEF Counts

------------------------------------------------------------------------------
\* The inductive invariant

\* A sequence with tokens has pages.
TablesOK ==
    \A id \in DOMAIN sequences :
        sequences[id].tokens # <<>> => sequences[id].blocks # <<>>

\* An open transaction remembers a block table it can restore: the private copy
\* of a shared tail stands at the end of the original part of the table.
TransactionOK ==
    \A id \in DOMAIN appends :
        /\ appends[id] \in [input : History, original : Nat,
                            copy : Seq([source : Page, destination : Page, valid : Nat]),
                            copied : BOOLEAN, written : Nat]
        /\ sequences[id].blocks # <<>>
        /\ appends[id].original <= Len(sequences[id].blocks)
        /\ sequences[id].tokens # <<>> => appends[id].original > 0
        /\ \/ appends[id].copy = <<>>
           \/ /\ Len(appends[id].copy) = 1
              /\ appends[id].original > 0
              /\ sequences[id].blocks[appends[id].original] = appends[id].copy[1].destination
              /\ appends[id].copy[1].source # appends[id].copy[1].destination

\* A publication is at one of the pages of its sequence.
PublishingOK ==
    \A id \in DOMAIN publishing : publishing[id] \in 1 .. PublishCount(id)

IInv ==
    /\ TypeOK
    /\ TablesOK
    /\ TransactionOK
    /\ PublishingOK
    /\ RefsCountLeases
    /\ FiniteLeases(Leases)

\* The three kinds of owner are told apart by the first component.
LEMMA OwnersApart ==
  ASSUME NEW a, NEW b, NEW c, NEW i
  PROVE  /\ <<"sequence", a, i>> # <<"cache", b>>
         /\ <<"sequence", a, i>> # <<"append", c>>
         /\ <<"cache", b>> # <<"append", c>>
<1>1. /\ <<"sequence", a, i>>[1] = "sequence" /\ <<"cache", b>>[1] = "cache"
      /\ <<"append", c>>[1] = "append"
  OBVIOUS
<1>. QED
  BY <1>1

\* An owner tells its kind: sequences, index entries and transactions never lease under
\* the same name.
LEMMA OwnerKinds ==
  /\ \A ids : \A l \in AllSequenceLeases(ids) : l.owner[1] = "sequence"
  /\ \A hs : \A l \in CacheLeases(hs) : l.owner[1] = "cache"
  /\ \A l \in AllAppendLeases : l.owner[1] = "append"
<1>1. \A ids : \A l \in AllSequenceLeases(ids) : l.owner[1] = "sequence"
  BY DEF AllSequenceLeases, SequenceLeases
<1>2. \A hs : \A l \in CacheLeases(hs) : l.owner[1] = "cache"
  BY DEF CacheLeases
<1>3. \A l \in AllAppendLeases : l.owner[1] = "append"
  BY DEF AllAppendLeases, AppendLeases
<1>. QED
  BY <1>1, <1>2, <1>3

\* KvBlockPool and KVManager start with every page free and nothing leased.
LEMMA InitIInv == Init => IInv
<1>. SUFFICES ASSUME Init PROVE IInv
  OBVIOUS
<1>1. DOMAIN sequences = {} /\ DOMAIN reservations = {} /\ DOMAIN lease = {}
      /\ DOMAIN appends = {} /\ DOMAIN publishing = {}
  BY DEF Init
<1>2. Blank \in [Slot -> History]
  BY ManagerAssumption DEF Blank, Junk, History
<1>3. TypeOK
  BY <1>1, <1>2 DEF Init, TypeOK, NewPool, Pool, Leased
<1>4. TablesOK /\ TransactionOK /\ PublishingOK
  BY <1>1 DEF TablesOK, TransactionOK, PublishingOK
<1>5. Leases = {}
  BY <1>1 DEF Leases, CacheLeases, AllSequenceLeases, AllAppendLeases
<1>6. \A p \in Page : On(p, Leases) = {}
  BY <1>5 DEF On
<1>7. RefsCountLeases /\ FiniteLeases(Leases)
  BY <1>6, FS_EmptySet DEF RefsCountLeases, Counts, FiniteLeases, Init, NewPool
<1>. QED
  BY <1>3, <1>4, <1>7 DEF IInv

------------------------------------------------------------------------------
\* Steps that touch neither the pool nor a holder

\* A step that leaves the pool and the leases alone keeps the counters exact.
LEMMA SameLeases ==
  ASSUME IInv, pool' = pool, Leases' = Leases
  PROVE  RefsCountLeases' /\ FiniteLeases(Leases)'
BY DEF IInv, RefsCountLeases, Counts, FiniteLeases

\* reserve_request books pages and takes none.
LEMMA ReserveRequestPreserves ==
  ASSUME IInv, NEW id \in Id, NEW n \in ReserveTokens, ReserveRequest(id, n)
  PROVE  IInv'
<1>1. Leases' = Leases
  BY DEF ReserveRequest, Leases, AllSequenceLeases, SequenceLeases, CacheLeases,
         AllAppendLeases, AppendLeases
<1>2. PagesFor(n) \in 1 .. Cardinality(Page)
  BY PagesForType, ManagerAssumption, PageAssumption, FS_CardinalityType
     DEF ReserveRequest, FitsReservation
<1>3. TypeOK'
  BY <1>2 DEF IInv, TypeOK, ReserveRequest, With, Leased
<1>4. TablesOK' /\ TransactionOK' /\ PublishingOK'
  BY DEF IInv, ReserveRequest, TablesOK, TransactionOK, PublishingOK, Idle
<1>. QED
  BY <1>1, <1>3, <1>4, SameLeases DEF IInv, ReserveRequest

\* release_reservation forgets a booking, also under an open transaction.
LEMMA ReleaseReservationPreserves ==
  ASSUME IInv, NEW id \in Id, ReleaseReservation(id)
  PROVE  IInv'
<1>1. Leases' = Leases
  BY DEF ReleaseReservation, Leases, AllSequenceLeases, SequenceLeases, CacheLeases,
         AllAppendLeases, AppendLeases
<1>2. TypeOK'
  BY DEF IInv, TypeOK, ReleaseReservation, Without, Restrict, Leased
<1>3. TablesOK' /\ TransactionOK' /\ PublishingOK'
  BY DEF IInv, ReleaseReservation, TablesOK, TransactionOK, PublishingOK
<1>. QED
  BY <1>1, <1>2, <1>3, SameLeases DEF IInv, ReleaseReservation

\* create adds a sequence that leases nothing.
LEMMA CreatePreserves ==
  ASSUME IInv, NEW id \in Id, Create(id)
  PROVE  IInv'
<1>1. AllSequenceLeases(DOMAIN sequences)' = AllSequenceLeases(DOMAIN sequences)
  <2>1. SequenceLeases(id, <<>>) = {}
    BY DEF SequenceLeases
  <2>2. DOMAIN sequences' = DOMAIN sequences \cup {id}
    BY DEF Create, With
  <2>3. \A i \in DOMAIN sequences : sequences'[i] = sequences[i]
    BY DEF Create, With
  <2>4. sequences'[id].blocks = <<>>
    BY DEF Create, With, EmptySequence
  <2>. QED
    BY <2>1, <2>2, <2>3, <2>4 DEF AllSequenceLeases, SequenceLeases
<1>2. Leases' = Leases
  BY <1>1 DEF Create, Leases, CacheLeases, AllAppendLeases, AppendLeases
<1>3. TypeOK'
  BY DEF IInv, TypeOK, Create, With, EmptySequence, Leased, History
<1>4. TablesOK' /\ TransactionOK' /\ PublishingOK'
  BY DEF IInv, Create, With, EmptySequence, TablesOK, TransactionOK, PublishingOK, Idle
<1>. QED
  BY <1>2, <1>3, <1>4, SameLeases DEF IInv, Create

------------------------------------------------------------------------------
\* Steps that give leases back

\* Forgetting the content of freed pages leaves well-formed pages.
LEMMA ScrubType ==
  ASSUME NEW c \in [Page -> [Slot -> History]], NEW S
  PROVE  Scrub(c, S) \in [Page -> [Slot -> History]]
BY DEF Scrub, Blank, Junk, History

\* Exact counters are never negative.
LEMMA RefsNonNegative ==
  ASSUME NEW q, NEW L, Counts(q, L), FiniteLeases(L)
  PROVE  \A p \in Page : q.refs[p] >= 0
<1>. SUFFICES ASSUME NEW p \in Page PROVE q.refs[p] >= 0
  OBVIOUS
<1>1. IsFiniteSet(On(p, L))
  BY DEF FiniteLeases
<1>2. Cardinality(On(p, L)) \in Nat
  BY <1>1, FS_CardinalityType
<1>. QED
  BY <1>2 DEF Counts

\* A step keeps the pool's part of the invariant when the new leases are counted.
LEMMA CountedPool ==
  ASSUME pool' \in Pool, Counts(pool', Leases'), FiniteLeases(Leases')
  PROVE  /\ pool' \in Pool /\ \A p \in Page : pool'.refs[p] >= 0
         /\ RefsCountLeases' /\ FiniteLeases(Leases)'
BY RefsNonNegative DEF RefsCountLeases, Counts, FiniteLeases

\* The leases that are left when the sequences of a set lose their pages.
LEMMA LeasesWithout ==
  ASSUME NEW ids \in SUBSET DOMAIN sequences
  PROVE  /\ AllSequenceLeases(ids) \subseteq Leases
         /\ Leases \ AllSequenceLeases(ids) =
                AllSequenceLeases(DOMAIN sequences \ ids) \cup CacheLeases(DOMAIN lease)
                \cup AllAppendLeases
<1>1. AllSequenceLeases(ids) \cap CacheLeases(DOMAIN lease) = {}
  BY OwnersApart DEF AllSequenceLeases, SequenceLeases, CacheLeases
<1>2. AllSequenceLeases(ids) \cap AllAppendLeases = {}
  BY OwnersApart DEF AllSequenceLeases, SequenceLeases, AllAppendLeases, AppendLeases
<1>3. AllSequenceLeases(ids) \cap AllSequenceLeases(DOMAIN sequences \ ids) = {}
  <2>1. \A i, j, k, l : <<"sequence", i, j>> = <<"sequence", k, l>> => i = k
    OBVIOUS
  <2>. QED
    BY <2>1 DEF AllSequenceLeases, SequenceLeases
<1>4. AllSequenceLeases(DOMAIN sequences) =
         AllSequenceLeases(ids) \cup AllSequenceLeases(DOMAIN sequences \ ids)
  BY DEF AllSequenceLeases
<1>. QED
  BY <1>1, <1>2, <1>3, <1>4 DEF Leases

\* reset_sequence gives back exactly the pages of its sequence.
LEMMA ResetSequencePreserves ==
  ASSUME IInv, NEW id \in DOMAIN sequences, ResetSequence(id)
  PROVE  IInv'
<1>1. Leases' = Leases \ AllSequenceLeases({id})
  <2>1. AllSequenceLeases(DOMAIN sequences)' = AllSequenceLeases(DOMAIN sequences \ {id})
    BY DEF ResetSequence, IInv, TypeOK, EmptySequence, AllSequenceLeases, SequenceLeases
  <2>. QED
    BY <2>1, LeasesWithout DEF ResetSequence, Leases, CacheLeases, AllAppendLeases, AppendLeases
<1>2. /\ pool' \in Pool /\ \A p \in Page : pool'.refs[p] >= 0
      /\ RefsCountLeases' /\ FiniteLeases(Leases)'
  BY <1>1, LeasesWithout, UnrefCounts, CountedPool
     DEF IInv, TypeOK, RefsCountLeases, ResetSequence, ReleasedPool
<1>3. TypeOK'
  <2>1. EmptySequence \in [blocks : Seq(Page), tokens : History]
    BY DEF EmptySequence, History
  <2>2. payload' \in [Page -> [Slot -> History]]
    BY ScrubType DEF IInv, TypeOK, ResetSequence
  <2>. QED
    BY <1>2, <2>1, <2>2 DEF IInv, TypeOK, ResetSequence, Leased
<1>4. TablesOK' /\ TransactionOK' /\ PublishingOK'
  BY DEF IInv, TypeOK, ResetSequence, EmptySequence, TablesOK, TransactionOK,
         PublishingOK, Idle
<1>. QED
  BY <1>2, <1>3, <1>4 DEF IInv

\* release gives back the pages of its sequence, and its reservation.
LEMMA ReleasePreserves ==
  ASSUME IInv, NEW id \in DOMAIN sequences, Release(id)
  PROVE  IInv'
<1>0. DOMAIN sequences' = DOMAIN sequences \ {id}
      /\ \A i \in DOMAIN sequences' : sequences'[i] = sequences[i]
  BY DEF Release, Without, Restrict
<1>1. Leases' = Leases \ AllSequenceLeases({id})
  <2>1. AllSequenceLeases(DOMAIN sequences)' = AllSequenceLeases(DOMAIN sequences \ {id})
    BY <1>0 DEF AllSequenceLeases, SequenceLeases
  <2>. QED
    BY <2>1, LeasesWithout DEF Release, Leases, CacheLeases, AllAppendLeases, AppendLeases
<1>2. /\ pool' \in Pool /\ \A p \in Page : pool'.refs[p] >= 0
      /\ RefsCountLeases' /\ FiniteLeases(Leases)'
  BY <1>1, LeasesWithout, UnrefCounts, CountedPool
     DEF IInv, TypeOK, RefsCountLeases, Release, ReleasedPool
<1>3. TypeOK'
  <2>1. payload' \in [Page -> [Slot -> History]]
    BY ScrubType DEF IInv, TypeOK, Release
  <2>. QED
    BY <1>0, <1>2, <2>1 DEF IInv, TypeOK, Release, Leased, Idle, Without, Restrict
<1>4. TablesOK' /\ TransactionOK' /\ PublishingOK'
  BY <1>0 DEF IInv, Release, TablesOK, TransactionOK, PublishingOK, Idle
<1>. QED
  BY <1>2, <1>3, <1>4 DEF IInv

\* clear gives back every page of every sequence and of the index.
LEMMA ClearPreserves ==
  ASSUME IInv, Clear
  PROVE  IInv'
<1>. DEFINE S == AllSequenceLeases(DOMAIN sequences)
            C == CacheLeases(DOMAIN lease)
<1>0. /\ DOMAIN sequences' = {} /\ DOMAIN lease' = {} /\ DOMAIN reservations' = {}
      /\ DOMAIN appends = {} /\ appends' = appends
  BY DEF Clear, Idle
<1>1. Leases' = {}
  BY <1>0 DEF Leases, AllSequenceLeases, CacheLeases, AllAppendLeases
<1>2. Leases = S \cup C
  BY <1>0 DEF Leases, AllAppendLeases
<1>3. S \cap C = {}
  BY OwnersApart DEF AllSequenceLeases, SequenceLeases, CacheLeases
<1>4. /\ Unref(pool, S) \in Pool /\ Counts(Unref(pool, S), Leases \ S)
      /\ FiniteLeases(Leases \ S)
  BY <1>2, UnrefCounts DEF IInv, TypeOK, RefsCountLeases
<1>5. Leases \ S = C
  BY <1>2, <1>3
<1>6. pool' \in Pool /\ Counts(pool', Leases') /\ FiniteLeases(Leases')
  <2>. DEFINE q == Unref(pool, S)
  <2>1. q \in Pool /\ Counts(q, C) /\ FiniteLeases(C) /\ pool' = Unref(q, C)
    BY <1>4, <1>5 DEF Clear, ReleasedPool
  <2>. HIDE DEF q, C, S
  <2>2. /\ Unref(q, C) \in Pool /\ Counts(Unref(q, C), C \ C) /\ FiniteLeases(C \ C)
    BY <2>1, UnrefCounts
  <2>. QED
    BY <2>1, <2>2, <1>1
<1>7. /\ pool' \in Pool /\ \A p \in Page : pool'.refs[p] >= 0
      /\ RefsCountLeases' /\ FiniteLeases(Leases)'
  BY <1>6, CountedPool
<1>8. TypeOK'
  <2>1. payload' \in [Page -> [Slot -> History]]
    BY ScrubType DEF IInv, TypeOK, Clear
  <2>. QED
    BY <1>0, <1>7, <2>1 DEF IInv, TypeOK, Clear, Leased, Idle
<1>9. TablesOK' /\ TransactionOK' /\ PublishingOK'
  BY <1>0 DEF IInv, Clear, TablesOK, TransactionOK, PublishingOK, Idle
<1>. QED
  BY <1>7, <1>8, <1>9 DEF IInv

\* The leases that are left when the index gives some of its leases up.
LEMMA LeasesWithoutCached ==
  ASSUME NEW hs \in SUBSET DOMAIN lease
  PROVE  /\ CacheLeases(hs) \subseteq Leases
         /\ Leases \ CacheLeases(hs) =
                AllSequenceLeases(DOMAIN sequences) \cup CacheLeases(DOMAIN lease \ hs)
                \cup AllAppendLeases
<1>1. CacheLeases(hs) \cap AllSequenceLeases(DOMAIN sequences) = {}
  BY OwnersApart DEF AllSequenceLeases, SequenceLeases, CacheLeases
<1>2. CacheLeases(hs) \cap AllAppendLeases = {}
  BY OwnersApart DEF CacheLeases, AllAppendLeases, AppendLeases
<1>3. CacheLeases(hs) \cap CacheLeases(DOMAIN lease \ hs) = {}
  <2>1. \A g, h : <<"cache", g>> = <<"cache", h>> => g = h
    OBVIOUS
  <2>. QED
    BY <2>1 DEF CacheLeases
<1>4. CacheLeases(DOMAIN lease) = CacheLeases(hs) \cup CacheLeases(DOMAIN lease \ hs)
  BY DEF CacheLeases
<1>. QED
  BY <1>1, <1>2, <1>3, <1>4 DEF Leases

\* clear_prefix_cache gives back the pages of the index and no other.
LEMMA ClearPrefixCachePreserves ==
  ASSUME IInv, ClearPrefixCache
  PROVE  IInv'
<1>0. DOMAIN lease' = {}
  BY DEF ClearPrefixCache
<1>1. Leases' = Leases \ CacheLeases(Leased)
  <2>1. CacheLeases(DOMAIN lease)' = {} /\ CacheLeases(DOMAIN lease \ Leased) = {}
    BY <1>0 DEF CacheLeases, Leased
  <2>2. AllSequenceLeases(DOMAIN sequences)' = AllSequenceLeases(DOMAIN sequences)
        /\ AllAppendLeases' = AllAppendLeases
    BY DEF ClearPrefixCache, AllSequenceLeases, SequenceLeases, AllAppendLeases, AppendLeases
  <2>. QED
    BY <2>1, <2>2, LeasesWithoutCached DEF Leases, Leased
<1>2. /\ pool' \in Pool /\ \A p \in Page : pool'.refs[p] >= 0
      /\ RefsCountLeases' /\ FiniteLeases(Leases)'
  BY <1>1, LeasesWithoutCached, UnrefCounts, CountedPool
     DEF IInv, TypeOK, RefsCountLeases, ClearPrefixCache, Leased
<1>3. TypeOK'
  <2>1. payload' \in [Page -> [Slot -> History]]
    BY ScrubType DEF IInv, TypeOK, ClearPrefixCache
  <2>. QED
    BY <1>0, <1>2, <2>1 DEF IInv, TypeOK, ClearPrefixCache, Leased
<1>4. TablesOK' /\ TransactionOK' /\ PublishingOK'
  BY DEF IInv, ClearPrefixCache, TablesOK, TransactionOK, PublishingOK, Idle
<1>. QED
  BY <1>2, <1>3, <1>4 DEF IInv

------------------------------------------------------------------------------
\* Publication

\* publish never walks past the block table.
LEMMA PublishCountBound ==
  ASSUME IInv, NEW id \in DOMAIN sequences
  PROVE  PublishCount(id) \in Int /\ PublishCount(id) <= Len(sequences[id].blocks)
<1>. DEFINE x == Len(sequences[id].blocks)
            y == PagesFor(Used(id))
<1>1. x \in Nat /\ y \in Nat /\ CacheBlocks \in Int
  <2>1. x \in Nat /\ Used(id) \in Nat
    BY DEF IInv, TypeOK, Used, History
  <2>. QED
    BY <2>1, PagesForType, ManagerAssumption
<1>. HIDE DEF x, y
<1>2. \E m \in {x, y, CacheBlocks} : \A n \in {x, y, CacheBlocks} : m <= n
  BY <1>1
<1>3. Min({x, y, CacheBlocks}) \in {x, y, CacheBlocks} /\ Min({x, y, CacheBlocks}) <= x
  BY <1>2 DEF Min
<1>. QED
  BY <1>1, <1>3 DEF PublishCount, x, y

\* cache_prefix opens a publication on a page the sequence holds.
LEMMA CachePrefixPreserves ==
  ASSUME IInv, NEW id \in DOMAIN sequences, CachePrefix(id)
  PROVE  IInv'
<1>1. DOMAIN publishing' = {id} /\ publishing'[id] = 1
  BY DEF CachePrefix, With
<1>2. Leases' = Leases
  BY DEF CachePrefix, Leases, AllSequenceLeases, SequenceLeases, CacheLeases,
         AllAppendLeases, AppendLeases
<1>3. TypeOK'
  BY <1>1 DEF IInv, TypeOK, CachePrefix, Idle, Leased
<1>4. TablesOK' /\ TransactionOK' /\ PublishingOK'
  <2>1. 1 \in 1 .. PublishCount(id)
    BY PublishCountBound DEF CachePrefix
  <2>2. PublishCount(id)' = PublishCount(id)
    BY DEF CachePrefix, PublishCount, Used
  <2>. QED
    BY <1>1, <2>1, <2>2 DEF IInv, CachePrefix, TablesOK, TransactionOK, PublishingOK
<1>. QED
  BY <1>2, <1>3, <1>4, SameLeases DEF IInv, CachePrefix

\* The publication moves on to a page there is, or ends.
LEMMA NextRoundOK ==
  ASSUME IInv, NEW id \in DOMAIN publishing,
         publishing' = NextRound(id, publishing[id]) \/ publishing' = <<>>,
         appends' = appends, sequences' = sequences
  PROVE  PublishingOK' /\ TablesOK' /\ TransactionOK' /\ DOMAIN publishing' \subseteq {id}
<1>1. id \in DOMAIN sequences
  BY DEF IInv, TypeOK
<1>2. publishing[id] \in 1 .. PublishCount(id) /\ PublishCount(id) \in Int
  BY <1>1, PublishCountBound DEF IInv, PublishingOK
<1>3. CASE publishing' = <<>>
  <2>1. DOMAIN publishing' = {}
    BY <1>3
  <2>. QED
    BY <2>1 DEF IInv, TablesOK, PublishingOK, TransactionOK
<1>4. CASE /\ publishing[id] # PublishCount(id)
           /\ publishing' = With(<<>>, id, publishing[id] + 1)
  <2>1. DOMAIN publishing' = {id} /\ publishing'[id] = publishing[id] + 1
    BY <1>4 DEF With
  <2>2. publishing[id] + 1 \in 1 .. PublishCount(id)
    BY <1>2, <1>4
  <2>3. PublishCount(id)' = PublishCount(id)
    BY DEF PublishCount, Used
  <2>. QED
    BY <2>1, <2>2, <2>3 DEF IInv, TablesOK, PublishingOK, TransactionOK
<1>. QED
  BY <1>3, <1>4 DEF NextRound

\* A round of publish that finds its page leased takes none.
LEMMA PublishKnownPreserves ==
  ASSUME IInv, NEW id \in DOMAIN publishing, PublishKnown(id) \/ PublishFails(id)
  PROVE  IInv'
<1>1. PublishingOK' /\ TablesOK' /\ TransactionOK' /\ DOMAIN publishing' \subseteq {id}
  BY NextRoundOK DEF PublishKnown, PublishFails
<1>2. Leases' = Leases
  BY DEF PublishKnown, PublishFails, Leases, AllSequenceLeases, SequenceLeases, CacheLeases,
         AllAppendLeases, AppendLeases
<1>3. TypeOK'
  BY <1>1 DEF IInv, TypeOK, PublishKnown, PublishFails, Leased
<1>. QED
  BY <1>1, <1>2, <1>3, SameLeases DEF IInv, PublishKnown, PublishFails
------------------------------------------------------------------------------
\* Steps that take leases

\* A block table holds finitely many leases.
LEMMA SequenceLeasesFinite ==
  ASSUME NEW id, NEW blocks \in Seq(Page)
  PROVE  IsFiniteSet(SequenceLeases(id, blocks))
<1>. DEFINE n == Len(blocks)
            l(i) == [owner |-> <<"sequence", id, i>>, page |-> blocks[i]]
            f == [i \in 1 .. n |-> l(i)]
            T == {l(i) : i \in 1 .. n}
<1>1. n \in Nat
  OBVIOUS
<1>2. IsFiniteSet(1 .. n)
  BY <1>1, FS_Interval
<1>3. f \in Surjection(1 .. n, T)
  BY DEF Surjection
<1>. HIDE DEF f, n, T
<1>4. IsFiniteSet(T)
  BY <1>2, <1>3, FS_Surjection
<1>. QED
  BY <1>4 DEF T, n, SequenceLeases

\* The leases of a block table are finitely many on every page.
LEMMA FiniteLeasesOf ==
  ASSUME NEW A, IsFiniteSet(A)
  PROVE  FiniteLeases(A)
<1>. SUFFICES ASSUME NEW p \in Page PROVE IsFiniteSet(On(p, A))
  BY DEF FiniteLeases
<1>1. On(p, A) \in SUBSET A
  BY DEF On
<1>. HIDE DEF On
<1>. QED
  BY <1>1, FS_Subset

\* An empty sequence gets a block table of pages that are in use already.
LEMMA SharedBlocks ==
  ASSUME IInv, NEW id \in DOMAIN sequences, sequences[id].blocks = <<>>, Idle,
         NEW blocks \in Seq(Page), NEW tokens \in History, tokens # <<>> => blocks # <<>>,
         \A i \in 1 .. Len(blocks) : \E l \in Leases : l.page = blocks[i],
         pool' = Retain(pool, SequenceLeases(id, blocks)),
         sequences' = [sequences EXCEPT ![id] = [blocks |-> blocks, tokens |-> tokens]],
         UNCHANGED <<reservations, lease, appends, publishing, payload>>
  PROVE  IInv'
<1>. DEFINE A == SequenceLeases(id, blocks)
<1>0. /\ DOMAIN sequences' = DOMAIN sequences
      /\ sequences'[id] = [blocks |-> blocks, tokens |-> tokens]
      /\ \A i \in DOMAIN sequences \ {id} : sequences'[i] = sequences[i]
      /\ DOMAIN appends = {} /\ DOMAIN publishing = {}
  BY DEF Idle
<1>1. AllSequenceLeases(DOMAIN sequences)' = AllSequenceLeases(DOMAIN sequences) \cup A
  <2>1. SequenceLeases(id, sequences[id].blocks) = {}
    BY DEF SequenceLeases
  <2>. QED
    BY <1>0, <2>1 DEF AllSequenceLeases, SequenceLeases
<1>2. Leases' = Leases \cup A
  BY <1>0, <1>1 DEF Leases, CacheLeases, AllAppendLeases
<1>3. Leases \cap A = {}
  <2>1. A \cap AllSequenceLeases(DOMAIN sequences) = {}
    <3>1. \A i, j, k, l : <<"sequence", i, j>> = <<"sequence", k, l>> => i = k
      OBVIOUS
    <3>2. SequenceLeases(id, sequences[id].blocks) = {}
      BY DEF SequenceLeases
    <3>. QED
      BY <3>1, <3>2 DEF AllSequenceLeases, SequenceLeases
  <2>2. A \cap CacheLeases(DOMAIN lease) = {}
    BY OwnersApart DEF SequenceLeases, CacheLeases
  <2>3. AllAppendLeases = {}
    BY <1>0 DEF AllAppendLeases
  <2>. QED
    BY <2>1, <2>2, <2>3 DEF Leases
<1>4. FiniteLeases(A)
  BY SequenceLeasesFinite, FiniteLeasesOf
<1>5. \A p \in Page : On(p, A) # {} => On(p, Leases) # {}
  BY DEF On, SequenceLeases
<1>6. pool' \in Pool /\ Counts(pool', Leases') /\ FiniteLeases(Leases')
  <2>. HIDE DEF A
  <2>1. pool \in Pool /\ Counts(pool, Leases) /\ FiniteLeases(Leases)
    BY DEF IInv, TypeOK, RefsCountLeases
  <2>. DEFINE L == Leases
  <2>. HIDE DEF L
  <2>2. pool \in Pool /\ Counts(pool, L) /\ FiniteLeases(L) /\ L \cap A = {}
        /\ FiniteLeases(A) /\ \A p \in Page : On(p, A) # {} => On(p, L) # {}
    BY <2>1, <1>3, <1>4, <1>5 DEF L
  <2>3. /\ Retain(pool, A) \in Pool /\ Counts(Retain(pool, A), L \cup A)
        /\ FiniteLeases(L \cup A)
    BY <2>2, RetainCounts
  <2>. QED
    BY <1>2, <2>3 DEF L, A
<1>7. /\ pool' \in Pool /\ \A p \in Page : pool'.refs[p] >= 0
      /\ RefsCountLeases' /\ FiniteLeases(Leases)'
  BY <1>6, CountedPool
<1>8. TypeOK'
  BY <1>0, <1>7 DEF IInv, TypeOK, Leased
<1>9. TablesOK' /\ TransactionOK' /\ PublishingOK'
  BY <1>0 DEF IInv, TypeOK, TablesOK, TransactionOK, PublishingOK
<1>. QED
  BY <1>7, <1>8, <1>9 DEF IInv

\* fork_sequence retains every page of the source once.
LEMMA ForkSequencePreserves ==
  ASSUME IInv, NEW source \in DOMAIN sequences, NEW target \in DOMAIN sequences,
         ForkSequence(source, target)
  PROVE  IInv'
<1>. DEFINE blocks == sequences[source].blocks
            tokens == sequences[source].tokens
<1>1. /\ blocks \in Seq(Page) /\ tokens \in History
      /\ tokens # <<>> => blocks # <<>>
      /\ sequences[source] = [blocks |-> blocks, tokens |-> tokens]
  BY DEF IInv, TypeOK, TablesOK
<1>2. ASSUME NEW i \in 1 .. Len(blocks)
      PROVE  \E l \in Leases : l.page = blocks[i]
  <2>. DEFINE l == [owner |-> <<"sequence", source, i>>, page |-> blocks[i]]
  <2>1. l \in SequenceLeases(source, blocks)
    BY DEF SequenceLeases
  <2>2. l \in Leases
    BY <2>1 DEF Leases, AllSequenceLeases
  <2>. QED
    BY <2>2
<1>3. sequences[target].blocks = <<>>
  BY DEF ForkSequence, Empty
<1>. HIDE DEF blocks, tokens
<1>4. /\ pool' = Retain(pool, SequenceLeases(target, blocks))
      /\ sequences' = [sequences EXCEPT ![target] = [blocks |-> blocks, tokens |-> tokens]]
      /\ Idle /\ UNCHANGED <<reservations, lease, appends, publishing, payload>>
  BY <1>1 DEF ForkSequence, blocks
<1>. QED
  BY <1>1, <1>2, <1>3, <1>4, SharedBlocks
------------------------------------------------------------------------------
\* The walk of the prefix index

\* Prefixes of a history are histories.
LEMMA PrefixType ==
  ASSUME NEW h \in History, NEW n \in 0 .. Len(h)
  PROVE  Prefix(h, n) \in History /\ Len(Prefix(h, n)) = n
<1>1. h \in Seq(Token) /\ Len(h) \in Nat
  BY DEF History
<1>2. \A i \in 1 .. n : i \in 1 .. Len(h)
  BY <1>1
<1>. QED
  BY <1>1, <1>2, SubSeqProperties DEF Prefix, History

\* Two edges have a longest common prefix, no longer than either.
LEMMA MatchedBound ==
  ASSUME NEW x \in History, NEW y \in History
  PROVE  /\ Matched(x, y) \in 0 .. Len(y) /\ Matched(x, y) <= Len(x)
         /\ Prefix(x, Matched(x, y)) = Prefix(y, Matched(x, y))
<1>. DEFINE C == CommonPrefixes({x, y})
            N == {Len(c) : c \in C}
<1>1. \A c \in C : Len(c) \in 0 .. Len(y) /\ Len(c) \in Nat
  <2>1. ASSUME NEW c \in C
        PROVE  Len(c) \in Nat
    <3>1. PICK s \in {x, y} : c \in Prefixes(s)
      BY DEF CommonPrefixes
    <3>2. PICK l \in 0 .. Len(s) : c = SubSeq(s, 1, l)
      BY <3>1 DEF Prefixes
    <3>3. s \in History
      OBVIOUS
    <3>. QED
      BY <3>2, <3>3, PrefixType DEF Prefix
  <2>2. \A c \in C : Len(c) <= Len(y)
    BY DEF CommonPrefixes, IsPrefix
  <2>. QED
    BY <2>1, <2>2 DEF History
<1>2. <<>> \in C
  <2>1. SubSeq(x, 1, 0) = <<>> /\ SubSeq(y, 1, 0) = <<>>
    BY SubSeqEmpty DEF History
  <2>2. <<>> \in Prefixes(x)
    BY <2>1 DEF Prefixes, History
  <2>3. IsPrefix(<<>>, x) /\ IsPrefix(<<>>, y)
    BY <2>1, SubSeqEmpty DEF IsPrefix, History
  <2>. QED
    BY <2>2, <2>3 DEF CommonPrefixes
<1>3. \E c \in C : \A d \in C : Len(d) <= Len(c)
  <2>1. Len(y) \in Int /\ N \in SUBSET (0 .. Len(y)) /\ N # {}
    <3>1. Len(<<>>) \in N
      BY <1>2
    <3>2. Len(y) \in Int
      BY DEF History
    <3>. QED
      BY <1>1, <3>1, <3>2
  <2>2. Max(N) \in N /\ \A n \in N : Max(N) >= n
    <3>. HIDE DEF N
    <3>. QED
      BY <2>1, MaxMember
  <2>3. PICK c \in C : Max(N) = Len(c)
    BY <2>2
  <2>. QED
    BY <1>1, <2>2, <2>3
<1>4. LongestCommonPrefix({x, y}) \in C
  <2>. HIDE DEF C
  <2>1. LongestCommonPrefix({x, y}) = CHOOSE c \in C : \A d \in C : Len(d) <= Len(c)
    BY DEF LongestCommonPrefix, C
  <2>. QED
    BY <1>3, <2>1
<1>5. \A c \in C : Len(c) <= Len(x) /\ SubSeq(x, 1, Len(c)) = SubSeq(y, 1, Len(c))
  <2>1. \A c \in C : IsPrefix(c, x) /\ IsPrefix(c, y)
    BY DEF CommonPrefixes
  <2>. HIDE DEF C
  <2>. QED
    BY <2>1 DEF IsPrefix
<1>. HIDE DEF C
<1>. QED
  BY <1>1, <1>4, <1>5 DEF Matched, Prefix

\* The walk follows leased pages only.
LEMMA WholePagesOK ==
  ASSUME NEW prompt \in History, prompt # <<>>
  PROVE  /\ WholePages(prompt) \in Nat
         /\ WholePages(prompt) * BlockTokens <= ReuseLimit(prompt)
         /\ \A i \in 1 .. WholePages(prompt) : Prefix(prompt, i * BlockTokens) \in Leased
<1>. DEFINE k == ReuseLimit(prompt) \div BlockTokens
            S == {n \in 0 .. k : \A i \in 1 .. n : Prefix(prompt, i * BlockTokens) \in Leased}
<1>1. ReuseLimit(prompt) \in Nat /\ BlockTokens \in Nat \ {0}
  BY ManagerAssumption DEF ReuseLimit, History
<1>2. k \in Int /\ k >= 0 /\ k * BlockTokens <= ReuseLimit(prompt)
  BY <1>1
<1>. HIDE DEF k
<1>3. 0 \in S
  BY <1>2
<1>4. Max(S) \in S
  <2>1. S \in SUBSET (0 .. k) /\ S # {}
    BY <1>3
  <2>. HIDE DEF S
  <2>. QED
    BY <1>2, <2>1, MaxMember
<1>5. WholePages(prompt) = Max(S)
  BY DEF WholePages, k
<1>6. WholePages(prompt) \in 0 .. k /\
      \A i \in 1 .. WholePages(prompt) : Prefix(prompt, i * BlockTokens) \in Leased
  BY <1>4, <1>5
<1>7. \A w \in 0 .. k : w * BlockTokens <= k * BlockTokens
  BY <1>1, <1>2
<1>. QED
  BY <1>1, <1>2, <1>6, <1>7

\* The partial match that ends the walk.
LEMMA BestMatchLeased ==
  ASSUME NEW h \in History, NEW query
  PROVE  \A c \in BestMatch(Children(h), query) : c \in Leased /\ c # <<>>
<1>1. \A c \in BestMatch(Children(h), query) :
         c \in Leased /\ PagesFor(Len(c)) = PagesFor(Len(h)) + 1
  BY DEF BestMatch, Neighbours, Children
<1>2. PagesFor(Len(h)) \in Nat /\ PagesFor(Len(<<>>)) = 0
  BY PagesForType DEF History
<1>. QED
  BY <1>1, <1>2

\* The last page of a history is a history.
LEMMA EdgeType ==
  ASSUME NEW h \in History, h # <<>>
  PROVE  Edge(h) \in History
<1>. DEFINE n == Len(h)
            z == PagesFor(n) - 1
            m == BlockTokens * z + 1
<1>1. n \in Nat \ {0} /\ PagesFor(n) \in Nat \ {0}
  BY PagesForType DEF History
<1>2. m \in Int /\ m >= 1
  <2>1. z \in Nat /\ BlockTokens \in Nat
    BY <1>1, ManagerAssumption
  <2>. HIDE DEF z
  <2>. QED
    BY <1>1, <2>1
<1>. HIDE DEF m
<1>3. \A i \in m .. n : h[i] \in Token
  <2>. SUFFICES ASSUME NEW i \in m .. n PROVE h[i] \in Token
    OBVIOUS
  <2>1. i \in 1 .. Len(h)
    BY <1>1, <1>2
  <2>. QED
    BY <2>1 DEF History
<1>4. SubSeq(h, m, n) \in Seq(Token)
  BY <1>1, <1>2, <1>3, SubSeqProperties
<1>. QED
  BY <1>4 DEF Edge, m, History

\* The walk of reuse ends on leased entries, within the prompt.
LEMMA WalkOK ==
  ASSUME IInv, NEW prompt \in History, prompt # <<>>
  PROVE  /\ Walk(prompt).nodes \in Seq(Leased)
         /\ Walk(prompt).count \in 0 .. Len(prompt)
         /\ Walk(prompt).count > 0 => Walk(prompt).nodes # <<>>
<1>. DEFINE whole == WholePages(prompt)
            start == whole * BlockTokens
            limit == ReuseLimit(prompt)
            end   == Min({start + BlockTokens, limit})
            nodes == [i \in 1 .. whole |-> Prefix(prompt, i * BlockTokens)]
            query == SubSeq(prompt, start + 1, end)
            best  == BestMatch(Children(Prefix(prompt, start)), query)
            c     == CHOOSE x \in best : TRUE
<1>1. /\ whole \in Nat /\ start \in Nat /\ limit \in Nat /\ start <= limit
      /\ Len(prompt) = limit + 1 /\ BlockTokens \in Nat \ {0}
  <2>1. BlockTokens \in Nat \ {0} /\ Len(prompt) \in Nat \ {0} /\ limit = Len(prompt) - 1
    BY ManagerAssumption DEF History, ReuseLimit
  <2>. QED
    BY <2>1, WholePagesOK
<1>2. nodes \in Seq(Leased)
  BY <1>1, WholePagesOK
<1>3. end \in Nat /\ start <= end /\ end <= limit
  <2>1. \E m \in {start + BlockTokens, limit} : \A n \in {start + BlockTokens, limit} : m <= n
    BY <1>1
  <2>2. end \in {start + BlockTokens, limit} /\ \A n \in {start + BlockTokens, limit} : end <= n
    BY <2>1, Zenon DEF Min
  <2>. QED
    BY <1>1, <2>2
<1>4. query \in History /\ Len(query) = end - start
  <2>1. \A i \in start + 1 .. end : prompt[i] \in Token
    BY <1>1, <1>3 DEF History
  <2>. HIDE DEF start, end
  <2>2. /\ SubSeq(prompt, start + 1, end) \in Seq(Token)
        /\ Len(SubSeq(prompt, start + 1, end)) =
              IF start + 1 <= end THEN end - (start + 1) + 1 ELSE 0
    BY <1>1, <1>3, <2>1, SubSeqProperties
  <2>. QED
    BY <1>1, <1>3, <2>2 DEF History
<1>5. CASE best = {}
  <2>1. Walk(prompt) = [nodes |-> nodes, count |-> start]
    BY <1>5 DEF Walk
  <2>2. start > 0 => nodes # <<>>
    <3>1. start > 0 => whole > 0
      BY <1>1
    <3>2. Len(nodes) = whole
      BY <1>1
    <3>. HIDE DEF nodes
    <3>. QED
      BY <3>1, <3>2
  <2>. HIDE DEF nodes, start
  <2>. QED
    BY <1>1, <1>2, <2>1, <2>2
<1>6. CASE best # {}
  <2>1. c \in best
    BY <1>6
  <2>2. c \in Leased /\ c \in History /\ c # <<>>
    <3>1. Prefix(prompt, start) \in History
      BY <1>1, PrefixType
    <3>2. c \in Leased /\ c # <<>>
      BY <2>1, <3>1, BestMatchLeased
    <3>. QED
      BY <3>2 DEF IInv, TypeOK
  <2>3. Edge(c) \in History
    BY <2>2, EdgeType
  <2>4. MatchedTail(Edge(c), query) \in 0 .. Len(query)
    BY <1>4, <2>3, MatchedBound DEF MatchedTail
  <2>5. Walk(prompt) = [nodes |-> Append(nodes, c),
                        count |-> start + MatchedTail(Edge(c), query)]
    BY <1>6 DEF Walk
  <2>6. start + MatchedTail(Edge(c), query) \in 0 .. Len(prompt)
    BY <1>1, <1>3, <1>4, <2>4, SMTT(30)
  <2>7. Append(nodes, c) \in Seq(Leased) /\ Append(nodes, c) # <<>>
    <3>. HIDE DEF nodes, c
    <3>. QED
      BY <1>2, <2>2, AppendProperties
  <2>. HIDE DEF nodes, query, start, c
  <2>. QED
    BY <2>5, <2>6, <2>7
<1>. QED
  BY <1>5, <1>6

\* The prompts are non-empty histories.
LEMMA PromptType ==
  ASSUME NEW prompt \in Prompts
  PROVE  prompt \in History
<1>1. PICK t \in Texts : prompt \in {Prefix(t, n) : n \in 1 .. Len(t)}
  BY DEF Prompts
<1>2. t \in History
  BY ManagerAssumption DEF History
<1>3. PICK n \in 1 .. Len(t) : prompt = Prefix(t, n)
  BY <1>1
<1>4. n \in 0 .. Len(t)
  BY <1>2, <1>3 DEF History
<1>. QED
  BY <1>2, <1>3, <1>4, PrefixType

\* reuse_prefix retains the pages the walk found, or none when they do not fit.
LEMMA ReusePrefixPreserves ==
  ASSUME IInv, NEW id \in DOMAIN sequences, NEW prompt \in Prompts, ReusePrefix(id, prompt)
  PROVE  IInv'
<1>. DEFINE nodes  == Walk(prompt).nodes
            blocks == [i \in 1 .. Len(nodes) |-> lease[nodes[i]]]
            tokens == Prefix(prompt, Walk(prompt).count)
<1>1. /\ nodes \in Seq(Leased) /\ Walk(prompt).count \in 0 .. Len(prompt)
      /\ Walk(prompt).count > 0 => nodes # <<>>
  BY WalkOK, PromptType DEF ReusePrefix
<1>2. /\ blocks \in Seq(Page) /\ tokens \in History /\ Len(blocks) = Len(nodes)
      /\ tokens # <<>> => blocks # <<>>
  <2>1. tokens \in History /\ Len(tokens) = Walk(prompt).count
    BY <1>1, PrefixType, PromptType
  <2>2. tokens # <<>> => nodes # <<>>
    <3>1. tokens # <<>> => Len(tokens) > 0
      BY <2>1 DEF History
    <3>. QED
      BY <1>1, <2>1, <3>1
  <2>. HIDE DEF nodes
  <2>3. \A i \in 1 .. Len(nodes) : lease[nodes[i]] \in Page
    BY <1>1 DEF IInv, TypeOK
  <2>. QED
    BY <1>1, <2>1, <2>3, <2>2
<1>3. ASSUME NEW i \in 1 .. Len(blocks)
      PROVE  \E l \in Leases : l.page = blocks[i]
  <2>. DEFINE l == [owner |-> <<"cache", nodes[i]>>, page |-> lease[nodes[i]]]
  <2>1. nodes[i] \in Leased /\ blocks[i] = lease[nodes[i]]
    <3>. HIDE DEF nodes
    <3>. QED
      BY <1>1, <1>2
  <2>2. l \in CacheLeases(DOMAIN lease)
    BY <2>1 DEF CacheLeases, Leased
  <2>. QED
    BY <2>1, <2>2 DEF Leases
<1>4. CASE UNCHANGED <<pool, sequences>>
  <2>1. Leases' = Leases
    BY <1>4 DEF ReusePrefix, Leases, AllSequenceLeases, SequenceLeases, CacheLeases,
                AllAppendLeases, AppendLeases
  <2>2. TypeOK'
    BY <1>4 DEF IInv, TypeOK, ReusePrefix, Leased
  <2>3. TablesOK' /\ TransactionOK' /\ PublishingOK'
    BY <1>4 DEF IInv, ReusePrefix, TablesOK, TransactionOK, PublishingOK, Idle
  <2>. QED
    BY <1>4, <2>1, <2>2, <2>3, SameLeases DEF IInv
<1>5. CASE /\ pool' = Retain(pool, SequenceLeases(id, blocks))
           /\ sequences' = [sequences EXCEPT ![id] = [blocks |-> blocks, tokens |-> tokens]]
  <2>1. sequences[id].blocks = <<>> /\ Idle
        /\ UNCHANGED <<reservations, lease, appends, publishing, payload>>
    BY DEF ReusePrefix, Empty
  <2>. HIDE DEF blocks, tokens
  <2>. QED
    BY <1>2, <1>3, <1>5, <2>1, SharedBlocks
<1>. QED
  BY <1>4, <1>5 DEF ReusePrefix
------------------------------------------------------------------------------
\* The publication of a new page, which may cost the oldest lease

\* The history under which a round files its page.
LEMMA PublishKeyType ==
  ASSUME IInv, NEW id \in DOMAIN publishing
  PROVE  /\ id \in DOMAIN sequences
         /\ PublishKey(id, publishing[id]) \in History
         /\ publishing[id] \in 1 .. Len(sequences[id].blocks)
<1>. DEFINE x == publishing[id] * BlockTokens
            y == Used(id)
<1>1. id \in DOMAIN sequences
  BY DEF IInv, TypeOK
<1>2. /\ publishing[id] \in 1 .. PublishCount(id)
      /\ publishing[id] \in 1 .. Len(sequences[id].blocks)
  <2>1. Len(sequences[id].blocks) \in Nat
    BY <1>1 DEF IInv, TypeOK
  <2>. QED
    BY <1>1, <2>1, PublishCountBound DEF IInv, PublishingOK
<1>3. sequences[id].tokens \in History /\ y \in Nat /\ y = Len(sequences[id].tokens)
  BY <1>1 DEF IInv, TypeOK, Used, History
<1>4. x \in Nat
  BY <1>1, <1>2, PublishCountBound, ManagerAssumption
<1>. HIDE DEF x, y
<1>5. Min({x, y}) \in 0 .. y
  <2>1. \E m \in {x, y} : \A n \in {x, y} : m <= n
    BY <1>3, <1>4
  <2>2. Min({x, y}) \in {x, y} /\ \A n \in {x, y} : Min({x, y}) <= n
    BY <2>1, Zenon DEF Min
  <2>. QED
    BY <1>3, <1>4, <2>2
<1>6. Prefix(sequences[id].tokens, Min({x, y})) \in History
  BY <1>3, <1>5, PrefixType
<1>. QED
  BY <1>1, <1>2, <1>6 DEF PublishKey, x, y

\* A round of publish that leases a page retains it, and gives back the evicted one.
LEMMA PublishNewPreserves ==
  ASSUME IInv, NEW id \in DOMAIN publishing, PublishNew(id)
  PROVE  IInv'
<1>. DEFINE i       == publishing[id]
            h       == PublishKey(id, i)
            page    == sequences[id].blocks[i]
            victims == IF IndexFull THEN Victims(1) ELSE {}
            new     == [owner |-> <<"cache", h>>, page |-> page]
            D       == CacheLeases(victims)
            L       == Leases
<1>1. /\ id \in DOMAIN sequences /\ h \in History /\ i \in 1 .. Len(sequences[id].blocks)
      /\ page \in Page
  BY PublishKeyType DEF IInv, TypeOK
<1>2. /\ victims \in SUBSET DOMAIN lease /\ h \notin DOMAIN lease
      /\ pool' = Unref(Retain(pool, {new}), D)
      /\ lease' = With(Without(lease, victims), h, page)
      /\ payload' = Scrub(payload, pool'.free)
      /\ publishing' = NextRound(id, publishing[id])
      /\ UNCHANGED <<sequences, reservations, appends>>
  BY DEF PublishNew, Victims, Leased
<1>. HIDE DEF i, h, page, victims
<1>3. /\ DOMAIN lease' = (DOMAIN lease \ victims) \cup {h} /\ lease'[h] = page
      /\ \A g \in DOMAIN lease \ victims : lease'[g] = lease[g]
  BY <1>2 DEF With, Without, Restrict
<1>4. CacheLeases(DOMAIN lease)' = CacheLeases(DOMAIN lease \ victims) \cup {new}
  BY <1>2, <1>3 DEF CacheLeases
<1>5. /\ AllSequenceLeases(DOMAIN sequences)' = AllSequenceLeases(DOMAIN sequences)
      /\ AllAppendLeases' = AllAppendLeases
  BY <1>2 DEF AllSequenceLeases, SequenceLeases, AllAppendLeases, AppendLeases
<1>6. new \notin CacheLeases(DOMAIN lease) /\ new \notin L /\ new \notin D
  <2>1. \A f, g : <<"cache", f>> = <<"cache", g>> => f = g
    OBVIOUS
  <2>2. new \notin CacheLeases(DOMAIN lease) /\ new \notin D
    BY <1>2, <2>1 DEF CacheLeases
  <2>3. new \notin AllSequenceLeases(DOMAIN sequences) /\ new \notin AllAppendLeases
    <3>1. new.owner[1] = "cache"
      OBVIOUS
    <3>. HIDE DEF new
    <3>. QED
      BY <3>1, OwnerKinds
  <2>. QED
    BY <2>2, <2>3 DEF Leases
<1>7. D \subseteq L /\ Leases' = (L \cup {new}) \ D
  BY <1>2, <1>4, <1>5, <1>6, LeasesWithoutCached DEF Leases
<1>8. FiniteLeases({new})
  BY FiniteLeasesOf, FS_Singleton
<1>9. \A p \in Page : On(p, {new}) # {} => On(p, L) # {}
  <2>. DEFINE l == [owner |-> <<"sequence", id, i>>, page |-> page]
  <2>1. l \in SequenceLeases(id, sequences[id].blocks)
    BY <1>1 DEF SequenceLeases, page
  <2>2. l \in L
    BY <1>1, <2>1 DEF Leases, AllSequenceLeases
  <2>. HIDE DEF L
  <2>. QED
    BY <2>2 DEF On
<1>10. pool' \in Pool /\ Counts(pool', Leases') /\ FiniteLeases(Leases')
  <2>. DEFINE q == Retain(pool, {new})
              M == L \cup {new}
  <2>1. pool \in Pool /\ Counts(pool, L) /\ FiniteLeases(L) /\ L \cap {new} = {}
    BY <1>6 DEF IInv, TypeOK, RefsCountLeases
  <2>. HIDE DEF L, D, new
  <2>2. q \in Pool /\ Counts(q, M) /\ FiniteLeases(M)
    BY <1>8, <1>9, <2>1, RetainCounts
  <2>3. D \subseteq M
    BY <1>7
  <2>. HIDE DEF q, M
  <2>4. Unref(q, D) \in Pool /\ Counts(Unref(q, D), M \ D) /\ FiniteLeases(M \ D)
    BY <2>2, <2>3, UnrefCounts
  <2>. QED
    BY <1>2, <1>7, <2>4 DEF q, M
<1>11. /\ pool' \in Pool /\ \A p \in Page : pool'.refs[p] >= 0
       /\ RefsCountLeases' /\ FiniteLeases(Leases)'
  BY <1>10, CountedPool
<1>12. PublishingOK' /\ TablesOK' /\ TransactionOK' /\ DOMAIN publishing' \subseteq {id}
  BY <1>2, NextRoundOK
<1>13. TypeOK'
  <2>1. payload' \in [Page -> [Slot -> History]]
    BY <1>2, ScrubType DEF IInv, TypeOK
  <2>. QED
    BY <1>1, <1>2, <1>3, <1>11, <1>12, <2>1 DEF IInv, TypeOK, Leased
<1>. QED
  BY <1>11, <1>12, <1>13 DEF IInv
------------------------------------------------------------------------------
\* Steps of an open transaction

\* The only open transaction, and what it knows of its sequence.
LEMMA OpenTransaction ==
  ASSUME IInv, NEW id \in DOMAIN appends
  PROVE  /\ DOMAIN appends = {id} /\ DOMAIN publishing = {}
         /\ id \in DOMAIN sequences
         /\ sequences[id].blocks \in Seq(Page) /\ sequences[id].tokens \in History
         /\ Used(id) \in Nat
         /\ appends[id] \in [input : History, original : Nat,
                             copy : Seq([source : Page, destination : Page, valid : Nat]),
                             copied : BOOLEAN, written : Nat]
         /\ appends[id].copy # <<>> =>
               appends[id].copy[1] \in [source : Page, destination : Page, valid : Nat]
<1>1. id \in DOMAIN sequences
  BY DEF IInv, TypeOK
<1>2. sequences[id].blocks \in Seq(Page) /\ sequences[id].tokens \in History
  BY <1>1 DEF IInv, TypeOK
<1>3. Used(id) \in Nat
  BY <1>2 DEF Used, History
<1>4. appends[id] \in [input : History, original : Nat,
                       copy : Seq([source : Page, destination : Page, valid : Nat]),
                       copied : BOOLEAN, written : Nat]
  BY DEF IInv, TransactionOK
<1>5. appends[id].copy # <<>> =>
         appends[id].copy[1] \in [source : Page, destination : Page, valid : Nat]
  <2>. DEFINE c == appends[id].copy
  <2>1. c \in Seq([source : Page, destination : Page, valid : Nat])
    BY <1>4
  <2>. HIDE DEF c
  <2>2. c # <<>> => Len(c) \in Nat \ {0}
    BY <2>1, EmptySeq
  <2>3. c # <<>> => 1 \in 1 .. Len(c)
    BY <2>2
  <2>4. c # <<>> => c[1] \in [source : Page, destination : Page, valid : Nat]
    BY <2>1, <2>3, ElementOfSeq
  <2>. QED
    BY <2>4 DEF c
<1>6. DOMAIN publishing = {} /\ \A i \in DOMAIN appends : i = id
  BY DEF IInv, TypeOK
<1>7. DOMAIN appends = {id}
  BY <1>6
<1>. QED
  BY <1>1, <1>2, <1>3, <1>4, <1>5, <1>6, <1>7

\* copy_shared_tail moves KV and no lease.
LEMMA CopySharedTailPreserves ==
  ASSUME IInv, NEW id \in DOMAIN appends, CopySharedTail(id)
  PROVE  IInv'
<1>. DEFINE t == appends[id]
            c == t.copy[1]
<1>1. /\ DOMAIN appends' = DOMAIN appends /\ appends'[id] = [t EXCEPT !.copied = TRUE]
      /\ DOMAIN appends = {id}
  BY OpenTransaction DEF CopySharedTail
<1>2. Leases' = Leases
  <2>1. AppendLeases(id)' = AppendLeases(id)
    BY <1>1, OpenTransaction DEF AppendLeases
  <2>2. AllAppendLeases' = AllAppendLeases
    BY <1>1, <2>1 DEF AllAppendLeases
  <2>. QED
    BY <2>2 DEF CopySharedTail, Leases, AllSequenceLeases, SequenceLeases, CacheLeases
<1>3. payload' \in [Page -> [Slot -> History]]
  <2>1. c.source \in Page /\ c.destination \in Page
    BY OpenTransaction DEF CopySharedTail
  <2>2. payload \in [Page -> [Slot -> History]]
    BY DEF IInv, TypeOK
  <2>. HIDE DEF c
  <2>3. payload[c.source] \in [Slot -> History] /\ payload[c.destination] \in [Slot -> History]
    BY <2>1, <2>2
  <2>. DEFINE row == [s \in Slot |-> IF s < c.valid THEN payload[c.source][s]
                                                    ELSE payload[c.destination][s]]
  <2>4. row \in [Slot -> History]
    BY <2>3
  <2>5. payload' = [payload EXCEPT ![c.destination] = row]
    BY DEF CopySharedTail, c
  <2>. HIDE DEF row
  <2>. QED
    BY <2>1, <2>2, <2>4, <2>5
<1>4. TypeOK'
  BY <1>1, <1>3 DEF IInv, TypeOK, CopySharedTail, Leased
<1>5. TablesOK' /\ TransactionOK' /\ PublishingOK'
  <2>1. PublishingOK'
    BY OpenTransaction DEF PublishingOK, CopySharedTail
  <2>2. /\ t \in [input : History, original : Nat,
                  copy : Seq([source : Page, destination : Page, valid : Nat]),
                  copied : BOOLEAN, written : Nat]
    BY OpenTransaction
  <2>. HIDE DEF c
  <2>3. /\ appends'[id] \in [input : History, original : Nat,
                           copy : Seq([source : Page, destination : Page, valid : Nat]),
                           copied : BOOLEAN, written : Nat]
        /\ appends'[id].copy = t.copy /\ appends'[id].original = t.original
    BY <1>1, <2>2
  <2>4. TransactionOK'
    BY <1>1, <2>3, SMTT(30) DEF IInv, TransactionOK, CopySharedTail
  <2>. QED
    BY <2>1, <2>4 DEF IInv, TablesOK, CopySharedTail
<1>. QED
  BY <1>2, <1>4, <1>5, SameLeases DEF IInv, CopySharedTail

\* The backend writes KV and moves no lease.
LEMMA WriteTokenPreserves ==
  ASSUME IInv, NEW id \in DOMAIN appends, WriteToken(id)
  PROVE  IInv'
<1>. DEFINE t    == appends[id]
            n    == Used(id) + t.written
            past == sequences[id].tokens \o Prefix(t.input, t.written)
            now  == IF ReadKV(sequences[id].blocks, n) = CausalKV(past)
                    THEN Append(past, t.input[t.written + 1]) ELSE Junk
            x    == PageOf(sequences[id].blocks, n + 1)
            y    == SlotOf(n + 1)
<1>0. t.input \in History /\ t.written \in Nat /\ t.written < Len(t.input)
  BY OpenTransaction DEF WriteToken
<1>1. /\ DOMAIN appends' = DOMAIN appends
      /\ appends'[id] = [t EXCEPT !.written = t.written + 1]
      /\ DOMAIN appends = {id}
  BY OpenTransaction DEF WriteToken
<1>2. Leases' = Leases
  <2>1. AppendLeases(id)' = AppendLeases(id)
    BY <1>1, OpenTransaction DEF AppendLeases
  <2>2. AllAppendLeases' = AllAppendLeases
    BY <1>1, <2>1 DEF AllAppendLeases
  <2>. QED
    BY <2>2 DEF WriteToken, Leases, AllSequenceLeases, SequenceLeases, CacheLeases
<1>3. payload' \in [Page -> [Slot -> History]]
  <2>1. payload \in [Page -> [Slot -> History]]
    BY DEF IInv, TypeOK
  <2>2. now \in History
    <3>1. t.written \in 0 .. Len(t.input) /\ t.written + 1 \in 1 .. Len(t.input)
      BY <1>0 DEF History
    <3>2. Prefix(t.input, t.written) \in History
      BY <1>0, <3>1, PrefixType
    <3>3. past \in Seq(Token)
      <4>. DEFINE u == sequences[id].tokens
                  v == Prefix(t.input, t.written)
      <4>1. u \in Seq(Token) /\ v \in Seq(Token)
        BY <3>2, OpenTransaction DEF History
      <4>. HIDE DEF u, v
      <4>2. u \o v \in Seq(Token)
        BY <4>1, ConcatProperties
      <4>. QED
        BY <4>2 DEF u, v
    <3>4. t.input[t.written + 1] \in Token
      BY <1>0, <3>1 DEF History
    <3>5. Junk \in Seq(Token)
      BY DEF Junk
    <3>. HIDE DEF past, t
    <3>. QED
      BY <3>3, <3>4, <3>5 DEF History
  <2>3. payload' = [payload EXCEPT ![x][y] = now]
    BY DEF WriteToken
  <2>. HIDE DEF x, y, now
  <2>4. payload' = [payload EXCEPT ![x] = [payload[x] EXCEPT ![y] = now]]
    BY <2>3
  <2>5. \A p \in Page : [payload[p] EXCEPT ![y] = now] \in [Slot -> History]
    BY <2>1, <2>2
  <2>. QED
    BY <2>1, <2>4, <2>5
<1>4. TypeOK'
  BY <1>1, <1>3 DEF IInv, TypeOK, WriteToken, Leased
<1>5. TablesOK' /\ TransactionOK' /\ PublishingOK'
  <2>1. PublishingOK'
    BY OpenTransaction DEF PublishingOK, WriteToken
  <2>. QED
    BY <1>0, <1>1, <2>1, OpenTransaction DEF IInv, TablesOK, TransactionOK, WriteToken
<1>. QED
  BY <1>2, <1>4, <1>5, SameLeases DEF IInv, WriteToken

\* commit gives back the lease on the copied tail.
LEMMA CommitPreserves ==
  ASSUME IInv, NEW id \in DOMAIN appends, Commit(id)
  PROVE  IInv'
<1>1. /\ DOMAIN appends' = {} /\ DOMAIN appends = {id} /\ id \in DOMAIN sequences
      /\ DOMAIN sequences' = DOMAIN sequences
      /\ \A i \in DOMAIN sequences : sequences'[i].blocks = sequences[i].blocks
  <2>1. sequences[id] \in [blocks : Seq(Page), tokens : History]
    BY OpenTransaction DEF IInv, TypeOK
  <2>2. /\ DOMAIN sequences' = DOMAIN sequences
        /\ sequences'[id] = [sequences[id] EXCEPT !.tokens = @ \o appends[id].input]
        /\ \A i \in DOMAIN sequences \ {id} : sequences'[i] = sequences[i]
    BY OpenTransaction DEF Commit
  <2>3. sequences'[id].blocks = sequences[id].blocks
    BY <2>1, <2>2
  <2>4. DOMAIN appends' = {}
    BY DEF Commit
  <2>. QED
    BY <2>2, <2>3, <2>4, OpenTransaction
<1>2. Leases' = Leases \ AppendLeases(id) /\ AppendLeases(id) \subseteq Leases
  <2>1. AllAppendLeases = AppendLeases(id) /\ AllAppendLeases' = {}
    BY <1>1 DEF AllAppendLeases
  <2>2. AllAppendLeases \cap AllSequenceLeases(DOMAIN sequences) = {}
        /\ AllAppendLeases \cap CacheLeases(DOMAIN lease) = {}
    BY OwnerKinds
  <2>3. AllSequenceLeases(DOMAIN sequences)' = AllSequenceLeases(DOMAIN sequences)
        /\ CacheLeases(DOMAIN lease)' = CacheLeases(DOMAIN lease)
    BY <1>1 DEF Commit, AllSequenceLeases, SequenceLeases, CacheLeases
  <2>. QED
    BY <2>1, <2>2, <2>3 DEF Leases
<1>3. /\ pool' \in Pool /\ \A p \in Page : pool'.refs[p] >= 0
      /\ RefsCountLeases' /\ FiniteLeases(Leases)'
  BY <1>2, UnrefCounts, CountedPool DEF IInv, TypeOK, RefsCountLeases, Commit, CommittedPool
<1>4. TypeOK'
  <2>1. payload' \in [Page -> [Slot -> History]]
    BY ScrubType DEF IInv, TypeOK, Commit
  <2>2. sequences[id].tokens \o appends[id].input \in History
    <3>. DEFINE u == sequences[id].tokens
                v == appends[id].input
    <3>1. u \in Seq(Token) /\ v \in Seq(Token)
      BY OpenTransaction DEF History
    <3>. HIDE DEF u, v
    <3>2. u \o v \in Seq(Token)
      BY <3>1, ConcatProperties
    <3>. QED
      BY <3>2 DEF u, v, History
  <2>3. sequences'[id] \in [blocks : Seq(Page), tokens : History]
    BY <1>1, <2>2, OpenTransaction DEF IInv, TypeOK, Commit
  <2>4. \A i \in DOMAIN sequences \ {id} : sequences'[i] = sequences[i]
    BY DEF Commit
  <2>. QED
    BY <1>1, <1>3, <2>1, <2>3, <2>4 DEF IInv, TypeOK, Commit, Leased
<1>5. TablesOK'
  <2>1. \A i \in DOMAIN sequences \ {id} : sequences'[i] = sequences[i]
    BY DEF Commit
  <2>2. sequences[id].blocks # <<>>
    BY DEF IInv, TransactionOK
  <2>. QED
    BY <1>1, <2>1, <2>2 DEF IInv, TablesOK
<1>6. TransactionOK' /\ PublishingOK'
  <2>1. DOMAIN publishing = {}
    BY OpenTransaction
  <2>. QED
    BY <1>1, <2>1 DEF TransactionOK, PublishingOK, Commit
<1>. QED
  BY <1>3, <1>4, <1>5, <1>6 DEF IInv

------------------------------------------------------------------------------
\* Rollback: the transaction's lease on a shared tail returns to the sequence.

\* A page that changes its holder keeps its count.
LEMMA RenameLease ==
  ASSUME NEW q, NEW L, NEW a \in L, NEW b, b \notin L, a.page = b.page,
         Counts(q, L), FiniteLeases(L)
  PROVE  /\ Counts(q, (L \ {a}) \cup {b})
         /\ FiniteLeases((L \ {a}) \cup {b})
<1>. DEFINE M == (L \ {a}) \cup {b}
<1>1. ASSUME NEW p \in Page
      PROVE  /\ IsFiniteSet(On(p, M))
             /\ Cardinality(On(p, M)) = Cardinality(On(p, L))
             /\ On(p, M) = {} <=> On(p, L) = {}
  <2>1. CASE p # a.page
    <3>1. On(p, M) = On(p, L)
      BY <2>1 DEF On
    <3>. QED
      BY <3>1 DEF FiniteLeases
  <2>2. CASE p = a.page
    <3>. DEFINE S == On(p, L)
                T == S \ {a}
    <3>1. /\ a \in S /\ b \notin S /\ b \notin T /\ IsFiniteSet(S)
          /\ On(p, M) = T \cup {b}
      BY <2>2 DEF On, FiniteLeases
    <3>. HIDE DEF S
    <3>2. IsFiniteSet(T) /\ Cardinality(T) = Cardinality(S) - 1 /\ Cardinality(S) \in Nat
      BY <3>1, FS_RemoveElement, FS_CardinalityType
    <3>. HIDE DEF T
    <3>3. IsFiniteSet(T \cup {b}) /\ Cardinality(T \cup {b}) = Cardinality(T) + 1
      BY <3>1, <3>2, FS_AddElement
    <3>4. Cardinality(T \cup {b}) = Cardinality(S)
      BY <3>2, <3>3
    <3>. QED
      BY <3>1, <3>3, <3>4 DEF S
  <2>. QED
    BY <2>1, <2>2
<1>. QED
  BY <1>1 DEF Counts, FiniteLeases

\* The leases of one sequence among all of them.
LEMMA LeasesOfOne ==
  ASSUME NEW id \in DOMAIN sequences
  PROVE  AllSequenceLeases(DOMAIN sequences) =
            AllSequenceLeases(DOMAIN sequences \ {id})
            \cup SequenceLeases(id, sequences[id].blocks)
BY DEF AllSequenceLeases

\* A lease of one sequence is none of another one.
LEMMA LeasesOfOthers ==
  ASSUME NEW id, NEW blocks, NEW l \in SequenceLeases(id, blocks)
  PROVE  /\ l \notin AllSequenceLeases(DOMAIN sequences \ {id})
         /\ \A hs : l \notin CacheLeases(hs)
         /\ l \notin AllAppendLeases
<1>1. l.owner[1] = "sequence" /\ l.owner[2] = id
  BY DEF SequenceLeases
<1>2. \A m \in AllSequenceLeases(DOMAIN sequences \ {id}) : m.owner[2] # id
  BY DEF AllSequenceLeases, SequenceLeases
<1>. QED
  BY <1>1, <1>2, OwnerKinds

\* The lease of an open transaction.
LEMMA AppendLeasesOf ==
  ASSUME IInv, NEW id \in DOMAIN appends
  PROVE  /\ appends[id].copy = <<>> => AppendLeases(id) = {}
         /\ appends[id].copy # <<>> =>
               AppendLeases(id) = {[owner |-> <<"append", id>>,
                                    page  |-> appends[id].copy[1].source]}
<1>. DEFINE c == appends[id].copy
<1>1. c = <<>> \/ Len(c) = 1
  BY DEF IInv, TransactionOK
<1>2. c \in Seq([source : Page, destination : Page, valid : Nat])
  BY OpenTransaction
<1>. HIDE DEF c
<1>3. c = <<>> => ToSet(c) = {}
  BY DEF ToSet
<1>4. c # <<>> => ToSet(c) = {c[1]}
  <2>1. c # <<>> => DOMAIN c = {1}
    BY <1>1, <1>2
  <2>. QED
    BY <2>1 DEF ToSet
<1>. QED
  BY <1>3, <1>4 DEF AppendLeases, c

\* The block table a transaction restores: its original part, with the shared tail
\* in the place of the private copy.
LEMMA OriginalTable ==
  ASSUME IInv, NEW id \in DOMAIN appends
  PROVE  LET t      == appends[id]
             n      == t.original
             blocks == sequences[id].blocks
             orig   == OriginalBlocks(id)
         IN  /\ blocks \in Seq(Page) /\ n \in 0 .. Len(blocks)
             /\ t.copy # <<>> => n > 0 /\ t.copy[1].source \in Page
                                 /\ blocks[n] # t.copy[1].source
             /\ orig \in Seq(Page) /\ Len(orig) = n
             /\ \A i \in 1 .. n : orig[i] = IF t.copy # <<>> /\ i = n THEN t.copy[1].source
                                                                      ELSE blocks[i]
<1>. DEFINE t      == appends[id]
            n      == t.original
            blocks == sequences[id].blocks
            orig   == OriginalBlocks(id)
<1>1. /\ blocks \in Seq(Page) /\ n \in 0 .. Len(blocks)
      /\ t.copy # <<>> => n > 0 /\ t.copy[1].source \in Page
                          /\ blocks[n] # t.copy[1].source
  <2>1. blocks \in Seq(Page) /\ n \in Nat /\ (t.copy # <<>> => t.copy[1].source \in Page)
    BY OpenTransaction
  <2>2. /\ n <= Len(blocks)
        /\ t.copy # <<>> => n > 0 /\ blocks[n] # t.copy[1].source
    BY DEF IInv, TransactionOK
  <2>. QED
    BY <2>1, <2>2
<1>2. /\ orig \in Seq(Page) /\ Len(orig) = n
      /\ \A i \in 1 .. n : orig[i] = IF t.copy # <<>> /\ i = n THEN t.copy[1].source
                                                               ELSE blocks[i]
  <2>. DEFINE kept == Prefix(blocks, n)
  <2>1. \A i \in 1 .. n : blocks[i] \in Page
    BY <1>1
  <2>2. kept \in Seq(Page) /\ Len(kept) = n /\ \A i \in 1 .. n : kept[i] = blocks[i]
    <3>. HIDE DEF blocks, n
    <3>. QED
      BY <1>1, <2>1, SubSeqProperties DEF Prefix
  <2>. HIDE DEF kept
  <2>3. CASE t.copy = <<>>
    <3>1. orig = kept
      BY <2>3 DEF OriginalBlocks, kept
    <3>. HIDE DEF orig, t
    <3>. QED
      BY <2>2, <2>3, <3>1
  <2>4. CASE t.copy # <<>>
    <3>. DEFINE e == t.copy[1].source
    <3>1. orig = [kept EXCEPT ![n] = e]
      BY <2>4 DEF OriginalBlocks, kept
    <3>2. e \in Page /\ n \in 1 .. Len(kept)
      BY <1>1, <2>2, <2>4
    <3>3. t.copy # <<>>
      BY <2>4
    <3>. HIDE DEF orig, n, e
    <3>4. /\ [kept EXCEPT ![n] = e] \in Seq(Page) /\ Len([kept EXCEPT ![n] = e]) = Len(kept)
          /\ \A i \in 1 .. n : [kept EXCEPT ![n] = e][i] = IF i = n THEN e ELSE kept[i]
      BY <2>2, <3>2
    <3>. QED
      BY <2>2, <3>1, <3>3, <3>4 DEF e
  <2>. QED
    BY <2>3, <2>4
<1>. QED
  BY <1>1, <1>2

\* rollback gives back the private and the new pages and restores the shared tail.
LEMMA RollbackPreserves ==
  ASSUME IInv, NEW id \in DOMAIN appends, Rollback(id)
  PROVE  IInv'
<1>. DEFINE t      == appends[id]
            n      == t.original
            blocks == sequences[id].blocks
            orig   == OriginalBlocks(id)
            B      == SequenceLeases(id, blocks)
            O      == SequenceLeases(id, orig)
            Rest   == AllSequenceLeases(DOMAIN sequences \ {id}) \cup CacheLeases(DOMAIN lease)
            al     == [owner |-> <<"append", id>>, page |-> t.copy[1].source]
            ol     == [owner |-> <<"sequence", id, n>>, page |-> t.copy[1].source]
<1>1. /\ id \in DOMAIN sequences /\ DOMAIN appends = {id} /\ DOMAIN appends' = {}
      /\ DOMAIN publishing = {} /\ DOMAIN sequences' = DOMAIN sequences
      /\ sequences'[id] = [sequences[id] EXCEPT !.blocks = orig]
      /\ \A i \in DOMAIN sequences \ {id} : sequences'[i] = sequences[i]
      /\ pool' = Unref(pool, B \ O)
      /\ UNCHANGED <<reservations, lease, lru, publishing>>
  <2>1. /\ id \in DOMAIN sequences /\ DOMAIN appends = {id} /\ DOMAIN publishing = {}
    BY OpenTransaction
  <2>2. /\ pool' = Unref(pool, B \ O) /\ appends' = <<>>
        /\ sequences' = [sequences EXCEPT ![id].blocks = orig]
        /\ UNCHANGED <<reservations, lease, lru, publishing>>
    BY DEF Rollback
  <2>3. DOMAIN appends' = {}
    BY <2>2
  <2>. HIDE DEF orig, B, O
  <2>. QED
    BY <2>1, <2>2, <2>3
<1>2. /\ blocks \in Seq(Page) /\ n \in 0 .. Len(blocks)
      /\ t.copy # <<>> => n > 0 /\ t.copy[1].source \in Page
                          /\ blocks[n] # t.copy[1].source
  BY OriginalTable
<1>3. /\ orig \in Seq(Page) /\ Len(orig) = n
      /\ \A i \in 1 .. n : orig[i] = IF t.copy # <<>> /\ i = n THEN t.copy[1].source
                                                               ELSE blocks[i]
  BY OriginalTable
<1>4. Leases = Rest \cup B \cup AppendLeases(id) /\ Leases' = Rest \cup O
  <2>1. AllAppendLeases = AppendLeases(id) /\ AllAppendLeases' = {}
    BY <1>1 DEF AllAppendLeases
  <2>2. AllSequenceLeases(DOMAIN sequences) =
           AllSequenceLeases(DOMAIN sequences \ {id}) \cup B
    BY <1>1, LeasesOfOne
  <2>3. CacheLeases(DOMAIN lease)' = CacheLeases(DOMAIN lease)
    BY <1>1 DEF CacheLeases
  <2>4. AllSequenceLeases(DOMAIN sequences)' =
           AllSequenceLeases(DOMAIN sequences \ {id}) \cup O
    <3>1. sequences'[id].blocks = orig
      <4>1. sequences[id] \in [blocks : Seq(Page), tokens : History]
        BY <1>1 DEF IInv, TypeOK
      <4>. QED
        BY <1>1, <4>1
    <3>2. SequenceLeases(id, sequences'[id].blocks) = O
      BY <3>1
    <3>3. \A i \in DOMAIN sequences \ {id} :
             SequenceLeases(i, sequences'[i].blocks) = SequenceLeases(i, sequences[i].blocks)
      BY <1>1
    <3>4. DOMAIN sequences' = DOMAIN sequences /\ id \in DOMAIN sequences
      BY <1>1
    <3>. HIDE DEF O
    <3>5. ASSUME NEW l
          PROVE  l \in AllSequenceLeases(DOMAIN sequences)' <=>
                    \/ l \in AllSequenceLeases(DOMAIN sequences \ {id})
                    \/ l \in O
      BY <3>2, <3>3, <3>4 DEF AllSequenceLeases
    <3>. QED
      BY <3>5
  <2>. QED
    BY <2>1, <2>2, <2>3, <2>4 DEF Leases
<1>5. /\ \A l \in B \cup O : l \notin Rest /\ l \notin AppendLeases(id)
      /\ Rest \cap AppendLeases(id) = {}
  <2>1. \A l \in B \cup O : l \notin Rest /\ l \notin AllAppendLeases
    <3>. HIDE DEF blocks, orig
    <3>. QED
      BY LeasesOfOthers
  <2>2. AllAppendLeases = AppendLeases(id)
    BY <1>1 DEF AllAppendLeases
  <2>3. Rest \cap AllAppendLeases = {}
    BY OwnerKinds
  <2>. QED
    BY <2>1, <2>2, <2>3
<1>. HIDE DEF t, n, blocks, orig
<1>6. O \ B \subseteq {ol} /\ (t.copy # <<>> => ol \in O \ B) /\ (t.copy = <<>> => O \subseteq B)
  <2>1. \A i \in 1 .. n : i \in 1 .. Len(blocks)
    BY <1>2
  <2>2. ASSUME NEW l \in O
        PROVE  l \in B \/ (t.copy # <<>> /\ l = ol)
    <3>1. PICK i \in 1 .. n : l = [owner |-> <<"sequence", id, i>>, page |-> orig[i]]
      BY <1>3 DEF SequenceLeases
    <3>2. CASE t.copy # <<>> /\ i = n
      BY <1>3, <3>1, <3>2
    <3>3. CASE ~(t.copy # <<>> /\ i = n)
      <4>1. orig[i] = blocks[i]
        BY <1>3, <3>3
      <4>. QED
        BY <2>1, <3>1, <4>1 DEF SequenceLeases
    <3>. QED
      BY <3>2, <3>3
  <2>3. ASSUME t.copy # <<>>
        PROVE  ol \in O /\ ol \notin B
    <3>1. n \in 1 .. n /\ orig[n] = t.copy[1].source
      BY <1>2, <1>3, <2>3
    <3>2. ol \in O
      BY <1>3, <3>1 DEF SequenceLeases
    <3>3. ASSUME NEW i \in 1 .. Len(blocks),
                 ol = [owner |-> <<"sequence", id, i>>, page |-> blocks[i]]
          PROVE  FALSE
      <4>1. <<"sequence", id, i>> = <<"sequence", id, n>> /\ blocks[i] = t.copy[1].source
        BY <3>3
      <4>2. i = n
        BY <4>1
      <4>. QED
        BY <1>2, <2>3, <4>1, <4>2
    <3>. QED
      BY <3>2, <3>3 DEF SequenceLeases
  <2>. QED
    BY <2>2, <2>3
<1>7. /\ Unref(pool, B \ O) \in Pool
      /\ Counts(Unref(pool, B \ O), Leases \ (B \ O))
      /\ FiniteLeases(Leases \ (B \ O))
  <2>1. B \ O \subseteq Leases
    BY <1>4
  <2>. QED
    BY <2>1, UnrefCounts DEF IInv, TypeOK, RefsCountLeases
<1>8. Counts(pool', Leases') /\ FiniteLeases(Leases')
  <2>1. CASE t.copy = <<>>
    <3>1. AppendLeases(id) = {}
      BY <2>1, AppendLeasesOf DEF t
    <3>. HIDE DEF B, O, Rest, ol, al
    <3>2. Leases' = Leases \ (B \ O)
      BY <1>4, <1>5, <1>6, <2>1, <3>1
    <3>. QED
      BY <1>1, <1>7, <3>2
  <2>2. CASE t.copy # <<>>
    <3>1. AppendLeases(id) = {al}
      BY <2>2, AppendLeasesOf DEF t
    <3>2. al.page = ol.page
      OBVIOUS
    <3>. DEFINE L == Leases \ (B \ O)
                q == Unref(pool, B \ O)
    <3>. HIDE DEF B, O, Rest, ol, al
    <3>3. al \in L /\ ol \notin L /\ Leases' = (L \ {al}) \cup {ol}
      BY <1>4, <1>5, <1>6, <2>2, <3>1
    <3>4. Counts(q, L) /\ FiniteLeases(L)
      BY <1>7
    <3>5. pool' = q
      BY <1>1
    <3>. HIDE DEF L, q
    <3>6. Counts(q, (L \ {al}) \cup {ol}) /\ FiniteLeases((L \ {al}) \cup {ol})
      BY <3>2, <3>3, <3>4, RenameLease
    <3>. QED
      BY <3>3, <3>5, <3>6
  <2>. QED
    BY <2>1, <2>2
<1>9. /\ pool' \in Pool /\ \A p \in Page : pool'.refs[p] >= 0
      /\ RefsCountLeases' /\ FiniteLeases(Leases)'
  <2>1. pool' \in Pool
    BY <1>1, <1>7
  <2>. QED
    BY <1>8, <2>1, CountedPool
<1>10. sequences'[id] \in [blocks : Seq(Page), tokens : History]
       /\ sequences'[id].tokens = sequences[id].tokens /\ sequences'[id].blocks = orig
  <2>1. sequences[id] \in [blocks : Seq(Page), tokens : History]
    BY <1>1 DEF IInv, TypeOK
  <2>. QED
    BY <1>1, <1>3, <2>1
<1>11. TypeOK'
  <2>1. Undone(id) \in [Page -> [Slot -> History]]
    BY DEF IInv, TypeOK, Undone, Junk, History
  <2>2. payload' \in [Page -> [Slot -> History]]
    BY <2>1, ScrubType DEF Rollback
  <2>. QED
    BY <1>1, <1>9, <1>10, <2>2 DEF IInv, TypeOK, Leased
<1>12. TablesOK'
  <2>1. sequences[id].tokens # <<>> => orig # <<>>
    <3>1. sequences[id].tokens # <<>> => n > 0
      BY <1>1 DEF IInv, TransactionOK, n, t
    <3>. QED
      BY <1>3, <3>1
  <2>. QED
    BY <1>1, <1>10, <2>1 DEF IInv, TablesOK
<1>13. TransactionOK' /\ PublishingOK'
  BY <1>1 DEF TransactionOK, PublishingOK
<1>. QED
  BY <1>9, <1>11, <1>12, <1>13 DEF IInv

------------------------------------------------------------------------------
\* Eviction

\* Evicting the oldest entries gives back exactly their pages.
LEMMA EvictedPoolCounts ==
  ASSUME IInv, NEW k
  PROVE  /\ Victims(k) \in SUBSET DOMAIN lease
         /\ EvictedPool(k) \in Pool
         /\ Counts(EvictedPool(k), Leases \ CacheLeases(Victims(k)))
         /\ FiniteLeases(Leases \ CacheLeases(Victims(k)))
<1>1. Victims(k) \in SUBSET DOMAIN lease
  BY DEF Victims, Leased
<1>2. CacheLeases(Victims(k)) \subseteq Leases
  BY <1>1, LeasesWithoutCached
<1>. QED
  BY <1>1, <1>2, UnrefCounts DEF IInv, TypeOK, RefsCountLeases, EvictedPool

\* The index without the victims.
LEMMA EvictedIndex ==
  ASSUME IInv, NEW k, lease' = Without(lease, Victims(k))
  PROVE  /\ CacheLeases(DOMAIN lease)' = CacheLeases(DOMAIN lease \ Victims(k))
         /\ DOMAIN lease' = DOMAIN lease \ Victims(k)
         /\ \A h \in DOMAIN lease' : h \in History /\ lease'[h] \in Page
<1>1. /\ DOMAIN lease' = DOMAIN lease \ Victims(k)
      /\ \A h \in DOMAIN lease \ Victims(k) : lease'[h] = lease[h]
  BY DEF Without, Restrict
<1>. QED
  BY <1>1 DEF CacheLeases, IInv, TypeOK, Leased

\* prepare_append that throws for want of pages has evicted the index and taken none.
LEMMA PrepareExhaustedPreserves ==
  ASSUME IInv, NEW id \in DOMAIN sequences, NEW n, PrepareExhausted(id, n)
  PROVE  IInv'
<1>. DEFINE k == Len(lru)
<1>1. /\ Idle /\ pool' = EvictedPool(k) /\ lease' = Without(lease, Victims(k))
      /\ payload' = Scrub(payload, EvictedPool(k).free)
      /\ UNCHANGED <<sequences, reservations, appends, publishing>>
  BY DEF PrepareExhausted
<1>. HIDE DEF k
<1>2. Leases' = Leases \ CacheLeases(Victims(k))
  <2>1. AllSequenceLeases(DOMAIN sequences)' = AllSequenceLeases(DOMAIN sequences)
        /\ AllAppendLeases' = AllAppendLeases
    BY <1>1 DEF AllSequenceLeases, SequenceLeases, AllAppendLeases, AppendLeases
  <2>. QED
    BY <1>1, <2>1, EvictedIndex, EvictedPoolCounts, LeasesWithoutCached DEF Leases
<1>3. /\ pool' \in Pool /\ \A p \in Page : pool'.refs[p] >= 0
      /\ RefsCountLeases' /\ FiniteLeases(Leases)'
  BY <1>1, <1>2, EvictedPoolCounts, CountedPool
<1>4. TypeOK'
  <2>1. payload' \in [Page -> [Slot -> History]]
    BY <1>1, ScrubType DEF IInv, TypeOK
  <2>. QED
    BY <1>1, <1>3, <2>1, EvictedIndex DEF IInv, TypeOK, Leased
<1>5. TablesOK' /\ TransactionOK' /\ PublishingOK'
  BY <1>1 DEF IInv, TablesOK, TransactionOK, PublishingOK, Idle
<1>. QED
  BY <1>3, <1>4, <1>5 DEF IInv
------------------------------------------------------------------------------
\* The preparation of an append: fresh pages for the new positions of the block
\* table, one of them in the place of a shared tail.

\* The block table of an append: fresh pages behind the old ones, and one in the
\* place of a shared tail.
NewBlocks(blocks, required, needed, fresh) ==
    (IF needed = required THEN blocks ELSE [blocks EXCEPT ![Len(blocks)] = fresh[needed]])
    \o [i \in 1 .. required |-> fresh[i]]

\* The block table an append prepares: the old one with a private tail, and new pages.
LEMMA NewTable ==
  ASSUME NEW blocks \in Seq(Page), NEW required \in Nat, NEW needed \in {required, required + 1},
         needed # required => Len(blocks) > 0,
         NEW fresh, \A i \in 1 .. needed : fresh[i] \in Page
  PROVE  /\ NewBlocks(blocks, required, needed, fresh) \in Seq(Page)
         /\ Len(NewBlocks(blocks, required, needed, fresh)) = Len(blocks) + required
         /\ \A i \in 1 .. Len(blocks) :
               NewBlocks(blocks, required, needed, fresh)[i] =
                  IF needed # required /\ i = Len(blocks) THEN fresh[needed] ELSE blocks[i]
         /\ \A i \in Len(blocks) + 1 .. Len(blocks) + required :
               NewBlocks(blocks, required, needed, fresh)[i] = fresh[i - Len(blocks)]
<1>. DEFINE N == Len(blocks)
            first == IF needed = required THEN blocks ELSE [blocks EXCEPT ![N] = fresh[needed]]
            second == [i \in 1 .. required |-> fresh[i]]
<1>0. N \in Nat /\ NewBlocks(blocks, required, needed, fresh) = first \o second
  BY DEF NewBlocks
<1>1. /\ first \in Seq(Page) /\ Len(first) = N
      /\ \A i \in 1 .. N : first[i] = IF needed # required /\ i = N THEN fresh[needed]
                                                                    ELSE blocks[i]
  <2>1. CASE needed = required
    BY <2>1
  <2>2. CASE needed # required
    <3>1. fresh[needed] \in Page /\ N \in 1 .. Len(blocks)
      BY <2>2
    <3>2. first = [blocks EXCEPT ![N] = fresh[needed]]
      BY <2>2
    <3>3. first \in Seq(Page) /\ Len(first) = N
      BY <3>1, <3>2, ExceptSeq
    <3>4. \A i \in 1 .. N : first[i] = IF i = N THEN fresh[needed] ELSE blocks[i]
      BY <3>1, <3>2
    <3>. QED
      BY <2>2, <3>3, <3>4
  <2>. QED
    BY <2>1, <2>2
<1>2. second \in Seq(Page) /\ Len(second) = required
      /\ \A i \in 1 .. required : second[i] = fresh[i]
  <2>1. \A i \in 1 .. required : fresh[i] \in Page
    OBVIOUS
  <2>2. second \in [1 .. required -> Page]
    BY <2>1
  <2>3. second \in Seq(Page)
    BY <2>2, SeqDef
  <2>4. DOMAIN second = 1 .. required
    BY <2>2
  <2>5. Len(second) \in Nat /\ DOMAIN second = 1 .. Len(second)
    BY <2>3, LenProperties
  <2>6. Len(second) = required
    BY <2>4, <2>5
  <2>. QED
    BY <2>3, <2>6
<1>3. /\ first \o second \in Seq(Page) /\ Len(first \o second) = N + required
      /\ \A i \in 1 .. Len(first) + Len(second) :
            (first \o second)[i] = IF i <= Len(first) THEN first[i] ELSE second[i - Len(first)]
  <2>. HIDE DEF first, second, N
  <2>1. first \in Seq(Page) /\ second \in Seq(Page)
    BY <1>1, <1>2
  <2>2. /\ first \o second \in Seq(Page) /\ Len(first \o second) = Len(first) + Len(second)
        /\ \A i \in 1 .. Len(first) + Len(second) :
              (first \o second)[i] = IF i <= Len(first) THEN first[i] ELSE second[i - Len(first)]
    BY <2>1, ConcatProperties
  <2>. QED
    BY <1>1, <1>2, <2>2
<1>. HIDE DEF first, second
<1>4. \A i \in 1 .. N : (first \o second)[i] = first[i]
  BY <1>1, <1>2, <1>3
<1>5. \A i \in N + 1 .. N + required : (first \o second)[i] = second[i - N]
  BY <1>1, <1>2, <1>3
<1>6. \A i \in N + 1 .. N + required : i - N \in 1 .. required
  BY <1>0
<1>. QED
  BY <1>0, <1>1, <1>2, <1>3, <1>4, <1>5, <1>6

\* What PrepareAppend does, with names for the pieces it builds.
Prepared(id, input, k, required, needed, fresh, blocks, N, valid, copy, table) ==
    /\ Idle
    /\ required = RequiredBlocks(id, Len(input)) /\ valid = Used(id) % BlockTokens
    /\ needed # required <=> SharedTail(id, EvictedPool(k).refs)
    /\ required \in Nat /\ needed \in {required, required + 1} /\ valid \in Nat
    /\ fresh \in Injection(1 .. needed, EvictedPool(k).free)
    /\ blocks = sequences[id].blocks /\ N = Len(blocks)
    /\ copy = IF needed = required THEN <<>>
              ELSE <<[source |-> blocks[N], destination |-> fresh[needed], valid |-> valid]>>
    /\ table = (IF copy = <<>> THEN blocks ELSE [blocks EXCEPT ![N] = fresh[needed]])
               \o [i \in 1 .. required |-> fresh[i]]
    /\ blocks = <<>> => required > 0 /\ needed = required
    /\ pool' = Take(EvictedPool(k), SequenceLeases(id, table) \ SequenceLeases(id, blocks))
    /\ sequences' = [sequences EXCEPT ![id].blocks = table]
    /\ appends' = With(<<>>, id, [input |-> input, original |-> N, copy |-> copy,
                                 copied |-> FALSE, written |-> 0])
    /\ lease' = Without(lease, Victims(k))
    /\ payload' = Scrub(payload, pool'.free)
    /\ UNCHANGED <<reservations, publishing>>

\* The block table of a prepared append keeps the old entries, but for a private tail.
LEMMA PreparedTable ==
  ASSUME IInv, NEW id \in DOMAIN sequences, NEW input, NEW k, NEW required,
         NEW needed, NEW fresh, NEW blocks, NEW N, NEW valid, NEW copy, NEW table,
         Prepared(id, input, k, required, needed, fresh, blocks, N, valid, copy, table)
  PROVE  LET new == NewBlocks(blocks, required, needed, fresh)
         IN  /\ new \in Seq(Page) /\ Len(new) = Len(blocks) + required
             /\ \A i \in 1 .. Len(blocks) :
                   new[i] = IF needed # required /\ i = Len(blocks) THEN fresh[needed]
                                                                    ELSE blocks[i]
             /\ \A i \in Len(blocks) + 1 .. Len(blocks) + required :
                   new[i] = fresh[i - Len(blocks)]
<1>0. /\ required \in Nat /\ needed \in {required, required + 1}
      /\ fresh \in Injection(1 .. needed, EvictedPool(k).free)
      /\ blocks = sequences[id].blocks
      /\ blocks = <<>> => required > 0 /\ needed = required
  BY DEF Prepared
<1>1. blocks \in Seq(Page)
  BY <1>0 DEF IInv, TypeOK
<1>2. needed # required => Len(blocks) > 0
  <2>1. blocks # <<>> => Len(blocks) > 0
    BY <1>1
  <2>. QED
    BY <1>0, <2>1
<1>3. EvictedPool(k).free \subseteq Page
  BY EvictedPoolCounts DEF Pool
<1>4. \A i \in 1 .. needed : fresh[i] \in Page
  BY <1>0, <1>3 DEF Injection
<1>5. required \in Nat /\ needed \in {required, required + 1}
  BY <1>0
<1>. QED
  BY <1>1, <1>2, <1>4, <1>5, NewTable

\* An append that was prepared leases the pages of its new table and its shared tail.
LEMMA PreparedAppend ==
  ASSUME IInv, NEW id \in DOMAIN sequences, NEW input \in History, NEW k, NEW required,
         NEW needed, NEW fresh, NEW blocks, NEW N, NEW valid, NEW copy, NEW table,
         Prepared(id, input, k, required, needed, fresh, blocks, N, valid, copy, table)
  PROVE  IInv'
<1>0. /\ Idle
      /\ required \in Nat /\ needed \in {required, required + 1} /\ valid \in Nat
      /\ fresh \in Injection(1 .. needed, EvictedPool(k).free)
      /\ blocks = sequences[id].blocks /\ N = Len(blocks)
      /\ copy = IF needed = required THEN <<>>
                ELSE <<[source |-> blocks[N], destination |-> fresh[needed], valid |-> valid]>>
      /\ table = (IF copy = <<>> THEN blocks ELSE [blocks EXCEPT ![N] = fresh[needed]])
                 \o [i \in 1 .. required |-> fresh[i]]
      /\ blocks = <<>> => required > 0 /\ needed = required
      /\ pool' = Take(EvictedPool(k), SequenceLeases(id, table) \ SequenceLeases(id, blocks))
      /\ sequences' = [sequences EXCEPT ![id].blocks = table]
      /\ appends' = With(<<>>, id, [input |-> input, original |-> N, copy |-> copy,
                                   copied |-> FALSE, written |-> 0])
      /\ lease' = Without(lease, Victims(k))
      /\ payload' = Scrub(payload, pool'.free)
      /\ UNCHANGED <<reservations, publishing>>
  BY DEF Prepared
<1>1. LET new == NewBlocks(blocks, required, needed, fresh)
      IN  /\ new \in Seq(Page) /\ Len(new) = Len(blocks) + required
          /\ \A i \in 1 .. Len(blocks) :
                new[i] = IF needed # required /\ i = Len(blocks) THEN fresh[needed]
                                                                 ELSE blocks[i]
          /\ \A i \in Len(blocks) + 1 .. Len(blocks) + required :
                new[i] = fresh[i - Len(blocks)]
  BY PreparedTable
<1>. USE <1>0
<1>. DEFINE left == EvictedPool(k)
            P    == {i \in 1 .. N + required : i > N \/ (needed # required /\ i = N)}
            src(i) == IF i > N THEN i - N ELSE needed
            lse(i) == [owner |-> <<"sequence", id, i>>, page |-> table[i]]
            B    == SequenceLeases(id, blocks)
            T    == SequenceLeases(id, table)
            L1   == Leases \ CacheLeases(Victims(k))
            rest == AllSequenceLeases(DOMAIN sequences \ {id})
                    \cup CacheLeases(DOMAIN lease \ Victims(k))
            ol   == [owner |-> <<"sequence", id, N>>, page |-> blocks[N]]
            al   == [owner |-> <<"append", id>>, page |-> blocks[N]]
<1>2. /\ blocks \in Seq(Page) /\ N \in Nat /\ DOMAIN appends = {} /\ DOMAIN publishing = {}
      /\ left \in Pool /\ left.free \subseteq Page
  <2>1. left \in Pool
    BY EvictedPoolCounts
  <2>2. left.free \subseteq Page
    BY <2>1 DEF Pool
  <2>. HIDE DEF left
  <2>. QED
    BY <2>1, <2>2 DEF IInv, TypeOK, Idle
<1>3. /\ \A i \in 1 .. needed : fresh[i] \in left.free /\ fresh[i] \in Page
      /\ \A i, j \in 1 .. needed : fresh[i] = fresh[j] => i = j
      /\ needed # required => needed \in 1 .. needed /\ needed = required + 1 /\ N \in 1 .. N
  <2>1. /\ fresh \in [1 .. needed -> left.free]
        /\ \A i, j \in 1 .. needed : fresh[i] = fresh[j] => i = j
    BY DEF Injection, IsInjective
  <2>2. needed # required => N > 0
    <3>1. blocks # <<>> => Len(blocks) > 0
      BY <1>2
    <3>. QED
      BY <3>1
  <2>. HIDE DEF left
  <2>. QED
    BY <1>2, <2>1, <2>2
<1>. HIDE DEF left
<1>4. /\ copy = <<>> <=> needed = required
      /\ needed # required => /\ Len(copy) = 1
                              /\ copy[1] = [source |-> blocks[N], destination |-> fresh[needed],
                                            valid |-> valid]
      /\ copy \in Seq([source : Page, destination : Page, valid : Nat])
  <2>1. CASE needed = required
    BY <2>1
  <2>2. CASE needed # required
    <3>. DEFINE c == [source |-> blocks[N], destination |-> fresh[needed], valid |-> valid]
    <3>1. copy = <<c>>
      BY <2>2
    <3>2. c \in [source : Page, destination : Page, valid : Nat]
      BY <1>2, <1>3, <2>2
    <3>. HIDE DEF c
    <3>3. <<c>> # <<>> /\ Len(<<c>>) = 1 /\ <<c>>[1] = c
          /\ <<c>> \in Seq([source : Page, destination : Page, valid : Nat])
      BY <3>2
    <3>. QED
      BY <2>2, <3>1, <3>3 DEF c
  <2>. QED
    BY <2>1, <2>2
<1>5. /\ table \in Seq(Page) /\ Len(table) = N + required
      /\ \A i \in 1 .. N + required :
            table[i] = IF i \in P THEN fresh[src(i)] ELSE blocks[i]
  <2>1. table = NewBlocks(blocks, required, needed, fresh)
    BY <1>4 DEF NewBlocks
  <2>2. /\ table \in Seq(Page) /\ Len(table) = N + required
        /\ \A i \in 1 .. N : table[i] =
              IF needed # required /\ i = N THEN fresh[needed] ELSE blocks[i]
        /\ \A i \in N + 1 .. N + required : table[i] = fresh[i - N]
    BY <1>1, <2>1, ZenonT(30)
  <2>3. ASSUME NEW i \in 1 .. N + required
        PROVE  table[i] = IF i \in P THEN fresh[src(i)] ELSE blocks[i]
    <3>1. CASE i <= N
      <4>1. i \in 1 .. N /\ (i \in P <=> needed # required /\ i = N)
        BY <1>2, <3>1
      <4>. QED
        BY <1>2, <2>2, <3>1, <4>1
    <3>2. CASE i > N
      <4>1. i \in N + 1 .. N + required /\ i \in P
        BY <1>2, <3>2
      <4>. QED
        BY <2>2, <3>2, <4>1
    <3>. QED
      BY <1>2, <3>1, <3>2
  <2>. QED
    BY <2>2, <2>3
<1>6. /\ \A i \in P : i \in 1 .. N + required /\ src(i) \in 1 .. needed
      /\ \A i, j \in P : src(i) = src(j) => i = j
      /\ P \cap 1 .. N = IF needed = required THEN {} ELSE {N}
  <2>1. ASSUME NEW i \in P PROVE i \in 1 .. N + required /\ src(i) \in 1 .. needed
    BY <1>2, <1>3, SMTT(30)
  <2>2. ASSUME NEW i \in P, NEW j \in P, src(i) = src(j) PROVE i = j
    BY <1>2, <1>3, <2>2, SMTT(30)
  <2>3. P \cap 1 .. N = IF needed = required THEN {} ELSE {N}
    BY <1>2, <1>3
  <2>. QED
    BY <2>1, <2>2, <2>3
<1>7. /\ L1 = rest \cup B /\ Counts(left, L1) /\ FiniteLeases(L1)
      /\ \A l \in B \cup T : l \notin rest
      /\ al \notin rest \cup B \cup T
  <2>1. AllAppendLeases = {}
    BY <1>2 DEF AllAppendLeases
  <2>2. Counts(left, L1) /\ FiniteLeases(L1)
    BY EvictedPoolCounts DEF left
  <2>3. L1 = rest \cup B
    BY <2>1, LeasesOfOne, LeasesWithoutCached, EvictedPoolCounts
  <2>4. \A l \in B \cup T : l \notin rest
    BY LeasesOfOthers
  <2>5. al \notin rest
    <3>1. al.owner[1] = "append"
      OBVIOUS
    <3>. HIDE DEF al
    <3>. QED
      BY <3>1, OwnerKinds
  <2>6. al \notin B \cup T
    BY OwnersApart DEF SequenceLeases
  <2>. QED
    BY <2>2, <2>3, <2>4, <2>5, <2>6
<1>8. needed # required => ol \in B /\ fresh[needed] # blocks[N] /\ ol \notin T
  <2>. SUFFICES ASSUME needed # required
                PROVE  ol \in B /\ fresh[needed] # blocks[N] /\ ol \notin T
    OBVIOUS
  <2>1. ol \in B
    BY <1>3 DEF SequenceLeases
  <2>2. blocks[N] \in Page /\ N \in 1 .. N
    BY <1>2, <1>3
  <2>3. ol \in On(blocks[N], L1)
    BY <1>7, <2>1 DEF On
  <2>4. blocks[N] \notin left.free
    <3>. HIDE DEF L1, ol
    <3>. QED
      BY <1>7, <2>2, <2>3 DEF Counts
  <2>5. fresh[needed] # blocks[N]
    BY <1>3, <2>4
  <2>6. table[N] = fresh[needed]
    <3>1. N \in P /\ src(N) = needed
      BY <1>2, <2>2
    <3>. QED
      BY <1>5, <1>6, <3>1
  <2>7. ASSUME NEW i \in 1 .. Len(table), ol = lse(i)
        PROVE  FALSE
    <3>1. <<"sequence", id, i>> = <<"sequence", id, N>> /\ table[i] = blocks[N]
      BY <2>7
    <3>2. i = N
      BY <3>1
    <3>. QED
      BY <2>5, <2>6, <3>1, <3>2
  <2>. QED
    BY <2>1, <2>5, <2>7 DEF SequenceLeases
<1>. DEFINE A == T \ B
<1>9. /\ \A l \in A : \E i \in P : l = lse(i)
      /\ needed = required => T = B \cup A
      /\ needed # required => T = (B \ {ol}) \cup A
  <2>1. ASSUME NEW l \in A PROVE \E i \in P : l = lse(i)
    <3>1. PICK i \in 1 .. N + required : l = lse(i)
      BY <1>5, ZenonT(30) DEF SequenceLeases
    <3>2. CASE i \notin P
      <4>1. i \in 1 .. N /\ table[i] = blocks[i]
        BY <1>2, <1>5, <3>2
      <4>2. l \in B
        BY <3>1, <4>1 DEF SequenceLeases
      <4>. QED
        BY <4>2
    <3>. QED
      BY <3>1, <3>2
  <2>2. ASSUME NEW l \in B PROVE l \in T \/ (needed # required /\ l = ol)
    <3>1. PICK i \in 1 .. N : l = [owner |-> <<"sequence", id, i>>, page |-> blocks[i]]
      BY DEF SequenceLeases
    <3>2. CASE i \notin P
      <4>1. i \in 1 .. Len(table) /\ table[i] = blocks[i]
        BY <1>2, <1>5, <3>2
      <4>. QED
        BY <3>1, <4>1 DEF SequenceLeases
    <3>3. CASE i \in P
      <4>1. needed # required /\ i = N
        BY <1>2, <3>3
      <4>. QED
        BY <3>1, <4>1
    <3>. QED
      BY <3>2, <3>3
  <2>. HIDE DEF B, T, ol
  <2>. QED
    BY <1>8, <2>1, <2>2
<1>10. /\ Take(left, A) \in Pool /\ Counts(Take(left, A), L1 \cup A) /\ FiniteLeases(L1 \cup A)
  <2>1. ASSUME NEW p \in Page, On(p, A) # {}
        PROVE  p \in left.free /\ \E a : On(p, A) = {a}
    <3>1. PICK l \in On(p, A) : TRUE
      BY <2>1
    <3>2. l \in A /\ l.page = p
      BY <3>1 DEF On
    <3>3. PICK i \in P : l = lse(i)
      BY <1>9, <3>2
    <3>4. p = fresh[src(i)] /\ p \in left.free
      BY <1>3, <1>5, <1>6, <3>2, <3>3, ZenonT(30)
    <3>5. ASSUME NEW m \in On(p, A) PROVE m = l
      <4>1. m \in A /\ m.page = p
        BY <3>5 DEF On
      <4>2. PICK j \in P : m = lse(j)
        BY <1>9, <4>1, ZenonT(30)
      <4>3. p = fresh[src(j)]
        BY <1>5, <1>6, <4>1, <4>2
      <4>4. i = j
        BY <1>3, <1>6, <3>4, <4>3
      <4>. QED
        BY <3>3, <4>2, <4>4
    <3>6. On(p, A) = {l}
      BY <3>1, <3>5
    <3>. QED
      BY <3>4, <3>6
  <2>. HIDE DEF A, L1
  <2>. QED
    BY <1>2, <1>7, <2>1, TakeCounts
<1>11. /\ DOMAIN appends' = {id}
       /\ appends'[id] = [input |-> input, original |-> N, copy |-> copy,
                          copied |-> FALSE, written |-> 0]
       /\ DOMAIN sequences' = DOMAIN sequences
       /\ sequences'[id].blocks = table /\ sequences'[id].tokens = sequences[id].tokens
       /\ sequences'[id] \in [blocks : Seq(Page), tokens : History]
       /\ \A i \in DOMAIN sequences \ {id} : sequences'[i] = sequences[i]
  <2>1. sequences[id] \in [blocks : Seq(Page), tokens : History]
    BY DEF IInv, TypeOK
  <2>2. /\ sequences'[id] = [sequences[id] EXCEPT !.blocks = table]
        /\ DOMAIN sequences' = DOMAIN sequences
        /\ \A i \in DOMAIN sequences \ {id} : sequences'[i] = sequences[i]
    OBVIOUS
  <2>3. table \in Seq(Page)
    BY <1>5
  <2>4. /\ sequences'[id].blocks = table /\ sequences'[id].tokens = sequences[id].tokens
        /\ sequences'[id] \in [blocks : Seq(Page), tokens : History]
    BY <2>1, <2>2, <2>3
  <2>5. /\ DOMAIN appends' = {id}
        /\ appends'[id] = [input |-> input, original |-> N, copy |-> copy,
                           copied |-> FALSE, written |-> 0]
    BY DEF With
  <2>. QED
    BY <2>2, <2>4, <2>5
<1>12. Leases' = rest \cup T \cup (IF needed = required THEN {} ELSE {al})
  <2>1. AllAppendLeases' = IF needed = required THEN {} ELSE {al}
    <3>1. AllAppendLeases' = {[owner |-> <<"append", id>>, page |-> c.source] : c \in ToSet(copy)}
      <4>1. appends'[id].copy = copy
        BY <1>11, SMTT(30)
      <4>2. AppendLeases(id)' = {[owner |-> <<"append", id>>, page |-> c.source] : c \in ToSet(copy)}
        BY <4>1 DEF AppendLeases
      <4>3. AllAppendLeases' = AppendLeases(id)'
        BY <1>11 DEF AllAppendLeases
      <4>. QED
        BY <4>2, <4>3
    <3>2. CASE needed = required
      <4>1. ToSet(copy) = {}
        BY <1>4, <3>2 DEF ToSet
      <4>. QED
        BY <3>1, <3>2, <4>1
    <3>3. CASE needed # required
      <4>1. DOMAIN copy = {1} /\ copy[1].source = blocks[N]
        BY <1>4, <3>3
      <4>2. ToSet(copy) = {copy[1]}
        BY <4>1 DEF ToSet
      <4>. QED
        BY <3>1, <3>3, <4>1, <4>2, SMTT(30)
    <3>. QED
      BY <3>2, <3>3
  <2>2. CacheLeases(DOMAIN lease)' = CacheLeases(DOMAIN lease \ Victims(k))
    BY EvictedIndex
  <2>3. ASSUME NEW l
        PROVE  l \in AllSequenceLeases(DOMAIN sequences)' <=>
                  \/ l \in AllSequenceLeases(DOMAIN sequences \ {id})
                  \/ l \in T
    <3>1. SequenceLeases(id, sequences'[id].blocks) = T
      BY <1>11
    <3>2. \A i \in DOMAIN sequences \ {id} :
             SequenceLeases(i, sequences'[i].blocks) = SequenceLeases(i, sequences[i].blocks)
      BY <1>11
    <3>3. DOMAIN sequences' = DOMAIN sequences
      BY <1>11
    <3>. HIDE DEF T
    <3>. QED
      BY <3>1, <3>2, <3>3 DEF AllSequenceLeases
  <2>. HIDE DEF T, al
  <2>. QED
    BY <2>1, <2>2, <2>3 DEF Leases
<1>13. /\ pool' \in Pool /\ Counts(pool', Leases') /\ FiniteLeases(Leases')
  <2>1. pool' = Take(left, A)
    BY DEF left
  <2>2. CASE needed = required
    <3>. HIDE DEF A, B, T, rest, L1
    <3>1. Leases' = L1 \cup A
      BY <1>7, <1>9, <1>12, <2>2
    <3>. QED
      BY <1>10, <2>1, <3>1
  <2>3. CASE needed # required
    <3>. DEFINE L == L1 \cup A
                q == Take(left, A)
    <3>1. ol.page = al.page
      OBVIOUS
    <3>2. \A l \in A : l \in T /\ l \notin B
      OBVIOUS
    <3>. HIDE DEF A, B, T, rest, L1, ol, al
    <3>3. ol \in L /\ al \notin L /\ Leases' = (L \ {ol}) \cup {al}
      BY <1>7, <1>8, <1>9, <1>12, <2>3, <3>2
    <3>4. Counts(q, L) /\ FiniteLeases(L)
      BY <1>10
    <3>. HIDE DEF L, q
    <3>5. Counts(q, (L \ {ol}) \cup {al}) /\ FiniteLeases((L \ {ol}) \cup {al})
      BY <3>1, <3>3, <3>4, RenameLease
    <3>. QED
      BY <1>10, <2>1, <3>3, <3>5 DEF q
  <2>. QED
    BY <2>2, <2>3
<1>14. /\ pool' \in Pool /\ \A p \in Page : pool'.refs[p] >= 0
       /\ RefsCountLeases' /\ FiniteLeases(Leases)'
  BY <1>13, CountedPool
<1>. HIDE DEF P, src, lse, B, T, L1, rest, ol, al, A
<1>15. TypeOK'
  <2>1. payload' \in [Page -> [Slot -> History]]
    BY ScrubType DEF IInv, TypeOK
  <2>2. /\ \A i \in DOMAIN sequences' : sequences'[i] \in [blocks : Seq(Page), tokens : History]
        /\ DOMAIN sequences' \subseteq Id
    BY <1>11 DEF IInv, TypeOK
  <2>3. /\ DOMAIN appends' \cup DOMAIN publishing' \subseteq DOMAIN sequences'
        /\ DOMAIN appends' = {} \/ DOMAIN publishing' = {}
        /\ \A i, j \in DOMAIN appends' \cup DOMAIN publishing' : i = j
    BY <1>2, <1>11
  <2>4. \A h \in DOMAIN lease' : h \in History /\ lease'[h] \in Page
    BY EvictedIndex
  <2>. QED
    BY <1>14, <2>1, <2>2, <2>3, <2>4 DEF IInv, TypeOK, Leased
<1>16. table # <<>>
  <2>1. N + required > 0
    <3>1. blocks # <<>> => Len(blocks) > 0
      BY <1>2
    <3>. QED
      BY <1>2, <3>1
  <2>2. Len(table) > 0
    BY <1>5, <2>1
  <2>. QED
    BY <2>2, SMTT(30)
<1>17. TablesOK'
  BY <1>11, <1>16 DEF IInv, TablesOK
<1>18. TransactionOK'
  <2>1. appends'[id] \in [input : History, original : Nat,
                          copy : Seq([source : Page, destination : Page, valid : Nat]),
                          copied : BOOLEAN, written : Nat]
    <3>1. /\ input \in History /\ N \in Nat
          /\ copy \in Seq([source : Page, destination : Page, valid : Nat])
      BY <1>2, <1>4
    <3>2. [input |-> input, original |-> N, copy |-> copy, copied |-> FALSE, written |-> 0]
             \in [input : History, original : Nat,
                  copy : Seq([source : Page, destination : Page, valid : Nat]),
                  copied : BOOLEAN, written : Nat]
      BY <3>1
    <3>. QED
      BY <1>11, <3>2
  <2>2. N <= Len(table)
    BY <1>2, <1>5
  <2>3. sequences[id].tokens # <<>> => N > 0
    <3>1. blocks # <<>> => Len(blocks) > 0
      BY <1>2
    <3>. QED
      BY <3>1 DEF IInv, TablesOK
  <2>4. needed # required =>
           /\ Len(copy) = 1 /\ N > 0 /\ table[N] = copy[1].destination
           /\ copy[1].source # copy[1].destination
    <3>. SUFFICES ASSUME needed # required
                  PROVE  /\ Len(copy) = 1 /\ N > 0 /\ table[N] = copy[1].destination
                         /\ copy[1].source # copy[1].destination
      OBVIOUS
    <3>1. N \in P /\ src(N) = needed /\ N \in 1 .. N + required
      BY <1>2, <1>3 DEF P, src
    <3>2. table[N] = fresh[needed]
      BY <1>5, <3>1
    <3>. QED
      BY <1>2, <1>3, <1>4, <1>8, <3>2
  <2>5. /\ appends'[id].original = N /\ appends'[id].copy = copy
        /\ sequences'[id].blocks = table /\ sequences'[id].tokens = sequences[id].tokens
        /\ \A i \in DOMAIN appends' : i = id
    <3>1. appends'[id].original = N
      BY <1>11
    <3>2. appends'[id].copy = copy
      BY <1>11
    <3>3. \A i \in DOMAIN appends' : i = id
      BY <1>11, Zenon
    <3>. QED
      BY <1>11, <3>1, <3>2, <3>3
  <2>6. copy = <<>> \/ needed # required
    BY <1>4
  <2>. SUFFICES ASSUME NEW i \in DOMAIN appends'
                PROVE  /\ appends'[i] \in [input : History, original : Nat,
                                copy : Seq([source : Page, destination : Page, valid : Nat]),
                                copied : BOOLEAN, written : Nat]
                       /\ sequences'[i].blocks # <<>>
                       /\ appends'[i].original <= Len(sequences'[i].blocks)
                       /\ sequences'[i].tokens # <<>> => appends'[i].original > 0
                       /\ \/ appends'[i].copy = <<>>
                          \/ /\ Len(appends'[i].copy) = 1
                             /\ appends'[i].original > 0
                             /\ sequences'[i].blocks[appends'[i].original]
                                   = appends'[i].copy[1].destination
                             /\ appends'[i].copy[1].source # appends'[i].copy[1].destination
    BY DEF TransactionOK
  <2>7. i = id
    BY <2>5
  <2>. QED
    BY <1>16, <2>1, <2>2, <2>3, <2>4, <2>5, <2>6, <2>7, ZenonT(30)
<1>19. PublishingOK'
  BY <1>2 DEF PublishingOK
<1>. QED
  BY <1>14, <1>15, <1>17, <1>18, <1>19 DEF IInv

\* The inputs of an append are non-empty histories.
LEMMA InputType ==
  ASSUME IInv, NEW id \in DOMAIN sequences, NEW input \in Inputs(id)
  PROVE  input \in History
<1>1. PICK t \in Texts : input \in {SubSeq(t, Used(id) + 1, Used(id) + n) :
                                     n \in 1 .. Min({MaxInput, Len(t) - Used(id)})}
  BY DEF Inputs
<1>2. PICK n \in 1 .. Min({MaxInput, Len(t) - Used(id)}) :
         input = SubSeq(t, Used(id) + 1, Used(id) + n)
  BY <1>1
<1>. DEFINE u == Used(id)
<1>3. u \in Nat /\ t \in Seq(Token) /\ Len(t) \in Nat /\ MaxInput \in Nat
  BY ManagerAssumption DEF IInv, TypeOK, Used, History
<1>. HIDE DEF u
<1>4. Min({MaxInput, Len(t) - u}) <= Len(t) - u
  <2>. DEFINE x == Len(t) - u
  <2>1. x \in Int
    BY <1>3
  <2>. HIDE DEF x
  <2>2. \E m \in {MaxInput, x} : \A j \in {MaxInput, x} : m <= j
    BY <1>3, <2>1
  <2>3. \A j \in {MaxInput, x} : Min({MaxInput, x}) <= j
    BY <2>2, Zenon DEF Min
  <2>. QED
    BY <2>3 DEF x
<1>5. n \in Int /\ u + n <= Len(t)
  <2>1. Min({MaxInput, Len(t) - u}) \in Int
    <3>. DEFINE x == Len(t) - u
    <3>1. x \in Int
      BY <1>3
    <3>. HIDE DEF x
    <3>2. \E m \in {MaxInput, x} : \A j \in {MaxInput, x} : m <= j
      BY <1>3, <3>1
    <3>3. Min({MaxInput, x}) \in {MaxInput, x}
      BY <3>2, Zenon DEF Min
    <3>. QED
      BY <1>3, <3>1, <3>3 DEF x
  <2>. QED
    BY <1>2, <1>3, <1>4, <2>1 DEF u
<1>6. \A i \in u + 1 .. u + n : t[i] \in Token
  BY <1>3, <1>5
<1>7. SubSeq(t, u + 1, u + n) \in Seq(Token)
  BY <1>3, <1>5, <1>6, SubSeqProperties
<1>. QED
  BY <1>2, <1>7 DEF u, History

\* The new pages an append needs; a sequence without pages needs at least one.
LEMMA RequiredBlocksType ==
  ASSUME IInv, NEW id \in DOMAIN sequences, NEW n \in Nat \ {0}
  PROVE  /\ RequiredBlocks(id, n) \in Nat
         /\ sequences[id].blocks = <<>> => RequiredBlocks(id, n) > 0
<1>. DEFINE u == Used(id)
            b == Len(sequences[id].blocks)
            x == PagesFor(u + n) - b
<1>1. u \in Nat /\ b \in Nat
  BY DEF IInv, TypeOK, Used, History
<1>. HIDE DEF u
<1>2. PagesFor(u + n) \in Nat \ {0}
  <2>1. u + n \in Nat /\ u + n > 0
    BY <1>1
  <2>. QED
    BY <2>1, PagesForType
<1>3. sequences[id].blocks = <<>> => b = 0
  OBVIOUS
<1>4. x \in Int /\ (b = 0 => x > 0)
  BY <1>1, <1>2
<1>. HIDE DEF x
<1>5. \E m \in {0, x} : \A j \in {0, x} : m >= j
  BY <1>4
<1>6. Max({0, x}) \in {0, x} /\ \A j \in {0, x} : Max({0, x}) >= j
  BY <1>5, Zenon DEF Max
<1>7. Max({0, x}) \in Nat /\ (b = 0 => Max({0, x}) > 0)
  BY <1>4, <1>6
<1>. QED
  BY <1>3, <1>7 DEF RequiredBlocks, x, u

\* The pieces of a prepared append.
LEMMA PrepareAppendPieces ==
  ASSUME IInv, NEW id \in DOMAIN sequences, NEW input \in Inputs(id),
         ValidAppend(id, input), PrepareAppend(id, input)
  PROVE  \E k, required, needed, fresh, blocks, N, valid, copy, table :
            Prepared(id, input, k, required, needed, fresh, blocks, N, valid, copy, table)
<1>. DEFINE required == RequiredBlocks(id, Len(input))
            blocks   == sequences[id].blocks
            N        == Len(blocks)
            valid    == Used(id) % BlockTokens
            copyOf(needed, fresh) ==
               IF needed = required THEN <<>>
               ELSE <<[source |-> LastBlock(id), destination |-> fresh[needed], valid |-> valid]>>
            tableOf(copy, needed, fresh) ==
               (IF copy = <<>> THEN blocks ELSE [blocks EXCEPT ![N] = fresh[needed]])
               \o [i \in 1 .. required |-> fresh[i]]
            toFind(k) == PagesToFind(id, required, EvictedPool(k))
<1>1. PICK k \in 0 .. Len(lru) :
         /\ \E fresh \in Injection(1 .. toFind(k), EvictedPool(k).free) :
               LET copy  == copyOf(toFind(k), fresh)
                   table == tableOf(copy, toFind(k), fresh)
               IN  /\ pool' = Take(EvictedPool(k),
                                   SequenceLeases(id, table) \ SequenceLeases(id, blocks))
                   /\ sequences' = [sequences EXCEPT ![id].blocks = table]
                   /\ appends' = With(<<>>, id, [input |-> input, original |-> N, copy |-> copy,
                                                copied |-> FALSE, written |-> 0])
         /\ lease' = Without(lease, Victims(k))
         /\ payload' = Scrub(payload, pool'.free)
  BY DEF PrepareAppend
<1>. DEFINE needed == toFind(k)
<1>2. PICK fresh \in Injection(1 .. needed, EvictedPool(k).free) :
         LET copy  == copyOf(needed, fresh)
             table == tableOf(copy, needed, fresh)
         IN  /\ pool' = Take(EvictedPool(k),
                             SequenceLeases(id, table) \ SequenceLeases(id, blocks))
             /\ sequences' = [sequences EXCEPT ![id].blocks = table]
             /\ appends' = With(<<>>, id, [input |-> input, original |-> N, copy |-> copy,
                                          copied |-> FALSE, written |-> 0])
  BY <1>1
<1>. DEFINE copy  == copyOf(needed, fresh)
            table == tableOf(copy, needed, fresh)
<1>3. Idle /\ UNCHANGED <<reservations, publishing>>
  BY DEF PrepareAppend
<1>4. input \in History /\ Len(input) \in Nat \ {0}
  BY InputType DEF ValidAppend, History
<1>5. required \in Nat /\ (blocks = <<>> => required > 0)
  BY <1>4, RequiredBlocksType
<1>6. Used(id) \in Nat /\ BlockTokens \in Nat \ {0}
  BY ManagerAssumption DEF IInv, TypeOK, Used, History
<1>7. valid \in Nat
  BY <1>6
<1>8. SharedTail(id, EvictedPool(k).refs) => blocks # <<>>
  <2>1. SharedTail(id, EvictedPool(k).refs) => Used(id) # 0
    BY <1>6 DEF SharedTail
  <2>2. sequences[id].tokens = <<>> => Used(id) = 0
    BY DEF Used
  <2>. QED
    BY <2>1, <2>2 DEF IInv, TablesOK
<1>9. /\ needed \in {required, required + 1} /\ (blocks = <<>> => needed = required)
      /\ needed # required <=> SharedTail(id, EvictedPool(k).refs)
  <2>. HIDE DEF required, blocks
  <2>1. needed = required + (IF SharedTail(id, EvictedPool(k).refs) THEN 1 ELSE 0)
    BY DEF PagesToFind
  <2>. QED
    BY <1>5, <1>8, <2>1
<1>10. LastBlock(id) = blocks[N]
  BY DEF LastBlock
<1>. DEFINE c2 == IF needed = required THEN <<>>
                  ELSE <<[source |-> blocks[N], destination |-> fresh[needed], valid |-> valid]>>
<1>11. copy = c2
  BY <1>10
<1>12. /\ pool' = Take(EvictedPool(k), SequenceLeases(id, table) \ SequenceLeases(id, blocks))
       /\ sequences' = [sequences EXCEPT ![id].blocks = table]
       /\ appends' = With(<<>>, id, [input |-> input, original |-> N, copy |-> copy,
                                    copied |-> FALSE, written |-> 0])
       /\ lease' = Without(lease, Victims(k)) /\ payload' = Scrub(payload, pool'.free)
  BY <1>1, <1>2
<1>13. table = (IF copy = <<>> THEN blocks ELSE [blocks EXCEPT ![N] = fresh[needed]])
               \o [i \in 1 .. required |-> fresh[i]]
  OBVIOUS
<1>14. blocks = sequences[id].blocks /\ N = Len(blocks)
  OBVIOUS
<1>15. copy = IF needed = required THEN <<>>
              ELSE <<[source |-> blocks[N], destination |-> fresh[needed], valid |-> valid]>>
  BY <1>11
<1>16. fresh \in Injection(1 .. needed, EvictedPool(k).free)
  BY <1>2
<1>17. required = RequiredBlocks(id, Len(input)) /\ valid = Used(id) % BlockTokens
  OBVIOUS
<1>. HIDE DEF required, valid, needed, copy, table, blocks, N
<1>18. Prepared(id, input, k, required, needed, fresh, blocks, N, valid, copy, table)
  BY <1>3, <1>5, <1>7, <1>9, <1>12, <1>13, <1>14, <1>15, <1>16, <1>17 DEF Prepared
<1>. QED
  BY <1>18

\* prepare_append takes each new page once and keeps the shared tail leased.
LEMMA PrepareAppendPreserves ==
  ASSUME IInv, NEW id \in DOMAIN sequences, NEW input \in Inputs(id),
         ValidAppend(id, input), PrepareAppend(id, input)
  PROVE  IInv'
<1>1. PICK k, required, needed, fresh, blocks, N, valid, copy, table :
         Prepared(id, input, k, required, needed, fresh, blocks, N, valid, copy, table)
  BY PrepareAppendPieces
<1>2. input \in History
  BY InputType
<1>. QED
  BY <1>1, <1>2, PreparedAppend

------------------------------------------------------------------------------
\* The theorems

\* Every step keeps the inductive invariant: the pool's counters stay exact through
\* every call of the manager, and every page of a transaction finds its way back.
LEMMA NextIInv == IInv /\ [Next]_vars => IInv'
<1>. SUFFICES ASSUME IInv, [Next]_vars PROVE IInv'
  OBVIOUS
<1>1. CASE UNCHANGED vars
  <2>1. Leases' = Leases
    BY <1>1 DEF vars, Leases, AllSequenceLeases, SequenceLeases, CacheLeases,
                AllAppendLeases, AppendLeases
  <2>2. TypeOK'
    BY <1>1 DEF vars, IInv, TypeOK, Leased
  <2>3. TablesOK' /\ TransactionOK' /\ PublishingOK'
    BY <1>1 DEF vars, IInv, TablesOK, TransactionOK, PublishingOK, PublishCount, Used
  <2>. QED
    BY <1>1, <2>1, <2>2, <2>3, SameLeases DEF IInv, vars
<1>2. ASSUME NEW id \in Id, NEW n \in ReserveTokens, ReserveRequest(id, n) PROVE IInv'
  BY <1>2, ReserveRequestPreserves
<1>3. ASSUME NEW id \in Id, ReleaseReservation(id) \/ Create(id) PROVE IInv'
  BY <1>3, ReleaseReservationPreserves, CreatePreserves
<1>4. ASSUME NEW source \in DOMAIN sequences, NEW target \in DOMAIN sequences,
             ForkSequence(source, target)
      PROVE  IInv'
  BY <1>4, ForkSequencePreserves
<1>5. ASSUME NEW id \in DOMAIN sequences, NEW prompt \in Prompts, ReusePrefix(id, prompt)
      PROVE  IInv'
  BY <1>5, ReusePrefixPreserves
<1>6. ASSUME NEW id \in DOMAIN sequences, CachePrefix(id) \/ ResetSequence(id) \/ Release(id)
      PROVE  IInv'
  BY <1>6, CachePrefixPreserves, ResetSequencePreserves, ReleasePreserves
<1>7. ASSUME NEW id \in DOMAIN publishing, PublishKnown(id) \/ PublishNew(id) \/ PublishFails(id)
      PROVE  IInv'
  BY <1>7, PublishKnownPreserves, PublishNewPreserves
<1>8. CASE ClearPrefixCache \/ Clear
  BY <1>8, ClearPrefixCachePreserves, ClearPreserves
<1>9. ASSUME NEW id \in DOMAIN sequences, NEW input \in Inputs(id),
             ValidAppend(id, input) /\ PrepareAppend(id, input)
      PROVE  IInv'
  BY <1>9, PrepareAppendPreserves
<1>10. ASSUME NEW id \in DOMAIN sequences, NEW n, PrepareExhausted(id, n) PROVE IInv'
  BY <1>10, PrepareExhaustedPreserves
<1>11. ASSUME NEW id \in DOMAIN appends,
              CopySharedTail(id) \/ WriteToken(id) \/ Commit(id) \/ Rollback(id)
       PROVE  IInv'
  BY <1>11, CopySharedTailPreserves, WriteTokenPreserves, CommitPreserves, RollbackPreserves
<1>. QED
  BY <1>1, <1>2, <1>3, <1>4, <1>5, <1>6, <1>7, <1>8, <1>9, <1>10, <1>11 DEF Next

\* The inductive invariant holds in every reachable state.
LEMMA Invariance == Spec => []IInv
<1>1. Init => IInv
  BY InitIInv
<1>2. IInv /\ [Next]_vars => IInv'
  BY NextIInv
<1>. QED
  BY <1>1, <1>2, PTL DEF Spec

\* The pool's counters count exactly the leases of the block tables, the prefix
\* index and the open transaction (KvBlockPool::retain, unref, allocate and
\* reserve, through every call of KVManager): no page leaks, none is freed while
\* somebody holds it, none is handed out twice.
THEOREM RefsAlwaysCountLeases == Spec => []RefsCountLeases
<1>1. IInv => RefsCountLeases
  BY DEF IInv
<1>. QED
  BY <1>1, Invariance, PTL

\* The types of the manager's tables, with counters that never fall below zero,
\* which KvBlockPool::unref relies on and does not check.
THEOREM TypeAlwaysOK == Spec => []TypeOK
<1>1. IInv => TypeOK
  BY DEF IInv
<1>. QED
  BY <1>1, Invariance, PTL


------------------------------------------------------------------------------
\* The budget of the reservations

\* The pages id counts for in committed_blocks, by reservations r and sequences s.
Booked(r, s, id) ==
    IF id \in DOMAIN r THEN r[id] ELSE IF id \in DOMAIN s THEN Len(s[id].blocks) ELSE 0

\* Finitely many ids have a reservation or a sequence, of some size.
Sized(r, s) ==
    /\ IsFiniteSet(DOMAIN r) /\ \A id \in DOMAIN r : r[id] \in Nat
    /\ IsFiniteSet(DOMAIN s) /\ \A id \in DOMAIN s : Len(s[id].blocks) \in Nat

\* CommittedBlocks, by reservations r and sequences s.
Committed(r, s) ==
    SumFunction(r) + SumFunction([id \in DOMAIN s \ DOMAIN r |-> Len(s[id].blocks)])

\* committed_blocks is one sum over all ids.
LEMMA CommittedIs ==
  ASSUME NEW r, NEW s, Sized(r, s)
  PROVE  LET D == DOMAIN r \cup DOMAIN s
             f == [id \in D |-> Booked(r, s, id)]
         IN  /\ IsFiniteSet(D)
             /\ \A id \in D : f[id] \in Nat
             /\ Committed(r, s) = SumFunctionOnSet(f, D)
             /\ Committed(r, s) \in Nat
<1>. DEFINE R == DOMAIN r
            S == DOMAIN s \ DOMAIN r
            D == DOMAIN r \cup DOMAIN s
            f == [id \in D |-> Booked(r, s, id)]
            g == [id \in S |-> Len(s[id].blocks)]
<1>1. /\ IsFiniteSet(R) /\ IsFiniteSet(S) /\ IsFiniteSet(D) /\ R \cap S = {} /\ D = R \cup S
      /\ \A id \in R : r[id] \in Nat
      /\ \A id \in S : Len(s[id].blocks) \in Nat
  BY FS_Subset, FS_Union DEF Sized
<1>2. \A id \in R : f[id] = r[id]
  BY DEF Booked
<1>3. \A id \in S : f[id] = g[id] /\ g[id] \in Nat
  BY <1>1 DEF Booked
<1>4. DOMAIN g = S
  OBVIOUS
<1>. HIDE DEF f, g, S, R
<1>5. \A id \in R \cup S : f[id] \in Nat
  BY <1>1, <1>2, <1>3
<1>6. /\ SumFunctionOnSet(f, R \cup S) = SumFunctionOnSet(f, R) + SumFunctionOnSet(f, S)
      /\ SumFunctionOnSet(f, R) \in Nat /\ SumFunctionOnSet(f, S) \in Nat
  BY <1>1, <1>5, SumDisjointUnion
<1>7. SumFunctionOnSet(f, R) = SumFunctionOnSet(r, R)
  BY <1>1, <1>2, SumSame
<1>8. SumFunctionOnSet(f, S) = SumFunctionOnSet(g, S)
  BY <1>1, <1>3, SumSame
<1>9. Committed(r, s) = SumFunctionOnSet(r, R) + SumFunctionOnSet(g, S)
  BY <1>4 DEF Committed, SumFunction, R, g, S
<1>10. Committed(r, s) = SumFunctionOnSet(f, R \cup S) /\ Committed(r, s) \in Nat
  BY <1>6, <1>7, <1>8, <1>9
<1>. QED
  BY <1>1, <1>5, <1>10 DEF f

\* A change that lets one id at most grow, by a pages at most.
LEMMA CommittedGrowsBy ==
  ASSUME NEW r, NEW s, Sized(r, s), NEW r2, NEW s2, Sized(r2, s2), NEW k, NEW a \in Nat,
         \A id : Booked(r2, s2, id) <= Booked(r, s, id) + (IF id = k THEN a ELSE 0)
  PROVE  Committed(r2, s2) <= Committed(r, s) + a
<1>. DEFINE D == DOMAIN r \cup DOMAIN s
            E == DOMAIN r2 \cup DOMAIN s2
            f == [id \in D |-> Booked(r, s, id)]
            g == [id \in E |-> Booked(r2, s2, id)]
<1>1. IsFiniteSet(D) /\ (\A id \in D : f[id] \in Nat) /\ Committed(r, s) = SumFunctionOnSet(f, D)
  BY CommittedIs
<1>2. IsFiniteSet(E) /\ (\A id \in E : g[id] \in Nat) /\ Committed(r2, s2) = SumFunctionOnSet(g, E)
  BY CommittedIs
<1>3. \A id : Booked(r, s, id) = IF id \in D THEN f[id] ELSE 0
  BY DEF Booked
<1>4. \A id \in E : g[id] = Booked(r2, s2, id)
  OBVIOUS
<1>. HIDE DEF D, E, f, g
<1>5. \A id \in E : g[id] <= (IF id \in D THEN f[id] ELSE 0) + (IF id = k THEN a ELSE 0)
  BY <1>3, <1>4
<1>. QED
  BY <1>1, <1>2, <1>5, SumGrowsBy

\* All block tables together, with the rest of one reservation, are within what is committed.
LEMMA TablesWithinCommitted ==
  ASSUME NEW r, NEW s, Sized(r, s), \A id \in DOMAIN r \cap DOMAIN s : Len(s[id].blocks) <= r[id],
         NEW k \in DOMAIN r \cap DOMAIN s
  PROVE  LET h == [id \in DOMAIN s |-> Len(s[id].blocks)]
         IN  /\ SumFunctionOnSet(h, DOMAIN s) \in Nat
             /\ SumFunctionOnSet(h, DOMAIN s) + r[k] <= Committed(r, s) + Len(s[k].blocks)
<1>. DEFINE D == DOMAIN r \cup DOMAIN s
            f == [id \in D |-> Booked(r, s, id)]
            h == [id \in DOMAIN s |-> Len(s[id].blocks)]
            S == DOMAIN s
<1>1. IsFiniteSet(D) /\ (\A id \in D : f[id] \in Nat) /\ Committed(r, s) = SumFunctionOnSet(f, D)
  BY CommittedIs
<1>2. IsFiniteSet(S) /\ (\A id \in S : h[id] \in Nat) /\ k \in S /\ k \in D /\ S \subseteq D
  BY DEF Sized
<1>3. \A id \in S : h[id] <= f[id]
  <2>. SUFFICES ASSUME NEW id \in S PROVE Len(s[id].blocks) <= Booked(r, s, id)
    OBVIOUS
  <2>1. Len(s[id].blocks) \in Nat
    BY DEF Sized
  <2>. QED
    BY <2>1 DEF Booked
<1>4. f[k] = r[k] /\ h[k] = Len(s[k].blocks)
  BY DEF Booked
<1>. HIDE DEF f, h, D, S
<1>5. /\ SumFunctionOnSet(f, D) = f[k] + SumFunctionOnSet(f, D \ {k})
      /\ SumFunctionOnSet(f, D \ {k}) \in Nat
  <2>1. /\ \A s1 \in SUBSET D : SumFunctionOnSet(f, s1) \in Nat
        /\ \A s1 \in SUBSET D : \A x \in s1 :
              SumFunctionOnSet(f, s1) = f[x] + SumFunctionOnSet(f, s1 \ {x})
    BY <1>1, SumFacts
  <2>2. D \in SUBSET D /\ D \ {k} \in SUBSET D /\ k \in D
    BY <1>2
  <2>. QED
    BY <2>1, <2>2
<1>6. /\ SumFunctionOnSet(h, S) = h[k] + SumFunctionOnSet(h, S \ {k})
      /\ SumFunctionOnSet(h, S \ {k}) \in Nat /\ SumFunctionOnSet(h, S) \in Nat
  BY <1>2, SumFacts
<1>7. SumFunctionOnSet(h, S \ {k}) <= SumFunctionOnSet(f, D \ {k}) + 0
  <2>1. IsFiniteSet(D \ {k}) /\ IsFiniteSet(S \ {k})
    BY <1>1, <1>2, FS_Subset
  <2>2. (\A id \in D \ {k} : f[id] \in Nat) /\ (\A id \in S \ {k} : h[id] \in Nat)
    BY <1>1, <1>2
  <2>3. \A id \in S \ {k} : h[id] <= (IF id \in D \ {k} THEN f[id] ELSE 0)
                                       + (IF id = k THEN 0 ELSE 0)
    <3>. SUFFICES ASSUME NEW id \in S \ {k} PROVE h[id] <= f[id] + 0
      BY <1>2
    <3>1. f[id] \in Nat /\ h[id] \in Nat /\ h[id] <= f[id]
      BY <1>1, <1>2, <1>3
    <3>. QED
      BY <3>1
  <2>. QED
    BY <2>1, <2>2, <2>3, SumGrowsBy
<1>8. f[k] \in Nat /\ h[k] \in Nat
  BY <1>1, <1>2
<1>9. SumFunctionOnSet(h, S) + f[k] <= SumFunctionOnSet(f, D) + h[k]
  <2>. DEFINE x == SumFunctionOnSet(h, S \ {k})
              y == SumFunctionOnSet(f, D \ {k})
  <2>1. x \in Nat /\ y \in Nat /\ x <= y + 0
    BY <1>5, <1>6, <1>7
  <2>2. SumFunctionOnSet(h, S) = h[k] + x /\ SumFunctionOnSet(f, D) = f[k] + y
    BY <1>5, <1>6
  <2>. HIDE DEF x, y
  <2>. QED
    BY <1>8, <2>1, <2>2
<1>10. SumFunctionOnSet(h, S) \in Nat /\ SumFunctionOnSet(h, S) + r[k] <= Committed(r, s) + Len(s[k].blocks)
  BY <1>1, <1>4, <1>6, <1>9
<1>. QED
  BY <1>10 DEF h, S

\* What reserve_request and reserve_pages keep: a table fits its reservation, and
\* while there are reservations the pool has room for all that is committed.
WithinBudget(r, s) ==
    /\ Sized(r, s)
    /\ \A id \in DOMAIN r \cap DOMAIN s : Len(s[id].blocks) <= r[id]
    /\ DOMAIN r # {} => Committed(r, s) <= Cardinality(Page)

\* Reservations and tables that shrink or go away stay within the budget.
LEMMA BudgetShrinks ==
  ASSUME NEW r, NEW s, WithinBudget(r, s), NEW r2, NEW s2,
         DOMAIN r2 \subseteq DOMAIN r, DOMAIN s2 \subseteq DOMAIN s,
         \A id \in DOMAIN r2 : r2[id] = r[id],
         \A id \in DOMAIN s2 : /\ Len(s2[id].blocks) \in Nat
                               /\ Len(s2[id].blocks) <= Len(s[id].blocks)
  PROVE  WithinBudget(r2, s2)
<1>1. Sized(r, s) /\ Sized(r2, s2)
  BY FS_Subset DEF WithinBudget, Sized
<1>2. \A id \in DOMAIN r2 \cap DOMAIN s2 : Len(s2[id].blocks) <= r2[id]
  BY <1>1 DEF WithinBudget, Sized
<1>3. ASSUME NEW id PROVE Booked(r2, s2, id) <= Booked(r, s, id) + 0
  <2>1. CASE id \in DOMAIN r2
    BY <1>1, <2>1 DEF Booked, Sized
  <2>2. CASE id \notin DOMAIN r2 /\ id \in DOMAIN s2
    <3>1. Len(s2[id].blocks) \in Nat /\ Len(s[id].blocks) \in Nat
          /\ Len(s2[id].blocks) <= Len(s[id].blocks) /\ id \in DOMAIN s
      BY <1>1, <2>2 DEF Sized
    <3>2. Booked(r2, s2, id) = Len(s2[id].blocks)
      BY <2>2 DEF Booked
    <3>3. CASE id \in DOMAIN r
      <4>1. Len(s[id].blocks) <= r[id] /\ r[id] \in Nat /\ Booked(r, s, id) = r[id]
        BY <1>1, <3>1, <3>3 DEF Booked, Sized, WithinBudget
      <4>. QED
        BY <3>1, <3>2, <4>1
    <3>4. CASE id \notin DOMAIN r
      <4>1. Booked(r, s, id) = Len(s[id].blocks)
        BY <3>1, <3>4 DEF Booked
      <4>. QED
        BY <3>1, <3>2, <4>1
    <3>. QED
      BY <3>3, <3>4
  <2>3. CASE id \notin DOMAIN r2 /\ id \notin DOMAIN s2
    <3>1. Booked(r2, s2, id) = 0 /\ Booked(r, s, id) \in Nat
      BY <1>1, <2>3 DEF Booked, Sized
    <3>. QED
      BY <3>1
  <2>. QED
    BY <2>1, <2>2, <2>3
<1>4. \A id : Booked(r2, s2, id) <= Booked(r, s, id) + (IF id = 0 THEN 0 ELSE 0)
  BY <1>3
<1>5. Committed(r2, s2) <= Committed(r, s) + 0
  BY <1>1, <1>4, CommittedGrowsBy
<1>6. Committed(r, s) \in Nat /\ Committed(r2, s2) \in Nat /\ Cardinality(Page) \in Nat
  BY <1>1, CommittedIs, PageAssumption, FS_CardinalityType
<1>7. DOMAIN r2 # {} => Committed(r2, s2) <= Cardinality(Page)
  <2>. SUFFICES ASSUME DOMAIN r2 # {} PROVE Committed(r2, s2) <= Cardinality(Page)
    OBVIOUS
  <2>1. Committed(r, s) <= Cardinality(Page)
    BY DEF WithinBudget
  <2>. QED
    BY <1>5, <1>6, <2>1
<1>. QED
  BY <1>1, <1>2, <1>7 DEF WithinBudget

\* Table k may have n pages: its reservation has them, or they are not committed yet.
MayHave(r, s, k, n) ==
    IF k \in DOMAIN r THEN n <= r[k]
    ELSE \E a \in Nat : /\ n <= Booked(r, s, k) + a
                        /\ DOMAIN r # {} => Committed(r, s) + a <= Cardinality(Page)

\* One table may grow.
LEMMA BudgetGrows ==
  ASSUME NEW r, NEW s, WithinBudget(r, s), NEW s2, NEW k,
         DOMAIN s2 = DOMAIN s \cup {k},
         \A id \in DOMAIN s : id # k => Len(s2[id].blocks) = Len(s[id].blocks),
         Len(s2[k].blocks) \in Nat,
         MayHave(r, s, k, Len(s2[k].blocks))
  PROVE  WithinBudget(r, s2)
<1>. PICK a \in Nat :
        IF k \in DOMAIN r THEN Len(s2[k].blocks) <= r[k] /\ a = 0
        ELSE /\ Len(s2[k].blocks) <= Booked(r, s, k) + a
             /\ DOMAIN r # {} => Committed(r, s) + a <= Cardinality(Page)
  BY DEF MayHave
<1>1. Sized(r, s)
  BY DEF WithinBudget
<1>2. Sized(r, s2)
  <2>1. IsFiniteSet(DOMAIN s2)
    BY <1>1, FS_AddElement DEF Sized
  <2>2. \A id \in DOMAIN s2 : Len(s2[id].blocks) \in Nat
    BY <1>1 DEF Sized
  <2>. QED
    BY <1>1, <2>1, <2>2 DEF Sized
<1>3. \A id \in DOMAIN r \cap DOMAIN s2 : Len(s2[id].blocks) <= r[id]
  BY DEF WithinBudget
<1>4. ASSUME NEW id PROVE Booked(r, s2, id) <= Booked(r, s, id) + (IF id = k THEN a ELSE 0)
  <2>1. CASE id \in DOMAIN r
    <3>1. Booked(r, s2, id) = r[id] /\ Booked(r, s, id) = r[id] /\ r[id] \in Nat
      BY <1>1, <2>1 DEF Booked, Sized
    <3>2. (IF id = k THEN a ELSE 0) \in Nat
      OBVIOUS
    <3>. QED
      BY <3>1, <3>2
  <2>2. CASE id \notin DOMAIN r /\ id = k
    <3>1. Booked(r, s2, id) = Len(s2[k].blocks)
      BY <2>2 DEF Booked
    <3>. QED
      BY <2>2, <3>1
  <2>3. CASE id \notin DOMAIN r /\ id # k
    <3>1. Booked(r, s2, id) = Booked(r, s, id) /\ Booked(r, s, id) \in Nat
      BY <1>1, <2>3 DEF Booked, Sized
    <3>. QED
      BY <2>3, <3>1
  <2>. QED
    BY <2>1, <2>2, <2>3
<1>5. Committed(r, s2) <= Committed(r, s) + a
  BY <1>1, <1>2, <1>4, CommittedGrowsBy
<1>6. Committed(r, s) \in Nat /\ Committed(r, s2) \in Nat /\ Cardinality(Page) \in Nat
  BY <1>1, <1>2, CommittedIs, PageAssumption, FS_CardinalityType
<1>7. DOMAIN r # {} => Committed(r, s) + a <= Cardinality(Page)
  <2>. SUFFICES ASSUME DOMAIN r # {} PROVE Committed(r, s) + a <= Cardinality(Page)
    OBVIOUS
  <2>1. Committed(r, s) <= Cardinality(Page)
    BY DEF WithinBudget
  <2>2. k \in DOMAIN r => a = 0
    OBVIOUS
  <2>3. k \notin DOMAIN r => Committed(r, s) + a <= Cardinality(Page)
    OBVIOUS
  <2>. QED
    BY <1>6, <2>1, <2>2, <2>3
<1>8. DOMAIN r # {} => Committed(r, s2) <= Cardinality(Page)
  BY <1>5, <1>6, <1>7
<1>. QED
  BY <1>2, <1>3, <1>8 DEF WithinBudget

\* A new reservation fits beside all that is committed.
LEMMA BudgetReserves ==
  ASSUME NEW r, NEW s, WithinBudget(r, s), NEW k, k \notin DOMAIN r \cup DOMAIN s,
         NEW n \in Nat, Committed(r, s) + n <= Cardinality(Page)
  PROVE  WithinBudget(With(r, k, n), s)
<1>. DEFINE r2 == With(r, k, n)
<1>1. DOMAIN r2 = DOMAIN r \cup {k} /\ r2[k] = n /\ \A id \in DOMAIN r : r2[id] = r[id]
  BY DEF With
<1>. HIDE DEF r2
<1>2. Sized(r, s)
  BY DEF WithinBudget
<1>3. Sized(r2, s)
  <2>1. IsFiniteSet(DOMAIN r2)
    BY <1>1, <1>2, FS_AddElement DEF Sized
  <2>. QED
    BY <1>1, <1>2, <2>1 DEF Sized
<1>4. \A id \in DOMAIN r2 \cap DOMAIN s : Len(s[id].blocks) <= r2[id]
  BY <1>1 DEF WithinBudget
<1>5. ASSUME NEW id PROVE Booked(r2, s, id) <= Booked(r, s, id) + (IF id = k THEN n ELSE 0)
  <2>1. CASE id = k
    <3>1. Booked(r2, s, id) = n /\ Booked(r, s, id) = 0
      BY <1>1, <2>1 DEF Booked
    <3>. QED
      BY <2>1, <3>1
  <2>2. CASE id # k
    <3>1. Booked(r2, s, id) = Booked(r, s, id) /\ Booked(r, s, id) \in Nat
      BY <1>1, <1>2, <2>2 DEF Booked, Sized
    <3>. QED
      BY <2>2, <3>1
  <2>. QED
    BY <2>1, <2>2
<1>6. Committed(r2, s) <= Committed(r, s) + n
  BY <1>2, <1>3, <1>5, CommittedGrowsBy
<1>7. Committed(r, s) \in Nat /\ Committed(r2, s) \in Nat /\ Cardinality(Page) \in Nat
  BY <1>2, <1>3, CommittedIs, PageAssumption, FS_CardinalityType
<1>8. Committed(r2, s) <= Cardinality(Page)
  BY <1>6, <1>7
<1>9. WithinBudget(r2, s)
  BY <1>3, <1>4, <1>8 DEF WithinBudget
<1>. QED
  BY <1>9 DEF r2

BudgetOK == WithinBudget(reservations, sequences)

\* The lengths of the tables and the reservations are numbers.
LEMMA TableLengths ==
  ASSUME TypeOK
  PROVE  /\ \A id \in DOMAIN sequences : Len(sequences[id].blocks) \in Nat
         /\ \A id \in DOMAIN reservations : reservations[id] \in Nat
         /\ CommittedBlocks = Committed(reservations, sequences)
BY DEF TypeOK, CommittedBlocks, Committed

\* The steps that take no page for a table.
LEMMA BudgetKept ==
  ASSUME IInv, BudgetOK,
         DOMAIN reservations' \subseteq DOMAIN reservations,
         DOMAIN sequences' \subseteq DOMAIN sequences,
         \A id \in DOMAIN reservations' : reservations'[id] = reservations[id],
         \A id \in DOMAIN sequences' :
            \/ sequences'[id].blocks = sequences[id].blocks
            \/ sequences'[id].blocks = <<>>
  PROVE  BudgetOK'
<1>. DEFINE r2 == reservations'
            s2 == sequences'
<1>1. \A id \in DOMAIN sequences : Len(sequences[id].blocks) \in Nat
  BY TableLengths DEF IInv
<1>2. ASSUME NEW id \in DOMAIN s2
      PROVE  Len(s2[id].blocks) \in Nat /\ Len(s2[id].blocks) <= Len(sequences[id].blocks)
  <2>1. CASE s2[id].blocks = sequences[id].blocks
    BY <1>1, <2>1
  <2>2. CASE s2[id].blocks = <<>>
    <3>1. Len(s2[id].blocks) = 0
      BY <2>2
    <3>. QED
      BY <1>1, <3>1
  <2>. QED
    BY <2>1, <2>2
<1>3. /\ DOMAIN r2 \subseteq DOMAIN reservations /\ DOMAIN s2 \subseteq DOMAIN sequences
      /\ \A id \in DOMAIN r2 : r2[id] = reservations[id]
  OBVIOUS
<1>4. WithinBudget(reservations, sequences)
  BY DEF BudgetOK
<1>. HIDE DEF r2, s2
<1>5. WithinBudget(r2, s2)
  BY <1>2, <1>3, <1>4, BudgetShrinks
<1>. QED
  BY <1>5 DEF BudgetOK, r2, s2

\* reserve_request books no more than is left.
LEMMA ReserveRequestBudget ==
  ASSUME IInv, BudgetOK, NEW id \in Id, NEW n \in ReserveTokens, ReserveRequest(id, n)
  PROVE  BudgetOK'
<1>. DEFINE m == PagesFor(n)
<1>1. m \in Nat
  BY PagesForType, ManagerAssumption
<1>2. /\ id \notin DOMAIN reservations \cup DOMAIN sequences
      /\ Committed(reservations, sequences) + m <= Cardinality(Page)
      /\ reservations' = With(reservations, id, m) /\ sequences' = sequences
  BY TableLengths DEF ReserveRequest, FitsReservation, IInv
<1>3. WithinBudget(reservations, sequences)
  BY DEF BudgetOK
<1>. HIDE DEF m
<1>4. WithinBudget(With(reservations, id, m), sequences)
  BY <1>1, <1>2, <1>3, BudgetReserves
<1>. QED
  BY <1>2, <1>4 DEF BudgetOK

\* A table grows within its reservation or the room that is left: create,
\* fork_sequence, reuse_prefix and prepare_append.
LEMMA TableGrows ==
  ASSUME IInv, BudgetOK, NEW id, NEW a \in Nat, reservations' = reservations,
         DOMAIN sequences' = DOMAIN sequences \cup {id},
         \A x \in DOMAIN sequences : x # id => sequences'[x] = sequences[x],
         Len(sequences'[id].blocks) \in Nat,
         id \in DOMAIN reservations => Len(sequences'[id].blocks) <= reservations[id],
         id \notin DOMAIN reservations =>
            /\ Len(sequences'[id].blocks) <= Booked(reservations, sequences, id) + a
            /\ DOMAIN reservations # {} => CommittedBlocks + a <= Cardinality(Page)
  PROVE  BudgetOK'
<1>. DEFINE s2 == sequences'
<1>1. /\ DOMAIN s2 = DOMAIN sequences \cup {id}
      /\ \A x \in DOMAIN sequences : x # id => Len(s2[x].blocks) = Len(sequences[x].blocks)
      /\ Len(s2[id].blocks) \in Nat
  OBVIOUS
<1>2. CommittedBlocks = Committed(reservations, sequences)
  BY TableLengths DEF IInv
<1>3. MayHave(reservations, sequences, id, Len(s2[id].blocks))
  BY <1>2 DEF MayHave
<1>4. WithinBudget(reservations, sequences)
  BY DEF BudgetOK
<1>. HIDE DEF s2
<1>5. WithinBudget(reservations, s2)
  BY <1>1, <1>3, <1>4, BudgetGrows
<1>. QED
  BY <1>5 DEF BudgetOK, s2

LEMMA CreateBudget ==
  ASSUME IInv, BudgetOK, NEW id \in Id, Create(id)
  PROVE  BudgetOK'
<1>1. /\ reservations' = reservations /\ DOMAIN sequences' = DOMAIN sequences \cup {id}
      /\ \A x \in DOMAIN sequences : x # id => sequences'[x] = sequences[x]
      /\ Len(sequences'[id].blocks) = 0 /\ id \notin DOMAIN sequences
  BY DEF Create, With, EmptySequence
<1>2. id \in DOMAIN reservations => reservations[id] \in Nat
  BY TableLengths DEF IInv
<1>3. Booked(reservations, sequences, id) \in Nat
  BY <1>1, <1>2 DEF Booked
<1>4. DOMAIN reservations # {} => CommittedBlocks + 0 <= Cardinality(Page)
  <2>1. CommittedBlocks = Committed(reservations, sequences) /\ Committed(reservations, sequences) \in Nat
    BY TableLengths, CommittedIs DEF IInv, BudgetOK, WithinBudget
  <2>2. DOMAIN reservations # {} => Committed(reservations, sequences) <= Cardinality(Page)
    BY DEF BudgetOK, WithinBudget
  <2>. QED
    BY <2>1, <2>2
<1>5. /\ Len(sequences'[id].blocks) \in Nat
      /\ id \in DOMAIN reservations => Len(sequences'[id].blocks) <= reservations[id]
      /\ Len(sequences'[id].blocks) <= Booked(reservations, sequences, id) + 0
  BY <1>1, <1>2, <1>3
<1>6. 0 \in Nat
  OBVIOUS
<1>. QED
  BY <1>1, <1>4, <1>5, <1>6, TableGrows

LEMMA ForkSequenceBudget ==
  ASSUME IInv, BudgetOK, NEW source \in DOMAIN sequences, NEW target \in DOMAIN sequences,
         ForkSequence(source, target)
  PROVE  BudgetOK'
<1>. DEFINE n == Len(sequences[source].blocks)
<1>1. n \in Nat
  BY TableLengths DEF IInv
<1>2. /\ reservations' = reservations /\ DOMAIN sequences' = DOMAIN sequences \cup {target}
      /\ \A x \in DOMAIN sequences : x # target => sequences'[x] = sequences[x]
      /\ Len(sequences'[target].blocks) = n /\ sequences[target].blocks = <<>>
      /\ IF target \in DOMAIN reservations THEN n <= reservations[target]
         ELSE CommittedBlocks + n <= Cardinality(Page)
  BY DEF ForkSequence, Empty
<1>. HIDE DEF n
<1>3. target \notin DOMAIN reservations => Booked(reservations, sequences, target) = 0
  BY <1>2 DEF Booked
<1>4. target \notin DOMAIN reservations =>
         Len(sequences'[target].blocks) <= Booked(reservations, sequences, target) + n
  BY <1>1, <1>2, <1>3
<1>5. Len(sequences'[target].blocks) \in Nat
  BY <1>1, <1>2
<1>6. target \in DOMAIN reservations => Len(sequences'[target].blocks) <= reservations[target]
  BY <1>2
<1>7. target \notin DOMAIN reservations =>
         /\ Len(sequences'[target].blocks) <= Booked(reservations, sequences, target) + n
         /\ DOMAIN reservations # {} => CommittedBlocks + n <= Cardinality(Page)
  BY <1>2, <1>4
<1>. QED
  BY <1>1, <1>2, <1>5, <1>6, <1>7, TableGrows

LEMMA ReusePrefixBudget ==
  ASSUME IInv, BudgetOK, NEW id \in DOMAIN sequences, NEW prompt \in Prompts,
         ReusePrefix(id, prompt)
  PROVE  BudgetOK'
<1>. DEFINE nodes  == Walk(prompt).nodes
            blocks == [i \in 1 .. Len(nodes) |-> lease[nodes[i]]]
            n      == Len(nodes)
            new    == [blocks |-> blocks, tokens |-> Prefix(prompt, Walk(prompt).count)]
            over   == \/ id \in DOMAIN reservations /\ Len(blocks) > reservations[id]
                      \/ /\ DOMAIN reservations # {}
                         /\ CommittedBlocks + (IF id \in DOMAIN reservations THEN 0 ELSE Len(blocks))
                               > Cardinality(Page)
<1>1. nodes \in Seq(Leased)
  BY WalkOK, PromptType DEF ReusePrefix
<1>2. n \in Nat /\ Len(blocks) = n
  <2>. HIDE DEF nodes
  <2>. QED
    BY <1>1
<1>3. /\ reservations' = reservations /\ sequences[id].blocks = <<>>
      /\ \/ sequences' = sequences
         \/ ~over /\ sequences' = [sequences EXCEPT ![id] = new]
  BY DEF ReusePrefix, Empty
<1>4. CASE sequences' = sequences
  BY <1>3, <1>4, BudgetKept
<1>5. CASE ~over /\ sequences' = [sequences EXCEPT ![id] = new]
  <2>1. id \in DOMAIN reservations => ~(n > reservations[id])
    BY <1>2, <1>5
  <2>2. id \notin DOMAIN reservations /\ DOMAIN reservations # {} =>
           ~(CommittedBlocks + n > Cardinality(Page))
    BY <1>2, <1>5
  <2>3. /\ DOMAIN sequences' = DOMAIN sequences \cup {id}
        /\ \A x \in DOMAIN sequences : x # id => sequences'[x] = sequences[x]
        /\ Len(sequences'[id].blocks) = n
    <3>1. new.blocks = blocks
      OBVIOUS
    <3>. HIDE DEF new
    <3>. QED
      BY <1>2, <1>5, <3>1
  <2>. HIDE DEF nodes, blocks, n, new, over
  <2>4. /\ CommittedBlocks \in Nat /\ Cardinality(Page) \in Nat
        /\ id \in DOMAIN reservations => reservations[id] \in Nat
    BY TableLengths, CommittedIs, PageAssumption, FS_CardinalityType
       DEF IInv, BudgetOK, WithinBudget
  <2>5. id \notin DOMAIN reservations => Booked(reservations, sequences, id) = 0
    BY <1>3 DEF Booked
  <2>6. Len(sequences'[id].blocks) \in Nat
    BY <1>2, <2>3
  <2>7. id \in DOMAIN reservations => Len(sequences'[id].blocks) <= reservations[id]
    BY <1>2, <2>1, <2>3, <2>4
  <2>8. id \notin DOMAIN reservations =>
           Len(sequences'[id].blocks) <= Booked(reservations, sequences, id) + n
    BY <1>2, <2>3, <2>5
  <2>9. id \notin DOMAIN reservations =>
           (DOMAIN reservations # {} => CommittedBlocks + n <= Cardinality(Page))
    BY <1>2, <2>2, <2>4
  <2>. QED
    BY <1>2, <1>3, <2>3, <2>6, <2>7, <2>8, <2>9, TableGrows
<1>. QED
  BY <1>3, <1>4, <1>5

\* What an append needs beyond the table it has.
LEMMA RequiredBlocksIs ==
  ASSUME IInv, NEW id \in DOMAIN sequences, NEW n \in Nat \ {0}
  PROVE  LET required == RequiredBlocks(id, n)
             have     == Len(sequences[id].blocks)
             count    == PagesFor(Used(id) + n)
         IN  /\ required \in Nat /\ have \in Nat /\ count \in Nat
             /\ IF count <= have THEN required = 0 ELSE required = count - have
<1>. DEFINE u == Used(id)
            b == Len(sequences[id].blocks)
            c == PagesFor(u + n)
            x == c - b
<1>1. u \in Nat /\ b \in Nat
  BY DEF IInv, TypeOK, Used, History
<1>. HIDE DEF u
<1>2. c \in Nat
  BY <1>1, PagesForType
<1>. HIDE DEF b, c
<1>3. x \in Int
  BY <1>1, <1>2
<1>. HIDE DEF x
<1>4. \E m \in {0, x} : \A j \in {0, x} : m >= j
  BY <1>3
<1>5. Max({0, x}) \in {0, x} /\ \A j \in {0, x} : Max({0, x}) >= j
  BY <1>4, Zenon DEF Max
<1>6. Max({0, x}) = IF x <= 0 THEN 0 ELSE x
  BY <1>3, <1>5
<1>7. Max({0, x}) \in Nat /\ IF c <= b THEN Max({0, x}) = 0 ELSE Max({0, x}) = c - b
  BY <1>1, <1>2, <1>6 DEF x
<1>. QED
  BY <1>1, <1>2, <1>7 DEF RequiredBlocks, x, u, b, c

LEMMA PrepareAppendBudget ==
  ASSUME IInv, BudgetOK, NEW id \in DOMAIN sequences, NEW input \in Inputs(id),
         ValidAppend(id, input), PrepareAppend(id, input)
  PROVE  BudgetOK'
<1>. DEFINE n == Len(input)
            count == PagesFor(Used(id) + n)
            have == Len(sequences[id].blocks)
            required == RequiredBlocks(id, n)
<1>1. n \in Nat \ {0}
  BY InputType DEF ValidAppend, History
<1>2. /\ required \in Nat /\ have \in Nat /\ count \in Nat
      /\ IF count <= have THEN required = 0 ELSE required = count - have
  <2>. HIDE DEF n
  <2>. QED
    BY <1>1, RequiredBlocksIs
<1>3. /\ reservations' = reservations
      /\ DOMAIN sequences' = DOMAIN sequences \cup {id}
      /\ \A x \in DOMAIN sequences : x # id => sequences'[x] = sequences[x]
      /\ Len(sequences'[id].blocks) = have + required
  <2>1. PICK k, req, needed, fresh, blocks, N, valid, copy, table :
           Prepared(id, input, k, req, needed, fresh, blocks, N, valid, copy, table)
    BY PrepareAppendPieces
  <2>2. /\ req = required /\ blocks = sequences[id].blocks /\ N = Len(blocks)
        /\ copy = IF needed = req THEN <<>>
                  ELSE <<[source |-> blocks[N], destination |-> fresh[needed], valid |-> valid]>>
        /\ table = (IF copy = <<>> THEN blocks ELSE [blocks EXCEPT ![N] = fresh[needed]])
                   \o [i \in 1 .. req |-> fresh[i]]
        /\ sequences' = [sequences EXCEPT ![id].blocks = table]
        /\ reservations' = reservations
    BY <2>1 DEF Prepared
  <2>3. Len(NewBlocks(blocks, req, needed, fresh)) = Len(blocks) + req
    BY <2>1, PreparedTable
  <2>4. copy = <<>> <=> needed = req
    BY <2>2
  <2>5. table = NewBlocks(blocks, req, needed, fresh)
    BY <2>2, <2>4 DEF NewBlocks
  <2>6. sequences'[id].blocks = table
    BY <2>2 DEF IInv, TypeOK
  <2>. QED
    BY <2>2, <2>3, <2>5, <2>6
<1>4. ~BreaksReservation(id, count, required)
  BY DEF PrepareAppend
<1>. HIDE DEF n, count, have, required
<1>5. id \in DOMAIN reservations => ~(count > reservations[id])
  BY <1>4 DEF BreaksReservation
<1>6. id \notin DOMAIN reservations /\ DOMAIN reservations # {} =>
         ~(CommittedBlocks + required > Cardinality(Page))
  BY <1>4 DEF BreaksReservation
<1>7. /\ CommittedBlocks \in Nat /\ Cardinality(Page) \in Nat
      /\ id \in DOMAIN reservations => reservations[id] \in Nat /\ have <= reservations[id]
  BY TableLengths, CommittedIs, PageAssumption, FS_CardinalityType
     DEF IInv, BudgetOK, WithinBudget, have
<1>8. id \in DOMAIN reservations => Len(sequences'[id].blocks) <= reservations[id]
  <2>. SUFFICES ASSUME id \in DOMAIN reservations PROVE have + required <= reservations[id]
    BY <1>3
  <2>1. count <= reservations[id] /\ have <= reservations[id] /\ reservations[id] \in Nat
    BY <1>2, <1>5, <1>7
  <2>. QED
    BY <1>2, <2>1
<1>9. id \notin DOMAIN reservations => Booked(reservations, sequences, id) = have
  BY DEF Booked, have
<1>10. Len(sequences'[id].blocks) \in Nat
  BY <1>2, <1>3
<1>11. id \notin DOMAIN reservations =>
          Len(sequences'[id].blocks) <= Booked(reservations, sequences, id) + required
  BY <1>2, <1>3, <1>9
<1>12. id \notin DOMAIN reservations =>
          (DOMAIN reservations # {} => CommittedBlocks + required <= Cardinality(Page))
  BY <1>2, <1>6, <1>7
<1>13. required \in Nat
  BY <1>2
<1>. QED
  BY <1>3, <1>8, <1>10, <1>11, <1>12, <1>13, TableGrows

\* A rollback restores a block table that is no longer than the one it undoes.
LEMMA RollbackBudget ==
  ASSUME IInv, BudgetOK, NEW id \in DOMAIN appends, Rollback(id)
  PROVE  BudgetOK'
<1>. DEFINE s2 == sequences'
<1>1. id \in DOMAIN sequences
  BY DEF IInv, TypeOK
<1>2. /\ Len(OriginalBlocks(id)) \in Nat
      /\ Len(OriginalBlocks(id)) <= Len(sequences[id].blocks)
  BY OriginalTable
<1>3. /\ DOMAIN s2 = DOMAIN sequences
      /\ s2[id].blocks = OriginalBlocks(id)
      /\ \A x \in DOMAIN sequences : x # id => s2[x] = sequences[x]
      /\ reservations' = reservations
  BY <1>1 DEF Rollback, IInv, TypeOK
<1>4. ASSUME NEW x \in DOMAIN s2
      PROVE  Len(s2[x].blocks) \in Nat /\ Len(s2[x].blocks) <= Len(sequences[x].blocks)
  <2>1. CASE x = id
    BY <1>2, <1>3, <2>1
  <2>2. CASE x # id
    <3>1. Len(sequences[x].blocks) \in Nat /\ s2[x] = sequences[x]
      BY <1>3, <2>2, TableLengths DEF IInv
    <3>. QED
      BY <3>1
  <2>. QED
    BY <2>1, <2>2
<1>5. WithinBudget(reservations, sequences)
  BY DEF BudgetOK
<1>6. DOMAIN s2 \subseteq DOMAIN sequences
  BY <1>3
<1>. HIDE DEF s2
<1>7. WithinBudget(reservations, s2)
  BY <1>4, <1>5, <1>6, BudgetShrinks
<1>. QED
  BY <1>3, <1>7 DEF BudgetOK, s2

------------------------------------------------------------------------------
\* The eviction list

\* Every lease of the index is on the eviction list.
LruOK == lru \in Seq(History) /\ Leased \subseteq ToSet(lru)

\* Touching entries keeps everything on the list.
LEMMA TouchedList ==
  ASSUME lru \in Seq(History), NEW hs \in Seq(History)
  PROVE  Touched(hs) \in Seq(History) /\ ToSet(Touched(hs)) = ToSet(lru) \cup ToSet(hs)
<1>. DEFINE kept == Selected(lru, ToSet(lru) \ ToSet(hs))
<1>1. kept \in Seq(History) /\ ToSet(kept) = ToSet(lru) \cap (ToSet(lru) \ ToSet(hs))
  BY SelectedFacts
<1>. HIDE DEF kept
<1>2. kept \o hs \in Seq(History) /\ ToSet(kept \o hs) = ToSet(kept) \cup ToSet(hs)
  BY <1>1, JoinQueues
<1>. QED
  BY <1>1, <1>2 DEF Touched, kept

LEMMA LruKept ==
  ASSUME LruOK, lru' \in Seq(History), ToSet(lru) \subseteq ToSet(lru'), Leased' \subseteq Leased
  PROVE  LruOK'
BY DEF LruOK

LEMMA ReusePrefixLru ==
  ASSUME IInv, LruOK, NEW id \in DOMAIN sequences, NEW prompt \in Prompts, ReusePrefix(id, prompt)
  PROVE  LruOK'
<1>1. Walk(prompt).nodes \in Seq(Leased)
  BY WalkOK, PromptType DEF ReusePrefix
<1>2. Leased \subseteq History
  BY DEF IInv, TypeOK
<1>3. Walk(prompt).nodes \in Seq(History)
  BY <1>1, <1>2
<1>4. lru' = Touched(Walk(prompt).nodes) /\ lease' = lease
  BY DEF ReusePrefix
<1>5. lru' \in Seq(History) /\ ToSet(lru) \subseteq ToSet(lru')
  BY <1>3, <1>4, TouchedList DEF LruOK
<1>6. Leased' = Leased
  BY <1>4 DEF Leased
<1>. QED
  BY <1>5, <1>6, LruKept

LEMMA PublishKnownLru ==
  ASSUME IInv, LruOK, NEW id \in DOMAIN publishing, PublishKnown(id)
  PROVE  LruOK'
<1>. DEFINE h == PublishKey(id, publishing[id])
<1>1. h \in History
  BY PublishKeyType
<1>. HIDE DEF h
<1>2. <<h>> \in Seq(History)
  BY <1>1
<1>3. lru' = Touched(<<h>>) /\ lease' = lease
  BY DEF PublishKnown, h
<1>4. lru' \in Seq(History) /\ ToSet(lru) \subseteq ToSet(lru')
  BY <1>2, <1>3, TouchedList DEF LruOK
<1>5. Leased' = Leased
  BY <1>3 DEF Leased
<1>. QED
  BY <1>4, <1>5, LruKept

LEMMA PublishNewLru ==
  ASSUME IInv, LruOK, NEW id \in DOMAIN publishing, PublishNew(id)
  PROVE  LruOK'
<1>. DEFINE h       == PublishKey(id, publishing[id])
            victims == IF IndexFull THEN Victims(1) ELSE {}
            kept    == Leased \ victims
<1>1. h \in History
  BY PublishKeyType
<1>2. /\ lease' = With(Without(lease, victims), h, sequences[id].blocks[publishing[id]])
      /\ lru' = Append(Selected(lru, kept), h)
  BY DEF PublishNew
<1>. DEFINE q == Selected(lru, kept)
<1>. HIDE DEF h, victims
<1>3. q \in Seq(History) /\ ToSet(q) = ToSet(lru) \cap kept
  BY SelectedFacts DEF LruOK
<1>4. lru' \in Seq(History) /\ ToSet(lru') = (ToSet(lru) \cap kept) \cup {h}
  <2>1. lru' = Append(q, h)
    BY <1>2
  <2>. HIDE DEF q, kept
  <2>2. Append(q, h) \in Seq(History) /\ ToSet(Append(q, h)) = ToSet(q) \cup {h}
    BY <1>1, <1>3, AppendQueue
  <2>. QED
    BY <1>3, <2>1, <2>2
<1>5. DOMAIN lease' = kept \cup {h}
  BY <1>2 DEF With, Without, Leased
<1>. QED
  BY <1>4, <1>5 DEF LruOK, Leased

\* Evicting the oldest k entries leaves the rest of the list.
LEMMA EvictionLru ==
  ASSUME IInv, LruOK, NEW k \in 0 .. Len(lru), lease' = Without(lease, Victims(k)),
         lru' = SubSeq(lru, k + 1, Len(lru))
  PROVE  LruOK'
<1>. DEFINE n == Len(lru)
<1>1. /\ lru \in Seq(History) /\ n \in Nat /\ k \in Nat /\ k <= n /\ DOMAIN lru = 1 .. n
      /\ \A i \in 1 .. n : lru[i] \in History
  BY DEF LruOK
<1>2. /\ lru' \in Seq(History) /\ Len(lru') = n - k
      /\ \A i \in 1 .. n - k : lru'[i] = lru[k + i]
  <2>1. \A i \in k + 1 .. n : lru[i] \in History
    BY <1>1
  <2>. HIDE DEF n
  <2>2. /\ SubSeq(lru, k + 1, n) \in Seq(History)
        /\ Len(SubSeq(lru, k + 1, n)) = IF k + 1 <= n THEN n - (k + 1) + 1 ELSE 0
        /\ \A i \in 1 .. n - (k + 1) + 1 : SubSeq(lru, k + 1, n)[i] = lru[k + 1 + i - 1]
    BY <1>1, <2>1, SubSeqProperties
  <2>3. lru' = SubSeq(lru, k + 1, n)
    BY DEF n
  <2>. QED
    BY <1>1, <2>2, <2>3
<1>3. DOMAIN lease' = Leased \ Victims(k)
  BY DEF Without, Leased
<1>4. ASSUME NEW h \in Leased \ Victims(k) PROVE h \in ToSet(lru')
  <2>1. PICK j \in 1 .. n : lru[j] = h
    BY <1>1 DEF LruOK, ToSet
  <2>2. j \notin 1 .. k
    BY <2>1 DEF Victims
  <2>. HIDE DEF n
  <2>3. j - k \in 1 .. n - k /\ k + (j - k) = j
    BY <1>1, <2>1, <2>2
  <2>4. lru'[j - k] = h /\ j - k \in DOMAIN lru'
    BY <1>2, <2>1, <2>3
  <2>. QED
    BY <2>4, Zenon DEF ToSet
<1>. QED
  BY <1>2, <1>3, <1>4 DEF LruOK, Leased

LEMMA PrepareAppendLru ==
  ASSUME IInv, LruOK, NEW id, NEW input, PrepareAppend(id, input)
  PROVE  LruOK'
<1>1. PICK k \in 0 .. Len(lru) : lease' = Without(lease, Victims(k))
                                 /\ lru' = SubSeq(lru, k + 1, Len(lru))
  BY DEF PrepareAppend
<1>. QED
  BY <1>1, EvictionLru

\* When the whole list is evicted, the index is empty.
LEMMA AllEvicted ==
  ASSUME LruOK
  PROVE  Victims(Len(lru)) = Leased
<1>1. DOMAIN lru = 1 .. Len(lru)
  BY DEF LruOK
<1>. QED
  BY <1>1 DEF LruOK, Victims, ToSet

------------------------------------------------------------------------------
\* What an eviction of the whole index leaves

\* A block table has at most one lease for each of its entries.
LEMMA SequenceLeasesBound ==
  ASSUME NEW id, NEW blocks \in Seq(Page)
  PROVE  /\ IsFiniteSet(SequenceLeases(id, blocks))
         /\ Cardinality(SequenceLeases(id, blocks)) \in Nat
         /\ Cardinality(SequenceLeases(id, blocks)) <= Len(blocks)
<1>. DEFINE n == Len(blocks)
            l(i) == [owner |-> <<"sequence", id, i>>, page |-> blocks[i]]
            f == [i \in 1 .. n |-> l(i)]
            T == {l(i) : i \in 1 .. n}
<1>1. n \in Nat
  OBVIOUS
<1>2. IsFiniteSet(1 .. n) /\ Cardinality(1 .. n) = n
  <2>. HIDE DEF n
  <2>1. Cardinality(1 .. n) = IF 1 > n THEN 0 ELSE n - 1 + 1
    BY <1>1, FS_Interval
  <2>. QED
    BY <1>1, <2>1, FS_Interval
<1>3. f \in Surjection(1 .. n, T)
  BY DEF Surjection
<1>. HIDE DEF f, n, T
<1>4. IsFiniteSet(T) /\ Cardinality(T) <= n
  BY <1>2, <1>3, FS_Surjection
<1>5. Cardinality(T) \in Nat
  BY <1>4, FS_CardinalityType
<1>. QED
  BY <1>4, <1>5 DEF T, n, SequenceLeases

\* All block tables together have at most one lease for each of their entries.
LEMMA AllLeasesBound ==
  ASSUME TypeOK, IsFiniteSet(DOMAIN sequences)
  PROVE  LET S == AllSequenceLeases(DOMAIN sequences)
             h == [id \in DOMAIN sequences |-> Len(sequences[id].blocks)]
         IN  /\ IsFiniteSet(S) /\ Cardinality(S) \in Nat
             /\ Cardinality(S) <= SumFunctionOnSet(h, DOMAIN sequences)
<1>. DEFINE D == DOMAIN sequences
            h == [id \in D |-> Len(sequences[id].blocks)]
            L(ids) == AllSequenceLeases(ids)
            H(ids) == SumFunctionOnSet(h, ids)
            one(id) == SequenceLeases(id, sequences[id].blocks)
            Good(ids) == IsFiniteSet(L(ids)) /\ Cardinality(L(ids)) <= H(ids)
            Bad == {ids \in SUBSET D : ~Good(ids)}
<1>1. \A id \in D : h[id] \in Nat /\ sequences[id].blocks \in Seq(Page)
  BY DEF TypeOK
<1>2. /\ \A ids \in SUBSET D : H(ids) \in Nat
      /\ H({}) = 0
      /\ \A ids \in SUBSET D : \A x \in ids : H(ids) = h[x] + H(ids \ {x})
  <2>. HIDE DEF h, D
  <2>1. IsFiniteSet(D) /\ \A id \in D : h[id] \in Nat
    BY <1>1 DEF D
  <2>. QED
    BY <2>1, SumFacts
<1>3. \A id \in D : /\ IsFiniteSet(one(id)) /\ Cardinality(one(id)) \in Nat
                    /\ Cardinality(one(id)) <= h[id]
  BY <1>1, SequenceLeasesBound
<1>4. L({}) = {}
  BY DEF AllSequenceLeases
<1>5. \A ids \in SUBSET D : \A x \in ids : L(ids) = one(x) \cup L(ids \ {x})
  BY DEF AllSequenceLeases
<1>. HIDE DEF L, H, one, h
<1>6. ASSUME NEW ids \in SUBSET D, NEW x \in ids, Good(ids \ {x}) PROVE Good(ids)
  <2>. DEFINE A == one(x)
              B == L(ids \ {x})
  <2>1. /\ IsFiniteSet(A) /\ Cardinality(A) \in Nat /\ Cardinality(A) <= h[x]
        /\ IsFiniteSet(B) /\ Cardinality(B) <= H(ids \ {x})
        /\ L(ids) = A \cup B /\ H(ids) = h[x] + H(ids \ {x}) /\ h[x] \in Nat
        /\ H(ids \ {x}) \in Nat
    BY <1>1, <1>2, <1>3, <1>5, <1>6
  <2>. HIDE DEF A, B
  <2>2. /\ IsFiniteSet(A \cup B)
        /\ Cardinality(A \cup B) = Cardinality(A) + Cardinality(B) - Cardinality(A \cap B)
    BY <2>1, FS_Union
  <2>3. Cardinality(A \cap B) \in Nat /\ Cardinality(B) \in Nat
    BY <2>1, FS_Subset, FS_CardinalityType
  <2>4. Cardinality(A \cup B) <= h[x] + H(ids \ {x})
    BY <2>1, <2>2, <2>3
  <2>. QED
    BY <2>1, <2>2, <2>4
<1>7. Bad = {}
  <2>. SUFFICES ASSUME Bad # {} PROVE FALSE
    OBVIOUS
  <2>1. PICK s \in Bad : \A t \in Bad : t \subseteq s => t = s
    <3>1. Bad \in SUBSET SUBSET D
      OBVIOUS
    <3>. HIDE DEF Bad
    <3>. QED
      BY <3>1, SmallestMember
  <2>2. s # {}
    <3>. SUFFICES ASSUME s = {} PROVE FALSE
      OBVIOUS
    <3>1. ~Good({})
      BY <2>1
    <3>2. Cardinality(L({})) = 0 /\ IsFiniteSet(L({})) /\ H({}) = 0
      BY <1>2, <1>4, FS_EmptySet
    <3>. QED
      BY <3>1, <3>2
  <2>3. PICK x \in s : TRUE
    BY <2>2
  <2>4. s \in SUBSET D /\ s \ {x} \in SUBSET D /\ s \ {x} \notin Bad /\ s \in Bad
    BY <2>1, <2>3
  <2>5. Good(s \ {x})
    BY <2>4
  <2>6. Good(s)
    BY <1>6, <2>3, <2>4, <2>5
  <2>. QED
    BY <2>4, <2>6
<1>8. Good(D)
  BY <1>7
<1>9. Cardinality(L(D)) \in Nat
  BY <1>8, FS_CardinalityType
<1>. QED
  BY <1>8, <1>9 DEF L, H, h

\* A pool whose counters count S has at least as many free pages as S leaves, and one
\* more when a page has two leases.
LEMMA FreePages ==
  ASSUME NEW q \in Pool, NEW S, IsFiniteSet(S), Counts(q, S), \A l \in S : l.page \in Page
  PROVE  /\ Cardinality(q.free) \in Nat /\ Cardinality(S) \in Nat
         /\ Cardinality(Page) <= Cardinality(q.free) + Cardinality(S)
         /\ \A l \in S : q.refs[l.page] > 1 =>
               Cardinality(Page) + 1 <= Cardinality(q.free) + Cardinality(S)
<1>. DEFINE F == q.free
            U == Page \ F
<1>1. /\ F \subseteq Page /\ IsFiniteSet(F) /\ IsFiniteSet(U) /\ F \cap U = {} /\ F \cup U = Page
      /\ IsFiniteSet(Page)
  BY PageAssumption, FS_Subset DEF Pool
<1>2. /\ Cardinality(F) \in Nat /\ Cardinality(U) \in Nat /\ Cardinality(S) \in Nat
      /\ Cardinality(Page) \in Nat
  BY <1>1, FS_CardinalityType
<1>3. Cardinality(Page) = Cardinality(F) + Cardinality(U)
  <2>. HIDE DEF F, U
  <2>. QED
    BY <1>1, CardDisjointUnion
<1>4. \A p \in U : \E l \in S : l.page = p
  BY ZenonT(30) DEF Counts, On
<1>5. \A l \in S : l.page \in U
  BY DEF Counts, On
<1>6. ASSUME NEW T, T \subseteq S, \A p \in U : \E l \in T : l.page = p
      PROVE  IsFiniteSet(T) /\ Cardinality(U) <= Cardinality(T) /\ Cardinality(T) \in Nat
  <2>. DEFINE f == [l \in T |-> l.page]
  <2>1. IsFiniteSet(T)
    BY <1>6, FS_Subset
  <2>2. f \in [T -> U]
    BY <1>5, <1>6
  <2>3. \A p \in U : \E l \in T : f[l] = p
    BY <1>6
  <2>. HIDE DEF f, U, F
  <2>4. f \in Surjection(T, U)
    BY <2>2, <2>3 DEF Surjection
  <2>. QED
    BY <2>1, <2>4, FS_Surjection, FS_CardinalityType
<1>7. Cardinality(U) <= Cardinality(S)
  <2>. HIDE DEF U, F
  <2>. QED
    BY <1>4, <1>6
<1>8. ASSUME NEW l \in S, q.refs[l.page] > 1
      PROVE  Cardinality(U) + 1 <= Cardinality(S)
  <2>. DEFINE T == S \ {l}
              p0 == l.page
  <2>1. p0 \in Page /\ q.refs[p0] = Cardinality(On(p0, S)) /\ l \in On(p0, S)
    BY DEF Counts, On
  <2>2. \E m \in On(p0, S) : m # l
    <3>. SUFFICES ASSUME \A m \in On(p0, S) : m = l PROVE FALSE
      OBVIOUS
    <3>1. On(p0, S) = {l}
      BY <2>1
    <3>2. Cardinality(On(p0, S)) = 1
      BY <3>1, FS_Singleton
    <3>. QED
      BY <1>8, <2>1, <3>2
  <2>3. PICK m \in S : m # l /\ m.page = p0
    BY <2>2 DEF On
  <2>4. ASSUME NEW p \in U PROVE \E t \in T : t.page = p
    <3>1. CASE p = p0
      BY <2>3, <3>1
    <3>2. CASE p # p0
      <4>1. PICK t \in S : t.page = p
        BY <1>4
      <4>2. t # l
        BY <3>2, <4>1
      <4>. QED
        BY <4>1, <4>2
    <3>. QED
      BY <3>1, <3>2
  <2>5. T \subseteq S
    OBVIOUS
  <2>6. Cardinality(T) = Cardinality(S) - 1
    BY FS_RemoveElement
  <2>. HIDE DEF T, U, F
  <2>7. Cardinality(U) <= Cardinality(T) /\ Cardinality(T) \in Nat
    BY <1>6, <2>4, <2>5
  <2>. QED
    BY <1>2, <2>6, <2>7
<1>. HIDE DEF U
<1>9. Cardinality(Page) <= Cardinality(F) + Cardinality(S)
  BY <1>2, <1>3, <1>7
<1>10. ASSUME NEW l \in S, q.refs[l.page] > 1
       PROVE  Cardinality(Page) + 1 <= Cardinality(F) + Cardinality(S)
  <2>1. Cardinality(U) + 1 <= Cardinality(S)
    BY <1>8, <1>10
  <2>. QED
    BY <1>2, <1>3, <2>1
<1>. QED
  BY <1>2, <1>9, <1>10

\* An append within its reservation finds its pages once the index is evicted: the block
\* tables and the rest of the reservation are within what is committed.
LEMMA BudgetHonours ==
  ASSUME IInv, LruOK, BudgetOK, Idle, NEW id \in DOMAIN sequences \cap DOMAIN reservations,
         NEW n \in Nat \ {0}, PagesFor(Used(id) + n) <= reservations[id]
  PROVE  LET left == EvictedPool(Len(lru))
         IN  Cardinality(left.free) >= PagesToFind(id, RequiredBlocks(id, n), left)
<1>. DEFINE left == EvictedPool(Len(lru))
            S    == AllSequenceLeases(DOMAIN sequences)
            h    == [x \in DOMAIN sequences |-> Len(sequences[x].blocks)]
            sum  == SumFunctionOnSet(h, DOMAIN sequences)
            have == Len(sequences[id].blocks)
            need == RequiredBlocks(id, n)
            count == PagesFor(Used(id) + n)
            shared == SharedTail(id, left.refs)
<1>1. Leases \ CacheLeases(Victims(Len(lru))) = S
  <2>1. AllAppendLeases = {}
    BY DEF Idle, AllAppendLeases
  <2>2. S \cap CacheLeases(DOMAIN lease) = {}
    BY OwnersApart DEF AllSequenceLeases, SequenceLeases, CacheLeases
  <2>. HIDE DEF S
  <2>. QED
    BY <2>1, <2>2, AllEvicted DEF Leases, Leased, S
<1>2. left \in Pool /\ Counts(left, S)
  BY <1>1, EvictedPoolCounts
<1>3. TypeOK /\ Sized(reservations, sequences)
  BY DEF IInv, BudgetOK, WithinBudget
<1>4. IsFiniteSet(S) /\ Cardinality(S) \in Nat /\ Cardinality(S) <= sum
  BY <1>3, AllLeasesBound DEF Sized
<1>5. sum \in Nat /\ sum + reservations[id] <= Committed(reservations, sequences) + have
  <2>1. \A x \in DOMAIN reservations \cap DOMAIN sequences :
           Len(sequences[x].blocks) <= reservations[x]
    BY DEF BudgetOK, WithinBudget
  <2>. QED
    BY <1>3, <2>1, TablesWithinCommitted
<1>6. Committed(reservations, sequences) <= Cardinality(Page)
  BY DEF BudgetOK, WithinBudget
<1>7. /\ Committed(reservations, sequences) \in Nat /\ Cardinality(Page) \in Nat
      /\ reservations[id] \in Nat
  BY <1>3, CommittedIs, TableLengths, PageAssumption, FS_CardinalityType
<1>8. \A l \in S : l.page \in Page
  BY <1>3 DEF AllSequenceLeases, SequenceLeases, TypeOK
<1>9. /\ need \in Nat /\ have \in Nat /\ count \in Nat
      /\ IF count <= have THEN need = 0 ELSE need = count - have
  BY RequiredBlocksIs
<1>10. have <= reservations[id] /\ count <= reservations[id]
  BY DEF BudgetOK, WithinBudget
<1>11. shared => \E l \in S : left.refs[l.page] > 1
  <2>. SUFFICES ASSUME shared PROVE \E l \in S : left.refs[l.page] > 1
    OBVIOUS
  <2>1. Used(id) % BlockTokens # 0 /\ left.refs[LastBlock(id)] > 1
    BY DEF SharedTail
  <2>2. sequences[id].tokens # <<>>
    <3>. SUFFICES ASSUME sequences[id].tokens = <<>> PROVE FALSE
      OBVIOUS
    <3>1. Used(id) = 0 /\ BlockTokens \in Nat \ {0}
      BY ManagerAssumption DEF Used
    <3>. QED
      BY <2>1, <3>1
  <2>3. sequences[id].blocks # <<>> /\ sequences[id].blocks \in Seq(Page)
    BY <2>2 DEF IInv, TablesOK, TypeOK
  <2>4. have \in 1 .. Len(sequences[id].blocks)
    BY <2>3
  <2>. DEFINE l == [owner |-> <<"sequence", id, have>>, page |-> sequences[id].blocks[have]]
  <2>5. l \in S
    BY <2>4, SMTT(30) DEF AllSequenceLeases, SequenceLeases
  <2>6. l.page = LastBlock(id)
    BY DEF LastBlock
  <2>. QED
    BY <2>1, <2>5, <2>6
<1>. HIDE DEF left, S, sum, have, need, count, shared
<1>12. /\ Cardinality(left.free) \in Nat
       /\ Cardinality(Page) <= Cardinality(left.free) + Cardinality(S)
       /\ (\E l \in S : left.refs[l.page] > 1) =>
             Cardinality(Page) + 1 <= Cardinality(left.free) + Cardinality(S)
  BY <1>2, <1>4, <1>8, FreePages
<1>. DEFINE free == Cardinality(left.free)
            all  == Cardinality(Page)
            held == Cardinality(S)
            com  == Committed(reservations, sequences)
            res  == reservations[id]
<1>13. /\ free \in Nat /\ all \in Nat /\ held \in Nat /\ com \in Nat /\ res \in Nat
       /\ sum \in Nat /\ have \in Nat /\ need \in Nat /\ count \in Nat
  BY <1>4, <1>5, <1>7, <1>9, <1>12
<1>14. /\ held <= sum /\ sum + res <= com + have /\ com <= all
       /\ have <= res /\ count <= res
       /\ IF count <= have THEN need = 0 ELSE need = count - have
  BY <1>4, <1>5, <1>6, <1>9, <1>10
<1>15. all <= free + held
  BY <1>12
<1>16. shared => all + 1 <= free + held
  BY <1>11, <1>12
<1>. HIDE DEF free, all, held, com, res
<1>17. need <= res - have
  BY <1>13, <1>14
<1>18. free >= need
  BY <1>13, <1>14, <1>15, <1>17
<1>19. shared => free >= need + 1
  <2>. SUFFICES ASSUME shared PROVE free >= need + 1
    OBVIOUS
  <2>1. all + 1 <= free + held
    BY <1>16
  <2>. QED
    BY <1>13, <1>14, <1>17, <2>1
<1>20. free >= need + (IF shared THEN 1 ELSE 0)
  <2>1. CASE shared
    BY <1>13, <1>19, <2>1
  <2>2. CASE ~shared
    BY <1>13, <1>18, <2>2
  <2>. QED
    BY <2>1, <2>2
<1>. QED
  BY <1>20 DEF PagesToFind, free, need, shared, left

------------------------------------------------------------------------------
\* The inductive invariant of the reservations

RInv == IInv /\ LruOK /\ BudgetOK

LEMMA InitRInv == Init => RInv
<1>. SUFFICES ASSUME Init PROVE RInv
  OBVIOUS
<1>1. DOMAIN sequences = {} /\ DOMAIN reservations = {} /\ DOMAIN lease = {} /\ lru = <<>>
  BY DEF Init
<1>2. LruOK
  BY <1>1 DEF LruOK, Leased
<1>3. BudgetOK
  BY <1>1, FS_EmptySet DEF BudgetOK, WithinBudget, Sized
<1>. QED
  BY <1>2, <1>3, InitIInv DEF RInv

\* Every step keeps what reserve_request and reserve_pages checked.
LEMMA NextBudget ==
  ASSUME IInv, BudgetOK, [Next]_vars
  PROVE  BudgetOK'
<1>1. CASE UNCHANGED vars
  BY <1>1, BudgetKept DEF vars
<1>2. ASSUME NEW id \in Id, NEW n \in ReserveTokens, ReserveRequest(id, n) PROVE BudgetOK'
  BY <1>2, ReserveRequestBudget
<1>3. ASSUME NEW id \in Id, ReleaseReservation(id) \/ Create(id) PROVE BudgetOK'
  <2>1. CASE ReleaseReservation(id)
    BY <2>1, BudgetKept DEF ReleaseReservation, Without
  <2>. QED
    BY <1>3, <2>1, CreateBudget
<1>4. ASSUME NEW source \in DOMAIN sequences, NEW target \in DOMAIN sequences,
             ForkSequence(source, target)
      PROVE  BudgetOK'
  BY <1>4, ForkSequenceBudget
<1>5. ASSUME NEW id \in DOMAIN sequences, NEW prompt \in Prompts, ReusePrefix(id, prompt)
      PROVE  BudgetOK'
  BY <1>5, ReusePrefixBudget
<1>6. ASSUME NEW id \in DOMAIN sequences, CachePrefix(id) \/ ResetSequence(id) \/ Release(id)
      PROVE  BudgetOK'
  <2>1. CASE CachePrefix(id)
    BY <2>1, BudgetKept DEF CachePrefix
  <2>2. CASE ResetSequence(id)
    <3>1. \A x \in DOMAIN sequences' : \/ sequences'[x].blocks = sequences[x].blocks
                                      \/ sequences'[x].blocks = <<>>
      BY <2>2 DEF ResetSequence, EmptySequence
    <3>. QED
      BY <2>2, <3>1, BudgetKept DEF ResetSequence
  <2>3. CASE Release(id)
    BY <2>3, BudgetKept DEF Release, Without
  <2>. QED
    BY <1>6, <2>1, <2>2, <2>3
<1>7. ASSUME NEW id \in DOMAIN publishing, PublishKnown(id) \/ PublishNew(id) \/ PublishFails(id)
      PROVE  BudgetOK'
  BY <1>7, BudgetKept DEF PublishKnown, PublishNew, PublishFails
<1>8. CASE ClearPrefixCache
  BY <1>8, BudgetKept DEF ClearPrefixCache
<1>9. CASE Clear
  <2>1. DOMAIN sequences' = {} /\ DOMAIN reservations' = {}
    BY <1>9 DEF Clear
  <2>. QED
    BY <2>1, BudgetKept
<1>10. ASSUME NEW id \in DOMAIN sequences, NEW input \in Inputs(id),
              ValidAppend(id, input) /\ PrepareAppend(id, input)
       PROVE  BudgetOK'
  BY <1>10, PrepareAppendBudget
<1>11. ASSUME NEW id \in DOMAIN sequences, NEW n, PrepareExhausted(id, n) PROVE BudgetOK'
  BY <1>11, BudgetKept DEF PrepareExhausted
<1>12. ASSUME NEW id \in DOMAIN appends,
              CopySharedTail(id) \/ WriteToken(id) \/ Commit(id) \/ Rollback(id)
       PROVE  BudgetOK'
  <2>1. CASE CopySharedTail(id) \/ WriteToken(id)
    BY <2>1, BudgetKept DEF CopySharedTail, WriteToken
  <2>2. CASE Commit(id)
    <3>1. \A x \in DOMAIN sequences' : sequences'[x].blocks = sequences[x].blocks
      BY <2>2 DEF Commit, IInv, TypeOK
    <3>2. DOMAIN sequences' = DOMAIN sequences /\ reservations' = reservations
      BY <2>2 DEF Commit
    <3>. QED
      BY <3>1, <3>2, BudgetKept
  <2>. QED
    BY <1>12, <2>1, <2>2, RollbackBudget
<1>. QED
  BY <1>1, <1>2, <1>3, <1>4, <1>5, <1>6, <1>7, <1>8, <1>9, <1>10, <1>11, <1>12 DEF Next

\* Every step keeps all leases on the eviction list.
LEMMA NextLru ==
  ASSUME IInv, LruOK, [Next]_vars
  PROVE  LruOK'
<1>1. CASE UNCHANGED <<lru, lease>>
  BY <1>1 DEF LruOK, Leased
<1>2. CASE lru' = <<>> /\ lease' = <<>>
  BY <1>2 DEF LruOK, Leased
<1>3. ASSUME NEW id \in DOMAIN sequences, NEW prompt \in Prompts, ReusePrefix(id, prompt)
      PROVE  LruOK'
  BY <1>3, ReusePrefixLru
<1>4. ASSUME NEW id \in DOMAIN publishing, PublishKnown(id) \/ PublishNew(id)
      PROVE  LruOK'
  BY <1>4, PublishKnownLru, PublishNewLru
<1>5. ASSUME NEW id, NEW input, PrepareAppend(id, input) PROVE LruOK'
  BY <1>5, PrepareAppendLru
<1>6. ASSUME NEW id, NEW n, PrepareExhausted(id, n) PROVE LruOK'
  <2>1. lease' = Without(lease, Victims(Len(lru))) /\ lru' = <<>>
    BY <1>6 DEF PrepareExhausted
  <2>2. DOMAIN lease' = {}
    BY <2>1, AllEvicted DEF Without, Leased
  <2>. QED
    BY <2>1, <2>2 DEF LruOK, Leased
<1>7. CASE UNCHANGED vars
  BY <1>1, <1>7 DEF vars
<1>8. ASSUME NEW id \in Id, NEW n \in ReserveTokens, ReserveRequest(id, n) PROVE LruOK'
  BY <1>1, <1>8 DEF ReserveRequest
<1>9. ASSUME NEW id \in Id, ReleaseReservation(id) \/ Create(id) PROVE LruOK'
  BY <1>1, <1>9 DEF ReleaseReservation, Create
<1>10. ASSUME NEW source, NEW target, ForkSequence(source, target) PROVE LruOK'
  BY <1>1, <1>10 DEF ForkSequence
<1>11. ASSUME NEW id, CachePrefix(id) \/ ResetSequence(id) \/ Release(id) PROVE LruOK'
  BY <1>1, <1>11 DEF CachePrefix, ResetSequence, Release
<1>12. ASSUME NEW id, PublishFails(id) PROVE LruOK'
  BY <1>1, <1>12 DEF PublishFails
<1>13. CASE ClearPrefixCache \/ Clear
  BY <1>2, <1>13 DEF ClearPrefixCache, Clear
<1>14. ASSUME NEW id, CopySharedTail(id) \/ WriteToken(id) \/ Commit(id) \/ Rollback(id)
       PROVE  LruOK'
  BY <1>1, <1>14 DEF CopySharedTail, WriteToken, Commit, Rollback
<1>. QED
  BY <1>3, <1>4, <1>5, <1>6, <1>7, <1>8, <1>9, <1>10, <1>11, <1>12, <1>13, <1>14 DEF Next

LEMMA NextRInv == RInv /\ [Next]_vars => RInv'
BY NextIInv, NextBudget, NextLru DEF RInv

\* The budget is what a request needs.
LEMMA ReservationsSuffice == RInv => ReservationsHonoured
<1>. SUFFICES ASSUME RInv, Idle, NEW id \in DOMAIN sequences \cap DOMAIN reservations,
                     NEW n \in 1 .. Context - Used(id),
                     PagesFor(Used(id) + n) <= reservations[id]
              PROVE  LET required == RequiredBlocks(id, n)
                         left     == EvictedPool(Len(lru))
                     IN  Cardinality(left.free) >= PagesToFind(id, required, left)
  BY DEF ReservationsHonoured
<1>1. Used(id) \in Nat /\ Context \in Nat
  BY ManagerAssumption DEF RInv, IInv, TypeOK, Used, History
<1>2. n \in Nat \ {0}
  BY <1>1
<1>. QED
  BY <1>2, BudgetHonours DEF RInv

\* docs/capacity_admission.md: whatever is cached, forked or appended beside it
\* (KVManager::reserve_request, reserve_pages, committed_blocks), a request that was
\* admitted finds the pages for an append within its reservation, once the prefix index
\* gives up its leases.
THEOREM ReservationsAlwaysHonoured == Spec => []ReservationsHonoured
<1>1. RInv => ReservationsHonoured
  BY ReservationsSuffice
<1>2. RInv /\ [Next]_vars => RInv'
  BY NextRInv
<1>. QED
  BY <1>1, <1>2, InitRInv, PTL DEF Spec
==============================================================================
