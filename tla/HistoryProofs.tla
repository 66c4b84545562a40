----------------------------- MODULE HistoryProofs ----------------------------
(***************************************************************************)
(* Proofs that sharing pages never mixes up histories: every page that a   *)
(* committed sequence or the prefix index refers to holds the KV of the    *)
(* history it is filed under, and the manager implements private           *)
(* histories.  Then the same of the CUDA runner, whose kernels find the    *)
(* pages through device block tables that an append only partly uploads.   *)
(***************************************************************************)
EXTENDS CudaRunner, KVManagerProofs

------------------------------------------------------------------------------
\* Positions and pages

\* Position n is slot SlotOf(n) of the PagesFor(n)-th page.
LEMMA Position ==
  ASSUME NEW n \in Nat \ {0}
  PROVE  /\ PagesFor(n) \in Nat \ {0} /\ SlotOf(n) \in Slot /\ SlotOf(n) \in Nat
         /\ n = BlockTokens * (PagesFor(n) - 1) + SlotOf(n) + 1
         /\ SlotOf(n) < BlockTokens
         /\ \A blocks : PageOf(blocks, n) = blocks[PagesFor(n)]
<1>. DEFINE q == (n - 1) \div BlockTokens
            s == (n - 1) % BlockTokens
<1>1. BlockTokens \in Nat \ {0}
  BY ManagerAssumption
<1>2. q \in Int /\ BlockTokens * q <= n - 1 /\ n - 1 < BlockTokens * (q + 1)
  BY <1>1
<1>3. s \in Int /\ 0 <= s /\ s < BlockTokens /\ n - 1 = BlockTokens * q + s
  BY <1>1
<1>. HIDE DEF q, s
<1>4. PagesFor(n) = q + 1
  <2>1. BlockTokens * (q + 1) <= n + BlockTokens - 1
        /\ n + BlockTokens - 1 < BlockTokens * (q + 1 + 1)
    BY <1>1, <1>2
  <2>2. (n + BlockTokens - 1) \div BlockTokens = q + 1
    <3>. DEFINE a == n + BlockTokens - 1
                r == q + 1
    <3>1. a \in Int /\ r \in Int /\ BlockTokens * r <= a /\ a < BlockTokens * (r + 1)
      BY <1>1, <1>2, <2>1
    <3>. HIDE DEF a, r
    <3>2. a \div BlockTokens = r
      BY <1>1, <3>1, QuotientUnique
    <3>. QED
      BY <3>2 DEF a, r
  <2>. QED
    BY <2>2 DEF PagesFor
<1>5. PagesFor(n) \in Nat /\ PagesFor(n) > 0
  BY PagesForType
<1>6. SlotOf(n) = s
  BY DEF SlotOf, s
<1>7. \A blocks : PageOf(blocks, n) = blocks[PagesFor(n)]
  BY <1>4 DEF PageOf, q
<1>. QED
  BY <1>1, <1>2, <1>3, <1>4, <1>5, <1>6, <1>7 DEF Slot

\* More positions take more pages.
LEMMA PagesMonotone ==
  ASSUME NEW m \in Nat, NEW n \in Nat, m <= n
  PROVE  PagesFor(m) <= PagesFor(n)
<1>1. CASE m = 0
  BY <1>1, PagesForType
<1>2. CASE m # 0
  <2>. DEFINE p == PagesFor(m)
              q == PagesFor(n)
  <2>1. /\ p \in Nat /\ q \in Nat /\ BlockTokens \in Nat \ {0}
        /\ SlotOf(m) \in Nat /\ SlotOf(n) \in Nat /\ SlotOf(n) < BlockTokens
        /\ m = BlockTokens * (p - 1) + SlotOf(m) + 1
        /\ n = BlockTokens * (q - 1) + SlotOf(n) + 1
    <3>1. m \in Nat \ {0} /\ n \in Nat \ {0}
      BY <1>2
    <3>2. p \in Nat /\ SlotOf(m) \in Nat /\ m = BlockTokens * (p - 1) + SlotOf(m) + 1
      BY <3>1, Position, Zenon
    <3>3. /\ q \in Nat /\ SlotOf(n) \in Nat /\ SlotOf(n) < BlockTokens
          /\ n = BlockTokens * (q - 1) + SlotOf(n) + 1
      BY <3>1, Position, Zenon
    <3>. QED
      BY <3>2, <3>3, ManagerAssumption
  <2>. HIDE DEF p, q
  <2>2. ASSUME q <= p - 1 PROVE FALSE
    <3>1. BlockTokens * q <= BlockTokens * (p - 1)
      BY <2>1, <2>2
    <3>2. BlockTokens * q = BlockTokens * (q - 1) + BlockTokens
      BY <2>1
    <3>. DEFINE x == BlockTokens * q
                y == BlockTokens * (p - 1)
                z == BlockTokens * (q - 1)
    <3>3. x \in Int /\ y \in Int /\ z \in Int /\ x <= y /\ x = z + BlockTokens
          /\ m = y + SlotOf(m) + 1 /\ n = z + SlotOf(n) + 1
      BY <2>1, <3>1, <3>2
    <3>. HIDE DEF x, y, z
    <3>. QED
      BY <2>1, <3>3
  <2>3. p <= q
    BY <2>1, <2>2
  <2>. QED
    BY <2>3 DEF p, q
<1>. QED
  BY <1>1, <1>2

\* The pages of k positions, when k is between two multiples of BlockTokens.
LEMMA PagesBetween ==
  ASSUME NEW w \in Nat, NEW k \in Nat, BlockTokens * w < k, k <= BlockTokens * w + BlockTokens
  PROVE  PagesFor(k) = w + 1
<1>. DEFINE a == k + BlockTokens - 1
            q == w + 1
<1>1. BlockTokens \in Nat \ {0}
  BY ManagerAssumption
<1>2. BlockTokens * q = BlockTokens * w + BlockTokens
      /\ BlockTokens * (q + 1) = BlockTokens * w + BlockTokens + BlockTokens
  BY <1>1
<1>3. a \in Int /\ q \in Int /\ BlockTokens * q <= a /\ a < BlockTokens * (q + 1)
  BY <1>1, <1>2
<1>. HIDE DEF a, q
<1>4. a \div BlockTokens = q
  BY <1>1, <1>3, QuotientUnique
<1>. QED
  BY <1>4 DEF a, q, PagesFor

\* Whole pages.
LEMMA WholePageCount ==
  ASSUME NEW w \in Nat
  PROVE  PagesFor(BlockTokens * w) = w /\ BlockTokens * w \in Nat
<1>1. BlockTokens \in Nat \ {0} /\ BlockTokens * w \in Nat
  BY ManagerAssumption
<1>2. CASE w = 0
  BY <1>1, <1>2, PagesForType
<1>3. CASE w # 0
  <2>. DEFINE v == w - 1
              k == BlockTokens * w
  <2>1. v \in Nat /\ k \in Nat /\ k = BlockTokens * v + BlockTokens
    BY <1>1, <1>3
  <2>. HIDE DEF k
  <2>2. PagesFor(k) = v + 1
    <3>. HIDE DEF v
    <3>. QED
      BY <1>1, <2>1, PagesBetween
  <2>. QED
    BY <1>1, <2>2 DEF k
<1>. QED
  BY <1>2, <1>3

\* Two positions of one page have different slots.
LEMMA OneSlotEach ==
  ASSUME NEW m \in Nat \ {0}, NEW n \in Nat \ {0}, PagesFor(m) = PagesFor(n),
         SlotOf(m) = SlotOf(n)
  PROVE  m = n
<1>1. PagesFor(m) \in Nat /\ SlotOf(m) \in Nat
      /\ m = BlockTokens * (PagesFor(m) - 1) + SlotOf(m) + 1
  BY Position, Zenon
<1>2. n = BlockTokens * (PagesFor(n) - 1) + SlotOf(n) + 1
  BY Position, Zenon
<1>. QED
  BY <1>1, <1>2, Zenon

\* An earlier position of the same page has a smaller slot.
LEMMA SlotsInOrder ==
  ASSUME NEW m \in Nat \ {0}, NEW n \in Nat \ {0}, PagesFor(m) = PagesFor(n), m <= n
  PROVE  SlotOf(m) <= SlotOf(n)
<1>1. PagesFor(m) \in Nat /\ SlotOf(m) \in Nat
      /\ m = BlockTokens * (PagesFor(m) - 1) + SlotOf(m) + 1
  BY Position, Zenon
<1>2. SlotOf(n) \in Nat /\ n = BlockTokens * (PagesFor(n) - 1) + SlotOf(n) + 1
  BY Position, Zenon
<1>. DEFINE x == BlockTokens * (PagesFor(n) - 1)
<1>3. x \in Int /\ m = x + SlotOf(m) + 1 /\ n = x + SlotOf(n) + 1
  BY <1>1, <1>2, ManagerAssumption
<1>. HIDE DEF x
<1>. QED
  BY <1>1, <1>2, <1>3

\* Behind a partly filled page the valid slots are those up to the last position;
\* behind a full one the next position starts a page.
LEMMA LastSlot ==
  ASSUME NEW n \in Nat
  PROVE  /\ n % BlockTokens # 0 => /\ n # 0 /\ n % BlockTokens = SlotOf(n) + 1
                                   /\ PagesFor(n + 1) = PagesFor(n)
         /\ n % BlockTokens = 0 => PagesFor(n + 1) = PagesFor(n) + 1
<1>. DEFINE w == n \div BlockTokens
            r == n % BlockTokens
<1>1. BlockTokens \in Nat \ {0}
  BY ManagerAssumption
<1>2. /\ w \in Nat /\ r \in Nat /\ r < BlockTokens /\ n = BlockTokens * w + r
      /\ BlockTokens * w \in Nat
  <2>1. w \in Int /\ w >= 0
    BY <1>1
  <2>2. r \in Int /\ 0 <= r /\ r < BlockTokens /\ n = BlockTokens * w + r
    BY <1>1
  <2>3. w \in Nat
    BY <2>1
  <2>. HIDE DEF w
  <2>. QED
    BY <1>1, <2>2, <2>3
<1>. HIDE DEF w, r
<1>3. PagesFor(n + 1) = w + 1
  <2>. DEFINE k == n + 1
              x == BlockTokens * w
  <2>1. k \in Nat /\ x < k /\ k <= x + BlockTokens
    BY <1>1, <1>2
  <2>. HIDE DEF k
  <2>2. PagesFor(k) = w + 1
    BY <1>2, <2>1, PagesBetween
  <2>. QED
    BY <2>2 DEF k
<1>4. ASSUME r = 0 PROVE PagesFor(n) = w
  BY <1>2, <1>4, WholePageCount
<1>5. ASSUME r # 0
      PROVE  n # 0 /\ r = SlotOf(n) + 1 /\ PagesFor(n) = w + 1
  <2>1. PagesFor(n) = w + 1
    <3>. DEFINE x == BlockTokens * w
    <3>1. x < n /\ n <= x + BlockTokens
      BY <1>1, <1>2, <1>5
    <3>. QED
      BY <1>2, <3>1, PagesBetween
  <2>2. n \in Nat \ {0}
    BY <1>2, <1>5
  <2>3. SlotOf(n) \in Nat /\ n = BlockTokens * (PagesFor(n) - 1) + SlotOf(n) + 1
    BY <2>2, Position, Zenon
  <2>4. PagesFor(n) - 1 = w
    BY <1>2, <2>1
  <2>5. n = BlockTokens * w + SlotOf(n) + 1
    BY <2>3, <2>4
  <2>. DEFINE x == BlockTokens * w
  <2>6. x \in Nat /\ n = x + r /\ n = x + SlotOf(n) + 1
    BY <1>2, <2>5
  <2>. HIDE DEF x
  <2>7. r = SlotOf(n) + 1
    BY <1>2, <2>3, <2>6
  <2>. QED
    BY <2>1, <2>2, <2>7
<1>. QED
  BY <1>3, <1>4, <1>5 DEF r

------------------------------------------------------------------------------
\* Prefixes of histories

\* A prefix of a prefix.
LEMMA PrefixOfPrefix ==
  ASSUME NEW h \in History, NEW n \in 0 .. Len(h), NEW m \in 0 .. n
  PROVE  Prefix(Prefix(h, n), m) = Prefix(h, m)
<1>1. h \in Seq(Token) /\ Len(h) \in Nat /\ n \in Nat /\ m \in Nat /\ n <= Len(h) /\ m <= n
  BY DEF History
<1>2. CASE m = 0
  <2>1. Prefix(h, n) \in Seq(Token)
    BY PrefixType DEF History
  <2>. QED
    BY <1>1, <1>2, <2>1, SubSeqEmpty DEF Prefix
<1>3. CASE m # 0
  <2>1. /\ Prefix(h, n) \in Seq(Token) /\ Len(Prefix(h, n)) = n
        /\ Prefix(h, m) \in Seq(Token) /\ Len(Prefix(h, m)) = m
        /\ Prefix(Prefix(h, n), m) \in Seq(Token) /\ Len(Prefix(Prefix(h, n), m)) = m
    BY <1>1, PrefixType DEF History
  <2>2. ASSUME NEW g \in Seq(Token), NEW k \in 0 .. Len(g)
        PROVE  \A i \in 1 .. k : Prefix(g, k)[i] = g[i]
    <3>1. \A i \in 1 .. k : g[i] \in Token
      OBVIOUS
    <3>. QED
      BY <3>1, SubSeqProperties DEF Prefix
  <2>3. \A i \in 1 .. m : Prefix(Prefix(h, n), m)[i] = Prefix(h, m)[i]
    <3>1. \A i \in 1 .. m : Prefix(Prefix(h, n), m)[i] = Prefix(h, n)[i]
      BY <1>1, <2>1, <2>2
    <3>2. \A i \in 1 .. m : Prefix(h, n)[i] = h[i] /\ Prefix(h, m)[i] = h[i]
      BY <1>1, <2>2
    <3>. QED
      BY <3>1, <3>2
  <2>. QED
    BY <2>1, <2>3, SeqEqual
<1>. QED
  BY <1>2, <1>3

\* The prefixes of a history that something was appended to.
LEMMA PrefixOfConcat ==
  ASSUME NEW h \in History, NEW g \in History, NEW n \in 0 .. Len(h)
  PROVE  /\ h \o g \in History /\ Len(h \o g) = Len(h) + Len(g)
         /\ Prefix(h \o g, n) = Prefix(h, n)
<1>1. /\ h \in Seq(Token) /\ g \in Seq(Token) /\ Len(h) \in Nat /\ Len(g) \in Nat
      /\ n \in Nat /\ n <= Len(h)
  BY DEF History
<1>2. h \o g \in Seq(Token) /\ Len(h \o g) = Len(h) + Len(g)
  BY <1>1, ConcatProperties
<1>3. ASSUME n = 0 PROVE Prefix(h \o g, n) = Prefix(h, n)
  <2>1. 0 \in Int /\ 1 \in Int /\ 0 < 1
    OBVIOUS
  <2>2. SubSeq(h \o g, 1, 0) = <<>> /\ SubSeq(h, 1, 0) = <<>>
    BY <2>1, SubSeqEmpty, Zenon
  <2>. QED
    BY <1>3, <2>2, Zenon DEF Prefix
<1>4. ASSUME n # 0 PROVE Prefix(h \o g, n) = Prefix(h, n)
  <2>1. 1 \in 1 .. Len(h) /\ n \in 1 .. Len(h)
    BY <1>1, <1>4
  <2>2. SubSeq(h \o g, 1, n) = SubSeq(h, 1, n)
    BY <1>1, <2>1, SubSeqOfConcat1, Zenon
  <2>. QED
    BY <2>2, Zenon DEF Prefix
<1>. QED
  BY <1>2, <1>3, <1>4 DEF History

\* A history is its own longest prefix.
LEMMA PrefixWhole ==
  ASSUME NEW h \in History
  PROVE  Prefix(h, Len(h)) = h
BY SubSeqFull DEF History, Prefix

\* What was written so far, and the next token.
LEMMA PrefixNext ==
  ASSUME NEW h \in History, NEW g \in History, NEW w \in Nat, w < Len(g)
  PROVE  /\ Prefix(h \o g, Len(h) + w) = h \o Prefix(g, w)
         /\ Prefix(h \o g, Len(h) + w + 1) = Append(h \o Prefix(g, w), g[w + 1])
<1>. DEFINE f == Prefix(g, w)
            l == h \o f
            n == Len(h) + w
<1>1. /\ h \in Seq(Token) /\ g \in Seq(Token) /\ Len(h) \in Nat /\ Len(g) \in Nat
      /\ w \in 0 .. Len(g) /\ w + 1 \in 1 .. Len(g)
  BY DEF History
<1>2. f \in Seq(Token) /\ Len(f) = w /\ \A i \in 1 .. w : f[i] = g[i]
  <2>1. \A i \in 1 .. w : g[i] \in Token
    BY <1>1
  <2>. QED
    BY <1>1, <2>1, SubSeqProperties DEF Prefix
<1>3. /\ h \o g \in Seq(Token) /\ Len(h \o g) = Len(h) + Len(g)
      /\ \A i \in 1 .. Len(h) + Len(g) :
            (h \o g)[i] = IF i <= Len(h) THEN h[i] ELSE g[i - Len(h)]
  BY <1>1, ConcatProperties
<1>. HIDE DEF f
<1>4. /\ l \in Seq(Token) /\ Len(l) = n
      /\ \A i \in 1 .. n : l[i] = IF i <= Len(h) THEN h[i] ELSE f[i - Len(h)]
  BY <1>1, <1>2, ConcatProperties
<1>5. ASSUME NEW k \in 0 .. Len(h) + Len(g)
      PROVE  /\ Prefix(h \o g, k) \in Seq(Token) /\ Len(Prefix(h \o g, k)) = k
             /\ \A i \in 1 .. k : Prefix(h \o g, k)[i] = (h \o g)[i]
  <2>. DEFINE z == h \o g
  <2>. HIDE DEF z
  <2>1. z \in Seq(Token) /\ Len(z) = Len(h) + Len(g)
    BY <1>3 DEF z
  <2>2. \A i \in 1 .. k : z[i] \in Token
    BY <1>1, <2>1
  <2>3. /\ Prefix(z, k) \in Seq(Token) /\ Len(Prefix(z, k)) = k
        /\ \A i \in 1 .. k : Prefix(z, k)[i] = z[i]
    BY <1>1, <2>1, <2>2, SubSeqProperties DEF Prefix
  <2>. QED
    BY <2>3 DEF z
<1>. HIDE DEF l
<1>6. n \in 0 .. Len(h) + Len(g) /\ n + 1 \in 0 .. Len(h) + Len(g)
  BY <1>1
<1>7. \A i \in 1 .. n : l[i] = (h \o g)[i]
  <2>. SUFFICES ASSUME NEW i \in 1 .. n PROVE l[i] = (h \o g)[i]
    OBVIOUS
  <2>1. CASE i <= Len(h)
    BY <1>1, <1>3, <1>4, <2>1
  <2>2. CASE i > Len(h)
    <3>1. i - Len(h) \in 1 .. w
      BY <1>1, <2>2
    <3>. QED
      BY <1>1, <1>2, <1>3, <1>4, <2>2, <3>1
  <2>. QED
    BY <1>1, <2>1, <2>2
<1>8. Prefix(h \o g, n) = l
  <2>1. /\ Prefix(h \o g, n) \in Seq(Token) /\ Len(Prefix(h \o g, n)) = n
        /\ \A i \in 1 .. n : Prefix(h \o g, n)[i] = (h \o g)[i]
    BY <1>5, <1>6
  <2>. QED
    BY <1>4, <1>7, <2>1, SeqEqual
<1>9. Prefix(h \o g, n + 1) = Append(l, g[w + 1])
  <2>. DEFINE a == Append(l, g[w + 1])
  <2>1. g[w + 1] \in Token
    BY <1>1
  <2>2. /\ a \in Seq(Token) /\ Len(a) = n + 1 /\ a[n + 1] = g[w + 1]
        /\ \A i \in 1 .. n : a[i] = l[i]
    BY <1>1, <1>4, <2>1, AppendProperties
  <2>. HIDE DEF a
  <2>3. /\ Prefix(h \o g, n + 1) \in Seq(Token) /\ Len(Prefix(h \o g, n + 1)) = n + 1
        /\ \A i \in 1 .. n + 1 : Prefix(h \o g, n + 1)[i] = (h \o g)[i]
    BY <1>5, <1>6
  <2>4. (h \o g)[n + 1] = g[w + 1]
    <3>1. n + 1 \in 1 .. Len(h) + Len(g) /\ ~(n + 1 <= Len(h)) /\ n + 1 - Len(h) = w + 1
      BY <1>1
    <3>. QED
      BY <1>3, <3>1
  <2>5. ASSUME NEW i \in 1 .. n + 1 PROVE Prefix(h \o g, n + 1)[i] = a[i]
    <3>1. CASE i = n + 1
      BY <1>1, <2>2, <2>3, <2>4, <3>1
    <3>2. CASE i # n + 1
      <4>1. i \in 1 .. n
        BY <1>1, <3>2
      <4>. QED
        BY <1>7, <2>2, <2>3, <4>1
    <3>. QED
      BY <3>1, <3>2
  <2>6. Prefix(h \o g, n + 1) = a
    BY <2>2, <2>3, <2>5, SeqEqual
  <2>. QED
    BY <2>6 DEF a
<1>. QED
  BY <1>8, <1>9 DEF l, f

------------------------------------------------------------------------------
\* The invariant

\* What a reader finds at position n of a block table.
KVAt(content, blocks, n) == content[blocks[PagesFor(n)]][SlotOf(n)]

\* A block table holds the history h, every position of it.
Reads(content, blocks, h) ==
    /\ Len(blocks) = PagesFor(Len(h))
    /\ \A n \in 1 .. Len(h) : KVAt(content, blocks, n) = Prefix(h, n)

\* A page holds the last page of the history h.
Files(content, page, h) ==
    /\ h # <<>>
    /\ \A n \in 1 .. Len(h) :
          PagesFor(n) = PagesFor(Len(h)) => content[page][SlotOf(n)] = Prefix(h, n)

\* A page of the index holds what it is filed under.
IndexTrue == \A h \in DOMAIN lease : Files(payload, lease[h], h)

\* A committed reader of a sequence finds its tokens and nothing else.
TablesTrue ==
    \A id \in DOMAIN sequences :
        /\ Used(id) <= Context
        /\ Reads(payload, CommittedTable(id), sequences[id].tokens)

\* The sizes of an open append.
AppendShape ==
    \A id \in DOMAIN appends :
        /\ Used(id) + Len(appends[id].input) <= Context
        /\ appends[id].written <= Len(appends[id].input)
        /\ appends[id].original = PagesFor(Used(id))
        /\ Len(sequences[id].blocks) = PagesFor(Used(id) + Len(appends[id].input))
        /\ appends[id].copy # <<>> =>
              /\ appends[id].copy[1].valid = Used(id) % BlockTokens
              /\ Used(id) % BlockTokens # 0
              /\ appends[id].copied \/ appends[id].written = 0

\* The new block table holds the history and what was written of the input.
AppendTrue ==
    \A id \in DOMAIN appends :
        appends[id].copy = <<>> \/ appends[id].copied =>
            \A n \in 1 .. Used(id) + appends[id].written :
                KVAt(payload, sequences[id].blocks, n) =
                    Prefix(sequences[id].tokens \o appends[id].input, n)

\* Nobody else holds a page an open append writes to.
AppendPrivate ==
    \A id \in DOMAIN appends :
        \A i \in PagesFor(Used(id) + 1) .. Len(sequences[id].blocks) :
            pool.refs[sequences[id].blocks[i]] = 1

HInv ==
    /\ IInv
    /\ IndexTrue
    /\ TablesTrue
    /\ AppendShape
    /\ AppendTrue
    /\ AppendPrivate

------------------------------------------------------------------------------
\* What holding a page protects

\* A table that reads a history still does when its pages keep their content.
LEMMA ReadsKept ==
  ASSUME NEW c, NEW d, NEW blocks, NEW h \in History, Reads(c, blocks, h),
         \A i \in 1 .. Len(blocks) : d[blocks[i]] = c[blocks[i]]
  PROVE  Reads(d, blocks, h)
<1>1. Len(h) \in Nat /\ Len(blocks) = PagesFor(Len(h))
  BY DEF History, Reads
<1>2. ASSUME NEW n \in 1 .. Len(h) PROVE KVAt(d, blocks, n) = Prefix(h, n)
  <2>1. n \in Nat \ {0} /\ n <= Len(h)
    BY <1>1
  <2>2. PagesFor(n) \in 1 .. Len(blocks)
    <3>1. PagesFor(n) \in Nat /\ PagesFor(n) > 0
      BY <2>1, PagesForType
    <3>2. PagesFor(n) <= PagesFor(Len(h)) /\ PagesFor(Len(h)) \in Nat
      BY <1>1, <2>1, PagesMonotone, PagesForType
    <3>. QED
      BY <1>1, <3>1, <3>2
  <2>3. KVAt(c, blocks, n) = Prefix(h, n)
    BY DEF Reads
  <2>. QED
    BY <2>2, <2>3 DEF KVAt
<1>. QED
  BY <1>1, <1>2 DEF Reads

\* The pages of tables, index and transactions are leased, so nothing scrubs them.
LEMMA HeldPagesKeep ==
  ASSUME IInv', NEW c
  PROVE  /\ \A h \in DOMAIN lease' : Scrub(c, pool'.free)[lease'[h]] = c[lease'[h]]
         /\ \A id \in DOMAIN sequences' : \A i \in 1 .. Len(sequences'[id].blocks) :
               Scrub(c, pool'.free)[sequences'[id].blocks[i]] = c[sequences'[id].blocks[i]]
         /\ \A id \in DOMAIN appends' : appends'[id].copy # <<>> =>
               Scrub(c, pool'.free)[appends'[id].copy[1].source] = c[appends'[id].copy[1].source]
<1>1. ASSUME NEW l \in Leases', l.page \in Page
      PROVE  Scrub(c, pool'.free)[l.page] = c[l.page]
  <2>1. l.page \notin pool'.free
    BY <1>1 DEF IInv, RefsCountLeases, Counts, On
  <2>. QED
    BY <1>1, <2>1 DEF Scrub
<1>2. ASSUME NEW h \in DOMAIN lease'
      PROVE  Scrub(c, pool'.free)[lease'[h]] = c[lease'[h]]
  <2>. DEFINE l == [owner |-> <<"cache", h>>, page |-> lease'[h]]
  <2>1. l \in Leases'
    BY DEF Leases, CacheLeases
  <2>2. lease'[h] \in Page
    BY DEF IInv, TypeOK, Leased
  <2>. QED
    BY <1>1, <2>1, <2>2
<1>3. ASSUME NEW id \in DOMAIN sequences', NEW i \in 1 .. Len(sequences'[id].blocks)
      PROVE  Scrub(c, pool'.free)[sequences'[id].blocks[i]] = c[sequences'[id].blocks[i]]
  <2>. DEFINE l == [owner |-> <<"sequence", id, i>>, page |-> sequences'[id].blocks[i]]
  <2>1. l \in Leases'
    BY DEF Leases, AllSequenceLeases, SequenceLeases
  <2>2. sequences'[id].blocks[i] \in Page
    BY DEF IInv, TypeOK
  <2>. QED
    BY <1>1, <2>1, <2>2
<1>4. ASSUME NEW id \in DOMAIN appends', appends'[id].copy # <<>>
      PROVE  Scrub(c, pool'.free)[appends'[id].copy[1].source] = c[appends'[id].copy[1].source]
  <2>. DEFINE d == appends'[id].copy
              l == [owner |-> <<"append", id>>, page |-> d[1].source]
  <2>1. d \in Seq([source : Page, destination : Page, valid : Nat])
    BY DEF IInv, TransactionOK
  <2>2. 1 \in 1 .. Len(d)
    <3>. HIDE DEF d
    <3>1. d # <<>>
      BY <1>4 DEF d
    <3>. QED
      BY <2>1, <3>1, EmptySeq
  <2>3. d[1] \in ToSet(d) /\ d[1] \in [source : Page, destination : Page, valid : Nat]
    <3>. HIDE DEF d
    <3>1. DOMAIN d = 1 .. Len(d)
      BY <2>1, LenProperties
    <3>2. d[1] \in ToSet(d)
      BY <2>2, <3>1, Zenon DEF ToSet
    <3>. QED
      BY <2>1, <2>2, <3>2, ElementOfSeq
  <2>4. l \in Leases'
    <3>1. l \in AppendLeases(id)'
      BY <2>3, Zenon DEF AppendLeases
    <3>2. l \in AllAppendLeases'
      BY <3>1, Zenon DEF AllAppendLeases
    <3>. QED
      BY <3>2, Zenon DEF Leases
  <2>5. l.page \in Page /\ l.page = d[1].source
    <3>. HIDE DEF d
    <3>. QED
      BY <2>3
  <2>. HIDE DEF l
  <2>. QED
    BY <1>1, <2>4, <2>5
<1>. QED
  BY <1>2, <1>3, <1>4

\* A page with one reference has one holder.
LEMMA SoleHolder ==
  ASSUME IInv, NEW l \in Leases, l.page \in Page, pool.refs[l.page] = 1
  PROVE  \A m \in Leases : m.page = l.page => m = l
<1>1. IsFiniteSet(On(l.page, Leases)) /\ Cardinality(On(l.page, Leases)) = 1
  BY DEF IInv, RefsCountLeases, Counts, FiniteLeases
<1>2. PICK x : On(l.page, Leases) = {x}
  BY <1>1, FS_Singleton
<1>. QED
  BY <1>2 DEF On

\* Every entry of a block table is a lease.
LEMMA TableLease ==
  ASSUME NEW id \in DOMAIN sequences, NEW i \in 1 .. Len(sequences[id].blocks)
  PROVE  [owner |-> <<"sequence", id, i>>, page |-> sequences[id].blocks[i]] \in Leases
<1>. DEFINE l == [owner |-> <<"sequence", id, i>>, page |-> sequences[id].blocks[i]]
<1>1. l \in SequenceLeases(id, sequences[id].blocks)
  BY DEF SequenceLeases
<1>. HIDE DEF l
<1>2. l \in AllSequenceLeases(DOMAIN sequences)
  BY <1>1, Zenon DEF AllSequenceLeases
<1>3. l \in Leases
  BY <1>2, Zenon DEF Leases
<1>. QED
  BY <1>3 DEF l

\* A page an open append writes to is in no other place: not in the index, not in
\* another table, not twice in its own, and not the tail it copies from.
LEMMA PrivatePage ==
  ASSUME IInv, AppendPrivate, NEW id \in DOMAIN appends,
         NEW i \in PagesFor(Used(id) + 1) .. Len(sequences[id].blocks)
  PROVE  LET blocks == sequences[id].blocks
         IN  /\ i \in 1 .. Len(blocks) /\ blocks[i] \in Page
             /\ \A h \in DOMAIN lease : lease[h] # blocks[i]
             /\ \A j \in DOMAIN sequences \ {id} : \A k \in 1 .. Len(sequences[j].blocks) :
                   sequences[j].blocks[k] # blocks[i]
             /\ \A k \in 1 .. Len(blocks) : blocks[k] = blocks[i] => k = i
             /\ appends[id].copy # <<>> => appends[id].copy[1].source # blocks[i]
<1>. DEFINE blocks == sequences[id].blocks
            l == [owner |-> <<"sequence", id, i>>, page |-> blocks[i]]
<1>1. id \in DOMAIN sequences /\ blocks \in Seq(Page) /\ Used(id) \in Nat
  BY OpenTransaction
<1>2. i \in 1 .. Len(blocks) /\ blocks[i] \in Page
  <2>1. Used(id) + 1 \in Nat /\ Used(id) + 1 > 0
    BY <1>1
  <2>2. PagesFor(Used(id) + 1) \in Nat /\ PagesFor(Used(id) + 1) > 0
    BY <2>1, PagesForType
  <2>3. i \in 1 .. Len(blocks)
    BY <1>1, <2>2
  <2>. QED
    BY <1>1, <2>3
<1>3. l \in Leases
  BY <1>1, <1>2, TableLease
<1>4. pool.refs[blocks[i]] = 1
  BY DEF AppendPrivate
<1>5. \A m \in Leases : m.page = blocks[i] => m.owner = <<"sequence", id, i>>
  <2>1. l.page = blocks[i] /\ l.owner = <<"sequence", id, i>>
    OBVIOUS
  <2>. HIDE DEF l, blocks
  <2>2. l.page \in Page /\ pool.refs[l.page] = 1
    BY <1>2, <1>4, <2>1
  <2>3. \A m \in Leases : m.page = l.page => m = l
    BY <1>3, <2>2, SoleHolder, Zenon
  <2>. QED
    BY <2>1, <2>3
<1>6. ASSUME NEW h \in DOMAIN lease PROVE lease[h] # blocks[i]
  <2>. DEFINE m == [owner |-> <<"cache", h>>, page |-> lease[h]]
  <2>1. m \in Leases
    BY DEF Leases, CacheLeases
  <2>2. m.owner # <<"sequence", id, i>> /\ m.page = lease[h]
    BY OwnersApart
  <2>. HIDE DEF m
  <2>. QED
    BY <1>5, <2>1, <2>2
<1>7. ASSUME NEW j \in DOMAIN sequences, NEW k \in 1 .. Len(sequences[j].blocks),
             j # id \/ k # i
      PROVE  sequences[j].blocks[k] # blocks[i]
  <2>. DEFINE m == [owner |-> <<"sequence", j, k>>, page |-> sequences[j].blocks[k]]
  <2>1. m \in Leases
    BY TableLease
  <2>2. m.owner # <<"sequence", id, i>> /\ m.page = sequences[j].blocks[k]
    BY <1>7
  <2>. HIDE DEF m
  <2>. QED
    BY <1>5, <2>1, <2>2
<1>8. ASSUME appends[id].copy # <<>> PROVE appends[id].copy[1].source # blocks[i]
  <2>. DEFINE m == [owner |-> <<"append", id>>, page |-> appends[id].copy[1].source]
  <2>1. m \in AllAppendLeases
    <3>1. m \in AppendLeases(id)
      BY <1>8, AppendLeasesOf
    <3>. QED
      BY <3>1, Zenon DEF AllAppendLeases
  <2>2. m \in Leases
    BY <2>1 DEF Leases
  <2>3. m.owner # <<"sequence", id, i>> /\ m.page = appends[id].copy[1].source
    BY OwnersApart
  <2>. HIDE DEF m
  <2>. QED
    BY <1>5, <2>2, <2>3
<1>. HIDE DEF blocks
<1>9. \A k \in 1 .. Len(blocks) : blocks[k] = blocks[i] => k = i
  BY <1>1, <1>7 DEF blocks
<1>. QED
  BY <1>2, <1>6, <1>7, <1>8, <1>9 DEF blocks

\* Changing private pages disturbs nobody, if the transaction's own history survives.
LEMMA ChangedPrivately ==
  ASSUME HInv, NEW id \in DOMAIN appends, NEW c,
         \A p \in Page :
            (\A i \in PagesFor(Used(id) + 1) .. Len(sequences[id].blocks) :
                p # sequences[id].blocks[i])
               => c[p] = payload[p],
         Reads(c, OriginalBlocks(id), sequences[id].tokens)
  PROVE  /\ \A h \in DOMAIN lease : Files(c, lease[h], h)
         /\ \A j \in DOMAIN sequences : Reads(c, CommittedTable(j), sequences[j].tokens)
<1>1. /\ IInv /\ AppendPrivate /\ IndexTrue /\ TablesTrue
      /\ DOMAIN appends = {id} /\ id \in DOMAIN sequences
  BY OpenTransaction DEF HInv
<1>2. ASSUME NEW h \in DOMAIN lease PROVE Files(c, lease[h], h)
  <2>1. lease[h] \in Page
    BY <1>1 DEF IInv, TypeOK, Leased
  <2>2. c[lease[h]] = payload[lease[h]]
    BY <1>1, <2>1, PrivatePage
  <2>. QED
    BY <1>1, <2>2 DEF IndexTrue, Files
<1>3. ASSUME NEW j \in DOMAIN sequences
      PROVE  Reads(c, CommittedTable(j), sequences[j].tokens)
  <2>1. CASE j = id
    BY <1>1, <2>1 DEF CommittedTable
  <2>2. CASE j # id
    <3>1. CommittedTable(j) = sequences[j].blocks
      BY <1>1, <2>2 DEF CommittedTable
    <3>2. ASSUME NEW k \in 1 .. Len(sequences[j].blocks)
          PROVE  c[sequences[j].blocks[k]] = payload[sequences[j].blocks[k]]
      <4>1. sequences[j].blocks[k] \in Page
        BY <1>1 DEF IInv, TypeOK
      <4>2. \A i \in PagesFor(Used(id) + 1) .. Len(sequences[id].blocks) :
               sequences[j].blocks[k] # sequences[id].blocks[i]
        BY <1>1, <2>2, PrivatePage
      <4>. QED
        BY <4>1, <4>2
    <3>3. sequences[j].tokens \in History
      BY <1>1 DEF IInv, TypeOK
    <3>4. Reads(payload, sequences[j].blocks, sequences[j].tokens)
      BY <1>1, <3>1 DEF TablesTrue
    <3>5. Reads(c, sequences[j].blocks, sequences[j].tokens)
      BY <3>2, <3>3, <3>4, ReadsKept
    <3>. QED
      BY <3>1, <3>5
  <2>. QED
    BY <2>1, <2>2
<1>. QED
  BY <1>2, <1>3

\* What keeps its content keeps its history.
LEMMA FilesKept ==
  ASSUME NEW c, NEW d, NEW p, NEW h, Files(c, p, h), d[p] = c[p]
  PROVE  Files(d, p, h)
BY DEF Files

------------------------------------------------------------------------------
\* Steps

\* When no append is open, the invariant is about the index and the tables alone, and
\* scrubbing the free pages leaves it intact.
LEMMA ClosedHistory ==
  ASSUME IInv', DOMAIN appends' = {}, NEW c, payload' = c \/ payload' = Scrub(c, pool'.free),
         \A h \in DOMAIN lease' : Files(c, lease'[h], h),
         \A id \in DOMAIN sequences' :
            /\ Len(sequences'[id].tokens) <= Context
            /\ Reads(c, sequences'[id].blocks, sequences'[id].tokens)
  PROVE  HInv'
<1>1. ASSUME NEW h \in DOMAIN lease' PROVE Files(payload', lease'[h], h)
  <2>1. payload'[lease'[h]] = c[lease'[h]]
    BY HeldPagesKeep
  <2>. QED
    BY <2>1, FilesKept
<1>2. ASSUME NEW id \in DOMAIN sequences'
      PROVE  Reads(payload', sequences'[id].blocks, sequences'[id].tokens)
  <2>1. sequences'[id].tokens \in History
    BY DEF IInv, TypeOK
  <2>2. \A i \in 1 .. Len(sequences'[id].blocks) :
           payload'[sequences'[id].blocks[i]] = c[sequences'[id].blocks[i]]
    BY HeldPagesKeep
  <2>. QED
    BY <2>1, <2>2, ReadsKept
<1>3. IndexTrue'
  BY <1>1 DEF IndexTrue, Files
<1>4. TablesTrue'
  <2>1. \A id \in DOMAIN sequences' :
           CommittedTable(id)' = sequences'[id].blocks /\ Used(id)' = Len(sequences'[id].tokens)
    BY DEF CommittedTable, Used
  <2>. QED
    BY <1>2, <2>1 DEF TablesTrue, Reads, KVAt
<1>5. AppendShape' /\ AppendTrue' /\ AppendPrivate'
  BY DEF AppendShape, AppendTrue, AppendPrivate
<1>. QED
  BY <1>3, <1>4, <1>5 DEF HInv

\* A step that touches no page and no table.
LEMMA SameHistory ==
  ASSUME HInv, IInv', UNCHANGED <<pool, sequences, lease, appends, payload>>
  PROVE  HInv'
<1>1. IndexTrue'
  BY DEF HInv, IndexTrue, Files
<1>2. TablesTrue'
  BY DEF HInv, TablesTrue, Reads, KVAt, CommittedTable, OriginalBlocks, Used
<1>3. AppendShape' /\ AppendTrue' /\ AppendPrivate'
  BY DEF HInv, AppendShape, AppendTrue, AppendPrivate, KVAt, Used
<1>. QED
  BY <1>1, <1>2, <1>3 DEF HInv

\* An empty table reads the empty history.
LEMMA EmptyReads ==
  ASSUME NEW c
  PROVE  Reads(c, <<>>, <<>>)
<1>1. PagesFor(0) = 0
  BY PagesForType
<1>. QED
  BY <1>1 DEF Reads

\* What the invariant says when no append is open.
LEMMA IdleTables ==
  ASSUME HInv, DOMAIN appends = {}, NEW id \in DOMAIN sequences
  PROVE  /\ Len(sequences[id].tokens) <= Context
         /\ Reads(payload, sequences[id].blocks, sequences[id].tokens)
BY DEF HInv, TablesTrue, CommittedTable, Used

\* A step between transactions that drops leases, drops sequences or empties them.
LEMMA LostHistory ==
  ASSUME HInv, IInv', DOMAIN appends = {}, DOMAIN appends' = {},
         payload' = payload \/ payload' = Scrub(payload, pool'.free),
         \A h \in DOMAIN lease' : h \in DOMAIN lease /\ lease'[h] = lease[h],
         \A id \in DOMAIN sequences' :
            \/ sequences'[id] = EmptySequence
            \/ id \in DOMAIN sequences /\ sequences'[id] = sequences[id]
  PROVE  HInv'
<1>1. \A h \in DOMAIN lease' : Files(payload, lease'[h], h)
  BY DEF HInv, IndexTrue
<1>2. ASSUME NEW id \in DOMAIN sequences'
      PROVE  /\ Len(sequences'[id].tokens) <= Context
             /\ Reads(payload, sequences'[id].blocks, sequences'[id].tokens)
  <2>1. CASE sequences'[id] = EmptySequence
    <3>1. sequences'[id].blocks = <<>> /\ sequences'[id].tokens = <<>>
      BY <2>1 DEF EmptySequence
    <3>. QED
      BY <3>1, EmptyReads, ManagerAssumption
  <2>2. CASE id \in DOMAIN sequences /\ sequences'[id] = sequences[id]
    BY <2>2, IdleTables
  <2>. QED
    BY <2>1, <2>2
<1>. QED
  BY <1>1, <1>2, ClosedHistory

\* Reservations, and rounds of a publication that lease nothing, move no KV.
LEMMA QuietSteps ==
  ASSUME HInv, IInv',
         \/ UNCHANGED vars
         \/ \E id \in Id, n \in ReserveTokens : ReserveRequest(id, n)
         \/ \E id \in Id : ReleaseReservation(id)
         \/ \E id \in DOMAIN sequences : CachePrefix(id)
         \/ \E id \in DOMAIN publishing : PublishKnown(id) \/ PublishFails(id)
  PROVE  HInv'
<1>1. UNCHANGED <<pool, sequences, lease, appends, payload>>
  BY DEF vars, ReserveRequest, ReleaseReservation, CachePrefix, PublishKnown, PublishFails
<1>. QED
  BY <1>1, SameHistory

\* create starts with nothing.
LEMMA CreateHistory ==
  ASSUME HInv, IInv', NEW id \in Id, Create(id)
  PROVE  HInv'
<1>1. /\ DOMAIN appends = {} /\ appends' = appends /\ payload' = payload /\ lease' = lease
      /\ sequences' = With(sequences, id, EmptySequence)
  BY DEF Create, Idle
<1>2. \A j \in DOMAIN sequences' : \/ sequences'[j] = EmptySequence
                                   \/ j \in DOMAIN sequences /\ sequences'[j] = sequences[j]
  BY <1>1 DEF With
<1>. QED
  BY <1>1, <1>2, LostHistory

\* reset_sequence, release and clear give pages back and disturb no other sequence.
LEMMA ReleaseHistory ==
  ASSUME HInv, IInv',
         \/ \E id \in DOMAIN sequences : ResetSequence(id) \/ Release(id)
         \/ ClearPrefixCache \/ Clear
  PROVE  HInv'
<1>1. DOMAIN appends = {} /\ appends' = appends /\ payload' = Scrub(payload, pool'.free)
  BY DEF ResetSequence, Release, ClearPrefixCache, Clear, Idle
<1>2. lease' = lease \/ lease' = <<>>
  BY DEF ResetSequence, Release, ClearPrefixCache, Clear
<1>3. \A h \in DOMAIN lease' : h \in DOMAIN lease /\ lease'[h] = lease[h]
  BY <1>2
<1>4. ASSUME NEW j \in DOMAIN sequences'
      PROVE  \/ sequences'[j] = EmptySequence
             \/ j \in DOMAIN sequences /\ sequences'[j] = sequences[j]
  <2>1. CASE \E id \in DOMAIN sequences : ResetSequence(id)
    BY <2>1 DEF ResetSequence
  <2>2. CASE \E id \in DOMAIN sequences : Release(id)
    BY <2>2 DEF Release, Without
  <2>3. CASE ClearPrefixCache \/ Clear
    BY <2>3 DEF ClearPrefixCache, Clear
  <2>. QED
    BY <2>1, <2>2, <2>3
<1>. QED
  BY <1>1, <1>3, <1>4, LostHistory

\* An append that runs out of pages has emptied the index and nothing else.
LEMMA ExhaustedHistory ==
  ASSUME HInv, IInv', NEW id \in DOMAIN sequences, NEW n, PrepareExhausted(id, n)
  PROVE  HInv'
<1>1. /\ DOMAIN appends = {} /\ appends' = appends /\ sequences' = sequences
      /\ payload' = Scrub(payload, pool'.free) /\ lease' = Without(lease, Victims(Len(lru)))
  BY DEF PrepareExhausted, Idle
<1>2. \A h \in DOMAIN lease' : h \in DOMAIN lease /\ lease'[h] = lease[h]
  BY <1>1 DEF Without
<1>. QED
  BY <1>1, <1>2, LostHistory

\* fork_sequence: the target reads what the source reads.
LEMMA ForkHistory ==
  ASSUME HInv, IInv', NEW source \in DOMAIN sequences, NEW target \in DOMAIN sequences,
         ForkSequence(source, target)
  PROVE  HInv'
<1>1. /\ DOMAIN appends = {} /\ appends' = appends /\ payload' = payload /\ lease' = lease
      /\ sequences' = [sequences EXCEPT ![target] = sequences[source]]
  BY DEF ForkSequence, Idle
<1>2. \A h \in DOMAIN lease' : Files(payload, lease'[h], h)
  BY <1>1 DEF HInv, IndexTrue
<1>3. ASSUME NEW j \in DOMAIN sequences'
      PROVE  /\ Len(sequences'[j].tokens) <= Context
             /\ Reads(payload, sequences'[j].blocks, sequences'[j].tokens)
  <2>1. PICK k \in DOMAIN sequences : sequences'[j] = sequences[k]
    BY <1>1
  <2>. QED
    BY <1>1, <2>1, IdleTables
<1>. QED
  BY <1>1, <1>2, <1>3, ClosedHistory

\* A round of publish files a page of the sequence under the history it holds.
LEMMA PublishNewHistory ==
  ASSUME HInv, IInv', NEW id \in DOMAIN publishing, PublishNew(id)
  PROVE  HInv'
<1>. DEFINE i       == publishing[id]
            h       == PublishKey(id, i)
            tokens  == sequences[id].tokens
            page    == sequences[id].blocks[i]
            victims == IF IndexFull THEN Victims(1) ELSE {}
            m       == Min({i * BlockTokens, Used(id)})
<1>0. IInv
  BY DEF HInv
<1>1. /\ lease' = With(Without(lease, victims), h, page) /\ payload' = Scrub(payload, pool'.free)
      /\ UNCHANGED <<sequences, appends>>
  BY DEF PublishNew
<1>2. DOMAIN appends = {} /\ id \in DOMAIN sequences
  BY <1>0 DEF IInv, TypeOK
<1>3. /\ i \in 1 .. Len(sequences[id].blocks) /\ tokens \in History /\ Used(id) = Len(tokens)
      /\ Reads(payload, sequences[id].blocks, tokens)
  BY <1>0, <1>2, PublishKeyType, IdleTables DEF IInv, TypeOK, Used
<1>4. /\ i \in Nat \ {0} /\ Used(id) \in Nat /\ BlockTokens \in Nat \ {0}
      /\ Len(sequences[id].blocks) \in Nat /\ i <= PagesFor(Used(id))
  <2>1. Len(sequences[id].blocks) = PagesFor(Used(id)) /\ Used(id) \in Nat
    BY <1>3 DEF Reads, History
  <2>2. PagesFor(Used(id)) \in Nat
    BY <2>1, PagesForType
  <2>. QED
    BY <1>3, <2>1, <2>2, ManagerAssumption
<1>. HIDE DEF i
<1>5. /\ m \in 1 .. Len(tokens) /\ PagesFor(m) = i /\ h = Prefix(tokens, m)
  <2>. DEFINE x == i * BlockTokens
              u == Used(id)
              v == i - 1
              y == BlockTokens * v
  <2>1. /\ x \in Nat /\ u \in Nat /\ v \in Nat /\ y \in Nat /\ x = y + BlockTokens
    BY <1>4
  <2>2. y < u
    <3>1. u <= y => PagesFor(u) <= v
      <4>1. PagesFor(BlockTokens * v) = v /\ BlockTokens * v \in Nat
        BY <2>1, WholePageCount, Zenon
      <4>2. u <= y => PagesFor(u) <= PagesFor(y)
        BY <2>1, PagesMonotone
      <4>. QED
        BY <4>1, <4>2
    <3>2. PagesFor(u) \in Nat /\ i \in Nat /\ v = i - 1 /\ i <= PagesFor(u)
      BY <1>4, <2>1, PagesForType
    <3>. HIDE DEF u, v, y
    <3>. QED
      BY <2>1, <3>1, <3>2
  <2>3. m \in {x, u} /\ m <= x /\ m <= u
    <3>. HIDE DEF x, u
    <3>1. \E a \in {x, u} : \A b \in {x, u} : a <= b
      BY <2>1
    <3>2. Min({x, u}) \in {x, u} /\ \A b \in {x, u} : Min({x, u}) <= b
      BY <3>1, Zenon DEF Min
    <3>. QED
      BY <3>2 DEF x, u
  <2>. HIDE DEF m, x
  <2>4. m \in Nat /\ y < m /\ m <= y + BlockTokens
    <3>. HIDE DEF u, v, y
    <3>. QED
      BY <1>4, <2>1, <2>2, <2>3
  <2>5. PagesFor(m) = v + 1
    <3>. HIDE DEF v
    <3>. QED
      BY <2>1, <2>4, PagesBetween
  <2>6. v + 1 = i /\ m \in 1 .. Len(tokens)
    <3>. HIDE DEF y
    <3>. QED
      BY <1>3, <1>4, <2>1, <2>3, <2>4
  <2>7. h = Prefix(tokens, m)
    BY DEF PublishKey, m
  <2>. QED
    BY <2>5, <2>6, <2>7
<1>. HIDE DEF m, h, tokens, page, victims
<1>6. Files(payload, page, h)
  <2>1. tokens \in Seq(Token) /\ Len(h) = m /\ m # 0 /\ h # <<>>
    <3>1. Len(h) = m /\ m # 0
      BY <1>3, <1>5, PrefixType DEF History
    <3>. QED
      BY <1>3, <3>1 DEF History
  <2>2. ASSUME NEW n \in 1 .. m, PagesFor(n) = PagesFor(m)
        PROVE  payload[page][SlotOf(n)] = Prefix(h, n)
    <3>1. n \in 1 .. Len(tokens) /\ n \in 0 .. m /\ m \in 0 .. Len(tokens)
      BY <1>3, <1>5 DEF History
    <3>2. KVAt(payload, sequences[id].blocks, n) = Prefix(tokens, n)
      BY <1>3, <3>1 DEF Reads
    <3>3. Prefix(h, n) = Prefix(tokens, n)
      BY <1>3, <1>5, <3>1, PrefixOfPrefix
    <3>. QED
      BY <1>5, <2>2, <3>2, <3>3 DEF KVAt, page
  <2>. QED
    BY <2>1, <2>2 DEF Files
<1>7. \A g \in DOMAIN lease' : Files(payload, lease'[g], g)
  BY <1>1, <1>6 DEF HInv, IndexTrue, With, Without
<1>8. \A j \in DOMAIN sequences' :
         /\ Len(sequences'[j].tokens) <= Context
         /\ Reads(payload, sequences'[j].blocks, sequences'[j].tokens)
  BY <1>1, <1>2, IdleTables
<1>. QED
  BY <1>1, <1>2, <1>7, <1>8, ClosedHistory

\* The items of a subsequence.
LEMMA PartItems ==
  ASSUME NEW h \in History, NEW a \in Nat, NEW b \in Nat, a <= b, b <= Len(h)
  PROVE  /\ SubSeq(h, a + 1, b) \in History /\ Len(SubSeq(h, a + 1, b)) = b - a
         /\ \A k \in 1 .. b - a : SubSeq(h, a + 1, b)[k] = h[a + k]
<1>1. h \in Seq(Token) /\ Len(h) \in Nat /\ a + 1 \in Int /\ b \in Int
  BY DEF History
<1>2. \A i \in a + 1 .. b : h[i] \in Token
  BY <1>1
<1>3. /\ SubSeq(h, a + 1, b) \in Seq(Token)
      /\ Len(SubSeq(h, a + 1, b)) = IF a + 1 <= b THEN b - (a + 1) + 1 ELSE 0
      /\ \A k \in 1 .. b - (a + 1) + 1 : SubSeq(h, a + 1, b)[k] = h[a + 1 + k - 1]
  BY <1>1, <1>2, SubSeqProperties
<1>. QED
  BY <1>1, <1>3 DEF History

\* Histories whose items agree up to n have the same prefix of n.
LEMMA SamePrefix ==
  ASSUME NEW g \in History, NEW h \in History, NEW n \in Nat, n <= Len(g), n <= Len(h),
         \A i \in 1 .. n : g[i] = h[i]
  PROVE  Prefix(g, n) = Prefix(h, n)
<1>1. n \in 0 .. Len(g) /\ n \in 0 .. Len(h) /\ 0 \in Nat /\ 0 <= n /\ 0 + 1 = 1 /\ n - 0 = n
  BY DEF History
<1>2. /\ Prefix(g, n) \in Seq(Token) /\ Len(Prefix(g, n)) = n
      /\ Prefix(h, n) \in Seq(Token) /\ Len(Prefix(h, n)) = n
  BY <1>1, PrefixType DEF History
<1>3. \A i \in 1 .. n : Prefix(g, n)[i] = g[i] /\ Prefix(h, n)[i] = h[i]
  <2>1. /\ \A k \in 1 .. n - 0 : SubSeq(g, 0 + 1, n)[k] = g[0 + k]
        /\ \A k \in 1 .. n - 0 : SubSeq(h, 0 + 1, n)[k] = h[0 + k]
    BY <1>1, PartItems
  <2>. QED
    BY <1>1, <2>1 DEF Prefix
<1>. QED
  BY <1>2, <1>3, SeqEqual

\* The same prefix of n has the same items.
LEMMA PrefixItems ==
  ASSUME NEW g \in History, NEW h \in History, NEW n \in Nat, n <= Len(g), n <= Len(h),
         Prefix(g, n) = Prefix(h, n)
  PROVE  \A i \in 1 .. n : g[i] = h[i]
<1>1. 0 \in Nat /\ 0 <= n /\ 0 + 1 = 1 /\ n - 0 = n
  OBVIOUS
<1>2. /\ \A k \in 1 .. n - 0 : SubSeq(g, 0 + 1, n)[k] = g[0 + k]
      /\ \A k \in 1 .. n - 0 : SubSeq(h, 0 + 1, n)[k] = h[0 + k]
  BY <1>1, PartItems
<1>. QED
  BY <1>1, <1>2 DEF Prefix

\* The partial match that ends a walk: what its edge shares with the prompt, the whole
\* history of the entry shares with it.
LEMMA TailMatch ==
  ASSUME NEW p \in History, NEW w \in Nat, NEW s \in Nat, s = BlockTokens * w,
         NEW e \in Nat, s <= e, e <= Len(p), e <= s + BlockTokens,
         NEW c \in History, c # <<>>, c \in Children(Prefix(p, s)),
         NEW m, m = Matched(Edge(c), SubSeq(p, s + 1, e)), m > 0
  PROVE  /\ m \in 1 .. BlockTokens /\ s + m <= Len(p) /\ s + m <= Len(c)
         /\ PagesFor(Len(c)) = w + 1
         /\ Prefix(c, s + m) = Prefix(p, s + m)
<1>. DEFINE query == SubSeq(p, s + 1, e)
            h     == Prefix(p, s)
<1>1. /\ Len(p) \in Nat /\ BlockTokens \in Nat \ {0} /\ Len(c) \in Nat
  BY ManagerAssumption DEF History
<1>2. query \in History /\ Len(query) = e - s /\ \A k \in 1 .. e - s : query[k] = p[s + k]
  BY <1>1, PartItems
<1>3. h \in History /\ Len(h) = s
  <2>1. s \in 0 .. Len(p)
    BY <1>1
  <2>. QED
    BY <2>1, PrefixType
<1>4. PagesFor(s) = w
  BY WholePageCount
<1>. HIDE DEF query, h
<1>5. PagesFor(Len(c)) = w + 1 /\ IsPrefix(h, c)
  BY <1>3, <1>4 DEF Children, h
<1>6. s < Len(c) /\ Edge(c) = SubSeq(c, s + 1, Len(c))
  <2>1. BlockTokens * (PagesFor(Len(c)) - 1) = s
    <3>1. PagesFor(Len(c)) - 1 = w
      BY <1>5
    <3>. QED
      BY <3>1
  <2>2. Len(c) \in Nat \ {0}
    BY <1>1 DEF History
  <2>3. /\ SlotOf(Len(c)) \in Nat
        /\ Len(c) = BlockTokens * (PagesFor(Len(c)) - 1) + SlotOf(Len(c)) + 1
    BY <2>2, Position, Zenon
  <2>4. Len(c) = s + SlotOf(Len(c)) + 1
    BY <2>1, <2>3
  <2>5. s < Len(c)
    BY <2>3, <2>4
  <2>6. Edge(c) = SubSeq(c, BlockTokens * (PagesFor(Len(c)) - 1) + 1, Len(c))
    BY Zenon DEF Edge
  <2>7. Edge(c) = SubSeq(c, s + 1, Len(c))
    BY <2>1, <2>6, Zenon
  <2>. QED
    BY <2>5, <2>7
<1>7. /\ Edge(c) \in History /\ Len(Edge(c)) = Len(c) - s
      /\ \A k \in 1 .. Len(c) - s : Edge(c)[k] = c[s + k]
  <2>. DEFINE z == Len(c)
  <2>1. z \in Nat /\ s <= z /\ z <= Len(c)
    BY <1>1, <1>6
  <2>. HIDE DEF z
  <2>2. /\ SubSeq(c, s + 1, z) \in History /\ Len(SubSeq(c, s + 1, z)) = z - s
        /\ \A k \in 1 .. z - s : SubSeq(c, s + 1, z)[k] = c[s + k]
    BY <2>1, PartItems
  <2>. QED
    BY <1>6, <2>2, Zenon DEF z
<1>8. /\ m \in 0 .. Len(query) /\ m <= Len(Edge(c)) /\ Prefix(Edge(c), m) = Prefix(query, m)
  BY <1>2, <1>7, MatchedBound DEF query
<1>9. /\ m \in 1 .. BlockTokens /\ s + m <= Len(p) /\ s + m <= Len(c)
  BY <1>1, <1>2, <1>7, <1>8
<1>10. \A k \in 1 .. m : Edge(c)[k] = query[k]
  <2>1. m \in Nat /\ m <= Len(Edge(c)) /\ m <= Len(query)
    BY <1>1, <1>2, <1>8, <1>9
  <2>. QED
    BY <1>2, <1>7, <1>8, <2>1, PrefixItems, ZenonT(30)
<1>11. \A i \in 1 .. s : c[i] = p[i]
  <2>1. s <= Len(c) /\ s <= Len(p) /\ s \in 0 .. s
    BY <1>1, <1>9
  <2>2. Prefix(h, s) = Prefix(c, s)
    BY <1>3, <1>5 DEF IsPrefix, Prefix
  <2>3. Prefix(h, s) = Prefix(p, s)
    <3>1. s \in 0 .. Len(p)
      BY <1>1, <2>1
    <3>2. Prefix(Prefix(p, s), s) = Prefix(p, s)
      BY <2>1, <3>1, PrefixOfPrefix
    <3>. QED
      BY <3>2 DEF h
  <2>. QED
    BY <2>1, <2>2, <2>3, PrefixItems
<1>12. ASSUME NEW i \in 1 .. s + m PROVE c[i] = p[i]
  <2>1. CASE i <= s
    BY <1>11, <2>1
  <2>2. CASE i > s
    <3>. DEFINE k == i - s
    <3>1. k \in 1 .. m /\ k \in 1 .. Len(c) - s /\ k \in 1 .. e - s /\ s + k = i
      BY <1>1, <1>2, <1>7, <1>8, <1>9, <2>2, SMTT(30)
    <3>. HIDE DEF k
    <3>2. Edge(c)[k] = c[s + k] /\ query[k] = p[s + k] /\ Edge(c)[k] = query[k]
      BY <1>2, <1>7, <1>10, <3>1
    <3>. QED
      BY <3>1, <3>2
  <2>. QED
    BY <1>9, <2>1, <2>2
<1>13. Prefix(c, s + m) = Prefix(p, s + m)
  <2>. DEFINE n == s + m
  <2>1. n \in Nat /\ n <= Len(c) /\ n <= Len(p)
    BY <1>9
  <2>2. \A i \in 1 .. n : c[i] = p[i]
    BY <1>12
  <2>. HIDE DEF n
  <2>3. Prefix(c, n) = Prefix(p, n)
    BY <2>1, <2>2, SamePrefix
  <2>. QED
    BY <2>3 DEF n
<1>. QED
  BY <1>5, <1>9, <1>13

\* Entry g stands for position n of history h: it is as long as that page, and agrees.
StandsFor(g, h, n) ==
    /\ g \in Leased
    /\ n \in 1 .. Len(g)
    /\ PagesFor(Len(g)) = PagesFor(n)
    /\ Prefix(g, n) = Prefix(h, n)

\* The whole pages of a walk.
LEMMA WholeNodes ==
  ASSUME NEW p \in History, NEW w \in Nat, BlockTokens * w <= Len(p),
         \A i \in 1 .. w : Prefix(p, i * BlockTokens) \in Leased,
         NEW n \in 1 .. BlockTokens * w
  PROVE  PagesFor(n) \in 1 .. w /\ StandsFor(Prefix(p, PagesFor(n) * BlockTokens), p, n)
<1>. DEFINE j == PagesFor(n)
            x == BlockTokens * j
            s == BlockTokens * w
<1>1. /\ n \in Nat \ {0} /\ s \in Nat /\ BlockTokens \in Nat \ {0} /\ n <= s
      /\ Len(p) \in Nat
  BY ManagerAssumption DEF History
<1>2. /\ j \in Nat \ {0} /\ SlotOf(n) \in Nat /\ SlotOf(n) < BlockTokens
      /\ n = BlockTokens * (j - 1) + SlotOf(n) + 1
  BY <1>1, Position, Zenon
<1>3. j <= w
  <2>1. PagesFor(n) <= PagesFor(s)
    <3>. HIDE DEF s
    <3>. QED
      BY <1>1, PagesMonotone
  <2>2. PagesFor(s) = w
    BY WholePageCount
  <2>. QED
    BY <2>1, <2>2
<1>4. j \in 1 .. w
  <2>. HIDE DEF j
  <2>. QED
    BY <1>2, <1>3
<1>. HIDE DEF j
<1>5. x \in Nat /\ PagesFor(x) = j /\ n <= x /\ x <= s /\ j * BlockTokens = x
  <2>1. PagesFor(BlockTokens * j) = j /\ BlockTokens * j \in Nat
    BY <1>2, WholePageCount
  <2>2. BlockTokens * j = BlockTokens * (j - 1) + BlockTokens
    BY <1>1, <1>2
  <2>3. x <= s
    BY <1>1, <1>2, <1>3
  <2>. DEFINE y == BlockTokens * (j - 1)
  <2>4. y \in Int /\ x = y + BlockTokens /\ n = y + SlotOf(n) + 1
    BY <1>1, <1>2, <2>2
  <2>5. n <= x
    <3>. HIDE DEF x, y
    <3>. QED
      BY <1>1, <1>2, <2>4
  <2>6. j * BlockTokens = x
    BY <1>1, <1>2
  <2>. QED
    BY <2>1, <2>3, <2>5, <2>6
<1>. HIDE DEF x, s
<1>6. x \in 0 .. Len(p) /\ n \in 0 .. x /\ n \in 1 .. x
  <2>1. s <= Len(p)
    BY DEF s
  <2>. QED
    BY <1>1, <1>5, <2>1
<1>7. Len(Prefix(p, x)) = x /\ Prefix(Prefix(p, x), n) = Prefix(p, n)
  BY <1>6, PrefixType, PrefixOfPrefix
<1>8. Prefix(p, x) \in Leased
  BY <1>4, <1>5
<1>9. StandsFor(Prefix(p, x), p, n)
  BY <1>5, <1>6, <1>7, <1>8 DEF StandsFor, j
<1>. QED
  BY <1>4, <1>5, <1>9 DEF j

\* The walk of reuse: one entry for each page of what it covers, and every position it
\* covers is one the entry of its page agrees on with the prompt.
LEMMA WalkFollows ==
  ASSUME IInv, NEW prompt \in History, prompt # <<>>
  PROVE  /\ Len(Walk(prompt).nodes) = PagesFor(Walk(prompt).count)
         /\ \A n \in 1 .. Walk(prompt).count :
               StandsFor(Walk(prompt).nodes[PagesFor(n)], prompt, n)
<1>. DEFINE whole == WholePages(prompt)
            start == whole * BlockTokens
            limit == ReuseLimit(prompt)
            end   == Min({start + BlockTokens, limit})
            nodes == [i \in 1 .. whole |-> Prefix(prompt, i * BlockTokens)]
            query == SubSeq(prompt, start + 1, end)
            best  == BestMatch(Children(Prefix(prompt, start)), query)
            c     == CHOOSE x \in best : TRUE
            m     == MatchedTail(Edge(c), query)
<1>1. /\ whole \in Nat /\ start \in Nat /\ limit \in Nat /\ start <= limit
      /\ Len(prompt) = limit + 1 /\ BlockTokens \in Nat \ {0} /\ start = BlockTokens * whole
      /\ \A i \in 1 .. whole : Prefix(prompt, i * BlockTokens) \in Leased
  <2>1. BlockTokens \in Nat \ {0} /\ Len(prompt) \in Nat \ {0} /\ limit = Len(prompt) - 1
    BY ManagerAssumption DEF History, ReuseLimit
  <2>. QED
    BY <2>1, WholePagesOK
<1>2. PagesFor(start) = whole
  BY <1>1, WholePageCount
<1>3. Len(nodes) = whole /\ nodes \in Seq(Leased)
  <2>1. nodes \in Seq(Leased)
    BY <1>1, WholePagesOK
  <2>2. Len(nodes) = whole
    BY <1>1
  <2>. QED
    BY <2>1, <2>2
<1>4. end \in Nat /\ start <= end /\ end <= Len(prompt) /\ end <= start + BlockTokens
  <2>1. \E x \in {start + BlockTokens, limit} : \A n \in {start + BlockTokens, limit} : x <= n
    BY <1>1
  <2>2. end \in {start + BlockTokens, limit} /\ \A n \in {start + BlockTokens, limit} : end <= n
    BY <2>1, Zenon DEF Min
  <2>. QED
    BY <1>1, <2>2
<1>5. ASSUME NEW n \in 1 .. start
      PROVE  PagesFor(n) \in 1 .. whole /\ StandsFor(nodes[PagesFor(n)], prompt, n)
  <2>1. BlockTokens * whole <= Len(prompt) /\ n \in 1 .. BlockTokens * whole
    BY <1>1
  <2>. HIDE DEF whole
  <2>2. PagesFor(n) \in 1 .. whole /\ StandsFor(Prefix(prompt, PagesFor(n) * BlockTokens), prompt, n)
    BY <1>1, <2>1, WholeNodes
  <2>. QED
    BY <2>2
<1>6. CASE best = {}
  <2>1. Walk(prompt) = [nodes |-> nodes, count |-> start]
    BY <1>6 DEF Walk
  <2>. HIDE DEF nodes, start
  <2>. QED
    BY <1>2, <1>3, <1>5, <2>1
<1>7. CASE best # {}
  <2>1. c \in best
    BY <1>7
  <2>2. c \in Children(Prefix(prompt, start)) /\ Matched(Edge(c), query) > 0
    BY <2>1 DEF BestMatch, Neighbours
  <2>3. c \in Leased /\ c \in History /\ c # <<>>
    <3>1. Prefix(prompt, start) \in History
      BY <1>1, PrefixType
    <3>2. c \in Leased /\ c # <<>>
      BY <2>1, <3>1, BestMatchLeased
    <3>. QED
      BY <3>2 DEF IInv, TypeOK
  <2>4. Walk(prompt) = [nodes |-> Append(nodes, c), count |-> start + m]
    BY <1>7 DEF Walk
  <2>5. m = Matched(Edge(c), query) /\ m > 0
    BY <2>2 DEF MatchedTail
  <2>. HIDE DEF nodes, start, whole, c, m, end, limit
  <2>6. /\ m \in 1 .. BlockTokens /\ start + m <= Len(prompt) /\ start + m <= Len(c)
        /\ PagesFor(Len(c)) = whole + 1
        /\ Prefix(c, start + m) = Prefix(prompt, start + m)
    BY <1>1, <1>4, <2>2, <2>3, <2>5, TailMatch
  <2>7. /\ Len(Append(nodes, c)) = whole + 1 /\ Append(nodes, c)[whole + 1] = c
        /\ \A i \in 1 .. whole : Append(nodes, c)[i] = nodes[i]
    BY <1>1, <1>3, <2>3, AppendProperties
  <2>8. \A k \in Nat : start < k /\ k <= start + m => PagesFor(k) = whole + 1
    <3>. SUFFICES ASSUME NEW k \in Nat, start < k, k <= start + m
                  PROVE  PagesFor(k) = whole + 1
      OBVIOUS
    <3>1. start < k /\ k <= start + BlockTokens
      BY <1>1, <2>6
    <3>2. BlockTokens * whole < k /\ k <= BlockTokens * whole + BlockTokens
      BY <1>1, <3>1, Zenon
    <3>. QED
      BY <1>1, <3>2, PagesBetween
  <2>9. PagesFor(start + m) = whole + 1
    BY <1>1, <2>6, <2>8
  <2>10. ASSUME NEW n \in 1 .. start + m
         PROVE  StandsFor(Append(nodes, c)[PagesFor(n)], prompt, n)
    <3>1. CASE n <= start
      <4>1. n \in 1 .. start
        BY <1>1, <2>6, <3>1
      <4>. QED
        BY <1>5, <2>7, <4>1
    <3>2. CASE n > start
      <4>1. n \in Nat /\ start < n /\ n <= start + m
        BY <1>1, <2>6, <3>2
      <4>2. PagesFor(n) = whole + 1
        BY <2>8, <4>1
      <4>. DEFINE z == start + m
      <4>3. z \in 0 .. Len(c) /\ z \in 0 .. Len(prompt) /\ n \in 0 .. z /\ n \in 1 .. Len(c)
        BY <1>1, <2>3, <2>6, <4>1 DEF History
      <4>4. Prefix(c, z) = Prefix(prompt, z)
        BY <2>6
      <4>. HIDE DEF z
      <4>5. Prefix(c, n) = Prefix(prompt, n)
        <5>1. Prefix(Prefix(c, z), n) = Prefix(c, n)
          BY <2>3, <4>3, PrefixOfPrefix
        <5>2. Prefix(Prefix(prompt, z), n) = Prefix(prompt, n)
          BY <4>3, PrefixOfPrefix
        <5>. QED
          BY <4>4, <5>1, <5>2
      <4>6. Append(nodes, c)[PagesFor(n)] = c
        BY <2>7, <4>2
      <4>7. StandsFor(c, prompt, n)
        BY <2>3, <2>6, <4>2, <4>3, <4>5, Zenon DEF StandsFor
      <4>. QED
        BY <4>6, <4>7, Zenon
    <3>3. n <= start \/ n > start
      BY <1>1, <2>6
    <3>. QED
      BY <3>1, <3>2, <3>3, Zenon
  <2>11. /\ Walk(prompt).nodes = Append(nodes, c) /\ Walk(prompt).count = start + m
    BY <2>4
  <2>. QED
    BY <2>7, <2>9, <2>10, <2>11
<1>. QED
  BY <1>6, <1>7

\* reuse_prefix: the pages of the walk hold the tokens it covers.
LEMMA ReuseHistory ==
  ASSUME HInv, IInv', NEW id \in DOMAIN sequences, NEW prompt \in Prompts,
         ReusePrefix(id, prompt)
  PROVE  HInv'
<1>. DEFINE nodes  == Walk(prompt).nodes
            count  == Walk(prompt).count
            blocks == [i \in 1 .. Len(nodes) |-> lease[nodes[i]]]
            tokens == Prefix(prompt, count)
<1>1. /\ DOMAIN appends = {} /\ appends' = appends /\ payload' = payload /\ lease' = lease
      /\ prompt # <<>>
      /\ \/ sequences' = sequences
         \/ sequences' = [sequences EXCEPT ![id] = [blocks |-> blocks, tokens |-> tokens]]
  BY DEF ReusePrefix, Idle
<1>2. \A h \in DOMAIN lease' : Files(payload, lease'[h], h)
  BY <1>1 DEF HInv, IndexTrue
<1>3. prompt \in History /\ Len(prompt) <= Context /\ Len(prompt) \in Nat
  BY PromptType DEF Prompts, History
<1>4. /\ count \in 0 .. Len(prompt) /\ Len(nodes) = PagesFor(count) /\ nodes \in Seq(Leased)
      /\ \A n \in 1 .. count : StandsFor(nodes[PagesFor(n)], prompt, n)
  BY <1>1, <1>3, WalkOK, WalkFollows DEF HInv
<1>5. tokens \in History /\ Len(tokens) = count
  BY <1>3, <1>4, PrefixType
<1>6. Len(blocks) = PagesFor(count)
      /\ \A i \in 1 .. PagesFor(count) : blocks[i] = lease[nodes[i]]
  <2>1. PagesFor(count) \in Nat
    BY <1>3, <1>4, PagesForType
  <2>. HIDE DEF nodes, count
  <2>. QED
    BY <1>4, <2>1
<1>. HIDE DEF nodes, count, blocks
<1>7. ASSUME NEW n \in 1 .. count
      PROVE  KVAt(payload, blocks, n) = Prefix(tokens, n)
  <2>. DEFINE j == PagesFor(n)
              g == nodes[j]
  <2>1. /\ n \in Nat \ {0} /\ n \in 0 .. count
    BY <1>3, <1>4
  <2>2. j \in 1 .. PagesFor(count)
    <3>1. PagesFor(n) \in Nat /\ PagesFor(n) > 0
      BY <2>1, PagesForType
    <3>2. PagesFor(n) <= PagesFor(count) /\ PagesFor(count) \in Nat
      BY <1>3, <1>4, <2>1, PagesMonotone, PagesForType
    <3>. QED
      BY <3>1, <3>2
  <2>3. g \in Leased /\ n \in 1 .. Len(g) /\ PagesFor(Len(g)) = PagesFor(n)
        /\ Prefix(g, n) = Prefix(prompt, n)
    BY <1>4 DEF StandsFor
  <2>4. blocks[j] = lease[g]
    BY <1>6, <2>2
  <2>. HIDE DEF g
  <2>5. Files(payload, lease[g], g)
    BY <2>3 DEF HInv, IndexTrue, Leased
  <2>6. payload[lease[g]][SlotOf(n)] = Prefix(g, n)
    BY <2>3, <2>5 DEF Files
  <2>7. Prefix(tokens, n) = Prefix(prompt, n)
    BY <1>3, <1>4, <2>1, PrefixOfPrefix
  <2>. QED
    BY <2>3, <2>4, <2>6, <2>7 DEF KVAt
<1>8. Reads(payload, blocks, tokens)
  BY <1>5, <1>6, <1>7 DEF Reads
<1>9. ASSUME NEW j \in DOMAIN sequences'
      PROVE  /\ Len(sequences'[j].tokens) <= Context
             /\ Reads(payload, sequences'[j].blocks, sequences'[j].tokens)
  <2>1. CASE sequences'[j] = [blocks |-> blocks, tokens |-> tokens]
    <3>1. sequences'[j].tokens = tokens /\ sequences'[j].blocks = blocks
      BY <2>1
    <3>2. Len(tokens) <= Context
      BY <1>3, <1>4, <1>5, ManagerAssumption
    <3>. QED
      BY <1>8, <3>1, <3>2
  <2>2. CASE j \in DOMAIN sequences /\ sequences'[j] = sequences[j]
    BY <1>1, <2>2, IdleTables
  <2>. HIDE DEF tokens
  <2>. QED
    BY <1>1, <2>1, <2>2
<1>. QED
  BY <1>1, <1>2, <1>9, ClosedHistory

------------------------------------------------------------------------------
\* Steps of an append

\* Where an append writes is a private page, and no position of the committed history.
LEMMA PrivateSlot ==
  ASSUME HInv, NEW id \in DOMAIN appends,
         NEW i \in Used(id) + 1 .. Used(id) + Len(appends[id].input)
  PROVE  /\ i \in Nat \ {0}
         /\ PagesFor(i) \in PagesFor(Used(id) + 1) .. Len(sequences[id].blocks)
         /\ \A n \in 1 .. Used(id) :
               \/ sequences[id].blocks[PagesFor(i)] # OriginalBlocks(id)[PagesFor(n)]
               \/ SlotOf(i) # SlotOf(n)
<1>. DEFINE t      == appends[id]
            u      == Used(id)
            blocks == sequences[id].blocks
            orig   == OriginalBlocks(id)
<1>1. /\ IInv /\ AppendPrivate /\ u \in Nat /\ t.input \in History /\ Len(t.input) \in Nat
      /\ t.original = PagesFor(u) /\ Len(blocks) = PagesFor(u + Len(t.input))
  <2>1. IInv /\ AppendPrivate /\ t.original = PagesFor(u)
        /\ Len(blocks) = PagesFor(u + Len(t.input))
    BY DEF HInv, AppendShape
  <2>2. u \in Nat /\ t.input \in History
    BY <2>1, OpenTransaction
  <2>. HIDE DEF t
  <2>. QED
    BY <2>1, <2>2 DEF History
<1>2. i \in u + 1 .. u + Len(t.input)
  OBVIOUS
<1>. HIDE DEF u, t
<1>3. i \in Nat \ {0} /\ u + 1 \in Nat /\ u + 1 <= i /\ i <= u + Len(t.input)
      /\ u + Len(t.input) \in Nat
  BY <1>2, <1>1
<1>4. PagesFor(i) \in PagesFor(u + 1) .. Len(blocks)
  <2>1. /\ PagesFor(u + 1) <= PagesFor(i)
        /\ PagesFor(i) <= PagesFor(u + Len(t.input))
    BY <1>3, PagesMonotone
  <2>2. PagesFor(u + 1) \in Nat /\ PagesFor(i) \in Nat /\ PagesFor(u + Len(t.input)) \in Nat
    BY <1>3, PagesForType
  <2>. QED
    BY <1>1, <2>1, <2>2
<1>5. ASSUME NEW n \in 1 .. u, blocks[PagesFor(i)] = orig[PagesFor(n)], SlotOf(i) = SlotOf(n)
      PROVE  FALSE
  <2>. DEFINE j == PagesFor(n)
  <2>1. n \in Nat \ {0} /\ n <= u
    BY <1>1
  <2>2. j \in 1 .. t.original
    <3>1. u \in Nat /\ n \in Nat /\ n > 0 /\ t.original = PagesFor(u)
      BY <1>1, <2>1
    <3>2. PagesFor(n) \in Nat /\ PagesFor(n) > 0 /\ PagesFor(u) \in Nat
      BY <3>1, PagesForType
    <3>3. PagesFor(n) <= PagesFor(u)
      BY <2>1, <3>1, PagesMonotone
    <3>. QED
      BY <3>1, <3>2, <3>3
  <2>3. /\ orig[j] = IF t.copy # <<>> /\ j = t.original THEN t.copy[1].source ELSE blocks[j]
        /\ j \in 1 .. Len(blocks)
    <3>1. /\ t.original \in 0 .. Len(blocks) /\ blocks \in Seq(Page)
          /\ \A k \in 1 .. t.original :
                orig[k] = IF t.copy # <<>> /\ k = t.original THEN t.copy[1].source ELSE blocks[k]
      BY <1>1, OriginalTable DEF t
    <3>. HIDE DEF j, orig, blocks
    <3>. QED
      BY <2>2, <3>1
  <2>4. /\ \A k \in 1 .. Len(blocks) : blocks[k] = blocks[PagesFor(i)] => k = PagesFor(i)
        /\ t.copy # <<>> => t.copy[1].source # blocks[PagesFor(i)]
    BY <1>1, <1>4, PrivatePage DEF u, t
  <2>5. j = PagesFor(i)
    <3>. HIDE DEF j, orig, blocks
    <3>1. blocks[PagesFor(i)] = orig[j]
      BY <1>5 DEF j
    <3>. QED
      BY <2>3, <2>4, <3>1
  <2>6. i = n
    BY <1>3, <1>5, <2>1, <2>5, OneSlotEach
  <2>. QED
    BY <1>1, <1>3, <2>1, <2>6
<1>. QED
  BY <1>3, <1>4, <1>5 DEF u

\* commit: what was written becomes the sequence's own.
LEMMA CommitHistory ==
  ASSUME HInv, IInv', NEW id \in DOMAIN appends, Commit(id)
  PROVE  HInv'
<1>. DEFINE t      == appends[id]
            blocks == sequences[id].blocks
            tokens == sequences[id].tokens
<1>1. /\ IInv /\ DOMAIN appends = {id} /\ id \in DOMAIN sequences
      /\ sequences[id] \in [blocks : Seq(Page), tokens : History]
      /\ t.input \in History /\ tokens \in History
  BY OpenTransaction DEF HInv, IInv, TypeOK
<1>2. /\ t.copy = <<>> \/ t.copied
      /\ t.written = Len(t.input)
      /\ sequences' = [sequences EXCEPT ![id].tokens = tokens \o t.input]
      /\ payload' = Scrub(payload, pool'.free) /\ appends' = <<>> /\ lease' = lease
  BY DEF Commit
<1>3. DOMAIN appends' = {}
  BY <1>2
<1>4. \A h \in DOMAIN lease' : Files(payload, lease'[h], h)
  BY <1>2 DEF HInv, IndexTrue
<1>5. /\ sequences'[id].blocks = blocks /\ sequences'[id].tokens = tokens \o t.input
      /\ DOMAIN sequences' = DOMAIN sequences
      /\ \A j \in DOMAIN sequences \ {id} : sequences'[j] = sequences[j]
  BY <1>1, <1>2
<1>6. /\ tokens \o t.input \in History /\ Len(tokens \o t.input) = Len(tokens) + Len(t.input)
      /\ Len(tokens) \in Nat
  <2>1. 0 \in 0 .. Len(tokens) /\ Len(tokens) \in Nat
    BY <1>1 DEF History
  <2>. HIDE DEF tokens, t
  <2>. QED
    BY <1>1, <2>1, PrefixOfConcat
<1>7. /\ Len(tokens) + Len(t.input) <= Context
      /\ Len(blocks) = PagesFor(Len(tokens) + Len(t.input))
      /\ \A n \in 1 .. Len(tokens) + Len(t.input) :
            KVAt(payload, blocks, n) = Prefix(tokens \o t.input, n)
  BY <1>2 DEF HInv, AppendShape, AppendTrue, Used
<1>8. Reads(payload, blocks, tokens \o t.input)
  <2>. HIDE DEF blocks, tokens, t
  <2>. QED
    BY <1>6, <1>7 DEF Reads
<1>9. ASSUME NEW j \in DOMAIN sequences'
      PROVE  /\ Len(sequences'[j].tokens) <= Context
             /\ Reads(payload, sequences'[j].blocks, sequences'[j].tokens)
  <2>1. CASE j = id
    BY <1>5, <1>6, <1>7, <1>8, <2>1
  <2>2. CASE j # id
    <3>1. CommittedTable(j) = sequences[j].blocks /\ sequences'[j] = sequences[j]
          /\ j \in DOMAIN sequences
      BY <1>1, <1>5, <2>2 DEF CommittedTable
    <3>. QED
      BY <3>1 DEF HInv, TablesTrue, Used
  <2>. QED
    BY <2>1, <2>2
<1>. QED
  BY <1>2, <1>3, <1>4, <1>9, ClosedHistory

\* rollback: the old table reads the old history, whatever was written.
LEMMA RollbackHistory ==
  ASSUME HInv, IInv', NEW id \in DOMAIN appends, Rollback(id)
  PROVE  HInv'
<1>. DEFINE t      == appends[id]
            u      == Used(id)
            blocks == sequences[id].blocks
            tokens == sequences[id].tokens
            orig   == OriginalBlocks(id)
            c      == Undone(id)
<1>1. /\ IInv /\ DOMAIN appends = {id} /\ id \in DOMAIN sequences
      /\ sequences[id] \in [blocks : Seq(Page), tokens : History]
      /\ t.input \in History /\ tokens \in History /\ u \in Nat /\ u = Len(tokens)
      /\ payload \in [Page -> [Slot -> History]] /\ blocks \in Seq(Page)
      /\ t.written \in Nat /\ Len(t.input) \in Nat
  <2>1. IInv /\ payload \in [Page -> [Slot -> History]]
    BY DEF HInv, IInv, TypeOK
  <2>2. /\ DOMAIN appends = {id} /\ id \in DOMAIN sequences /\ u \in Nat
        /\ t \in [input : History, original : Nat,
                  copy : Seq([source : Page, destination : Page, valid : Nat]),
                  copied : BOOLEAN, written : Nat]
    BY <2>1, OpenTransaction
  <2>3. sequences[id] \in [blocks : Seq(Page), tokens : History]
    BY <2>1, <2>2 DEF IInv, TypeOK
  <2>4. t.input \in History /\ t.written \in Nat
    BY <2>2
  <2>. HIDE DEF t
  <2>5. Len(t.input) \in Nat
    BY <2>4 DEF History
  <2>. QED
    BY <2>1, <2>2, <2>3, <2>4, <2>5 DEF Used
<1>2. /\ sequences' = [sequences EXCEPT ![id].blocks = orig]
      /\ payload' = Scrub(c, pool'.free) /\ appends' = <<>> /\ lease' = lease
  BY DEF Rollback
<1>3. DOMAIN appends' = {}
  BY <1>2
<1>4. /\ t.written <= Len(t.input) /\ u <= Context
      /\ Reads(payload, orig, tokens)
  BY <1>1 DEF HInv, AppendShape, TablesTrue, CommittedTable
<1>5. \A i \in u + 1 .. u + t.written :
         /\ i \in u + 1 .. u + Len(t.input) /\ i \in Nat \ {0}
         /\ PageOf(blocks, i) = blocks[PagesFor(i)]
  <2>. SUFFICES ASSUME NEW i \in u + 1 .. u + t.written
                PROVE  /\ i \in u + 1 .. u + Len(t.input) /\ i \in Nat \ {0}
                       /\ PageOf(blocks, i) = blocks[PagesFor(i)]
    OBVIOUS
  <2>. HIDE DEF u, t, blocks
  <2>1. i \in u + 1 .. u + Len(t.input) /\ i \in Nat \ {0}
    BY <1>1, <1>4
  <2>. QED
    BY <2>1, Position, Zenon
<1>6. ASSUME NEW p \in Page, NEW s \in Slot
      PROVE  c[p][s] = IF \E i \in u + 1 .. u + t.written :
                              blocks[PagesFor(i)] = p /\ SlotOf(i) = s
                       THEN Junk ELSE payload[p][s]
  BY <1>5 DEF Undone
<1>7. ASSUME NEW p \in Page,
             \A i \in PagesFor(u + 1) .. Len(blocks) : p # blocks[i]
      PROVE  c[p] = payload[p]
  <2>1. \A i \in u + 1 .. u + t.written : blocks[PagesFor(i)] # p
    BY <1>5, <1>7, PrivateSlot
  <2>2. \A s \in Slot : c[p][s] = payload[p][s]
    BY <1>6, <2>1
  <2>3. c[p] = [s \in Slot |-> c[p][s]]
    BY DEF Undone
  <2>. HIDE DEF c
  <2>4. payload[p] = [s \in Slot |-> payload[p][s]]
    BY <1>1
  <2>. QED
    BY <2>2, <2>3, <2>4
<1>8. Reads(c, orig, tokens)
  <2>1. ASSUME NEW n \in 1 .. u PROVE KVAt(c, orig, n) = Prefix(tokens, n)
    <3>1. n \in Nat \ {0} /\ SlotOf(n) \in Slot
      <4>1. n \in Nat \ {0}
        BY <1>1
      <4>. QED
        BY <4>1, Position, Zenon
    <3>2. orig[PagesFor(n)] \in Page
      <4>1. PagesFor(n) \in Nat /\ PagesFor(n) > 0 /\ PagesFor(n) <= PagesFor(u)
        BY <1>1, <3>1, PagesForType, PagesMonotone
      <4>2. Len(orig) = PagesFor(u) /\ orig \in Seq(Page) /\ PagesFor(u) \in Nat
        BY <1>1, <1>4, OriginalTable, PagesForType DEF Reads
      <4>. HIDE DEF orig
      <4>. QED
        BY <4>1, <4>2
    <3>3. \A i \in u + 1 .. u + t.written :
             \/ blocks[PagesFor(i)] # orig[PagesFor(n)]
             \/ SlotOf(i) # SlotOf(n)
      BY <1>5, PrivateSlot
    <3>4. c[orig[PagesFor(n)]][SlotOf(n)] = payload[orig[PagesFor(n)]][SlotOf(n)]
      BY <1>6, <3>1, <3>2, <3>3
    <3>5. KVAt(payload, orig, n) = Prefix(tokens, n)
      BY <1>1, <1>4 DEF Reads
    <3>. QED
      BY <3>4, <3>5 DEF KVAt
  <2>. HIDE DEF c
  <2>. QED
    BY <1>1, <1>4, <2>1 DEF Reads
<1>9. /\ \A h \in DOMAIN lease : Files(c, lease[h], h)
      /\ \A j \in DOMAIN sequences : Reads(c, CommittedTable(j), sequences[j].tokens)
  <2>. HIDE DEF c
  <2>. QED
    BY <1>7, <1>8, ChangedPrivately
<1>10. ASSUME NEW j \in DOMAIN sequences'
       PROVE  /\ Len(sequences'[j].tokens) <= Context
              /\ Reads(c, sequences'[j].blocks, sequences'[j].tokens)
  <2>1. /\ sequences'[id].blocks = orig /\ sequences'[id].tokens = tokens
        /\ DOMAIN sequences' = DOMAIN sequences
        /\ \A k \in DOMAIN sequences \ {id} : sequences'[k] = sequences[k]
    <3>. HIDE DEF orig
    <3>. QED
      BY <1>1, <1>2
  <2>2. CASE j = id
    BY <1>1, <1>4, <1>8, <2>1, <2>2
  <2>3. CASE j # id
    <3>1. CommittedTable(j) = sequences[j].blocks /\ sequences'[j] = sequences[j]
          /\ j \in DOMAIN sequences
      BY <1>1, <2>1, <2>3 DEF CommittedTable
    <3>2. Len(sequences[j].tokens) <= Context
      BY <3>1 DEF HInv, TablesTrue, Used
    <3>. HIDE DEF c
    <3>. QED
      BY <1>9, <3>1, <3>2
  <2>. QED
    BY <2>2, <2>3
<1>. HIDE DEF c
<1>. QED
  BY <1>2, <1>3, <1>9, <1>10, ClosedHistory

\* A step of an open transaction that moves KV only.
LEMMA OpenHistory ==
  ASSUME HInv, IInv', NEW id \in DOMAIN appends, UNCHANGED <<pool, sequences, lease>>,
         DOMAIN appends' = {id},
         appends'[id].input = appends[id].input, appends'[id].original = appends[id].original,
         appends'[id].copy = appends[id].copy,
         appends'[id].written <= Len(appends[id].input),
         appends[id].copy # <<>> => appends'[id].copied \/ appends'[id].written = 0,
         \A h \in DOMAIN lease : Files(payload', lease[h], h),
         \A j \in DOMAIN sequences : Reads(payload', CommittedTable(j), sequences[j].tokens),
         appends[id].copy = <<>> \/ appends'[id].copied =>
            \A n \in 1 .. Used(id) + appends'[id].written :
               KVAt(payload', sequences[id].blocks, n) =
                  Prefix(sequences[id].tokens \o appends[id].input, n)
  PROVE  HInv'
<1>1. /\ IInv /\ DOMAIN appends = {id} /\ sequences' = sequences /\ lease' = lease
      /\ pool' = pool
  BY OpenTransaction DEF HInv
<1>2. \A j : Used(j)' = Used(j)
  BY <1>1 DEF Used
<1>3. \A j \in DOMAIN sequences : CommittedTable(j)' = CommittedTable(j)
  <2>1. OriginalBlocks(id)' = OriginalBlocks(id)
    BY <1>1 DEF OriginalBlocks
  <2>. QED
    BY <1>1, <2>1 DEF CommittedTable
<1>4. IndexTrue'
  BY <1>1 DEF IndexTrue, Files
<1>5. TablesTrue'
  <2>1. \A j \in DOMAIN sequences : Used(j) <= Context
    BY DEF HInv, TablesTrue
  <2>. QED
    BY <1>1, <1>2, <1>3, <2>1 DEF TablesTrue, Reads, KVAt
<1>6. AppendShape'
  BY <1>1, <1>2 DEF HInv, AppendShape
<1>7. AppendTrue'
  BY <1>1, <1>2 DEF AppendTrue, KVAt
<1>8. AppendPrivate'
  BY <1>1, <1>2 DEF HInv, AppendPrivate
<1>. QED
  BY <1>4, <1>5, <1>6, <1>7, <1>8 DEF HInv

\* The runner writes the KV of the next token behind the whole history before it.
LEMMA WriteTokenHistory ==
  ASSUME HInv, IInv', NEW id \in DOMAIN appends, WriteToken(id)
  PROVE  HInv'
<1>. DEFINE t      == appends[id]
            u      == Used(id)
            w      == t.written
            n      == u + w
            blocks == sequences[id].blocks
            tokens == sequences[id].tokens
            full   == tokens \o t.input
            past   == tokens \o Prefix(t.input, w)
            now    == IF ReadKV(blocks, n) = CausalKV(past) THEN Append(past, t.input[w + 1])
                                                            ELSE Junk
            x      == blocks[PagesFor(n + 1)]
            y      == SlotOf(n + 1)
<1>1. /\ IInv /\ DOMAIN appends = {id} /\ AppendPrivate
      /\ t.input \in History /\ tokens \in History /\ u \in Nat /\ u = Len(tokens)
      /\ w \in Nat /\ Len(t.input) \in Nat /\ w < Len(t.input)
      /\ payload \in [Page -> [Slot -> History]]
  <2>1. IInv /\ AppendPrivate /\ payload \in [Page -> [Slot -> History]] /\ u = Len(tokens)
    BY DEF HInv, IInv, TypeOK, Used
  <2>2. /\ DOMAIN appends = {id} /\ tokens \in History /\ u \in Nat
        /\ t \in [input : History, original : Nat,
                  copy : Seq([source : Page, destination : Page, valid : Nat]),
                  copied : BOOLEAN, written : Nat]
    BY <2>1, OpenTransaction
  <2>3. t.input \in History /\ w \in Nat
    BY <2>2
  <2>4. w < Len(t.input)
    BY DEF WriteToken
  <2>. HIDE DEF t, w, u
  <2>5. Len(t.input) \in Nat
    BY <2>3 DEF History
  <2>. QED
    BY <2>1, <2>2, <2>3, <2>4, <2>5
<1>2. /\ t.copy = <<>> \/ t.copied
      /\ \A m \in 1 .. n : KVAt(payload, blocks, m) = Prefix(full, m)
  BY DEF HInv, AppendTrue, WriteToken
<1>3. n + 1 \in u + 1 .. u + Len(t.input) /\ n \in Nat /\ n + 1 \in Nat \ {0}
  <2>. DEFINE l == Len(t.input)
  <2>1. u \in Nat /\ w \in Nat /\ l \in Nat /\ w < l
    BY <1>1
  <2>. HIDE DEF u, w, l
  <2>2. u + w + 1 \in u + 1 .. u + l /\ u + w \in Nat /\ u + w + 1 \in Nat \ {0}
    BY <2>1
  <2>. QED
    BY <2>2 DEF l
<1>4. /\ PagesFor(n + 1) \in PagesFor(u + 1) .. Len(blocks)
      /\ \A m \in 1 .. u : x # OriginalBlocks(id)[PagesFor(m)] \/ y # SlotOf(m)
  BY <1>3, PrivateSlot
<1>5. /\ PageOf(blocks, n + 1) = x /\ y \in Slot /\ x \in Page
      /\ \A k \in 1 .. Len(blocks) : blocks[k] = x => k = PagesFor(n + 1)
  <2>1. PageOf(blocks, n + 1) = x /\ y \in Slot
    <3>. HIDE DEF n, blocks
    <3>. QED
      BY <1>3, Position, Zenon
  <2>2. x \in Page /\ \A k \in 1 .. Len(blocks) : blocks[k] = x => k = PagesFor(n + 1)
    BY <1>1, <1>4, PrivatePage
  <2>. QED
    BY <2>1, <2>2
<1>6. /\ payload' = [payload EXCEPT ![x][y] = now]
      /\ appends' = [appends EXCEPT ![id].written = @ + 1]
      /\ UNCHANGED <<pool, sequences, lease>>
  BY <1>5 DEF WriteToken
<1>7. past = Prefix(full, n) /\ past \in History /\ Len(past) = n
      /\ Append(past, t.input[w + 1]) = Prefix(full, n + 1)
      /\ full \in History /\ Len(full) = u + Len(t.input)
  <2>. DEFINE g == t.input
  <2>. HIDE DEF g, w, tokens, u
  <2>1. g \in History /\ tokens \in History /\ w \in Nat /\ w < Len(g) /\ u = Len(tokens)
    BY <1>1 DEF g
  <2>2. /\ Prefix(tokens \o g, Len(tokens) + w) = tokens \o Prefix(g, w)
        /\ Prefix(tokens \o g, Len(tokens) + w + 1) = Append(tokens \o Prefix(g, w), g[w + 1])
    BY <2>1, PrefixNext
  <2>3. 0 \in 0 .. Len(tokens) /\ w \in 0 .. Len(g) /\ Len(tokens) \in Nat /\ Len(g) \in Nat
    BY <2>1 DEF History
  <2>4. tokens \o g \in History /\ Len(tokens \o g) = Len(tokens) + Len(g)
    BY <2>1, <2>3, PrefixOfConcat
  <2>5. Prefix(g, w) \in History /\ Len(Prefix(g, w)) = w
    BY <2>1, <2>3, PrefixType
  <2>6. tokens \o Prefix(g, w) \in History /\ Len(tokens \o Prefix(g, w)) = Len(tokens) + w
    BY <2>1, <2>3, <2>5, PrefixOfConcat
  <2>. QED
    BY <2>1, <2>2, <2>4, <2>6 DEF g
<1>. HIDE DEF past, full, blocks, tokens
<1>8. now = Prefix(full, n + 1)
  <2>1. ASSUME NEW m \in 1 .. n
        PROVE  payload[PageOf(blocks, m)][SlotOf(m)] = Prefix(past, m)
    <3>. HIDE DEF n
    <3>1. m \in Nat \ {0} /\ m \in 0 .. n /\ m <= n
      BY <1>3
    <3>2. PageOf(blocks, m) = blocks[PagesFor(m)]
      BY <3>1, Position, Zenon
    <3>3. payload[blocks[PagesFor(m)]][SlotOf(m)] = Prefix(full, m)
      BY <1>2 DEF KVAt
    <3>4. n \in 0 .. Len(full)
      BY <1>3, <1>7, <1>1
    <3>5. Prefix(Prefix(full, n), m) = Prefix(full, m)
      BY <1>7, <3>1, <3>4, PrefixOfPrefix, Zenon
    <3>. QED
      BY <1>7, <3>2, <3>3, <3>5
  <2>. HIDE DEF n
  <2>2. ReadKV(blocks, n) = CausalKV(past)
    BY <1>7, <2>1 DEF ReadKV, CausalKV
  <2>. QED
    BY <1>7, <2>2
<1>. HIDE DEF now, x, y
<1>9. /\ \A p \in Page : p # x => payload'[p] = payload[p]
      /\ \A p \in Page, s \in Slot : p # x \/ s # y => payload'[p][s] = payload[p][s]
      /\ payload'[x][y] = now
  <2>1. payload[x] \in [Slot -> History]
    BY <1>1, <1>5
  <2>. QED
    BY <1>1, <1>5, <1>6, <2>1
<1>10. Reads(payload', OriginalBlocks(id), tokens)
  <2>. DEFINE orig == OriginalBlocks(id)
  <2>1. Reads(payload, orig, tokens)
    <3>1. id \in DOMAIN sequences
      BY <1>1, OpenTransaction
    <3>. QED
      BY <1>1, <3>1 DEF HInv, TablesTrue, CommittedTable, tokens
  <2>2. orig \in Seq(Page)
    BY <1>1, OriginalTable
  <2>3. \A m \in 1 .. u : x # orig[PagesFor(m)] \/ y # SlotOf(m)
    BY <1>4 DEF x, y
  <2>. HIDE DEF orig, u
  <2>4. ASSUME NEW m \in 1 .. u PROVE KVAt(payload', orig, m) = Prefix(tokens, m)
    <3>1. m \in Nat \ {0} /\ m <= u
      BY <1>1
    <3>2. SlotOf(m) \in Slot /\ PagesFor(m) \in Nat \ {0}
      BY <3>1, Position, Zenon
    <3>3. PagesFor(m) <= PagesFor(u) /\ PagesFor(u) \in Nat
      BY <1>1, <3>1, PagesMonotone, PagesForType
    <3>4. orig[PagesFor(m)] \in Page
      <4>1. Len(orig) = PagesFor(u)
        BY <1>1, <2>1 DEF Reads
      <4>2. PagesFor(m) \in 1 .. Len(orig)
        BY <3>2, <3>3, <4>1
      <4>. QED
        BY <2>2, <4>2
    <3>5. payload'[orig[PagesFor(m)]][SlotOf(m)] = payload[orig[PagesFor(m)]][SlotOf(m)]
      BY <1>9, <2>3, <3>2, <3>4
    <3>6. KVAt(payload, orig, m) = Prefix(tokens, m)
      BY <1>1, <2>1 DEF Reads
    <3>. QED
      BY <3>5, <3>6 DEF KVAt
  <2>. QED
    BY <1>1, <2>1, <2>4 DEF Reads, orig
<1>11. ASSUME NEW m \in 1 .. n + 1
       PROVE  KVAt(payload', blocks, m) = Prefix(full, m)
  <2>1. CASE m = n + 1
    BY <1>8, <1>9, <2>1 DEF KVAt, x, y
  <2>2. CASE m # n + 1
    <3>1. m \in 1 .. n /\ m \in Nat \ {0} /\ m <= n + 1
      <4>. HIDE DEF n
      <4>. QED
        BY <1>3, <2>2
    <3>2. SlotOf(m) \in Slot /\ PagesFor(m) \in Nat \ {0}
      BY <3>1, Position, Zenon
    <3>3. PagesFor(m) <= PagesFor(n + 1) /\ PagesFor(n + 1) \in Nat /\ Len(blocks) \in Nat
      <4>1. blocks \in Seq(Page)
        BY <1>1, OpenTransaction DEF blocks
      <4>. HIDE DEF n
      <4>. QED
        BY <1>3, <3>1, <4>1, PagesMonotone, PagesForType
    <3>4. PagesFor(m) \in 1 .. Len(blocks)
      BY <1>4, <3>2, <3>3
    <3>5. blocks[PagesFor(m)] \in Page
      <4>1. blocks \in Seq(Page)
        BY <1>1, OpenTransaction DEF blocks
      <4>. QED
        BY <3>4, <4>1
    <3>6. blocks[PagesFor(m)] # x \/ SlotOf(m) # y
      <4>1. ASSUME blocks[PagesFor(m)] = x, SlotOf(m) = y PROVE FALSE
        <5>1. PagesFor(m) = PagesFor(n + 1)
          BY <1>5, <3>4, <4>1
        <5>. HIDE DEF n
        <5>2. m = n + 1
          BY <1>3, <3>1, <4>1, <5>1, OneSlotEach DEF y
        <5>. QED
          BY <2>2, <5>2
      <4>. QED
        BY <4>1
    <3>7. KVAt(payload, blocks, m) = Prefix(full, m)
      BY <1>2, <3>1
    <3>. QED
      BY <1>9, <3>2, <3>5, <3>6, <3>7 DEF KVAt
  <2>. QED
    BY <2>1, <2>2
<1>12. /\ \A h \in DOMAIN lease : Files(payload', lease[h], h)
       /\ \A j \in DOMAIN sequences : Reads(payload', CommittedTable(j), sequences[j].tokens)
  <2>1. \A p \in Page :
           (\A i \in PagesFor(u + 1) .. Len(blocks) : p # blocks[i]) => payload'[p] = payload[p]
    BY <1>4, <1>9 DEF x
  <2>. QED
    BY <1>10, <2>1, ChangedPrivately DEF blocks, tokens
<1>13. /\ DOMAIN appends' = {id} /\ appends'[id].input = t.input
       /\ appends'[id].original = t.original /\ appends'[id].copy = t.copy
       /\ appends'[id].copied = t.copied /\ appends'[id].written = w + 1
  <2>1. t \in [input : History, original : Nat,
               copy : Seq([source : Page, destination : Page, valid : Nat]),
               copied : BOOLEAN, written : Nat]
    BY <1>1, OpenTransaction
  <2>2. appends' = [appends EXCEPT ![id] = [t EXCEPT !.written = @ + 1]]
    BY <1>6
  <2>. QED
    BY <1>1, <2>1, <2>2
<1>14. w + 1 <= Len(t.input) /\ u + (w + 1) = n + 1
  <2>. HIDE DEF t, w, u
  <2>. QED
    BY <1>1 DEF n
<1>. QED
  BY <1>2, <1>6, <1>11, <1>12, <1>13, <1>14, OpenHistory DEF blocks, tokens, full

\* copy_shared_tail: the private tail holds what the shared one holds.
LEMMA CopySharedTailHistory ==
  ASSUME HInv, IInv', NEW id \in DOMAIN appends, CopySharedTail(id)
  PROVE  HInv'
<1>. DEFINE t      == appends[id]
            u      == Used(id)
            blocks == sequences[id].blocks
            tokens == sequences[id].tokens
            orig   == OriginalBlocks(id)
            from   == t.copy[1].source
            to     == t.copy[1].destination
            valid  == t.copy[1].valid
            N      == t.original
<1>1. /\ IInv /\ DOMAIN appends = {id} /\ AppendPrivate
      /\ t \in [input : History, original : Nat,
                copy : Seq([source : Page, destination : Page, valid : Nat]),
                copied : BOOLEAN, written : Nat]
      /\ tokens \in History /\ u \in Nat /\ u = Len(tokens)
      /\ payload \in [Page -> [Slot -> History]] /\ to \in Page /\ from \in Page
      /\ blocks \in Seq(Page)
  <2>1. IInv /\ AppendPrivate /\ payload \in [Page -> [Slot -> History]] /\ u = Len(tokens)
    BY DEF HInv, IInv, TypeOK, Used
  <2>. QED
    BY <2>1, OpenTransaction DEF CopySharedTail
<1>2. /\ t.copy # <<>> /\ ~t.copied /\ t.written = 0 /\ N = PagesFor(u)
      /\ valid = u % BlockTokens /\ u % BlockTokens # 0
      /\ 0 <= Len(t.input)
  <2>1. /\ t.copy # <<>> /\ ~t.copied
    BY DEF CopySharedTail
  <2>2. t.written <= Len(t.input)
    BY DEF HInv, AppendShape
  <2>. QED
    BY <2>1, <2>2 DEF HInv, AppendShape
<1>3. u # 0 /\ valid = SlotOf(u) + 1 /\ PagesFor(u + 1) = N
  BY <1>1, <1>2, LastSlot
<1>4. /\ N \in 1 .. Len(blocks) /\ blocks[N] = to /\ from # to
      /\ Len(orig) = N /\ orig \in Seq(Page)
      /\ \A i \in 1 .. N : orig[i] = IF i = N THEN from ELSE blocks[i]
  <2>1. blocks[N] = to /\ from # to
    BY <1>1, <1>2 DEF IInv, TransactionOK
  <2>2. /\ N \in 0 .. Len(blocks) /\ N > 0 /\ Len(orig) = N /\ orig \in Seq(Page)
        /\ \A i \in 1 .. N : orig[i] = IF i = N THEN from ELSE blocks[i]
    BY <1>1, <1>2, OriginalTable
  <2>. HIDE DEF N, blocks, orig
  <2>. QED
    BY <2>1, <2>2
<1>5. \A i \in 1 .. Len(blocks) : blocks[i] = to => i = N
  <2>1. N \in PagesFor(u + 1) .. Len(blocks)
    <3>. HIDE DEF N, blocks
    <3>. QED
      BY <1>3, <1>4
  <2>. HIDE DEF N, to, from
  <2>2. \A k \in 1 .. Len(blocks) : blocks[k] = blocks[N] => k = N
    BY <1>1, <2>1, PrivatePage
  <2>. QED
    BY <1>4, <2>2
<1>. DEFINE row == [s \in Slot |-> IF s < valid THEN payload[from][s] ELSE payload[to][s]]
<1>6. /\ payload' = [payload EXCEPT ![to] = row]
      /\ appends' = [appends EXCEPT ![id].copied = TRUE]
      /\ UNCHANGED <<pool, sequences, lease>>
  BY DEF CopySharedTail
<1>7. /\ DOMAIN appends' = {id} /\ appends'[id].input = t.input
      /\ appends'[id].original = t.original /\ appends'[id].copy = t.copy
      /\ appends'[id].copied /\ appends'[id].written = 0
  <2>1. appends' = [appends EXCEPT ![id] = [t EXCEPT !.copied = TRUE]]
    BY <1>6
  <2>. HIDE DEF to, from, valid
  <2>. QED
    BY <1>1, <1>2, <2>1
<1>. HIDE DEF to, from, valid, N, orig, blocks, u, tokens
<1>8. /\ \A p \in Page : p # to => payload'[p] = payload[p]
      /\ \A s \in Slot : s < valid => payload'[to][s] = payload[from][s]
  BY <1>1, <1>6
<1>. HIDE DEF row
<1>9. Reads(payload, orig, tokens)
  <2>1. id \in DOMAIN sequences
    BY <1>1, OpenTransaction
  <2>. QED
    BY <1>1, <2>1 DEF HInv, TablesTrue, CommittedTable, tokens, orig
<1>10. \A i \in 1 .. N : orig[i] \in Page /\ orig[i] # to
  <2>. SUFFICES ASSUME NEW i \in 1 .. N PROVE orig[i] \in Page /\ orig[i] # to
    OBVIOUS
  <2>1. i \in 1 .. Len(blocks) /\ i \in 1 .. Len(orig)
    BY <1>4
  <2>. QED
    BY <1>4, <1>5, <2>1
<1>11. Reads(payload', orig, tokens)
  BY <1>1, <1>4, <1>8, <1>9, <1>10, ReadsKept
<1>12. ASSUME NEW m \in 1 .. u
       PROVE  KVAt(payload', blocks, m) = Prefix(tokens, m)
  <2>1. m \in Nat \ {0} /\ m <= u /\ u \in Nat \ {0}
    BY <1>1
  <2>2. SlotOf(m) \in Slot /\ SlotOf(m) \in Nat /\ SlotOf(u) \in Nat /\ PagesFor(m) \in Nat \ {0}
    BY <2>1, Position, Zenon
  <2>3. PagesFor(m) \in 1 .. N
    <3>1. PagesFor(m) <= PagesFor(u) /\ PagesFor(u) \in Nat
      BY <1>1, <2>1, PagesMonotone, PagesForType
    <3>. QED
      BY <1>2, <2>2, <3>1
  <2>4. payload[orig[PagesFor(m)]][SlotOf(m)] = Prefix(tokens, m)
    BY <1>1, <1>9 DEF Reads, KVAt
  <2>5. CASE PagesFor(m) = N
    <3>1. SlotOf(m) <= SlotOf(u)
      BY <1>2, <2>1, <2>5, SlotsInOrder
    <3>2. SlotOf(m) < valid
      BY <1>3, <2>2, <3>1
    <3>3. payload'[to][SlotOf(m)] = payload[from][SlotOf(m)]
      BY <1>8, <2>2, <3>2
    <3>4. blocks[PagesFor(m)] = to /\ orig[PagesFor(m)] = from
      BY <1>4, <2>3, <2>5
    <3>. QED
      BY <2>4, <3>3, <3>4 DEF KVAt
  <2>6. CASE PagesFor(m) # N
    <3>1. orig[PagesFor(m)] = blocks[PagesFor(m)]
      BY <1>4, <2>3, <2>6
    <3>. QED
      BY <1>8, <1>10, <2>3, <2>4, <3>1 DEF KVAt
  <2>. QED
    BY <2>5, <2>6
<1>13. /\ \A h \in DOMAIN lease : Files(payload', lease[h], h)
       /\ \A j \in DOMAIN sequences : Reads(payload', CommittedTable(j), sequences[j].tokens)
  <2>1. \A p \in Page :
           (\A i \in PagesFor(u + 1) .. Len(blocks) : p # blocks[i]) => payload'[p] = payload[p]
    <3>1. N \in PagesFor(u + 1) .. Len(blocks)
      BY <1>3, <1>4
    <3>. QED
      BY <1>4, <1>8, <3>1
  <2>. QED
    BY <1>11, <2>1, ChangedPrivately DEF blocks, tokens, orig, u
<1>14. ASSUME NEW m \in 1 .. u + appends'[id].written
       PROVE  KVAt(payload', blocks, m) = Prefix(tokens \o t.input, m)
  <2>1. m \in 1 .. u /\ m \in 0 .. Len(tokens)
    BY <1>1, <1>7
  <2>2. t.input \in History
    BY <1>1
  <2>3. Prefix(tokens \o t.input, m) = Prefix(tokens, m)
    BY <1>1, <2>1, <2>2, PrefixOfConcat
  <2>. QED
    BY <1>12, <2>1, <2>3
<1>. QED
  BY <1>2, <1>6, <1>7, <1>13, <1>14, OpenHistory DEF blocks, tokens, u

------------------------------------------------------------------------------
\* Preparing an append

\* The restored block table of a prepared append, element by element.
LEMMA RestoredTable ==
  ASSUME NEW blocks \in Seq(Page), NEW new \in Seq(Page), Len(blocks) <= Len(new),
         NEW copied \in BOOLEAN, copied => Len(blocks) > 0,
         \A i \in 1 .. Len(blocks) : ~(copied /\ i = Len(blocks)) => new[i] = blocks[i]
  PROVE  (IF copied THEN [Prefix(new, Len(blocks)) EXCEPT ![Len(blocks)] = blocks[Len(blocks)]]
                    ELSE Prefix(new, Len(blocks))) = blocks
<1>. DEFINE N    == Len(blocks)
            kept == Prefix(new, N)
<1>1. N \in Nat /\ \A i \in 1 .. N : new[i] \in Page /\ blocks[i] \in Page
  OBVIOUS
<1>2. kept \in Seq(Page) /\ Len(kept) = N /\ \A i \in 1 .. N : kept[i] = new[i]
  <2>. HIDE DEF N
  <2>. QED
    BY <1>1, SubSeqProperties DEF Prefix
<1>. HIDE DEF kept
<1>3. CASE ~copied
  BY <1>1, <1>2, <1>3, SeqEqual DEF kept
<1>4. CASE copied
  <2>. DEFINE e    == blocks[N]
              orig == [kept EXCEPT ![N] = e]
  <2>1. e \in Page /\ N \in 1 .. Len(kept)
    BY <1>1, <1>2, <1>4
  <2>2. \A i \in 1 .. N : kept[i] = IF i = N THEN kept[N] ELSE blocks[i]
    BY <1>2, <1>4
  <2>. HIDE DEF N, e
  <2>3. /\ orig \in Seq(Page) /\ Len(orig) = N
        /\ \A i \in 1 .. N : orig[i] = IF i = N THEN e ELSE kept[i]
    BY <1>2, <2>1
  <2>. HIDE DEF orig
  <2>4. \A i \in 1 .. N : orig[i] = blocks[i]
    BY <2>2, <2>3 DEF e
  <2>5. orig = blocks
    BY <2>3, <2>4, SeqEqual DEF N
  <2>. QED
    BY <1>4, <2>5 DEF orig, e, kept, N
<1>. QED
  BY <1>3, <1>4

\* The new pages of an append are those its positions need.
LEMMA RequiredPages ==
  ASSUME IInv, NEW id \in DOMAIN sequences, NEW l \in Nat,
         Len(sequences[id].blocks) = PagesFor(Used(id))
  PROVE  Len(sequences[id].blocks) + RequiredBlocks(id, l) = PagesFor(Used(id) + l)
<1>. DEFINE u == Used(id)
            N == Len(sequences[id].blocks)
            m == PagesFor(u + l)
            x == m - N
<1>1. u \in Nat /\ N \in Nat
  BY DEF IInv, TypeOK, Used, History
<1>2. m \in Nat /\ N <= m
  <2>. HIDE DEF u
  <2>1. u + l \in Nat /\ u <= u + l
    BY <1>1
  <2>2. PagesFor(u) <= PagesFor(u + l) /\ PagesFor(u + l) \in Nat
    BY <1>1, <2>1, PagesMonotone, PagesForType
  <2>. QED
    BY <2>2 DEF u
<1>. HIDE DEF m, N
<1>3. x \in Nat
  BY <1>1, <1>2
<1>4. Max({0, x}) = x
  <2>. HIDE DEF x
  <2>1. \E a \in {0, x} : \A b \in {0, x} : a >= b
    BY <1>3
  <2>2. Max({0, x}) \in {0, x} /\ \A b \in {0, x} : Max({0, x}) >= b
    BY <2>1, Zenon DEF Max
  <2>. QED
    BY <1>3, <2>2
<1>5. RequiredBlocks(id, l) = x
  BY <1>4 DEF RequiredBlocks, m, N, u
<1>6. N + x = m
  BY <1>1, <1>2
<1>. QED
  BY <1>5, <1>6 DEF m, N

\* What a prepared append leaves behind.
PreparedState(id, input, k, N, shared, table) ==
    /\ shared \in BOOLEAN
    /\ DOMAIN appends = {} /\ DOMAIN appends' = {id}
    /\ appends'[id].input = input /\ appends'[id].original = N
    /\ appends'[id].written = 0 /\ ~appends'[id].copied
    /\ appends'[id].copy # <<>> <=> shared
    /\ shared => /\ N > 0 /\ appends'[id].copy[1].source = sequences[id].blocks[N]
                 /\ appends'[id].copy[1].valid = Used(id) % BlockTokens
                 /\ table[N] # sequences[id].blocks[N]
    /\ shared <=> SharedTail(id, EvictedPool(k).refs)
    /\ N = Len(sequences[id].blocks)
    /\ table \in Seq(Page) /\ Len(table) = N + RequiredBlocks(id, Len(input))
    /\ RequiredBlocks(id, Len(input)) \in Nat
    /\ \A i \in 1 .. N : ~(shared /\ i = N) => table[i] = sequences[id].blocks[i]
    /\ DOMAIN sequences' = DOMAIN sequences
    /\ sequences'[id].blocks = table /\ sequences'[id].tokens = sequences[id].tokens
    /\ \A j \in DOMAIN sequences \ {id} : sequences'[j] = sequences[j]
    /\ pool' = Take(EvictedPool(k),
                    SequenceLeases(id, table) \ SequenceLeases(id, sequences[id].blocks))
    /\ lease' = Without(lease, Victims(k))
    /\ payload' = Scrub(payload, pool'.free)

\* prepare_append leaves such a state.
LEMMA PrepareAppendState ==
  ASSUME IInv, IInv', NEW id \in DOMAIN sequences, NEW input \in Inputs(id),
         ValidAppend(id, input), PrepareAppend(id, input)
  PROVE  \E k, N, shared, table : PreparedState(id, input, k, N, shared, table)
<1>1. PICK k, required, needed, fresh, blocks, N, valid, copy, table :
         Prepared(id, input, k, required, needed, fresh, blocks, N, valid, copy, table)
  BY PrepareAppendPieces
<1>2. \E b \in BOOLEAN : b <=> needed # required
  OBVIOUS
<1>. PICK shared \in BOOLEAN : shared <=> needed # required
  BY <1>2
<1>3. /\ Idle
      /\ required = RequiredBlocks(id, Len(input)) /\ valid = Used(id) % BlockTokens
      /\ needed # required <=> SharedTail(id, EvictedPool(k).refs)
      /\ required \in Nat
      /\ blocks = sequences[id].blocks /\ N = Len(blocks)
      /\ copy = IF needed = required THEN <<>>
                ELSE <<[source |-> blocks[N], destination |-> fresh[needed], valid |-> valid]>>
      /\ table = (IF copy = <<>> THEN blocks ELSE [blocks EXCEPT ![N] = fresh[needed]])
                 \o [i \in 1 .. required |-> fresh[i]]
      /\ blocks = <<>> => required > 0 /\ needed = required
      /\ pool' = Take(EvictedPool(k), SequenceLeases(id, table) \ SequenceLeases(id, blocks))
      /\ sequences' = [sequences EXCEPT ![id].blocks = table]
      /\ appends' = With(<<>>, id, [input |-> input, original |-> N, copy |-> copy,
                                   copied |-> FALSE, written |-> 0])
      /\ lease' = Without(lease, Victims(k))
      /\ payload' = Scrub(payload, pool'.free)
  BY <1>1 DEF Prepared
<1>4. /\ copy = <<>> <=> ~shared
      /\ shared => copy[1] = [source |-> blocks[N], destination |-> fresh[needed],
                              valid |-> valid]
  BY <1>3
<1>5. table = NewBlocks(blocks, required, needed, fresh)
  BY <1>3, <1>4 DEF NewBlocks
<1>6. /\ table \in Seq(Page) /\ Len(table) = N + required
      /\ \A i \in 1 .. N : table[i] = IF needed # required /\ i = N THEN fresh[needed]
                                                                    ELSE blocks[i]
  <2>. DEFINE made == NewBlocks(blocks, required, needed, fresh)
  <2>1. /\ made \in Seq(Page) /\ Len(made) = Len(blocks) + required
        /\ \A i \in 1 .. Len(blocks) :
              made[i] = IF needed # required /\ i = Len(blocks) THEN fresh[needed]
                                                                ELSE blocks[i]
    BY <1>1, PreparedTable
  <2>2. table = made
    BY <1>5
  <2>3. N = Len(blocks)
    BY <1>3
  <2>. HIDE DEF made
  <2>. QED
    BY <2>1, <2>2, <2>3
<1>7. /\ DOMAIN appends' = {id}
      /\ appends'[id] = [input |-> input, original |-> N, copy |-> copy,
                         copied |-> FALSE, written |-> 0]
  BY <1>3 DEF With
<1>8. sequences[id] \in [blocks : Seq(Page), tokens : History]
  BY DEF IInv, TypeOK
<1>9. shared => N > 0 /\ table[N] # blocks[N]
  <2>. SUFFICES ASSUME shared PROVE N > 0 /\ table[N] # blocks[N]
    OBVIOUS
  <2>1. N \in Nat /\ N > 0
    BY <1>3, <1>8
  <2>2. table[N] = fresh[needed]
    BY <1>6, <2>1
  <2>3. appends'[id].copy # <<>> /\ appends'[id].copy[1].source # appends'[id].copy[1].destination
    BY <1>4, <1>7 DEF IInv, TransactionOK
  <2>4. appends'[id].copy[1].source = blocks[N] /\ appends'[id].copy[1].destination = fresh[needed]
    BY <1>4, <1>7
  <2>. QED
    BY <2>1, <2>2, <2>3, <2>4
<1>10. /\ DOMAIN sequences' = DOMAIN sequences
       /\ sequences'[id].blocks = table /\ sequences'[id].tokens = sequences[id].tokens
       /\ \A j \in DOMAIN sequences \ {id} : sequences'[j] = sequences[j]
  <2>1. sequences' = [sequences EXCEPT ![id].blocks = table]
    BY <1>3
  <2>. QED
    BY <1>8, <2>1
<1>11. DOMAIN appends = {}
  BY <1>3 DEF Idle
<1>12. \A i \in 1 .. N : ~(shared /\ i = N) => table[i] = blocks[i]
  BY <1>6
<1>13. appends'[id].copy = copy /\ appends'[id].input = input /\ appends'[id].original = N
       /\ appends'[id].written = 0 /\ ~appends'[id].copied
  BY <1>7
<1>14. shared => copy[1].source = blocks[N] /\ copy[1].valid = valid
  BY <1>4
<1>15. PreparedState(id, input, k, N, shared, table)
  <2>1. shared <=> SharedTail(id, EvictedPool(k).refs)
    BY <1>3
  <2>2. copy # <<>> <=> shared
    BY <1>4
  <2>3. DOMAIN appends' = {id} /\ table \in Seq(Page) /\ Len(table) = N + required
    BY <1>6, <1>7
  <2>4. /\ required = RequiredBlocks(id, Len(input)) /\ valid = Used(id) % BlockTokens
        /\ required \in Nat /\ blocks = sequences[id].blocks /\ N = Len(blocks)
        /\ pool' = Take(EvictedPool(k), SequenceLeases(id, table) \ SequenceLeases(id, blocks))
        /\ lease' = Without(lease, Victims(k))
        /\ payload' = Scrub(payload, pool'.free)
    BY <1>3
  <2>. QED
    BY <1>9, <1>10, <1>11, <1>12, <1>13, <1>14, <2>1, <2>2, <2>3, <2>4 DEF PreparedState
<1>. HIDE DEF PreparedState
<1>. QED
  BY <1>15

\* The pages a prepared append will write to have no other holder: they are new, or the
\* partial tail nobody shares.
LEMMA PreparedPrivate ==
  ASSUME HInv, IInv', NEW id \in DOMAIN sequences, NEW input, NEW k, NEW N,
         NEW shared, NEW table, PreparedState(id, input, k, N, shared, table)
  PROVE  \A i \in PagesFor(Used(id) + 1) .. Len(table) : pool'.refs[table[i]] = 1
<1>. SUFFICES ASSUME NEW i \in PagesFor(Used(id) + 1) .. Len(table)
              PROVE  pool'.refs[table[i]] = 1
  OBVIOUS
<1>. DEFINE u      == Used(id)
            blocks == sequences[id].blocks
            left   == EvictedPool(k)
            A      == SequenceLeases(id, table) \ SequenceLeases(id, blocks)
            l      == [owner |-> <<"sequence", id, i>>, page |-> table[i]]
<1>1. /\ IInv /\ u \in Nat /\ blocks \in Seq(Page) /\ table \in Seq(Page) /\ N = Len(blocks)
      /\ pool' = Take(left, A) /\ id \in DOMAIN sequences' /\ sequences'[id].blocks = table
  <2>1. IInv /\ u \in Nat /\ blocks \in Seq(Page)
    BY DEF HInv, IInv, TypeOK, Used, History
  <2>. QED
    BY <2>1 DEF PreparedState
<1>2. PagesFor(u) = N
  <2>1. DOMAIN appends = {} /\ N = Len(blocks)
    BY DEF PreparedState
  <2>2. Reads(payload, blocks, sequences[id].tokens)
    BY <2>1, IdleTables
  <2>. QED
    BY <2>1, <2>2 DEF Reads, Used
<1>3. PagesFor(u + 1) \in Nat \ {0}
  <2>. HIDE DEF u
  <2>1. u + 1 \in Nat /\ u + 1 > 0
    BY <1>1
  <2>2. PagesFor(u + 1) \in Nat /\ PagesFor(u + 1) > 0
    BY <2>1, PagesForType
  <2>. QED
    BY <2>2
<1>4. i \in 1 .. Len(table) /\ i \in Nat /\ i >= PagesFor(u + 1) /\ table[i] \in Page
  <2>. DEFINE m == PagesFor(u + 1)
  <2>1. i \in m .. Len(table) /\ m \in Nat \ {0}
    BY <1>3
  <2>. HIDE DEF m
  <2>2. i \in 1 .. Len(table) /\ i \in Nat /\ i >= m
    BY <1>1, <2>1
  <2>. QED
    BY <1>1, <2>2 DEF m
<1>5. ASSUME l \notin SequenceLeases(id, blocks) PROVE pool'.refs[table[i]] = 1
  <2>1. l \in SequenceLeases(id, table)
    BY <1>4 DEF SequenceLeases
  <2>. HIDE DEF A
  <2>2. l \in On(table[i], A)
    BY <1>5, <2>1 DEF On, A
  <2>. HIDE DEF l, left
  <2>3. On(table[i], A) # {}
    BY <2>2
  <2>. QED
    BY <1>1, <1>4, <2>3 DEF Take
<1>6. CASE i > N
  <2>1. ASSUME l \in SequenceLeases(id, blocks) PROVE FALSE
    <3>1. PICK j \in 1 .. Len(blocks) : l = [owner |-> <<"sequence", id, j>>, page |-> blocks[j]]
      BY <2>1 DEF SequenceLeases
    <3>2. <<"sequence", id, i>> = <<"sequence", id, j>>
      BY <3>1
    <3>3. i = j
      BY <3>2
    <3>. QED
      BY <1>1, <1>6, <3>3
  <2>. QED
    BY <1>5, <2>1
<1>7. CASE i <= N
  <2>1. i = N /\ u % BlockTokens # 0 /\ N \in 1 .. Len(blocks)
    <3>. HIDE DEF u
    <3>1. u % BlockTokens = 0 => PagesFor(u + 1) = N + 1
      BY <1>2, <1>1, LastSlot DEF u
    <3>2. u % BlockTokens # 0 => PagesFor(u + 1) = N
      BY <1>2, <1>1, LastSlot DEF u
    <3>. QED
      BY <1>1, <1>3, <1>4, <1>7, <3>1, <3>2
  <2>2. CASE shared
    <3>1. table[N] # blocks[N]
      BY <2>2 DEF PreparedState
    <3>2. ASSUME l \in SequenceLeases(id, blocks) PROVE FALSE
      <4>1. PICK j \in 1 .. Len(blocks) : l = [owner |-> <<"sequence", id, j>>, page |-> blocks[j]]
        BY <3>2 DEF SequenceLeases
      <4>2. <<"sequence", id, i>> = <<"sequence", id, j>> /\ table[i] = blocks[j]
        BY <4>1
      <4>3. i = j
        BY <4>2
      <4>. QED
        BY <2>1, <3>1, <4>2, <4>3
    <3>. QED
      BY <1>5, <3>2
  <2>3. CASE ~shared
    <3>1. table[i] = blocks[N] /\ LastBlock(id) = blocks[N]
      BY <2>1, <2>3 DEF PreparedState, LastBlock
    <3>2. ~(left.refs[blocks[N]] > 1)
      BY <2>1, <2>3, <3>1 DEF PreparedState, SharedTail
    <3>3. l \in Leases'
      BY <1>1, <1>4 DEF Leases, AllSequenceLeases, SequenceLeases
    <3>4. /\ IsFiniteSet(On(table[i], Leases'))
          /\ pool'.refs[table[i]] = Cardinality(On(table[i], Leases'))
      BY <1>4 DEF IInv, RefsCountLeases, Counts, FiniteLeases
    <3>5. On(table[i], Leases') # {}
      BY <3>3 DEF On
    <3>6. pool'.refs[table[i]] \in Nat /\ pool'.refs[table[i]] # 0
      BY <3>4, <3>5, FS_EmptySet, FS_CardinalityType
    <3>7. pool'.refs[table[i]] = 1 \/ pool'.refs[table[i]] = left.refs[table[i]]
      <4>. HIDE DEF A, left
      <4>. QED
        BY <1>1, <1>4 DEF Take
    <3>8. ~(left.refs[table[i]] > 1)
      BY <3>1, <3>2
    <3>. HIDE DEF left
    <3>. QED
      BY <3>6, <3>7, <3>8
  <2>4. shared \in BOOLEAN
    BY DEF PreparedState
  <2>. QED
    BY <2>2, <2>3, <2>4
<1>. QED
  <2>1. N \in Nat
    BY <1>1
  <2>. QED
    BY <1>4, <1>6, <1>7, <2>1

\* prepare_append: a committed reader still finds the old table and the old history.
LEMMA PrepareAppendHistory ==
  ASSUME HInv, IInv', NEW id \in DOMAIN sequences, NEW input \in Inputs(id),
         ValidAppend(id, input), PrepareAppend(id, input)
  PROVE  HInv'
<1>. DEFINE u      == Used(id)
            blocks == sequences[id].blocks
            tokens == sequences[id].tokens
            new    == appends'[id]
<1>1. IInv /\ sequences[id] \in [blocks : Seq(Page), tokens : History]
      /\ tokens \in History /\ blocks \in Seq(Page) /\ u = Len(tokens) /\ u \in Nat
      /\ input \in History /\ Len(input) \in Nat
  <2>1. IInv /\ sequences[id] \in [blocks : Seq(Page), tokens : History] /\ u = Len(tokens)
    BY DEF HInv, IInv, TypeOK, Used
  <2>2. input \in History
    BY <2>1, InputType
  <2>. QED
    BY <2>1, <2>2 DEF History
<1>2. PICK k, N, shared, table : PreparedState(id, input, k, N, shared, table)
  BY <1>1, PrepareAppendState
<1>3. /\ DOMAIN appends = {} /\ DOMAIN appends' = {id} /\ shared \in BOOLEAN
      /\ new.input = input /\ new.original = N /\ new.written = 0 /\ ~new.copied
      /\ new.copy # <<>> <=> shared
      /\ shared => /\ N > 0 /\ new.copy[1].source = blocks[N]
                   /\ new.copy[1].valid = u % BlockTokens
      /\ shared <=> SharedTail(id, EvictedPool(k).refs)
      /\ N = Len(blocks)
      /\ table \in Seq(Page) /\ Len(table) = N + RequiredBlocks(id, Len(input))
      /\ RequiredBlocks(id, Len(input)) \in Nat
      /\ \A i \in 1 .. N : ~(shared /\ i = N) => table[i] = blocks[i]
      /\ DOMAIN sequences' = DOMAIN sequences
      /\ sequences'[id].blocks = table /\ sequences'[id].tokens = tokens
      /\ \A j \in DOMAIN sequences \ {id} : sequences'[j] = sequences[j]
      /\ lease' = Without(lease, Victims(k))
      /\ payload' = Scrub(payload, pool'.free)
  BY <1>2 DEF PreparedState
<1>4. u <= Context /\ Reads(payload, blocks, tokens) /\ N = PagesFor(u) /\ N \in Nat
  <2>1. Len(tokens) <= Context /\ Reads(payload, blocks, tokens)
    BY <1>3, IdleTables
  <2>. QED
    BY <1>1, <1>3, <2>1 DEF Reads
<1>5. Len(table) = PagesFor(u + Len(input)) /\ N <= Len(table)
  <2>1. Len(blocks) + RequiredBlocks(id, Len(input)) = PagesFor(u + Len(input))
    BY <1>1, <1>3, <1>4, RequiredPages
  <2>. HIDE DEF blocks
  <2>. QED
    BY <1>3, <1>4, <2>1
<1>. HIDE DEF new
<1>6. \A j \in DOMAIN sequences : Used(j)' = Used(j)
  BY <1>3 DEF Used
<1>7. OriginalBlocks(id)' = blocks
  <2>1. (IF shared THEN [Prefix(table, Len(blocks)) EXCEPT ![Len(blocks)] = blocks[Len(blocks)]]
                   ELSE Prefix(table, Len(blocks))) = blocks
    <3>1. /\ blocks \in Seq(Page) /\ table \in Seq(Page) /\ shared \in BOOLEAN
          /\ Len(blocks) <= Len(table)
      BY <1>1, <1>2, <1>3, <1>5
    <3>2. /\ shared => Len(blocks) > 0
          /\ \A i \in 1 .. Len(blocks) : ~(shared /\ i = Len(blocks)) => table[i] = blocks[i]
      BY <1>3
    <3>. HIDE DEF blocks
    <3>. QED
      BY <3>1, <3>2, RestoredTable, Zenon
  <2>2. OriginalBlocks(id)' =
           IF new.copy = <<>> THEN Prefix(table, N)
           ELSE [Prefix(table, N) EXCEPT ![N] = new.copy[1].source]
    BY <1>3 DEF OriginalBlocks, new
  <2>. HIDE DEF blocks
  <2>3. CASE shared
    BY <1>3, <2>1, <2>2, <2>3
  <2>4. CASE ~shared
    BY <1>3, <2>1, <2>2, <2>4
  <2>. QED
    BY <2>3, <2>4
<1>8. ASSUME NEW j \in DOMAIN sequences
      PROVE  Reads(payload', CommittedTable(j)', sequences[j].tokens)
  <2>1. /\ \A i \in DOMAIN sequences' : \A n \in 1 .. Len(sequences'[i].blocks) :
              payload'[sequences'[i].blocks[n]] = payload[sequences'[i].blocks[n]]
        /\ new.copy # <<>> =>
              payload'[new.copy[1].source] = payload[new.copy[1].source]
    BY <1>3, HeldPagesKeep DEF new
  <2>2. CASE j = id
    <3>1. CommittedTable(j)' = blocks
      BY <1>3, <1>7, <2>2 DEF CommittedTable
    <3>2. ASSUME NEW i \in 1 .. Len(blocks) PROVE payload'[blocks[i]] = payload[blocks[i]]
      <4>1. CASE shared /\ i = N
        BY <1>3, <2>1, <4>1
      <4>2. CASE ~(shared /\ i = N)
        <5>1. i \in 1 .. Len(table) /\ table[i] = blocks[i]
          <6>. HIDE DEF blocks
          <6>. QED
            BY <1>3, <1>5, <4>2
        <5>. QED
          BY <1>3, <2>1, <5>1
      <4>. QED
        BY <4>1, <4>2
    <3>3. Reads(payload', blocks, tokens)
      <4>. HIDE DEF blocks, tokens
      <4>. QED
        BY <1>1, <1>4, <3>2, ReadsKept
    <3>. QED
      BY <2>2, <3>1, <3>3
  <2>3. CASE j # id
    <3>1. CommittedTable(j)' = sequences[j].blocks /\ sequences'[j] = sequences[j]
          /\ j \in DOMAIN sequences'
      BY <1>3, <2>3 DEF CommittedTable
    <3>2. Reads(payload, sequences[j].blocks, sequences[j].tokens)
      BY <1>3, IdleTables
    <3>3. sequences[j].tokens \in History
      BY <1>1 DEF IInv, TypeOK
    <3>4. \A i \in 1 .. Len(sequences[j].blocks) :
             payload'[sequences[j].blocks[i]] = payload[sequences[j].blocks[i]]
      BY <2>1, <3>1
    <3>5. Reads(payload', sequences[j].blocks, sequences[j].tokens)
      BY <3>2, <3>3, <3>4, ReadsKept
    <3>. QED
      BY <3>1, <3>5
  <2>. QED
    BY <2>2, <2>3
<1>9. IndexTrue'
  <2>1. ASSUME NEW h \in DOMAIN lease' PROVE Files(payload', lease'[h], h)
    <3>1. h \in DOMAIN lease /\ lease'[h] = lease[h]
      BY <1>3 DEF Without
    <3>2. Files(payload, lease[h], h)
      BY <3>1 DEF HInv, IndexTrue
    <3>3. payload'[lease'[h]] = payload[lease'[h]]
      BY <1>3, HeldPagesKeep
    <3>. QED
      BY <3>1, <3>2, <3>3, FilesKept
  <2>. QED
    BY <2>1 DEF IndexTrue, Files
<1>10. TablesTrue'
  <2>1. \A j \in DOMAIN sequences : Used(j) <= Context /\ sequences'[j].tokens = sequences[j].tokens
    BY <1>3 DEF HInv, TablesTrue
  <2>2. ASSUME NEW j \in DOMAIN sequences
        PROVE  /\ Used(j)' <= Context
               /\ Reads(payload', CommittedTable(j)', sequences'[j].tokens)
    BY <1>6, <1>8, <2>1
  <2>. QED
    BY <1>3, <2>2 DEF TablesTrue, Reads, KVAt
<1>11. AppendShape'
  <2>1. u + Len(input) <= Context /\ 0 <= Len(input)
    <3>1. Len(input) <= Context - u
      BY DEF ValidAppend
    <3>. HIDE DEF u
    <3>. QED
      BY <1>1, <3>1, ManagerAssumption
  <2>2. shared => u % BlockTokens # 0
    BY <1>3 DEF SharedTail
  <2>. QED
    BY <1>3, <1>4, <1>5, <1>6, <2>1, <2>2 DEF AppendShape, new
<1>12. AppendTrue'
  <2>1. ASSUME ~shared, NEW n \in 1 .. u
        PROVE  KVAt(payload', table, n) = Prefix(tokens \o input, n)
    <3>1. Reads(payload', blocks, tokens)
      BY <1>3, <1>7, <1>8 DEF CommittedTable
    <3>2. KVAt(payload', blocks, n) = Prefix(tokens, n)
      BY <1>1, <3>1 DEF Reads
    <3>3. n \in Nat \ {0} /\ n <= u /\ n \in 0 .. Len(tokens)
      BY <1>1
    <3>4. PagesFor(n) \in 1 .. N
      <4>1. PagesFor(n) \in Nat /\ PagesFor(n) > 0 /\ PagesFor(n) <= PagesFor(u)
        BY <1>1, <3>3, PagesForType, PagesMonotone
      <4>. QED
        BY <1>4, <4>1
    <3>5. table[PagesFor(n)] = blocks[PagesFor(n)]
      BY <1>3, <2>1, <3>4
    <3>6. Prefix(tokens \o input, n) = Prefix(tokens, n)
      BY <1>1, <3>3, PrefixOfConcat
    <3>. QED
      BY <3>2, <3>5, <3>6 DEF KVAt
  <2>2. u + 0 = u
    <3>. HIDE DEF u
    <3>. QED
      BY <1>1
  <2>. QED
    BY <1>3, <1>6, <2>1, <2>2 DEF AppendTrue, KVAt, new
<1>13. AppendPrivate'
  <2>1. \A i \in PagesFor(u + 1) .. Len(table) : pool'.refs[table[i]] = 1
    <3>. HIDE DEF u, blocks, tokens
    <3>2. \A i \in PagesFor(Used(id) + 1) .. Len(table) : pool'.refs[table[i]] = 1
      BY <1>2, PreparedPrivate
    <3>. QED
      BY <3>2 DEF u
  <2>. QED
    BY <1>3, <1>6, <2>1 DEF AppendPrivate
<1>. QED
  BY <1>9, <1>10, <1>11, <1>12, <1>13 DEF HInv

------------------------------------------------------------------------------
\* The theorems

\* The manager starts with nothing to hold.
LEMMA InitHInv == Init => HInv
<1>. SUFFICES ASSUME Init PROVE HInv
  OBVIOUS
<1>1. IInv
  BY InitIInv
<1>2. DOMAIN sequences = {} /\ DOMAIN lease = {} /\ DOMAIN appends = {}
  BY DEF Init
<1>. QED
  BY <1>1, <1>2 DEF HInv, IndexTrue, TablesTrue, AppendShape, AppendTrue, AppendPrivate

\* No step mixes up histories.
LEMMA NextHInv == HInv /\ [Next]_vars => HInv'
<1>. SUFFICES ASSUME HInv, [Next]_vars PROVE HInv'
  OBVIOUS
<1>0. IInv'
  BY NextIInv DEF HInv
<1>1. CASE UNCHANGED vars
  BY <1>0, <1>1, QuietSteps
<1>2. ASSUME NEW id \in Id, NEW n \in ReserveTokens, ReserveRequest(id, n) PROVE HInv'
  BY <1>0, <1>2, QuietSteps
<1>3. ASSUME NEW id \in Id, ReleaseReservation(id) \/ Create(id) PROVE HInv'
  BY <1>0, <1>3, QuietSteps, CreateHistory
<1>4. ASSUME NEW source \in DOMAIN sequences, NEW target \in DOMAIN sequences,
             ForkSequence(source, target)
      PROVE  HInv'
  BY <1>0, <1>4, ForkHistory
<1>5. ASSUME NEW id \in DOMAIN sequences, NEW prompt \in Prompts, ReusePrefix(id, prompt)
      PROVE  HInv'
  BY <1>0, <1>5, ReuseHistory
<1>6. ASSUME NEW id \in DOMAIN sequences, CachePrefix(id) \/ ResetSequence(id) \/ Release(id)
      PROVE  HInv'
  BY <1>0, <1>6, QuietSteps, ReleaseHistory
<1>7. ASSUME NEW id \in DOMAIN publishing, PublishKnown(id) \/ PublishNew(id) \/ PublishFails(id)
      PROVE  HInv'
  BY <1>0, <1>7, QuietSteps, PublishNewHistory
<1>8. CASE ClearPrefixCache \/ Clear
  BY <1>0, <1>8, ReleaseHistory
<1>9. ASSUME NEW id \in DOMAIN sequences, NEW input \in Inputs(id),
             ValidAppend(id, input) /\ PrepareAppend(id, input)
      PROVE  HInv'
  BY <1>0, <1>9, PrepareAppendHistory
<1>10. ASSUME NEW id \in DOMAIN sequences, NEW n, PrepareExhausted(id, n) PROVE HInv'
  BY <1>0, <1>10, ExhaustedHistory
<1>11. ASSUME NEW id \in DOMAIN appends,
              CopySharedTail(id) \/ WriteToken(id) \/ Commit(id) \/ Rollback(id)
       PROVE  HInv'
  BY <1>0, <1>11, CopySharedTailHistory, WriteTokenHistory, CommitHistory, RollbackHistory
<1>. QED
  BY <1>1, <1>2, <1>3, <1>4, <1>5, <1>6, <1>7, <1>8, <1>9, <1>10, <1>11 DEF Next

\* Every page of every reachable state holds what it stands for.
LEMMA HistoryInvariance == Spec => []HInv
<1>1. Init => HInv
  BY InitHInv
<1>2. HInv /\ [Next]_vars => HInv'
  BY NextHInv
<1>. QED
  BY <1>1, <1>2, PTL DEF Spec

\* A page of the index is filed whole.
LEMMA IndexIsTrue == HInv => IndexHoldsItsHistory
<1>. SUFFICES ASSUME HInv, NEW h \in Leased,
                     NEW n \in BlockTokens * (PagesFor(Len(h)) - 1) + 1 .. Len(h)
              PROVE  payload[lease[h]][SlotOf(n)] = Prefix(h, n)
  BY DEF IndexHoldsItsHistory
<1>. DEFINE w == PagesFor(Len(h)) - 1
            x == BlockTokens * w
<1>1. Files(payload, lease[h], h) /\ h \in History /\ h # <<>>
  BY DEF HInv, IndexTrue, IInv, TypeOK, Leased, Files
<1>2. Len(h) \in Nat \ {0}
  <2>1. Len(h) \in Nat /\ Len(h) # 0
    BY <1>1, EmptySeq DEF History
  <2>. QED
    BY <2>1
<1>3. /\ PagesFor(Len(h)) \in Nat \ {0} /\ SlotOf(Len(h)) \in Nat
      /\ Len(h) = x + SlotOf(Len(h)) + 1 /\ SlotOf(Len(h)) < BlockTokens
  BY <1>2, Position, Zenon
<1>4. w \in Nat /\ BlockTokens \in Nat \ {0} /\ x \in Nat
  <2>1. w \in Nat
    BY <1>3
  <2>. HIDE DEF w
  <2>. QED
    BY <2>1, WholePageCount, ManagerAssumption
<1>5. n \in x + 1 .. Len(h)
  OBVIOUS
<1>6. PagesFor(n) = w + 1
  <2>1. n \in Nat /\ x < n /\ n <= x + BlockTokens
    <3>. HIDE DEF x, w
    <3>. QED
      BY <1>2, <1>3, <1>4, <1>5
  <2>. HIDE DEF w
  <2>. QED
    BY <1>4, <2>1, PagesBetween
<1>7. PagesFor(n) = PagesFor(Len(h))
  BY <1>3, <1>6
<1>8. n \in 1 .. Len(h)
  <2>. HIDE DEF x
  <2>. QED
    BY <1>2, <1>4, <1>5
<1>. QED
  BY <1>1, <1>7, <1>8 DEF Files

\* Every page that ExactPrefixCache leases still holds the KV of the history it is filed
\* under, whatever was appended in place, copied on write, rolled back or evicted since.
THEOREM IndexAlwaysHoldsItsHistory == Spec => []IndexHoldsItsHistory
<1>1. HInv => IndexHoldsItsHistory
  BY IndexIsTrue
<1>. QED
  BY <1>1, HistoryInvariance, PTL

\* The store of private histories, as it follows from the tokens alone.
Histories == [id \in DOMAIN sequences |-> Private!Holding(sequences[id].tokens)]

\* What the committed readers find is the store of private histories.
LEMMA StoreHoldsHistories == HInv => CommittedStore = Histories
<1>. SUFFICES ASSUME HInv PROVE CommittedStore = Histories
  OBVIOUS
<1>1. ASSUME NEW id \in DOMAIN sequences
      PROVE  ReadKV(CommittedTable(id), Used(id)) = Private!CausalRow(sequences[id].tokens)
  <2>. DEFINE blocks == CommittedTable(id)
              tokens == sequences[id].tokens
              u      == Used(id)
  <2>1. Reads(payload, blocks, tokens) /\ u = Len(tokens) /\ u \in Nat
    BY DEF HInv, TablesTrue, Used, IInv, TypeOK, History
  <2>. HIDE DEF blocks, tokens, u
  <2>2. ASSUME NEW n \in 1 .. u PROVE payload[PageOf(blocks, n)][SlotOf(n)] = SubSeq(tokens, 1, n)
    <3>1. n \in Nat \ {0}
      BY <2>1
    <3>2. PageOf(blocks, n) = blocks[PagesFor(n)]
      BY <3>1, Position, Zenon
    <3>. QED
      BY <2>1, <3>2 DEF Reads, KVAt, Prefix
  <2>3. ReadKV(blocks, u) = Private!CausalRow(tokens)
    BY <2>1, <2>2 DEF ReadKV, Private!CausalRow
  <2>. QED
    BY <2>3 DEF blocks, tokens, u
<1>. QED
  BY <1>1 DEF CommittedStore, Histories, Private!Holding

\* At the start there is no sequence and no history.
LEMMA StoreStartsEmpty == Init => Private!Init
<1>. SUFFICES ASSUME Init PROVE CommittedStore = <<>>
  BY DEF Private!Init
<1>1. DOMAIN sequences = {}
  BY DEF Init
<1>. QED
  BY <1>1 DEF CommittedStore

\* A step that leaves every sequence's tokens alone.
LEMMA SameHistories ==
  ASSUME DOMAIN sequences' = DOMAIN sequences,
         \A id \in DOMAIN sequences : sequences'[id].tokens = sequences[id].tokens
  PROVE  Histories' = Histories
BY DEF Histories

\* A step that gives one sequence other tokens.
LEMMA OneHistory ==
  ASSUME NEW id \in DOMAIN sequences, DOMAIN sequences' = DOMAIN sequences,
         \A j \in DOMAIN sequences \ {id} : sequences'[j] = sequences[j]
  PROVE  Histories' = [Histories EXCEPT ![id] = Private!Holding(sequences'[id].tokens)]
BY DEF Histories

\* The subset of a store a removal leaves.
LEMMA FewerHistories ==
  ASSUME NEW ids, DOMAIN sequences' = DOMAIN sequences \ ids,
         \A id \in DOMAIN sequences' : sequences'[id] = sequences[id]
  PROVE  Histories' = [i \in DOMAIN Histories \ ids |-> Histories[i]]
BY DEF Histories

\* append: the tokens of one sequence grow behind what they were.
LEMMA GrowHistories ==
  ASSUME CommittedStore = Histories, CommittedStore' = Histories',
         NEW id \in DOMAIN sequences, DOMAIN sequences' = DOMAIN sequences,
         \A j \in DOMAIN sequences \ {id} : sequences'[j] = sequences[j],
         Len(sequences'[id].tokens) \in Len(sequences[id].tokens) .. Context,
         Prefix(sequences'[id].tokens, Len(sequences[id].tokens)) = sequences[id].tokens
  PROVE  Private!Next
<1>. DEFINE h == sequences'[id].tokens
<1>2. Histories' = [Histories EXCEPT ![id] = Private!Holding(h)]
  BY OneHistory
<1>3. /\ DOMAIN Histories = DOMAIN sequences /\ DOMAIN Histories' = DOMAIN sequences
      /\ Histories[id].tokens = sequences[id].tokens /\ Histories'[id].tokens = h
  BY DEF Histories, Private!Holding
<1>4. Private!Grow(id)
  BY <1>2, <1>3 DEF Private!Grow, Prefix
<1>. QED
  BY <1>3, <1>4 DEF Private!Next

\* Every step is one of private histories, or changes none of them.
LEMMA NextPrivate ==
  ASSUME HInv, CommittedStore = Histories, CommittedStore' = Histories', [Next]_vars
  PROVE  [Private!Next]_CommittedStore
<1>0. /\ DOMAIN Histories = DOMAIN sequences /\ DOMAIN Histories' = DOMAIN sequences'
      /\ \A id \in DOMAIN sequences : Histories[id] = Private!Holding(sequences[id].tokens)
      /\ \A id \in DOMAIN sequences' : Histories'[id] = Private!Holding(sequences'[id].tokens)
  BY DEF Histories
<1>1. CASE UNCHANGED vars
  BY <1>1, SameHistories DEF vars
<1>2. ASSUME UNCHANGED sequences PROVE [Private!Next]_CommittedStore
  BY <1>2, SameHistories
<1>3. ASSUME NEW id \in Id, Create(id) PROVE [Private!Next]_CommittedStore
  <2>1. id \notin DOMAIN sequences /\ sequences' = With(sequences, id, EmptySequence)
    BY <1>3 DEF Create
  <2>2. /\ DOMAIN sequences' = DOMAIN sequences \cup {id}
        /\ sequences'[id].tokens = <<>>
        /\ \A j \in DOMAIN sequences : sequences'[j] = sequences[j]
    BY <2>1 DEF With, EmptySequence
  <2>3. Histories' = [i \in DOMAIN Histories \cup {id} |->
                         IF i = id THEN Private!Holding(<<>>) ELSE Histories[i]]
    BY <2>1, <2>2 DEF Histories
  <2>4. Private!Start(id)
    BY <1>0, <2>1, <2>3 DEF Private!Start
  <2>. QED
    BY <2>4 DEF Private!Next
<1>4. ASSUME NEW source \in DOMAIN sequences, NEW target \in DOMAIN sequences,
             ForkSequence(source, target)
      PROVE  [Private!Next]_CommittedStore
  <2>1. Empty(sequences[target]) /\ sequences' = [sequences EXCEPT ![target] = sequences[source]]
    BY <1>4 DEF ForkSequence
  <2>2. Histories' = [Histories EXCEPT ![target] = Histories[source]]
    BY <2>1 DEF Histories
  <2>3. Histories[target] = Private!Holding(<<>>)
    BY <1>0, <2>1 DEF Empty
  <2>4. Private!Fork(source, target)
    BY <2>2, <2>3 DEF Private!Fork
  <2>. QED
    BY <1>0, <2>4 DEF Private!Next
<1>5. ASSUME NEW id \in DOMAIN sequences, NEW prompt \in Prompts, ReusePrefix(id, prompt)
      PROVE  [Private!Next]_CommittedStore
  <2>. DEFINE count == Walk(prompt).count
  <2>1. \/ sequences' = sequences
        \/ \E blocks : sequences' = [sequences EXCEPT ![id] =
                                       [blocks |-> blocks, tokens |-> Prefix(prompt, count)]]
    BY <1>5 DEF ReusePrefix
  <2>2. Empty(sequences[id]) /\ prompt # <<>> /\ prompt \in History /\ Len(prompt) <= Context
    BY <1>5, PromptType DEF ReusePrefix, Prompts
  <2>3. count \in 0 .. Len(prompt) /\ Len(prompt) \in Nat
    BY <2>2, WalkOK DEF HInv, History
  <2>. HIDE DEF count
  <2>4. Prefix(prompt, count) \in History /\ Len(Prefix(prompt, count)) = count
    BY <2>2, <2>3, PrefixType
  <2>5. sequences[id].tokens = <<>> /\ Len(sequences[id].tokens) = 0
    BY <2>2 DEF Empty
  <2>6. ASSUME NEW blocks, sequences' = [sequences EXCEPT ![id] =
                                           [blocks |-> blocks, tokens |-> Prefix(prompt, count)]]
        PROVE  Private!Next
    <3>1. /\ DOMAIN sequences' = DOMAIN sequences
          /\ sequences'[id].tokens = Prefix(prompt, count)
          /\ \A j \in DOMAIN sequences \ {id} : sequences'[j] = sequences[j]
      BY <2>6
    <3>2. Len(sequences'[id].tokens) \in Len(sequences[id].tokens) .. Context
      BY <2>2, <2>3, <2>4, <2>5, <3>1, ManagerAssumption
    <3>3. Prefix(sequences'[id].tokens, Len(sequences[id].tokens)) = sequences[id].tokens
      <4>1. 0 \in Int /\ 1 \in Int /\ 0 < 1
        OBVIOUS
      <4>2. SubSeq(sequences'[id].tokens, 1, 0) = <<>>
        BY <4>1, SubSeqEmpty, Zenon
      <4>. QED
        BY <2>5, <4>2 DEF Prefix
    <3>. QED
      BY <3>1, <3>2, <3>3, GrowHistories
  <2>7. CASE sequences' = sequences
    BY <1>2, <2>7
  <2>. QED
    BY <2>1, <2>6, <2>7
<1>6. ASSUME NEW id \in DOMAIN sequences, ResetSequence(id) \/ Release(id)
      PROVE  [Private!Next]_CommittedStore
  <2>1. CASE ResetSequence(id)
    <3>1. sequences' = [sequences EXCEPT ![id] = EmptySequence]
      BY <2>1 DEF ResetSequence
    <3>2. Histories' = [Histories EXCEPT ![id] = Private!Holding(<<>>)]
      BY <3>1 DEF Histories, EmptySequence
    <3>3. Private!Reset(id)
      BY <3>2 DEF Private!Reset
    <3>. QED
      BY <1>0, <3>3 DEF Private!Next
  <2>2. CASE Release(id)
    <3>1. sequences' = Without(sequences, {id})
      BY <2>2 DEF Release
    <3>2. Private!Remove({id})
      BY <3>1, FewerHistories DEF Without, Private!Remove
    <3>. QED
      BY <1>0, <3>2 DEF Private!Next
  <2>. QED
    BY <1>6, <2>1, <2>2
<1>7. ASSUME Clear PROVE [Private!Next]_CommittedStore
  <2>1. DOMAIN sequences' = DOMAIN sequences \ DOMAIN sequences
    BY <1>7 DEF Clear
  <2>2. Histories' = [i \in DOMAIN Histories \ DOMAIN sequences |-> Histories[i]]
    BY <2>1, FewerHistories
  <2>3. Private!Remove(DOMAIN CommittedStore)
    BY <1>0, <2>2 DEF Private!Remove
  <2>. QED
    BY <2>3 DEF Private!Next
<1>8. ASSUME NEW id \in DOMAIN appends, Commit(id) PROVE [Private!Next]_CommittedStore
  <2>. DEFINE tokens == sequences[id].tokens
              input  == appends[id].input
  <2>1. /\ id \in DOMAIN sequences /\ tokens \in History /\ input \in History
        /\ sequences[id] \in [blocks : Seq(Page), tokens : History]
        /\ Len(tokens) + Len(input) <= Context
    BY OpenTransaction DEF HInv, IInv, TypeOK, AppendShape, Used
  <2>2. sequences' = [sequences EXCEPT ![id].tokens = tokens \o input]
    BY <1>8 DEF Commit
  <2>3. /\ DOMAIN sequences' = DOMAIN sequences /\ sequences'[id].tokens = tokens \o input
        /\ \A j \in DOMAIN sequences \ {id} : sequences'[j] = sequences[j]
    BY <2>1, <2>2
  <2>. HIDE DEF tokens, input
  <2>4. Len(tokens) \in 0 .. Len(tokens) /\ Len(tokens) \in Nat /\ Len(input) \in Nat
    BY <2>1 DEF History
  <2>5. Len(tokens \o input) = Len(tokens) + Len(input)
        /\ Prefix(tokens \o input, Len(tokens)) = tokens
    BY <2>1, <2>4, PrefixOfConcat, PrefixWhole
  <2>6. Len(sequences'[id].tokens) \in Len(tokens) .. Context
    BY <2>1, <2>3, <2>4, <2>5, ManagerAssumption
  <2>7. Private!Next
    BY <2>1, <2>3, <2>5, <2>6, GrowHistories DEF tokens
  <2>. QED
    BY <2>7
<1>9. ASSUME NEW id \in DOMAIN appends, Rollback(id) PROVE [Private!Next]_CommittedStore
  <2>1. id \in DOMAIN sequences /\ sequences[id] \in [blocks : Seq(Page), tokens : History]
    BY OpenTransaction DEF HInv, IInv, TypeOK
  <2>2. sequences' = [sequences EXCEPT ![id].blocks = OriginalBlocks(id)]
    BY <1>9 DEF Rollback
  <2>. QED
    BY <2>1, <2>2, SameHistories
<1>10. ASSUME NEW id \in DOMAIN sequences, NEW input, PrepareAppend(id, input)
       PROVE  [Private!Next]_CommittedStore
  <2>1. sequences[id] \in [blocks : Seq(Page), tokens : History]
    BY DEF HInv, IInv, TypeOK
  <2>2. \E table : sequences' = [sequences EXCEPT ![id].blocks = table]
    BY <1>10 DEF PrepareAppend
  <2>3. PICK table : sequences' = [sequences EXCEPT ![id].blocks = table]
    BY <2>2
  <2>. QED
    BY <2>1, <2>3, SameHistories
<1>11. ASSUME NEW id, \/ CachePrefix(id) \/ PublishKnown(id) \/ PublishNew(id) \/ PublishFails(id)
                      \/ CopySharedTail(id) \/ WriteToken(id) \/ ReleaseReservation(id)
                      \/ \E n : ReserveRequest(id, n) \/ PrepareExhausted(id, n)
       PROVE  [Private!Next]_CommittedStore
  BY <1>2, <1>11 DEF CachePrefix, PublishKnown, PublishNew, PublishFails, CopySharedTail,
                     WriteToken, ReleaseReservation, ReserveRequest, PrepareExhausted
<1>12. ASSUME ClearPrefixCache PROVE [Private!Next]_CommittedStore
  BY <1>2, <1>12 DEF ClearPrefixCache
<1>. QED
  BY <1>1, <1>3, <1>4, <1>5, <1>6, <1>7, <1>8, <1>9, <1>10, <1>11, <1>12 DEF Next

\* The manager implements private histories: however its pages are shared, copied, undone
\* and evicted, each sequence behaves as if it had its KV for itself.
THEOREM HistoriesStayPrivate == Spec => ImplementsPrivateHistories
<1>1. HInv => CommittedStore = Histories
  BY StoreHoldsHistories
<1>2. Init => Private!Init
  BY StoreStartsEmpty
<1>3. HInv /\ CommittedStore = Histories /\ (CommittedStore = Histories)' /\ [Next]_vars
         => [Private!Next]_CommittedStore
  BY NextPrivate
<1>. QED
  BY <1>1, <1>2, <1>3, HistoryInvariance, PTL DEF Spec, ImplementsPrivateHistories, Private!Spec

------------------------------------------------------------------------------
\* The CUDA runner: the inductive invariant

\* The first n entries of a device table are those of the sequence.
DeviceHolds(id, n) ==
    \A i \in 1 .. n : i \in DOMAIN device[id] /\ device[id][i] = sequences[id].blocks[i]

\* What is known of a device table: all of it is current, or it is marked dirty,
\* or the open append has yet to upload the entries from the first stale one on.
TableKnown(id) ==
    \/ DeviceHolds(id, Len(sequences[id].blocks))
    \/ id \in dirty \ DOMAIN appends
    \/ id \in DOMAIN appends /\ ~uploaded /\ DeviceHolds(id, FirstStale(id) - 1)

DInv ==
    /\ IInv
    /\ DOMAIN device = DOMAIN sequences
    /\ DOMAIN appends = {} => ~uploaded
    /\ \A id \in DOMAIN sequences : TableKnown(id)

\* The block table of a live sequence.
LEMMA BlocksType ==
  ASSUME IInv, NEW id \in DOMAIN sequences
  PROVE  /\ sequences[id].blocks \in Seq(Page)
         /\ Len(sequences[id].blocks) \in Nat
         /\ DOMAIN sequences[id].blocks = 1 .. Len(sequences[id].blocks)
BY DEF IInv, TypeOK

\* The invariant says that the kernels find current tables.
LEMMA KnownIsCurrent == DInv => DeviceTablesCurrent
<1>. SUFFICES ASSUME DInv PROVE DeviceTablesCurrent
  OBVIOUS
<1>1. ASSUME NEW id \in DOMAIN sequences,
             DeviceHolds(id, Len(sequences[id].blocks))
      PROVE  LET blocks == sequences[id].blocks
             IN  /\ DOMAIN blocks \subseteq DOMAIN device[id]
                 /\ \A i \in DOMAIN blocks : device[id][i] = blocks[i]
  BY <1>1, BlocksType DEF DInv, DeviceHolds
<1>. QED
  BY <1>1 DEF DInv, TableKnown, DeviceTablesCurrent

\* Without an open transaction a table is current or marked dirty.
LEMMA CleanTables ==
  ASSUME DInv, Idle, NEW id \in DOMAIN sequences
  PROVE  DeviceHolds(id, Len(sequences[id].blocks)) \/ id \in dirty
BY DEF DInv, TableKnown, Idle

\* Every page is free, no sequence is live and nothing is uploaded.
LEMMA InitDInv == RunnerInit => DInv
<1>. SUFFICES ASSUME RunnerInit PROVE DInv
  OBVIOUS
<1>1. IInv /\ DOMAIN sequences = {} /\ DOMAIN device = {} /\ ~uploaded
  BY InitIInv DEF RunnerInit, Init
<1>. QED
  BY <1>1 DEF DInv

\* A table whose device copy and block table a step leaves alone stays known.
LEMMA SameTable ==
  ASSUME NEW id, TableKnown(id),
         device'[id] = device[id], sequences'[id].blocks = sequences[id].blocks,
         id \in dirty => id \in dirty',
         UNCHANGED uploaded,
         id \in DOMAIN appends <=> id \in DOMAIN appends',
         id \in DOMAIN appends =>
            /\ appends'[id].original = appends[id].original
            /\ appends'[id].copy = appends[id].copy
            /\ id \in dirty' => id \in dirty
  PROVE  TableKnown(id)'
<1>1. ASSUME NEW n, DeviceHolds(id, n) PROVE DeviceHolds(id, n)'
  BY <1>1 DEF DeviceHolds
<1>2. CASE DeviceHolds(id, Len(sequences[id].blocks))
  BY <1>2 DEF TableKnown, DeviceHolds
<1>3. CASE id \in dirty \ DOMAIN appends
  BY <1>3 DEF TableKnown
<1>4. CASE id \in DOMAIN appends /\ ~uploaded /\ DeviceHolds(id, FirstStale(id) - 1)
  <2>1. FirstStale(id)' = FirstStale(id)
    BY <1>4 DEF FirstStale
  <2>2. DeviceHolds(id, FirstStale(id) - 1)'
    BY <1>4, <2>1 DEF DeviceHolds
  <2>. QED
    BY <1>4, <2>2 DEF TableKnown
<1>. QED
  BY <1>2, <1>3, <1>4 DEF TableKnown

------------------------------------------------------------------------------
\* Calls that leave the device tables alone

\* The calls the runner hands on move no entry of a block table.
LEMMA ManagePreserves ==
  ASSUME DInv, Manage
  PROVE  DInv'
<1>1. IInv'
  <2>1. Next
    BY DEF Manage, Next
  <2>. QED
    BY <2>1, NextIInv DEF DInv
<1>2. CASE UNCHANGED <<sequences, appends>>
  <2>1. UNCHANGED deviceVars
    BY DEF Manage
  <2>2. \A id \in DOMAIN sequences : TableKnown(id)'
    BY <1>2, <2>1, SameTable DEF DInv, deviceVars
  <2>. QED
    BY <1>1, <1>2, <2>1, <2>2 DEF DInv, deviceVars
<1>3. ASSUME NEW id \in DOMAIN appends, CopySharedTail(id) PROVE DInv'
  <2>1. UNCHANGED deviceVars /\ UNCHANGED sequences /\ DOMAIN appends' = DOMAIN appends
    BY <1>3 DEF Manage, CopySharedTail
  <2>2. \A i \in DOMAIN appends : appends'[i].original = appends[i].original
                                  /\ appends'[i].copy = appends[i].copy
    <3>1. appends[id] \in [input : History, original : Nat,
                           copy : Seq([source : Page, destination : Page, valid : Nat]),
                           copied : BOOLEAN, written : Nat]
      BY OpenTransaction DEF DInv
    <3>2. appends' = [appends EXCEPT ![id] = [appends[id] EXCEPT !.copied = TRUE]]
      BY <1>3 DEF CopySharedTail
    <3>. QED
      BY <3>1, <3>2
  <2>3. \A i \in DOMAIN sequences : TableKnown(i)'
    BY <2>1, <2>2, SameTable DEF DInv, deviceVars
  <2>. QED
    BY <1>1, <2>1, <2>3 DEF DInv, deviceVars
<1>4. UNCHANGED <<sequences, appends>> \/ \E id \in DOMAIN appends : CopySharedTail(id)
  BY DEF Manage, ReserveRequest, ReleaseReservation, CachePrefix, PublishKnown, PublishNew,
         PublishFails, ClearPrefixCache, PrepareExhausted
<1>. QED
  BY <1>2, <1>3, <1>4

------------------------------------------------------------------------------
\* Sequences

\* A new sequence has an empty table, on the host and on the device.
LEMMA RunnerCreatePreserves ==
  ASSUME DInv, NEW id \in Id, RunnerCreate(id)
  PROVE  DInv'
<1>1. IInv'
  BY CreatePreserves DEF DInv, RunnerCreate
<1>2. /\ DOMAIN sequences' = DOMAIN sequences \cup {id} /\ id \notin DOMAIN sequences
      /\ sequences'[id].blocks = <<>>
      /\ \A i \in DOMAIN sequences : sequences'[i] = sequences[i]
      /\ UNCHANGED <<appends, dirty, uploaded>>
      /\ DOMAIN device' = DOMAIN device \cup {id}
      /\ \A i \in DOMAIN device \ {id} : device'[i] = device[i]
  BY DEF RunnerCreate, Create, With, EmptySequence
<1>3. TableKnown(id)'
  BY <1>2 DEF TableKnown, DeviceHolds
<1>4. ASSUME NEW i \in DOMAIN sequences PROVE TableKnown(i)'
  BY <1>2, <1>4, SameTable DEF DInv
<1>. QED
  BY <1>1, <1>2, <1>3, <1>4 DEF DInv

\* The device table of a fork is marked dirty.
LEMMA RunnerForkPreserves ==
  ASSUME DInv, NEW source \in DOMAIN sequences, NEW target \in DOMAIN sequences,
         RunnerFork(source, target)
  PROVE  DInv'
<1>1. IInv'
  BY ForkSequencePreserves DEF DInv, RunnerFork
<1>2. /\ DOMAIN sequences' = DOMAIN sequences /\ DOMAIN appends = {}
      /\ \A i \in DOMAIN sequences \ {target} : sequences'[i] = sequences[i]
      /\ UNCHANGED <<appends, device, uploaded>> /\ dirty' = dirty \cup {target}
  BY DEF RunnerFork, ForkSequence, Idle
<1>3. TableKnown(target)'
  BY <1>2 DEF TableKnown
<1>4. ASSUME NEW i \in DOMAIN sequences \ {target} PROVE TableKnown(i)'
  BY <1>2, <1>4, SameTable DEF DInv
<1>. QED
  BY <1>1, <1>2, <1>3, <1>4 DEF DInv

\* An upload leaves the other tables alone, overwrites its entries and keeps the rest.
LEMMA UploadedTable ==
  ASSUME NEW id \in DOMAIN device, NEW entries
  PROVE  /\ DOMAIN Uploaded(id, entries) = DOMAIN device
         /\ \A i \in DOMAIN device \ {id} : Uploaded(id, entries)[i] = device[i]
         /\ DOMAIN Uploaded(id, entries)[id] = DOMAIN entries \cup DOMAIN device[id]
         /\ \A e \in DOMAIN entries : Uploaded(id, entries)[id][e] = entries[e]
         /\ \A e \in DOMAIN device[id] \ DOMAIN entries :
               Uploaded(id, entries)[id][e] = device[id][e]
<1>. DEFINE table == [e \in DOMAIN entries \cup DOMAIN device[id] |->
                        IF e \in DOMAIN entries THEN entries[e] ELSE device[id][e]]
<1>1. Uploaded(id, entries) = [device EXCEPT ![id] = table]
  BY DEF Uploaded
<1>2. Uploaded(id, entries)[id] = table
  BY <1>1
<1>. QED
  BY <1>1, <1>2

\* The pages of a prefix that was found are uploaded at once.
LEMMA RunnerReusePreserves ==
  ASSUME DInv, NEW id \in DOMAIN sequences, NEW prompt \in Prompts, RunnerReuse(id, prompt)
  PROVE  DInv'
<1>1. IInv'
  BY ReusePrefixPreserves DEF DInv, RunnerReuse
<1>2. /\ DOMAIN sequences' = DOMAIN sequences
      /\ \A i \in DOMAIN sequences \ {id} : sequences'[i] = sequences[i]
      /\ UNCHANGED <<appends, dirty, uploaded>>
  <2>. DEFINE pages == [i \in 1 .. Len(Walk(prompt).nodes) |-> lease[Walk(prompt).nodes[i]]]
              found == [blocks |-> pages, tokens |-> Prefix(prompt, Walk(prompt).count)]
  <2>1. ReusePrefix(id, prompt) /\ UNCHANGED <<dirty, uploaded>>
    BY DEF RunnerReuse
  <2>2. /\ sequences' = sequences \/ sequences' = [sequences EXCEPT ![id] = found]
        /\ UNCHANGED appends
    BY <2>1 DEF ReusePrefix
  <2>. HIDE DEF found
  <2>. QED
    BY <2>1, <2>2
<1>. DEFINE blocks == sequences'[id].blocks
<1>3. blocks \in Seq(Page) /\ Len(blocks) \in Nat
  BY <1>1, <1>2 DEF IInv, TypeOK
<1>4. device' = Uploaded(id, Entries(blocks, 1)) /\ id \in DOMAIN device
  BY DEF RunnerReuse, DInv
<1>5. /\ DOMAIN device' = DOMAIN device
      /\ \A i \in DOMAIN device \ {id} : device'[i] = device[i]
      /\ \A e \in 1 .. Len(blocks) : e \in DOMAIN device'[id] /\ device'[id][e] = blocks[e]
  <2>1. /\ DOMAIN Entries(blocks, 1) = 1 .. Len(blocks)
        /\ \A e \in 1 .. Len(blocks) : Entries(blocks, 1)[e] = blocks[e]
    BY DEF Entries
  <2>. QED
    BY <1>4, <2>1, UploadedTable
<1>6. TableKnown(id)'
  BY <1>5 DEF TableKnown, DeviceHolds
<1>7. ASSUME NEW i \in DOMAIN sequences \ {id} PROVE TableKnown(i)'
  BY <1>2, <1>5, <1>7, SameTable DEF DInv
<1>. QED
  BY <1>1, <1>2, <1>5, <1>6, <1>7 DEF DInv

\* A reuse whose upload fails leaves the sequence empty, whatever its table holds.
LEMMA RunnerReuseFailsPreserves ==
  ASSUME DInv, NEW id \in DOMAIN sequences, NEW prompt, RunnerReuseFails(id, prompt)
  PROVE  DInv'
<1>1. /\ UNCHANGED <<pool, sequences, reservations, lease, appends, publishing, payload,
                     dirty, uploaded>>
      /\ sequences[id].blocks = <<>>
  BY DEF RunnerReuseFails, Empty
<1>2. IInv'
  <2>1. Leases' = Leases
    BY <1>1 DEF Leases, AllSequenceLeases, SequenceLeases, CacheLeases, AllAppendLeases,
                AppendLeases
  <2>2. TypeOK'
    BY <1>1 DEF DInv, IInv, TypeOK, Leased
  <2>3. TablesOK' /\ TransactionOK' /\ PublishingOK'
    BY <1>1 DEF DInv, IInv, TablesOK, TransactionOK, PublishingOK, PublishCount, Used
  <2>. QED
    BY <1>1, <2>1, <2>2, <2>3, SameLeases DEF DInv, IInv
<1>3. DOMAIN device' = DOMAIN device /\ \A i \in DOMAIN device \ {id} : device'[i] = device[i]
  <2>1. id \in DOMAIN device
    BY DEF DInv
  <2>. QED
    BY <2>1, UploadedTable DEF RunnerReuseFails
<1>4. TableKnown(id)'
  BY <1>1 DEF TableKnown, DeviceHolds
<1>5. ASSUME NEW i \in DOMAIN sequences \ {id} PROVE TableKnown(i)'
  BY <1>1, <1>3, <1>5, SameTable DEF DInv
<1>. QED
  BY <1>1, <1>2, <1>3, <1>4, <1>5 DEF DInv

\* A released sequence takes its table and its mark with it.
LEMMA RunnerReleasePreserves ==
  ASSUME DInv, NEW id \in DOMAIN sequences, RunnerRelease(id)
  PROVE  DInv'
<1>1. IInv'
  BY ReleasePreserves DEF DInv, RunnerRelease
<1>2. /\ DOMAIN sequences' = DOMAIN sequences \ {id} /\ DOMAIN appends = {}
      /\ \A i \in DOMAIN sequences \ {id} : sequences'[i] = sequences[i]
      /\ UNCHANGED <<appends, uploaded>> /\ dirty' = dirty \ {id}
      /\ DOMAIN device' = DOMAIN device \ {id}
      /\ \A i \in DOMAIN device \ {id} : device'[i] = device[i]
  BY DEF RunnerRelease, Release, Without, Idle
<1>3. ASSUME NEW i \in DOMAIN sequences \ {id} PROVE TableKnown(i)'
  BY <1>2, <1>3, SameTable DEF DInv
<1>. QED
  BY <1>1, <1>2, <1>3 DEF DInv

\* clear leaves no sequence and no table.
LEMMA RunnerClearPreserves ==
  ASSUME DInv, RunnerClear
  PROVE  DInv'
<1>1. IInv'
  BY ClearPreserves DEF DInv, RunnerClear
<1>2. /\ DOMAIN sequences' = {} /\ DOMAIN device' = {}
      /\ UNCHANGED <<appends, uploaded>>
  BY DEF RunnerClear, Clear
<1>. QED
  BY <1>1, <1>2 DEF DInv

------------------------------------------------------------------------------
\* Appends

\* An append that was prepared changes its table from the replaced tail on, or
\* behind the old entries.
LEMMA RunnerPreparePreserves ==
  ASSUME DInv, NEW id \in DOMAIN sequences, NEW input \in Inputs(id),
         ValidAppend(id, input), RunnerPrepare(id, input)
  PROVE  DInv'
<1>. DEFINE old == sequences[id].blocks
            new == sequences'[id].blocks
            t   == appends'[id]
<1>1. IInv' /\ IInv
  BY PrepareAppendPreserves DEF DInv, RunnerPrepare
<1>2. PICK k, required, needed, fresh, blocks, N, valid, copy, table :
         Prepared(id, input, k, required, needed, fresh, blocks, N, valid, copy, table)
  BY <1>1, PrepareAppendPieces DEF RunnerPrepare
<1>3. /\ blocks = old /\ N = Len(old) /\ N \in Nat
      /\ \A i \in 1 .. N : table[i] = IF needed # required /\ i = N THEN fresh[needed] ELSE old[i]
      /\ table = NewBlocks(blocks, required, needed, fresh)
      /\ copy = <<>> <=> needed = required
  <2>1. /\ blocks = old /\ N = Len(old)
        /\ copy = IF needed = required THEN <<>>
                  ELSE <<[source |-> blocks[N], destination |-> fresh[needed], valid |-> valid]>>
        /\ table = (IF copy = <<>> THEN blocks ELSE [blocks EXCEPT ![N] = fresh[needed]])
                   \o [i \in 1 .. required |-> fresh[i]]
    BY <1>2 DEF Prepared
  <2>2. copy = <<>> <=> needed = required
    BY <2>1
  <2>3. table = NewBlocks(blocks, required, needed, fresh)
    BY <2>1, <2>2 DEF NewBlocks
  <2>4. \A i \in 1 .. Len(blocks) :
           NewBlocks(blocks, required, needed, fresh)[i] =
              IF needed # required /\ i = Len(blocks) THEN fresh[needed] ELSE blocks[i]
    BY <1>1, <1>2, PreparedTable
  <2>5. N \in Nat
    BY <1>1, <2>1, BlocksType
  <2>. QED
    BY <2>1, <2>2, <2>3, <2>4, <2>5
<1>4. /\ Idle /\ DOMAIN appends = {}
      /\ sequences' = [sequences EXCEPT ![id].blocks = table]
      /\ appends' = With(<<>>, id, [input |-> input, original |-> N, copy |-> copy,
                                   copied |-> FALSE, written |-> 0])
      /\ UNCHANGED deviceVars
  BY <1>2 DEF Prepared, RunnerPrepare, Idle
<1>5. /\ DOMAIN sequences' = DOMAIN sequences /\ new = table
      /\ \A i \in DOMAIN sequences \ {id} : sequences'[i] = sequences[i]
  <2>1. sequences[id] \in [blocks : Seq(Page), tokens : History]
    BY <1>1 DEF IInv, TypeOK
  <2>2. sequences' = [sequences EXCEPT ![id] = [sequences[id] EXCEPT !.blocks = table]]
    BY <1>4
  <2>. QED
    BY <2>1, <2>2
<1>6. DOMAIN appends' = {id} /\ t.original = N /\ t.copy = copy
  BY <1>4 DEF With
<1>7. ~uploaded' /\ UNCHANGED <<device, dirty, uploaded>>
  BY <1>4 DEF DInv, deviceVars
<1>8. TableKnown(id)'
  <2>1. CASE id \in dirty
    <3>1. FirstStale(id)' = 1
      BY <1>7, <2>1 DEF FirstStale
    <3>2. DeviceHolds(id, FirstStale(id) - 1)'
      BY <3>1 DEF DeviceHolds
    <3>. QED
      BY <1>6, <1>7, <3>2 DEF TableKnown
  <2>2. CASE id \notin dirty
    <3>1. \A i \in 1 .. N : i \in DOMAIN device[id] /\ device[id][i] = old[i]
      BY <1>3, <1>4, <2>2, CleanTables DEF DeviceHolds
    <3>2. CASE copy = <<>>
      <4>1. FirstStale(id)' = N + 1
        BY <1>6, <1>7, <2>2, <3>2 DEF FirstStale
      <4>2. DeviceHolds(id, FirstStale(id) - 1)'
        BY <1>3, <1>5, <1>7, <3>1, <3>2, <4>1 DEF DeviceHolds
      <4>. QED
        BY <1>6, <1>7, <4>2 DEF TableKnown
    <3>3. CASE copy # <<>>
      <4>1. FirstStale(id)' = N
        BY <1>6, <1>7, <2>2, <3>3 DEF FirstStale
      <4>2. DeviceHolds(id, FirstStale(id) - 1)'
        BY <1>3, <1>5, <1>7, <3>1, <4>1 DEF DeviceHolds
      <4>. QED
        BY <1>6, <1>7, <4>2 DEF TableKnown
    <3>. QED
      BY <3>2, <3>3
  <2>. QED
    BY <2>1, <2>2
<1>9. ASSUME NEW i \in DOMAIN sequences \ {id} PROVE TableKnown(i)'
  BY <1>4, <1>5, <1>6, <1>7, <1>9, SameTable DEF DInv
<1>. QED
  BY <1>1, <1>5, <1>6, <1>7, <1>8, <1>9 DEF DInv

\* The upload brings the table up to date: what it leaves out is current.
LEMMA UploadTablePreserves ==
  ASSUME DInv, NEW id \in DOMAIN appends, UploadTable(id)
  PROVE  DInv'
<1>. DEFINE blocks == sequences[id].blocks
            first  == FirstStale(id)
<1>1. /\ UNCHANGED <<vars, dirty>> /\ uploaded' = TRUE /\ ~uploaded
      /\ device' = Uploaded(id, Entries(blocks, first))
      /\ id \in DOMAIN sequences /\ id \in DOMAIN device /\ DOMAIN appends = {id}
  BY OpenTransaction DEF UploadTable, DInv
<1>2. UNCHANGED <<sequences, appends>> /\ IInv'
  <2>1. UNCHANGED vars
    BY <1>1
  <2>. QED
    BY <2>1, NextIInv DEF DInv, vars
<1>3. blocks \in Seq(Page) /\ Len(blocks) \in Nat
  BY <1>1, BlocksType DEF DInv
<1>4. first \in Nat \ {0} /\ first <= Len(blocks) + 1
  <2>1. /\ appends[id].original \in Nat /\ appends[id].original <= Len(blocks)
        /\ appends[id].copy # <<>> => appends[id].original > 0
    BY DEF DInv, IInv, TransactionOK
  <2>. QED
    BY <1>3, <2>1 DEF FirstStale
<1>5. DeviceHolds(id, first - 1)
  <2>1. CASE DeviceHolds(id, Len(blocks))
    BY <1>3, <1>4, <2>1 DEF DeviceHolds
  <2>2. CASE DeviceHolds(id, FirstStale(id) - 1)
    BY <2>2
  <2>. QED
    BY <1>1, <2>1, <2>2 DEF DInv, TableKnown
<1>. HIDE DEF first
<1>6. /\ DOMAIN device' = DOMAIN device
      /\ \A i \in DOMAIN device \ {id} : device'[i] = device[i]
      /\ \A i \in 1 .. Len(blocks) : i \in DOMAIN device'[id] /\ device'[id][i] = blocks[i]
  <2>. DEFINE entries == Entries(blocks, first)
  <2>1. /\ DOMAIN entries = first .. Len(blocks)
        /\ \A e \in first .. Len(blocks) : entries[e] = blocks[e]
    BY DEF Entries
  <2>. HIDE DEF entries
  <2>2. /\ DOMAIN device' = DOMAIN device
        /\ \A i \in DOMAIN device \ {id} : device'[i] = device[i]
        /\ DOMAIN device'[id] = DOMAIN entries \cup DOMAIN device[id]
        /\ \A e \in DOMAIN entries : device'[id][e] = entries[e]
        /\ \A e \in DOMAIN device[id] \ DOMAIN entries : device'[id][e] = device[id][e]
    <3>1. device' = Uploaded(id, entries)
      BY <1>1 DEF entries
    <3>. QED
      BY <1>1, <3>1, UploadedTable
  <2>3. ASSUME NEW i \in 1 .. Len(blocks)
        PROVE  i \in DOMAIN device'[id] /\ device'[id][i] = blocks[i]
    <3>1. CASE i \in first .. Len(blocks)
      BY <2>1, <2>2, <3>1
    <3>2. CASE i \in 1 .. first - 1
      <4>1. i \in DOMAIN device[id] /\ device[id][i] = blocks[i]
        BY <1>5, <3>2 DEF DeviceHolds
      <4>2. i \notin DOMAIN entries
        BY <1>3, <1>4, <2>1, <3>2
      <4>. QED
        BY <2>2, <4>1, <4>2
    <3>. QED
      BY <1>3, <1>4, <3>1, <3>2
  <2>. QED
    BY <2>2, <2>3
<1>7. TableKnown(id)'
  BY <1>2, <1>6 DEF TableKnown, DeviceHolds
<1>8. ASSUME NEW i \in DOMAIN sequences \ {id} PROVE TableKnown(i)'
  <2>1. TableKnown(i) /\ i \notin DOMAIN appends
    BY <1>1 DEF DInv
  <2>2. CASE DeviceHolds(i, Len(sequences[i].blocks))
    BY <1>1, <1>2, <1>6, <2>2 DEF TableKnown, DeviceHolds, DInv
  <2>3. CASE i \in dirty \ DOMAIN appends
    BY <1>1, <1>2, <2>3 DEF TableKnown
  <2>. QED
    BY <2>1, <2>2, <2>3 DEF TableKnown
<1>. QED
  BY <1>1, <1>2, <1>6, <1>7, <1>8 DEF DInv

\* The kernels write KV and no table.
LEMMA RunKernelsPreserves ==
  ASSUME DInv, NEW id \in DOMAIN appends, RunKernels(id)
  PROVE  DInv'
<1>. DEFINE t    == appends[id]
            n    == Used(id) + t.written
            past == sequences[id].tokens \o Prefix(t.input, t.written)
            reads == \A i \in 1 .. n : \E p \in DevicePage(id, i) :
                        payload[p][SlotOf(i)] = Prefix(past, i)
            now  == IF reads THEN Append(past, t.input[t.written + 1]) ELSE Junk
            y    == SlotOf(n + 1)
            P    == DevicePage(id, n + 1)
<1>0. /\ t.input \in History /\ t.written \in Nat /\ t.written < Len(t.input)
      /\ UNCHANGED <<pool, sequences, reservations, lease, lru, publishing>>
      /\ UNCHANGED deviceVars
      /\ IInv
  BY OpenTransaction DEF RunKernels, DInv
<1>1. /\ DOMAIN appends' = DOMAIN appends
      /\ appends'[id] = [t EXCEPT !.written = t.written + 1]
      /\ DOMAIN appends = {id}
  BY OpenTransaction DEF RunKernels, DInv
<1>2. Leases' = Leases
  <2>1. AppendLeases(id)' = AppendLeases(id)
    BY <1>0, <1>1, OpenTransaction DEF AppendLeases
  <2>2. AllAppendLeases' = AllAppendLeases
    BY <1>1, <2>1 DEF AllAppendLeases
  <2>. QED
    BY <1>0, <2>2 DEF Leases, AllSequenceLeases, SequenceLeases, CacheLeases
<1>3. payload' \in [Page -> [Slot -> History]]
  <2>1. payload \in [Page -> [Slot -> History]]
    BY <1>0 DEF IInv, TypeOK
  <2>2. now \in History
    <3>1. t.written \in 0 .. Len(t.input) /\ t.written + 1 \in 1 .. Len(t.input)
      BY <1>0 DEF History
    <3>2. Prefix(t.input, t.written) \in Seq(Token)
      BY <1>0, <3>1, PrefixType DEF History
    <3>3. sequences[id].tokens \in Seq(Token)
      BY <1>0, OpenTransaction DEF History
    <3>4. past \in Seq(Token)
      <4>. DEFINE u == sequences[id].tokens
                  v == Prefix(t.input, t.written)
      <4>1. u \in Seq(Token) /\ v \in Seq(Token)
        BY <3>2, <3>3
      <4>. HIDE DEF u, v
      <4>2. u \o v \in Seq(Token)
        BY <4>1, ConcatProperties
      <4>. QED
        BY <4>2 DEF u, v
    <3>5. t.input[t.written + 1] \in Token
      BY <1>0, <3>1 DEF History
    <3>6. Junk \in Seq(Token)
      BY DEF Junk
    <3>. HIDE DEF past, t, reads
    <3>. QED
      BY <3>4, <3>5, <3>6 DEF History
  <2>3. payload' = [p \in Page |-> IF p \in P THEN [payload[p] EXCEPT ![y] = now]
                                              ELSE payload[p]]
    BY DEF RunKernels
  <2>. HIDE DEF y, now, P
  <2>4. \A p \in Page : /\ [payload[p] EXCEPT ![y] = now] \in [Slot -> History]
                        /\ payload[p] \in [Slot -> History]
    BY <2>1, <2>2
  <2>. QED
    BY <2>3, <2>4
<1>4. TypeOK'
  BY <1>0, <1>1, <1>3 DEF IInv, TypeOK, Leased
<1>5. TablesOK' /\ TransactionOK' /\ PublishingOK'
  <2>1. PublishingOK' /\ TablesOK'
    BY <1>0, OpenTransaction DEF IInv, PublishingOK, TablesOK
  <2>2. appends'[id] \in [input : History, original : Nat,
                          copy : Seq([source : Page, destination : Page, valid : Nat]),
                          copied : BOOLEAN, written : Nat]
        /\ appends'[id].copy = t.copy /\ appends'[id].original = t.original
    BY <1>0, <1>1, OpenTransaction
  <2>. QED
    BY <1>0, <1>1, <2>1, <2>2, SMTT(30) DEF IInv, TransactionOK
<1>6. IInv'
  BY <1>0, <1>2, <1>4, <1>5, SameLeases DEF IInv
<1>7. appends'[id].copy = t.copy /\ appends'[id].original = t.original
  BY <1>0, <1>1, OpenTransaction
<1>8. ASSUME NEW i \in DOMAIN sequences PROVE TableKnown(i)'
  BY <1>0, <1>1, <1>7, <1>8, SameTable DEF DInv, deviceVars
<1>. QED
  BY <1>0, <1>1, <1>6, <1>8 DEF DInv, deviceVars

\* A commit keeps the block table, which was uploaded.
LEMMA RunnerCommitPreserves ==
  ASSUME DInv, NEW id \in DOMAIN appends, RunnerCommit(id)
  PROVE  DInv'
<1>1. IInv'
  BY CommitPreserves DEF DInv, RunnerCommit
<1>2. /\ uploaded /\ ~uploaded' /\ device' = device /\ dirty' = dirty \ {id}
      /\ DOMAIN appends' = {} /\ DOMAIN appends = {id}
      /\ sequences' = [sequences EXCEPT ![id].tokens = @ \o appends[id].input]
  <2>1. DOMAIN appends = {id}
    BY OpenTransaction DEF DInv
  <2>2. /\ uploaded /\ uploaded' = FALSE /\ device' = device /\ dirty' = dirty \ {id}
        /\ appends' = <<>>
        /\ sequences' = [sequences EXCEPT ![id].tokens = @ \o appends[id].input]
    BY DEF RunnerCommit, Commit
  <2>. QED
    BY <2>1, <2>2
<1>3. DOMAIN sequences' = DOMAIN sequences
      /\ \A i \in DOMAIN sequences : sequences'[i].blocks = sequences[i].blocks
  <2>1. sequences[id] \in [blocks : Seq(Page), tokens : History] /\ id \in DOMAIN sequences
    BY OpenTransaction DEF DInv, IInv, TypeOK
  <2>. DEFINE tokens == sequences[id].tokens \o appends[id].input
  <2>2. sequences' = [sequences EXCEPT ![id] = [sequences[id] EXCEPT !.tokens = tokens]]
    BY <1>2
  <2>. HIDE DEF tokens
  <2>. QED
    BY <2>1, <2>2
<1>4. ASSUME NEW i \in DOMAIN sequences PROVE TableKnown(i)'
  <2>1. TableKnown(i)
    BY DEF DInv
  <2>2. CASE DeviceHolds(i, Len(sequences[i].blocks))
    BY <1>2, <1>3, <2>2 DEF TableKnown, DeviceHolds
  <2>3. CASE i \in dirty \ DOMAIN appends
    BY <1>2, <2>3 DEF TableKnown
  <2>. QED
    BY <1>2, <2>1, <2>2, <2>3 DEF TableKnown
<1>. QED
  BY <1>1, <1>2, <1>3, <1>4 DEF DInv

\* A failed append leaves its table marked dirty.
LEMMA RunnerRollbackPreserves ==
  ASSUME DInv, NEW id \in DOMAIN appends, RunnerRollback(id)
  PROVE  DInv'
<1>1. IInv'
  BY RollbackPreserves DEF DInv, RunnerRollback
<1>2. /\ ~uploaded' /\ device' = device /\ dirty' = dirty \cup {id}
      /\ DOMAIN appends' = {} /\ DOMAIN appends = {id} /\ id \in DOMAIN sequences
      /\ sequences' = [sequences EXCEPT ![id].blocks = OriginalBlocks(id)]
  <2>1. DOMAIN appends = {id} /\ id \in DOMAIN sequences
    BY OpenTransaction DEF DInv
  <2>2. /\ uploaded' = FALSE /\ device' = device /\ dirty' = dirty \cup {id}
        /\ appends' = <<>>
        /\ sequences' = [sequences EXCEPT ![id].blocks = OriginalBlocks(id)]
    BY DEF RunnerRollback, Rollback, DirtyAfterFailure
  <2>. QED
    BY <2>1, <2>2
<1>3. DOMAIN sequences' = DOMAIN sequences
      /\ \A i \in DOMAIN sequences \ {id} : sequences'[i] = sequences[i]
  BY <1>2
<1>4. TableKnown(id)'
  BY <1>2 DEF TableKnown
<1>5. ASSUME NEW i \in DOMAIN sequences \ {id} PROVE TableKnown(i)'
  <2>1. TableKnown(i)
    BY DEF DInv
  <2>2. CASE DeviceHolds(i, Len(sequences[i].blocks))
    BY <1>2, <1>3, <2>2 DEF TableKnown, DeviceHolds
  <2>3. CASE i \in dirty \ DOMAIN appends
    BY <1>2, <2>3 DEF TableKnown
  <2>. QED
    BY <1>2, <2>1, <2>2, <2>3 DEF TableKnown
<1>. QED
  BY <1>1, <1>2, <1>3, <1>4, <1>5 DEF DInv

------------------------------------------------------------------------------
\* The theorems

\* Every step of the runner keeps what is known of the device tables.
LEMMA NextDInv == DInv /\ [RunnerNext]_allVars => DInv'
<1>. SUFFICES ASSUME DInv, [RunnerNext]_allVars PROVE DInv'
  OBVIOUS
<1>1. CASE UNCHANGED allVars
  <2>1. UNCHANGED vars /\ UNCHANGED deviceVars /\ UNCHANGED <<sequences, appends>>
    BY <1>1 DEF allVars, vars
  <2>2. IInv'
    BY <2>1, NextIInv DEF DInv
  <2>3. ASSUME NEW i \in DOMAIN sequences PROVE TableKnown(i)'
    BY <2>1, <2>3, SameTable DEF DInv, deviceVars
  <2>. QED
    BY <2>1, <2>2, <2>3 DEF DInv, deviceVars
<1>2. CASE Manage \/ RunnerClear
  BY <1>2, ManagePreserves, RunnerClearPreserves
<1>3. ASSUME NEW id \in Id, RunnerCreate(id) PROVE DInv'
  BY <1>3, RunnerCreatePreserves
<1>4. ASSUME NEW source \in DOMAIN sequences, NEW target \in DOMAIN sequences,
             RunnerFork(source, target)
      PROVE  DInv'
  BY <1>4, RunnerForkPreserves
<1>5. ASSUME NEW id \in DOMAIN sequences, NEW prompt \in Prompts,
             RunnerReuse(id, prompt) \/ RunnerReuseFails(id, prompt)
      PROVE  DInv'
  BY <1>5, RunnerReusePreserves, RunnerReuseFailsPreserves
<1>6. ASSUME NEW id \in DOMAIN sequences, RunnerRelease(id) PROVE DInv'
  BY <1>6, RunnerReleasePreserves
<1>7. ASSUME NEW id \in DOMAIN sequences, NEW input \in Inputs(id),
             ValidAppend(id, input) /\ RunnerPrepare(id, input)
      PROVE  DInv'
  BY <1>7, RunnerPreparePreserves
<1>8. ASSUME NEW id \in DOMAIN appends,
             UploadTable(id) \/ RunKernels(id) \/ RunnerCommit(id) \/ RunnerRollback(id)
      PROVE  DInv'
  BY <1>8, UploadTablePreserves, RunKernelsPreserves, RunnerCommitPreserves,
     RunnerRollbackPreserves
<1>. QED
  BY <1>1, <1>2, <1>3, <1>4, <1>5, <1>6, <1>7, <1>8 DEF RunnerNext

\* The invariant of the runner holds in every reachable state.
LEMMA RunnerInvariance == RunnerSpec => []DInv
<1>1. RunnerInit => DInv
  BY InitDInv
<1>2. DInv /\ [RunnerNext]_allVars => DInv'
  BY NextDInv
<1>. QED
  BY <1>1, <1>2, PTL DEF RunnerSpec

\* The kernels never follow a stale entry of a device block table: what an append
\* does not upload again is current on the device, whatever was forked, shared,
\* copied, rolled back or failed half-way before (CudaLlamaRunner::append).
THEOREM DeviceTablesAlwaysCurrent == RunnerSpec => []DeviceTablesCurrent
<1>1. DInv => DeviceTablesCurrent
  BY KnownIsCurrent
<1>. QED
  BY <1>1, RunnerInvariance, PTL

\* The runner leaks no page and frees none in use, although it resets a sequence
\* whose upload failed and lets its kernels write through the device table.
THEOREM RunnerRefsAlwaysCountLeases == RunnerSpec => []RefsCountLeases
<1>1. DInv => RefsCountLeases
  BY DEF DInv, IInv
<1>. QED
  BY <1>1, RunnerInvariance, PTL

------------------------------------------------------------------------------
\* The CUDA runner implements private histories

\* The kernels of an append run after the copy of its shared tail.
CopiedFirst ==
    uploaded => \A id \in DOMAIN appends : appends[id].copy = <<>> \/ appends[id].copied

\* Everything that is known of a state of the runner: its device tables, the content
\* of the pages, the budget of the manager, and where the open append is.
RunnerInv == DInv /\ HInv /\ RInv /\ CopiedFirst

\* The entry of a block table that covers a position.
LEMMA EntryOf ==
  ASSUME NEW n \in Nat \ {0}
  PROVE  (n - 1) \div BlockTokens + 1 = PagesFor(n)
<1>. DEFINE q == PagesFor(n) - 1
            s == SlotOf(n)
            a == n - 1
<1>1. BlockTokens \in Nat \ {0} /\ q \in Int /\ s \in Nat /\ a \in Int
      /\ n = BlockTokens * q + s + 1 /\ s < BlockTokens
  <2>1. BlockTokens \in Nat \ {0}
    BY ManagerAssumption
  <2>2. /\ PagesFor(n) \in Nat \ {0} /\ SlotOf(n) \in Nat
        /\ n = BlockTokens * (PagesFor(n) - 1) + SlotOf(n) + 1
        /\ SlotOf(n) < BlockTokens
    BY Position, Zenon
  <2>. QED
    BY <2>1, <2>2
<1>. HIDE DEF q, s
<1>2. BlockTokens * q <= a /\ a < BlockTokens * (q + 1)
  BY <1>1
<1>3. a \div BlockTokens = q
  <2>. HIDE DEF a
  <2>. QED
    BY <1>1, <1>2, QuotientUnique
<1>4. (n - 1) \div BlockTokens = PagesFor(n) - 1
  BY <1>3 DEF q
<1>. QED
  BY <1>4, PagesForType

\* Once the table is uploaded the kernels find every position of the append.
LEMMA KernelsFind ==
  ASSUME DInv, HInv, uploaded, NEW id \in DOMAIN appends,
         NEW m \in 1 .. Used(id) + Len(appends[id].input)
  PROVE  /\ DevicePage(id, m) = {PageOf(sequences[id].blocks, m)}
         /\ PageOf(sequences[id].blocks, m) \in Page
<1>. DEFINE blocks == sequences[id].blocks
            last   == Used(id) + Len(appends[id].input)
            e      == PagesFor(m)
<1>1. /\ id \in DOMAIN sequences /\ blocks \in Seq(Page) /\ Len(blocks) \in Nat
      /\ last \in Nat /\ Len(blocks) = PagesFor(last)
  <2>1. /\ id \in DOMAIN sequences /\ blocks \in Seq(Page) /\ Used(id) \in Nat
        /\ appends[id].input \in History
    BY OpenTransaction DEF DInv
  <2>2. Len(blocks) = PagesFor(last)
    BY DEF HInv, AppendShape
  <2>3. Len(appends[id].input) \in Nat
    BY <2>1 DEF History
  <2>. QED
    BY <2>1, <2>2, <2>3
<1>2. DeviceHolds(id, Len(blocks))
  BY <1>1 DEF DInv, TableKnown
<1>. HIDE DEF last
<1>3. m \in Nat \ {0} /\ m <= last
  BY <1>1 DEF last
<1>4. e \in 1 .. Len(blocks)
  <2>1. PagesFor(m) \in Nat /\ PagesFor(m) > 0 /\ PagesFor(m) <= PagesFor(last)
    BY <1>1, <1>3, PagesMonotone, PagesForType
  <2>. QED
    BY <1>1, <2>1
<1>5. PageOf(blocks, m) = blocks[e] /\ (m - 1) \div BlockTokens + 1 = e
  BY <1>3, EntryOf DEF PageOf
<1>. HIDE DEF e
<1>6. e \in DOMAIN device[id] /\ device[id][e] = blocks[e] /\ blocks[e] \in Page
  BY <1>1, <1>2, <1>4 DEF DeviceHolds
<1>7. DevicePage(id, m) = {p \in Page : e \in DOMAIN device[id] /\ device[id][e] = p}
  BY <1>5 DEF DevicePage
<1>. QED
  BY <1>5, <1>6, <1>7

\* So the kernels read and write what the manager's transaction is for.
LEMMA KernelsWrite ==
  ASSUME DInv, HInv, CopiedFirst, NEW id \in DOMAIN appends, RunKernels(id)
  PROVE  WriteToken(id)
<1>. DEFINE t      == appends[id]
            u      == Used(id)
            w      == t.written
            n      == u + w
            blocks == sequences[id].blocks
            tokens == sequences[id].tokens
            past   == tokens \o Prefix(t.input, w)
            reads  == \A i \in 1 .. n : \E p \in DevicePage(id, i) :
                         payload[p][SlotOf(i)] = Prefix(past, i)
            after  == Append(past, t.input[w + 1])
            x      == PageOf(blocks, n + 1)
            y      == SlotOf(n + 1)
<1>1. /\ uploaded /\ w < Len(t.input) /\ (t.copy = <<>> \/ t.copied)
      /\ u \in Nat /\ w \in Nat /\ t.input \in History /\ tokens \in History
      /\ u = Len(tokens) /\ payload \in [Page -> [Slot -> History]]
  <2>1. uploaded /\ w < Len(t.input) /\ (t.copy = <<>> \/ t.copied)
    BY DEF RunKernels, CopiedFirst
  <2>2. /\ t \in [input : History, original : Nat,
                  copy : Seq([source : Page, destination : Page, valid : Nat]),
                  copied : BOOLEAN, written : Nat]
        /\ u \in Nat /\ tokens \in History
    BY OpenTransaction DEF DInv
  <2>3. payload \in [Page -> [Slot -> History]] /\ u = Len(tokens)
    BY DEF DInv, IInv, TypeOK, Used
  <2>4. t.input \in History /\ w \in Nat
    BY <2>2
  <2>. HIDE DEF t, w, u, tokens
  <2>. QED
    BY <2>1, <2>2, <2>3, <2>4
<1>2. Len(past) = n
  <2>. DEFINE g == t.input
  <2>. HIDE DEF g, w, tokens, u
  <2>1. g \in History /\ tokens \in History /\ w \in Nat /\ w < Len(g) /\ u = Len(tokens)
    BY <1>1 DEF g
  <2>2. w \in 0 .. Len(g) /\ Len(tokens) \in Nat /\ Len(g) \in Nat
    BY <2>1 DEF History
  <2>3. Prefix(g, w) \in History /\ Len(Prefix(g, w)) = w
    BY <2>1, <2>2, PrefixType
  <2>4. Len(tokens \o Prefix(g, w)) = Len(tokens) + w
    BY <2>1, <2>2, <2>3, PrefixOfConcat
  <2>. QED
    BY <2>1, <2>4 DEF g
<1>3. n + 1 \in 1 .. u + Len(t.input) /\ \A i \in 1 .. n : i \in 1 .. u + Len(t.input)
  <2>. DEFINE l == Len(t.input)
  <2>1. l \in Nat
    BY <1>1 DEF History
  <2>. HIDE DEF l, u, w
  <2>2. w < l /\ u \in Nat /\ w \in Nat
    BY <1>1 DEF l
  <2>3. u + w + 1 \in 1 .. u + l /\ \A i \in 1 .. u + w : i \in 1 .. u + l
    BY <2>1, <2>2
  <2>. QED
    BY <2>3 DEF l
<1>4. \A i \in 1 .. n : DevicePage(id, i) = {PageOf(blocks, i)}
  BY <1>1, <1>3, KernelsFind
<1>5. DevicePage(id, n + 1) = {x} /\ x \in Page
  BY <1>1, <1>3, KernelsFind
<1>. HIDE DEF n, past
<1>6. reads <=> ReadKV(blocks, n) = CausalKV(past)
  <2>1. reads <=> \A i \in 1 .. n : payload[PageOf(blocks, i)][SlotOf(i)] = Prefix(past, i)
    BY <1>4
  <2>2. /\ ReadKV(blocks, n) = [i \in 1 .. n |-> payload[PageOf(blocks, i)][SlotOf(i)]]
        /\ CausalKV(past) = [i \in 1 .. n |-> Prefix(past, i)]
    BY <1>2 DEF ReadKV, CausalKV
  <2>. QED
    BY <2>1, <2>2
<1>7. /\ payload' = [p \in Page |-> IF p \in DevicePage(id, n + 1)
                       THEN [payload[p] EXCEPT ![y] = IF reads THEN after ELSE Junk]
                       ELSE payload[p]]
      /\ appends' = [appends EXCEPT ![id].written = @ + 1]
      /\ UNCHANGED <<pool, sequences, reservations, lease, lru, publishing>>
  BY DEF RunKernels, n, past
<1>. DEFINE now == IF ReadKV(blocks, n) = CausalKV(past) THEN after ELSE Junk
<1>8. payload' = [payload EXCEPT ![x][y] = now]
  <2>1. now = IF reads THEN after ELSE Junk
    BY <1>6
  <2>. HIDE DEF now, reads, after, x, y
  <2>2. payload' = [p \in Page |-> IF p = x THEN [payload[p] EXCEPT ![y] = now]
                                            ELSE payload[p]]
    BY <1>5, <1>7, <2>1
  <2>3. payload' = [payload EXCEPT ![x] = [payload[x] EXCEPT ![y] = now]]
    BY <1>1, <1>5, <2>2
  <2>. QED
    BY <2>3
<1>. QED
  BY <1>1, <1>7, <1>8 DEF WriteToken, n, past

\* Every step of the runner is one of the manager's, except the reuse that fails.
LEMMA RunnerStep ==
  ASSUME RunnerInv, [RunnerNext]_allVars
  PROVE  \/ [Next]_vars
         \/ \E id \in DOMAIN sequences, prompt \in Prompts : RunnerReuseFails(id, prompt)
<1>1. CASE UNCHANGED allVars
  BY <1>1 DEF allVars, vars
<1>2. CASE Manage \/ RunnerClear
  BY <1>2 DEF Manage, RunnerClear, Next
<1>3. ASSUME NEW id \in Id, RunnerCreate(id) PROVE Next
  BY <1>3 DEF RunnerCreate, Next
<1>4. ASSUME NEW source \in DOMAIN sequences, NEW target \in DOMAIN sequences,
             RunnerFork(source, target)
      PROVE  Next
  BY <1>4 DEF RunnerFork, Next
<1>5. ASSUME NEW id \in DOMAIN sequences, NEW prompt \in Prompts, RunnerReuse(id, prompt)
      PROVE  Next
  BY <1>5 DEF RunnerReuse, Next
<1>6. ASSUME NEW id \in DOMAIN sequences, RunnerRelease(id) PROVE Next
  BY <1>6 DEF RunnerRelease, Next
<1>7. ASSUME NEW id \in DOMAIN sequences, NEW input \in Inputs(id),
             ValidAppend(id, input) /\ RunnerPrepare(id, input)
      PROVE  Next
  BY <1>7 DEF RunnerPrepare, Next
<1>8. ASSUME NEW id \in DOMAIN appends, UploadTable(id) PROVE UNCHANGED vars
  BY <1>8 DEF UploadTable
<1>9. ASSUME NEW id \in DOMAIN appends, RunKernels(id) PROVE Next
  BY <1>9, KernelsWrite DEF RunnerInv, Next
<1>10. ASSUME NEW id \in DOMAIN appends, RunnerCommit(id) \/ RunnerRollback(id) PROVE Next
  BY <1>10 DEF RunnerCommit, RunnerRollback, Next
<1>. QED
  BY <1>1, <1>2, <1>3, <1>4, <1>5, <1>6, <1>7, <1>8, <1>9, <1>10 DEF RunnerNext

\* The tail is copied before the table is uploaded, and stays copied.
LEMMA CopiedFirstKept ==
  ASSUME DInv, CopiedFirst, [RunnerNext]_allVars
  PROVE  CopiedFirst'
<1>1. CASE UNCHANGED <<appends, uploaded>>
  BY <1>1 DEF CopiedFirst
<1>2. CASE ~uploaded'
  BY <1>2 DEF CopiedFirst
<1>3. ASSUME NEW id \in DOMAIN appends, CopySharedTail(id), UNCHANGED uploaded
      PROVE  CopiedFirst'
  <2>1. DOMAIN appends = {id} /\ appends' = [appends EXCEPT ![id].copied = TRUE]
    BY <1>3, OpenTransaction DEF DInv, CopySharedTail
  <2>2. appends[id] \in [input : History, original : Nat,
                         copy : Seq([source : Page, destination : Page, valid : Nat]),
                         copied : BOOLEAN, written : Nat]
    BY OpenTransaction DEF DInv
  <2>3. DOMAIN appends' = {id} /\ appends'[id] = [appends[id] EXCEPT !.copied = TRUE]
    BY <2>1
  <2>4. appends'[id].copied = TRUE
    BY <2>2, <2>3
  <2>. QED
    BY <2>3, <2>4 DEF CopiedFirst
<1>4. ASSUME NEW id \in DOMAIN appends, UploadTable(id) PROVE CopiedFirst'
  <2>1. DOMAIN appends = {id} /\ appends' = appends
    BY <1>4, OpenTransaction DEF DInv, UploadTable, vars
  <2>. QED
    BY <1>4, <2>1 DEF CopiedFirst, UploadTable
<1>5. ASSUME NEW id \in DOMAIN appends, RunKernels(id) PROVE CopiedFirst'
  <2>1. /\ DOMAIN appends = {id} /\ UNCHANGED uploaded
        /\ appends' = [appends EXCEPT ![id].written = @ + 1]
    BY <1>5, OpenTransaction DEF DInv, RunKernels, deviceVars
  <2>2. appends[id] \in [input : History, original : Nat,
                         copy : Seq([source : Page, destination : Page, valid : Nat]),
                         copied : BOOLEAN, written : Nat]
    BY OpenTransaction DEF DInv
  <2>3. DOMAIN appends' = {id} /\ appends'[id] = [appends[id] EXCEPT !.written = @ + 1]
    BY <2>1
  <2>4. appends'[id].copy = appends[id].copy /\ appends'[id].copied = appends[id].copied
    BY <2>2, <2>3
  <2>. QED
    BY <2>1, <2>3, <2>4 DEF CopiedFirst
<1>6. CASE Manage
  <2>1. UNCHANGED appends \/ \E id \in DOMAIN appends : CopySharedTail(id)
    BY <1>6 DEF Manage, ReserveRequest, ReleaseReservation, CachePrefix, PublishKnown,
                PublishNew, PublishFails, ClearPrefixCache, PrepareExhausted
  <2>2. UNCHANGED uploaded
    BY <1>6 DEF Manage, deviceVars
  <2>. QED
    BY <1>1, <1>3, <2>1, <2>2
<1>7. ASSUME NEW id, NEW input, RunnerPrepare(id, input) PROVE ~uploaded'
  BY <1>7 DEF RunnerPrepare, PrepareAppend, Idle, DInv, deviceVars
<1>8. ASSUME NEW id, NEW x,
             \/ RunnerCreate(id) \/ RunnerFork(id, x) \/ RunnerReuse(id, x)
             \/ RunnerReuseFails(id, x) \/ RunnerRelease(id) \/ RunnerClear
      PROVE  UNCHANGED <<appends, uploaded>>
  <2>1. CASE RunnerReuse(id, x)
    BY <2>1 DEF RunnerReuse, ReusePrefix
  <2>2. CASE RunnerFork(id, x) \/ RunnerReuseFails(id, x)
    BY <2>2 DEF RunnerFork, ForkSequence, RunnerReuseFails
  <2>3. CASE RunnerCreate(id) \/ RunnerRelease(id) \/ RunnerClear
    BY <2>3 DEF RunnerCreate, Create, RunnerRelease, Release, RunnerClear, Clear
  <2>. QED
    BY <1>8, <2>1, <2>2, <2>3
<1>9. ASSUME NEW id, RunnerCommit(id) \/ RunnerRollback(id) PROVE ~uploaded'
  BY <1>9 DEF RunnerCommit, RunnerRollback
<1>10. CASE UNCHANGED allVars
  BY <1>1, <1>10 DEF allVars, vars, deviceVars
<1>. QED
  BY <1>1, <1>2, <1>4, <1>5, <1>6, <1>7, <1>8, <1>9, <1>10 DEF RunnerNext

\* A prompt has a token.
LEMMA PromptNonempty ==
  ASSUME NEW prompt \in Prompts
  PROVE  prompt \in History /\ prompt # <<>>
<1>1. PICK t \in Texts : prompt \in {Prefix(t, n) : n \in 1 .. Len(t)}
  BY DEF Prompts
<1>2. PICK n \in 1 .. Len(t) : prompt = Prefix(t, n)
  BY <1>1
<1>3. t \in History /\ Len(t) \in Nat
  BY ManagerAssumption DEF History
<1>4. prompt \in History /\ Len(prompt) = n /\ n > 0
  BY <1>2, <1>3, PrefixType
<1>. QED
  BY <1>4

\* A reuse whose upload fails has only touched the index.
LEMMA ReuseFailsState ==
  ASSUME RunnerInv, DInv', NEW id \in DOMAIN sequences, NEW prompt \in Prompts,
         RunnerReuseFails(id, prompt)
  PROVE  HInv' /\ RInv' /\ Histories' = Histories
<1>. DEFINE nodes == Walk(prompt).nodes
<1>1. /\ UNCHANGED <<pool, sequences, reservations, lease, appends, publishing, payload>>
      /\ lru' = Touched(nodes)
  BY DEF RunnerReuseFails
<1>2. IInv'
  BY DEF DInv
<1>3. HInv'
  BY <1>1, <1>2, SameHistory DEF RunnerInv
<1>4. BudgetOK'
  BY <1>1, BudgetKept DEF RunnerInv, RInv
<1>5. LruOK'
  <2>1. nodes \in Seq(Leased) /\ Leased \subseteq History
    BY WalkOK, PromptNonempty DEF RunnerInv, RInv, IInv, TypeOK
  <2>. HIDE DEF nodes
  <2>2. nodes \in Seq(History)
    BY <2>1
  <2>3. lru' \in Seq(History) /\ ToSet(lru) \subseteq ToSet(lru')
    BY <1>1, <2>2, TouchedList DEF RunnerInv, RInv, LruOK
  <2>4. Leased' = Leased
    BY <1>1 DEF Leased
  <2>. QED
    BY <2>3, <2>4, LruKept DEF RunnerInv, RInv
<1>6. Histories' = Histories
  BY <1>1, SameHistories
<1>. QED
  BY <1>2, <1>3, <1>4, <1>5, <1>6 DEF RInv

\* Every step of the runner keeps all that is known of its state.
LEMMA NextRunnerInv == RunnerInv /\ [RunnerNext]_allVars => RunnerInv'
<1>. SUFFICES ASSUME RunnerInv, [RunnerNext]_allVars PROVE RunnerInv'
  OBVIOUS
<1>1. DInv' /\ CopiedFirst'
  BY NextDInv, CopiedFirstKept DEF RunnerInv
<1>2. CASE [Next]_vars
  BY <1>1, <1>2, NextHInv, NextRInv DEF RunnerInv
<1>3. ASSUME NEW id \in DOMAIN sequences, NEW prompt \in Prompts, RunnerReuseFails(id, prompt)
      PROVE  RunnerInv'
  BY <1>1, <1>3, ReuseFailsState DEF RunnerInv
<1>. QED
  BY <1>2, <1>3, RunnerStep

LEMMA RunnerInvHolds == RunnerSpec => []RunnerInv
<1>1. RunnerInit => RunnerInv
  <2>1. RunnerInit => Init /\ ~uploaded
    BY DEF RunnerInit
  <2>. QED
    BY <2>1, InitDInv, InitHInv, InitRInv DEF RunnerInv, CopiedFirst
<1>2. RunnerInv /\ [RunnerNext]_allVars => RunnerInv'
  BY NextRunnerInv
<1>. QED
  BY <1>1, <1>2, PTL DEF RunnerSpec

\* The CUDA runner implements private histories as well: although its kernels find the pages
\* of a sequence through a device table of which an append uploads only a part
\* (CudaLlamaRunner::append), each sequence reads and writes its own KV and nothing else.
THEOREM RunnerHistoriesStayPrivate == RunnerSpec => ImplementsPrivateHistories
<1>1. RunnerInv => CommittedStore = Histories
  BY StoreHoldsHistories DEF RunnerInv
<1>2. RunnerInit => Private!Init
  BY StoreStartsEmpty DEF RunnerInit
<1>3. RunnerInv /\ CommittedStore = Histories /\ (CommittedStore = Histories)'
         /\ [RunnerNext]_allVars => [Private!Next]_CommittedStore
  <2>. SUFFICES ASSUME RunnerInv, CommittedStore = Histories, CommittedStore' = Histories',
                       [RunnerNext]_allVars
                PROVE  [Private!Next]_CommittedStore
    OBVIOUS
  <2>1. DInv'
    BY NextDInv DEF RunnerInv
  <2>2. CASE [Next]_vars
    BY <2>2, NextPrivate DEF RunnerInv
  <2>3. ASSUME NEW id \in DOMAIN sequences, NEW prompt \in Prompts,
               RunnerReuseFails(id, prompt)
        PROVE  UNCHANGED CommittedStore
    BY <2>1, <2>3, ReuseFailsState
  <2>. QED
    BY <2>2, <2>3, RunnerStep
<1>. QED
  BY <1>1, <1>2, <1>3, RunnerInvHolds, PTL DEF RunnerSpec, ImplementsPrivateHistories, Private!Spec

\* Under the CUDA runner too, every page of the prefix index holds the KV of the history it
\* is filed under.
THEOREM RunnerIndexHoldsItsHistory == RunnerSpec => []IndexHoldsItsHistory
<1>1. RunnerInv => IndexHoldsItsHistory
  BY IndexIsTrue DEF RunnerInv
<1>. QED
  BY <1>1, RunnerInvHolds, PTL

\* Under the CUDA runner too, an admitted request finds the pages it reserved.
THEOREM RunnerReservationsHonoured == RunnerSpec => []ReservationsHonoured
<1>1. RunnerInv => ReservationsHonoured
  BY ReservationsSuffice DEF RunnerInv
<1>. QED
  BY <1>1, RunnerInvHolds, PTL
==============================================================================
