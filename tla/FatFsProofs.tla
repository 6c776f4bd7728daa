----------------------------- MODULE FatFsProofs -----------------------------
(***************************************************************************)
(* Theorems about FatFs and about the sector cache that fatfs keeps in     *)
(* front of the device.                                                    *)
(*                                                                         *)
(* The cache, for every set of sectors, buffers and hash lists and every   *)
(* cache of ConfigAssumption: the lists always agree with the flags of the *)
(* buffers, and the cache implements Sectors.                              *)
(*                                                                         *)
(* Chains, directories and nodes, for volumes of any size and content that *)
(* are sound when they are mounted: they stay so.                          *)
(***************************************************************************)
EXTENDS SectorCache, FatFs, FiniteSetTheorems, SequenceTheorems, WellFoundedInduction, TLAPS

(* PART 1: THE SECTOR CACHE.  First, its lists.                            *)

IsList(list, B) == list \in Seq(Buffers) /\ Listed(list, B)

\* A list by its positions: no SequencesExt operator left.
LEMMA ListDef ==
  ASSUME NEW list \in Seq(Buffers), NEW B
  PROVE  Listed(list, B) <=> /\ \A i, j \in 1..Len(list) : list[i] = list[j] => i = j
                             /\ \A i \in 1..Len(list) : list[i] \in B
                             /\ \A b \in B : \E i \in 1..Len(list) : list[i] = b
<1>1. DOMAIN list = 1..Len(list)
  OBVIOUS
<1>2. IsInjective(list) <=> \A i, j \in 1..Len(list) : list[i] = list[j] => i = j
  BY <1>1 DEF IsInjective
<1>3. ToSet(list) = {list[i] : i \in 1..Len(list)}
  BY <1>1 DEF ToSet
<1> QED
  BY <1>2, <1>3 DEF Listed

LEMMA ListEmpty == IsList(<<>>, {})
  BY DEF IsList, Listed, IsInjective, ToSet

LEMMA ListPrepend ==
  ASSUME NEW B, NEW list, IsList(list, B), NEW b \in Buffers, b \notin B
  PROVE  IsList(<<b>> \o list, B \union {b})
<1> DEFINE new == <<b>> \o list
<1>1. list \in Seq(Buffers) /\ new \in Seq(Buffers) /\ Len(new) = Len(list) + 1 /\ Len(list) \in Nat
  BY DEF IsList
<1>2. \A i \in 1..Len(new) : new[i] = IF i = 1 THEN b ELSE list[i - 1]
  BY <1>1
<1> HIDE DEF new
<1>3. /\ \A i, j \in 1..Len(list) : list[i] = list[j] => i = j
      /\ \A i \in 1..Len(list) : list[i] \in B
      /\ \A x \in B : \E i \in 1..Len(list) : list[i] = x
  BY <1>1, ListDef DEF IsList
<1>4. ASSUME NEW i \in 1..Len(new), NEW j \in 1..Len(new), new[i] = new[j]
      PROVE  i = j
  <2>1. i # 1 => i - 1 \in 1..Len(list)
    BY <1>1
  <2>2. j # 1 => j - 1 \in 1..Len(list)
    BY <1>1
  <2> QED
    BY <1>1, <1>2, <1>3, <1>4, <2>1, <2>2, SMTT(30)
<1>5. ASSUME NEW i \in 1..Len(new)
      PROVE  new[i] \in B \union {b}
  <2>1. i # 1 => i - 1 \in 1..Len(list)
    BY <1>1
  <2> QED
    BY <1>2, <1>3, <2>1
<1>6. ASSUME NEW x \in B \union {b}
      PROVE  \E i \in 1..Len(new) : new[i] = x
  <2>1. CASE x = b
    BY <1>1, <1>2, <2>1
  <2>2. CASE x \in B
    <3>1. PICK i \in 1..Len(list) : list[i] = x
      BY <1>3, <2>2
    <3>2. i + 1 \in 1..Len(new) /\ i + 1 # 1 /\ i + 1 - 1 = i
      BY <1>1
    <3> QED
      BY <1>2, <3>1, <3>2
  <2> QED
    BY <2>1, <2>2
<1> QED
  BY <1>1, <1>4, <1>5, <1>6, ListDef DEF IsList, new

LEMMA ListAppend ==
  ASSUME NEW B, NEW list, IsList(list, B), NEW b \in Buffers, b \notin B
  PROVE  IsList(Append(list, b), B \union {b})
<1> DEFINE new == Append(list, b)
<1>1. list \in Seq(Buffers) /\ new \in Seq(Buffers) /\ Len(new) = Len(list) + 1 /\ Len(list) \in Nat
  BY DEF IsList
<1>2. \A i \in 1..Len(new) : new[i] = IF i = Len(new) THEN b ELSE list[i]
  BY <1>1
<1> HIDE DEF new
<1>3. /\ \A i, j \in 1..Len(list) : list[i] = list[j] => i = j
      /\ \A i \in 1..Len(list) : list[i] \in B
      /\ \A x \in B : \E i \in 1..Len(list) : list[i] = x
  BY <1>1, ListDef DEF IsList
<1>4. \A i \in 1..Len(new) : i # Len(new) => i \in 1..Len(list)
  BY <1>1
<1>5. \A i, j \in 1..Len(new) : new[i] = new[j] => i = j
  BY <1>2, <1>3, <1>4
<1>6. \A i \in 1..Len(new) : new[i] \in B \union {b}
  BY <1>2, <1>3, <1>4
<1>7. ASSUME NEW x \in B \union {b}
      PROVE  \E i \in 1..Len(new) : new[i] = x
  <2>1. CASE x = b
    <3>1. Len(new) \in 1..Len(new)
      BY <1>1
    <3> QED
      BY <1>2, <2>1, <3>1
  <2>2. CASE x \in B
    <3>1. PICK i \in 1..Len(list) : list[i] = x
      BY <1>3, <2>2
    <3>2. i \in 1..Len(new) /\ i # Len(new)
      BY <1>1
    <3> QED
      BY <1>2, <3>1, <3>2
  <2> QED
    BY <2>1, <2>2
<1> QED
  BY <1>1, <1>5, <1>6, <1>7, ListDef DEF IsList, new

LEMMA ListTail ==
  ASSUME NEW B, NEW list, IsList(list, B), list # <<>>
  PROVE  Head(list) \in B /\ Head(list) = list[1] /\ IsList(Tail(list), B \ {Head(list)})
<1> DEFINE new == Tail(list)
           b == Head(list)
<1>1. list \in Seq(Buffers) /\ new \in Seq(Buffers) /\ Len(new) = Len(list) - 1 /\ Len(list) \in Nat \ {0}
  BY DEF IsList
<1>2. b = list[1] /\ \A i \in 1..Len(new) : new[i] = list[i + 1]
  BY <1>1
<1> HIDE DEF new, b
<1>3. /\ \A i, j \in 1..Len(list) : list[i] = list[j] => i = j
      /\ \A i \in 1..Len(list) : list[i] \in B
      /\ \A x \in B : \E i \in 1..Len(list) : list[i] = x
  BY <1>1, ListDef DEF IsList
<1>4. 1 \in 1..Len(list) /\ \A i \in 1..Len(new) : i + 1 \in 1..Len(list) /\ i + 1 # 1
  BY <1>1
<1>5. \A i, j \in 1..Len(new) : new[i] = new[j] => i = j
  BY <1>2, <1>3, <1>4
<1>6. \A i \in 1..Len(new) : new[i] \in B \ {b}
  BY <1>2, <1>3, <1>4
<1>7. ASSUME NEW x \in B \ {b}
      PROVE  \E i \in 1..Len(new) : new[i] = x
  <2>1. PICK i \in 1..Len(list) : list[i] = x
    BY <1>3
  <2>2. i # 1
    BY <1>2, <2>1
  <2>3. i - 1 \in 1..Len(new) /\ i - 1 + 1 = i
    BY <1>1, <2>2
  <2> QED
    BY <1>2, <2>1, <2>3
<1>8. b \in B
  BY <1>2, <1>3, <1>4
<1> QED
  BY <1>1, <1>2, <1>5, <1>6, <1>7, <1>8, ListDef DEF IsList, new, b

\* LIST_REM_ENTRY of an entry of the list.
LEMMA ListRemove ==
  ASSUME NEW B, NEW list, IsList(list, B), NEW b \in B
  PROVE  IsList(Without(list, b), B \ {b})
<1>1. list \in Seq(Buffers) /\ Len(list) \in Nat
  BY DEF IsList
<1>2. /\ \A i, j \in 1..Len(list) : list[i] = list[j] => i = j
      /\ \A i \in 1..Len(list) : list[i] \in B
      /\ \A x \in B : \E i \in 1..Len(list) : list[i] = x
  BY <1>1, ListDef DEF IsList
<1>3. PICK k \in 1..Len(list) : list[k] = b
  BY <1>2
<1>4. Without(list, b) = RemoveAt(list, k)
  <2>1. {i \in 1..Len(list) : list[i] = b} = {k}
    BY <1>2, <1>3
  <2>2. Min({k}) = k
    BY DEF Min
  <2>3. SelectInSeq(list, LAMBDA v : v = b) = k
    BY <2>1, <2>2 DEF SelectInSeq
  <2> QED
    BY <1>3, <2>3 DEF Without, RemoveFirst
<1> DEFINE left  == SubSeq(list, 1, k - 1)
           right == SubSeq(list, k + 1, Len(list))
           new   == left \o right
<1>5. left \in Seq(Buffers) /\ Len(left) = k - 1 /\ \A i \in 1..(k - 1) : left[i] = list[i]
  BY <1>1
<1>6. /\ right \in Seq(Buffers) /\ Len(right) = Len(list) - k
      /\ \A i \in 1..(Len(list) - k) : right[i] = list[i + k]
  BY <1>1
<1> HIDE DEF left, right
<1>7. new \in Seq(Buffers) /\ Len(new) = Len(list) - 1
  <2>1. new \in Seq(Buffers) /\ Len(new) = Len(left) + Len(right)
    BY <1>5, <1>6, ConcatProperties
  <2> HIDE DEF new
  <2> QED
    BY <1>1, <1>5, <1>6, <2>1
<1>8. \A i \in 1..Len(new) : new[i] = IF i < k THEN list[i] ELSE list[i + 1]
  <2> SUFFICES ASSUME NEW i \in 1..Len(new)
               PROVE  new[i] = IF i < k THEN list[i] ELSE list[i + 1]
    OBVIOUS
  <2>1. CASE i < k
    BY <1>1, <1>5, <1>6, <1>7, <2>1
  <2>2. CASE ~(i < k)
    <3>1. i - (k - 1) \in 1..(Len(list) - k) /\ i - (k - 1) + k = i + 1
      BY <1>1, <1>7, <2>2
    <3>2. new[i] = right[i - (k - 1)]
      BY <1>1, <1>5, <1>6, <1>7, <2>2
    <3> QED
      BY <1>6, <2>2, <3>1, <3>2
  <2> QED
    BY <2>1, <2>2
<1> HIDE DEF new
<1>9. \A i \in 1..Len(new) : /\ i < k => i \in 1..Len(list)
                             /\ ~(i < k) => i + 1 \in 1..Len(list) /\ i + 1 # k
  BY <1>1, <1>7
<1>10. \A i, j \in 1..Len(new) : new[i] = new[j] => i = j
  BY <1>2, <1>8, <1>9
<1>11. \A i \in 1..Len(new) : new[i] \in B \ {b}
  <2> SUFFICES ASSUME NEW i \in 1..Len(new)
               PROVE  new[i] \in B \ {b}
    OBVIOUS
  <2>1. PICK j \in 1..Len(list) : new[i] = list[j] /\ j # k
    <3>1. CASE i < k
      BY <1>8, <1>9, <3>1
    <3>2. CASE ~(i < k)
      BY <1>8, <1>9, <3>2
    <3> QED
      BY <3>1, <3>2
  <2>2. list[j] # b /\ list[j] \in B
    BY <1>2, <1>3, <2>1
  <2> QED
    BY <2>1, <2>2
<1>12. ASSUME NEW x \in B \ {b}
       PROVE  \E i \in 1..Len(new) : new[i] = x
  <2>1. PICK i \in 1..Len(list) : list[i] = x
    BY <1>2
  <2>2. i # k
    BY <1>3, <2>1
  <2>3. CASE i < k
    <3>1. i \in 1..Len(new)
      BY <1>1, <1>7, <2>3
    <3> QED
      BY <1>8, <2>1, <2>3, <3>1
  <2>4. CASE i > k
    <3>1. i - 1 \in 1..Len(new) /\ ~(i - 1 < k) /\ i - 1 + 1 = i
      BY <1>1, <1>7, <2>4
    <3> QED
      BY <1>8, <2>1, <3>1
  <2> QED
    BY <2>2, <2>3, <2>4
<1>13. IsList(new, B \ {b})
  BY <1>7, <1>10, <1>11, <1>12, ListDef DEF IsList
<1> QED
  BY <1>4, <1>13 DEF RemoveAt, new, left, right

LEMMA ListConcat ==
  ASSUME NEW A, NEW B, NEW s, NEW t, IsList(s, A), IsList(t, B), A \intersect B = {}
  PROVE  IsList(s \o t, A \union B)
<1> DEFINE new == s \o t
           m == Len(s)
           n == Len(t)
<1>1. /\ s \in Seq(Buffers) /\ t \in Seq(Buffers) /\ m \in Nat /\ n \in Nat
      /\ new \in Seq(Buffers) /\ Len(new) = m + n
  BY DEF IsList
<1>2. \A i \in 1..Len(new) : new[i] = IF i <= m THEN s[i] ELSE t[i - m]
  BY <1>1
<1>3. /\ \A i, j \in 1..m : s[i] = s[j] => i = j
      /\ \A i \in 1..m : s[i] \in A
      /\ \A x \in A : \E i \in 1..m : s[i] = x
  BY <1>1, ListDef DEF IsList
<1>4. /\ \A i, j \in 1..n : t[i] = t[j] => i = j
      /\ \A i \in 1..n : t[i] \in B
      /\ \A x \in B : \E i \in 1..n : t[i] = x
  BY <1>1, ListDef DEF IsList
<1> HIDE DEF new, m, n
<1>5. \A i \in 1..Len(new) : (i <= m => i \in 1..m) /\ (~(i <= m) => i - m \in 1..n)
  BY <1>1
<1>6. ASSUME NEW i \in 1..Len(new), NEW j \in 1..Len(new), new[i] = new[j]
      PROVE  i = j
  <2>1. CASE i <= m /\ j <= m
    BY <1>2, <1>3, <1>5, <1>6, <2>1
  <2>2. CASE ~(i <= m) /\ ~(j <= m)
    <3>1. i - m = j - m
      BY <1>2, <1>4, <1>5, <1>6, <2>2
    <3> QED
      BY <1>1, <3>1
  <2>3. CASE (i <= m) # (j <= m)
    BY <1>2, <1>3, <1>4, <1>5, <1>6, <2>3
  <2> QED
    BY <2>1, <2>2, <2>3
<1>7. \A i \in 1..Len(new) : new[i] \in A \union B
  BY <1>2, <1>3, <1>4, <1>5
<1>8. ASSUME NEW x \in A \union B
      PROVE  \E i \in 1..Len(new) : new[i] = x
  <2>1. CASE x \in A
    <3>1. PICK i \in 1..m : s[i] = x
      BY <1>3, <2>1
    <3>2. i \in 1..Len(new) /\ i <= m
      BY <1>1
    <3> QED
      BY <1>2, <3>1, <3>2
  <2>2. CASE x \in B
    <3>1. PICK i \in 1..n : t[i] = x
      BY <1>4, <2>2
    <3> DEFINE k == i + m
    <3>2. k \in 1..Len(new) /\ ~(k <= m) /\ k - m = i
      BY <1>1
    <3> HIDE DEF k
    <3>3. new[k] = t[k - m]
      BY <1>2, <3>2
    <3> QED
      BY <3>1, <3>2, <3>3
  <2> QED
    BY <2>1, <2>2
<1> QED
  BY <1>1, <1>6, <1>7, <1>8, ListDef DEF IsList, new

LEMMA ListReverse ==
  ASSUME NEW B, NEW s, IsList(s, B)
  PROVE  IsList(Reverse(s), B)
<1> DEFINE new == Reverse(s)
           n == Len(s)
<1>1. s \in Seq(Buffers) /\ n \in Nat
  BY DEF IsList
<1>2. \A i \in 1..n : n - i + 1 \in 1..n
  BY <1>1
<1>3. new = [i \in 1..n |-> s[n - i + 1]]
  BY DEF Reverse
<1>4. new \in [1..n -> Buffers]
  BY <1>1, <1>2, <1>3
<1>5. new \in Seq(Buffers) /\ Len(new) = n
  BY <1>1, <1>4
<1>6. /\ \A i, j \in 1..n : s[i] = s[j] => i = j
      /\ \A i \in 1..n : s[i] \in B
      /\ \A x \in B : \E i \in 1..n : s[i] = x
  BY <1>1, ListDef DEF IsList
<1> HIDE DEF new, n
<1>7. ASSUME NEW i \in 1..n, NEW j \in 1..n, new[i] = new[j]
      PROVE  i = j
  <2>1. n - i + 1 = n - j + 1
    BY <1>2, <1>3, <1>6, <1>7
  <2> QED
    BY <1>1, <2>1
<1>8. \A i \in 1..n : new[i] \in B
  BY <1>2, <1>3, <1>6
<1>9. ASSUME NEW x \in B
      PROVE  \E i \in 1..n : new[i] = x
  <2>1. PICK i \in 1..n : s[i] = x
    BY <1>6
  <2>2. n - i + 1 \in 1..n /\ n - (n - i + 1) + 1 = i
    BY <1>1
  <2> QED
    BY <1>3, <2>1, <2>2
<1> QED
  BY <1>5, <1>7, <1>8, <1>9, ListDef DEF IsList, new

\* A set of buffers as a list.
LEMMA ListOfSet ==
  ASSUME NEW B \in SUBSET Buffers
  PROVE  IsList(SetToSeq(B), B)
<1> DEFINE n == Cardinality(B)
<1>1. IsFiniteSet(B) /\ n \in Nat
  BY SectorAssumption, FS_Subset, FS_CardinalityType
<1>2. PICK f \in Bijection(1..n, B) : TRUE
  BY <1>1, FS_CardinalityType DEF ExistsBijection
<1>3. f \in [1..n -> B] /\ IsInjective(f)
  BY <1>2 DEF Bijection, Injection, IsInjective
<1> DEFINE g == SetToSeq(B)
<1>4. g \in [1..n -> B] /\ IsInjective(g)
  BY <1>3 DEF SetToSeq
<1>5. g \in Injection(1..n, B)
  BY <1>4 DEF Injection, IsInjective
<1>6. IsFiniteSet(1..n) /\ Cardinality(1..n) = n
  BY <1>1, FS_Interval
<1>7. g \in Surjection(1..n, B)
  BY <1>1, <1>5, <1>6, FS_Injection
<1>8. \A x \in B : \E i \in 1..n : g[i] = x
  BY <1>7 DEF Surjection
<1>9. g \in Seq(Buffers) /\ Len(g) = n
  BY <1>1, <1>4
<1> HIDE DEF g, n
<1>10. \A i, j \in 1..n : g[i] = g[j] => i = j
  BY <1>4 DEF IsInjective
<1> QED
  BY <1>4, <1>8, <1>9, <1>10, ListDef DEF IsList, g

\* A list without repetition is no longer than the table of buffers.
LEMMA ListLength ==
  ASSUME NEW B, NEW list, IsList(list, B)
  PROVE  list \in SeqOf(Buffers, Cardinality(Buffers))
<1>1. list \in Seq(Buffers) /\ Len(list) \in Nat /\ list \in [1..Len(list) -> Buffers]
  BY DEF IsList
<1>2. IsFiniteSet(Buffers) /\ Cardinality(Buffers) \in Nat
  BY SectorAssumption, FS_CardinalityType
<1>3. IsFiniteSet(1..Len(list)) /\ Cardinality(1..Len(list)) = Len(list)
  BY <1>1, FS_Interval
<1>4. ASSUME Cardinality(Buffers) < Len(list)
      PROVE  FALSE
  <2>1. PICK i \in 1..Len(list), j \in 1..Len(list) : i # j /\ list[i] = list[j]
    BY <1>1, <1>2, <1>3, <1>4, FS_PigeonHole
  <2> QED
    BY <1>1, <2>1, ListDef DEF IsList
<1>5. Len(list) \in 0..Cardinality(Buffers)
  BY <1>1, <1>2, <1>4
<1> QED
  BY <1>1, <1>5 DEF SeqOf

-------------------------------------------------------------------------------
(* The inductive invariant, of a cache c *)

Shape(c) ==
  c \in [blk : [Buffers -> [sector : SectorIds \union {-1, 0}, dirty : BOOLEAN, in_use : BOOLEAN,
                            mem : SectorData]],
         lru_list : Seq(Buffers), dirty_list : Seq(Buffers), free_list : Seq(Buffers),
         hash_list : [0..(BUF_HASH_CNT - 1) -> Seq(Buffers)],
         disk : [SectorIds -> SectorData], dropped : 0..config.maxDropped]

Used(c)     == {b \in Buffers : c.blk[b].in_use}
InBucket(c, h) == {b \in Used(c) : Hash(c.blk[b].sector) = h}

Lists(c) ==
  /\ IsList(c.lru_list, Used(c))
  /\ IsList(c.free_list, Buffers \ Used(c))
  /\ IsList(c.dirty_list, {b \in Buffers : c.blk[b].dirty})
  /\ \A h \in 0..(BUF_HASH_CNT - 1) : IsList(c.hash_list[h], InBucket(c, h))

\* A free buffer is not dirty, and one in use has a sector of the device to itself.
Placed(c) ==
  /\ \A a, b \in Used(c) : c.blk[a].sector = c.blk[b].sector => a = b
  /\ \A b \in Used(c) : c.blk[b].sector \in SectorIds
  /\ \A b \in Buffers : c.blk[b].dirty => b \in Used(c)

Good(c) == Shape(c) /\ Lists(c) /\ Placed(c)

\* The device has what is in buffer b.
Saved(c, b) == c.blk[b].mem = c.disk[c.blk[b].sector]

\* What is not on the device is in a dirty buffer.  A cache whose device may still drop a
\* write has everything on it, so that this drop is the only one a sector suffers.
Backed(c) ==
  /\ \A b \in Used(c) : ~c.blk[b].dirty => Saved(c, b)
  /\ c.dropped < config.maxDropped => \A b \in Used(c) : Saved(c, b)

\* Of a cache without delay the device lags in as many sectors as it dropped writes.
Prompt(c) ==
  config.writeback_delay = 0 =>
    /\ c.dropped = 0 => \A b \in Used(c) : Saved(c, b)
    /\ \A a, b \in Used(c) : ~Saved(c, a) /\ ~Saved(c, b) => a = b

\* Every step of an operation keeps this, except between the write to the memory of a
\* buffer and BufPutBlock.
Fine(c) == Good(c) /\ Backed(c) /\ Prompt(c)

CacheInv == config \in Configs /\ Fine(cache)

\* Content, of any cache and without the hash lists.
View(c, s) == IF \E b \in Used(c) : c.blk[b].sector = s
              THEN c.blk[CHOOSE b \in Used(c) : c.blk[b].sector = s].mem
              ELSE c.disk[s]

-------------------------------------------------------------------------------
(* The operations on the cache *)

LEMMA Hashes ==
  ASSUME NEW s \in SectorIds
  PROVE  Hash(s) \in 0..(BUF_HASH_CNT - 1)
<1>1. s \in Nat /\ BUF_HASH_CNT \in Nat \ {0}
  BY SectorAssumption
<1> QED
  BY <1>1 DEF Hash

\* The search of a hash list finds the buffer of a sector if there is one.
LEMMA BufferFound ==
  ASSUME NEW c, Good(c), NEW s \in SectorIds
  PROVE  /\ Buffered(c, s) <=> \E b \in Used(c) : c.blk[b].sector = s
         /\ Buffered(c, s) => BufferOf(c, s) \in Used(c) /\ c.blk[BufferOf(c, s)].sector = s
<1> DEFINE h == Hash(s)
           l == c.hash_list[h]
<1>1. h \in 0..(BUF_HASH_CNT - 1)
  BY Hashes
<1>2. l \in Seq(Buffers) /\ Len(l) \in Nat /\ IsList(l, InBucket(c, h))
  <2>1. IsList(l, InBucket(c, h))
    BY <1>1 DEF Good, Lists
  <2> QED
    BY <2>1 DEF IsList
<1> HIDE DEF l
<1>3. /\ \A i, j \in 1..Len(l) : l[i] = l[j] => i = j
      /\ \A i \in 1..Len(l) : l[i] \in InBucket(c, h)
      /\ \A b \in InBucket(c, h) : \E i \in 1..Len(l) : l[i] = b
  BY <1>2, ListDef DEF IsList
<1>4. Matches(c, s) = {j \in 1..Len(l) : c.blk[l[j]].sector = s}
  BY DEF Matches, l
<1>5. ASSUME NEW b \in Used(c), c.blk[b].sector = s
      PROVE  Buffered(c, s)
  <2>1. b \in InBucket(c, h)
    BY <1>5 DEF InBucket
  <2>2. PICK i \in 1..Len(l) : l[i] = b
    BY <1>3, <2>1
  <2>3. i \in Matches(c, s)
    BY <1>4, <1>5, <2>2
  <2> QED
    BY <2>3 DEF Buffered
<1>6. ASSUME Buffered(c, s)
      PROVE  BufferOf(c, s) \in Used(c) /\ c.blk[BufferOf(c, s)].sector = s
  <2>1. PICK i \in Matches(c, s) : TRUE
    BY <1>6 DEF Buffered
  <2>2. \A j \in Matches(c, s) : j \in 1..Len(l) /\ c.blk[l[j]].sector = s /\ l[j] \in Used(c)
    BY <1>3, <1>4 DEF InBucket
  <2>3. \A j \in Matches(c, s) : j = i
    BY <1>3, <2>1, <2>2 DEF Good, Placed
  <2>4. i <= i
    BY <2>2, <1>2
  <2>5. BufferOf(c, s) = l[i]
    BY <2>3, <2>4 DEF BufferOf, l
  <2> QED
    BY <2>2, <2>5
<1> QED
  BY <1>5, <1>6

\* Reading the definition of View.
LEMMA ViewIs ==
  ASSUME NEW c, Good(c), NEW s \in SectorIds
  PROVE  /\ \A b \in Used(c) : c.blk[b].sector = s => View(c, s) = c.blk[b].mem
         /\ (\A b \in Used(c) : c.blk[b].sector # s) => View(c, s) = c.disk[s]
         /\ View(c, s) \in SectorData
<1>1. ASSUME NEW b \in Used(c), c.blk[b].sector = s
      PROVE  View(c, s) = c.blk[b].mem /\ View(c, s) \in SectorData
  <2>1. \A a \in Used(c) : c.blk[a].sector = s => a = b
    BY <1>1 DEF Good, Placed
  <2>2. (CHOOSE a \in Used(c) : c.blk[a].sector = s) = b
    BY <1>1, <2>1
  <2>3. View(c, s) = c.blk[b].mem
    BY <1>1, <2>2 DEF View
  <2> QED
    BY <2>3 DEF Good, Shape, Used
<1>2. ASSUME \A b \in Used(c) : c.blk[b].sector # s
      PROVE  View(c, s) = c.disk[s] /\ View(c, s) \in SectorData
  BY <1>2 DEF View, Good, Shape
<1> QED
  BY <1>1, <1>2

LEMMA ContentIsView ==
  ASSUME Good(cache), NEW s \in SectorIds
  PROVE  Content(s) = View(cache, s)
  BY BufferFound, ViewIs DEF Content

\* LIST_REM_ENTRY, which the model also applies to a buffer that is not listed.
LEMMA ListWithout ==
  ASSUME NEW B, NEW list, IsList(list, B), NEW b
  PROVE  IsList(Without(list, b), B \ {b})
<1>1. CASE b \in B
  BY <1>1, ListRemove
<1>2. CASE b \notin B
  <2>1. \A i \in 1..Len(list) : list[i] # b
    BY <1>2, ListDef DEF IsList
  <2>2. Without(list, b) = list
    BY <2>1 DEF Without, RemoveFirst
  <2> QED
    BY <1>2, <2>2
<1> QED
  BY <1>1, <1>2

LEMMA CleanDoes ==
  ASSUME NEW c, Good(c), NEW b \in Used(c), NEW r, r = Clean(c, b)
  PROVE  /\ Good(r)
         /\ Used(r) = Used(c) /\ r.disk = c.disk /\ r.dropped = c.dropped
         /\ r.free_list = c.free_list /\ r.lru_list = c.lru_list
         /\ \A a \in Buffers : /\ r.blk[a].sector = c.blk[a].sector /\ r.blk[a].mem = c.blk[a].mem
                               /\ r.blk[a].in_use = c.blk[a].in_use
                               /\ r.blk[a].dirty <=> a # b /\ c.blk[a].dirty
<1> DEFINE blk == [c.blk EXCEPT ![b].dirty = FALSE]
           list == Without(c.dirty_list, b)
<1>1. b \in Buffers /\ Shape(c) /\ Lists(c) /\ Placed(c)
  BY DEF Used, Good
<1>2. \A a \in Buffers : /\ blk[a].sector = c.blk[a].sector /\ blk[a].mem = c.blk[a].mem
                         /\ blk[a].in_use = c.blk[a].in_use
                         /\ blk[a].dirty <=> a # b /\ c.blk[a].dirty
  BY <1>1 DEF Shape
<1>3. IsList(list, {a \in Buffers : c.blk[a].dirty} \ {b})
  BY <1>1, ListWithout DEF Lists
<1>4. blk \in [Buffers -> [sector : SectorIds \union {-1, 0}, dirty : BOOLEAN, in_use : BOOLEAN,
                           mem : SectorData]]
  BY <1>1 DEF Shape
<1>5. list \in Seq(Buffers)
  BY <1>3 DEF IsList
<1>6. r = [c EXCEPT !.blk = blk, !.dirty_list = list]
  BY <1>1 DEF Clean, Shape
<1> HIDE DEF blk, list
<1>7. /\ r.blk = blk /\ r.dirty_list = list /\ r.lru_list = c.lru_list /\ r.free_list = c.free_list
      /\ r.hash_list = c.hash_list /\ r.disk = c.disk /\ r.dropped = c.dropped
  BY <1>1, <1>6 DEF Shape
<1>8. Shape(r)
  BY <1>1, <1>4, <1>5, <1>6 DEF Shape
<1>9. Used(r) = Used(c)
  BY <1>2, <1>7 DEF Used
<1>10. \A h : InBucket(r, h) = InBucket(c, h)
  BY <1>2, <1>7, <1>9 DEF InBucket, Used
<1>11. {a \in Buffers : r.blk[a].dirty} = {a \in Buffers : c.blk[a].dirty} \ {b}
  BY <1>2, <1>7
<1>12. Lists(r)
  BY <1>1, <1>3, <1>7, <1>9, <1>10, <1>11 DEF Lists
<1>13. \A a \in Used(c) : a \in Buffers
  BY DEF Used
<1>14. \A a \in Used(c) : r.blk[a].sector = c.blk[a].sector
  BY <1>2, <1>7, <1>13
<1>15. \A a \in Buffers : r.blk[a].dirty => c.blk[a].dirty
  BY <1>2, <1>7
<1>16. Placed(r)
  BY <1>1, <1>9, <1>14, <1>15 DEF Placed
<1> QED
  BY <1>2, <1>7, <1>8, <1>9, <1>12, <1>16 DEF Good

\* A cache with the lists of c, and with its sectors and flags, is good too.
LEMMA GoodAlike ==
  ASSUME NEW c, Good(c), NEW r, Shape(r),
         r.lru_list = c.lru_list, r.dirty_list = c.dirty_list, r.free_list = c.free_list,
         r.hash_list = c.hash_list,
         \A a \in Buffers : /\ r.blk[a].sector = c.blk[a].sector
                            /\ r.blk[a].in_use <=> c.blk[a].in_use
                            /\ r.blk[a].dirty <=> c.blk[a].dirty
  PROVE  Good(r) /\ Used(r) = Used(c)
<1>1. Used(r) = Used(c)
  BY DEF Used
<1>2. \A a \in Used(c) : a \in Buffers /\ r.blk[a].sector = c.blk[a].sector
  BY DEF Used
<1>3. \A h : InBucket(r, h) = InBucket(c, h)
  BY <1>1, <1>2 DEF InBucket
<1>4. {a \in Buffers : r.blk[a].dirty} = {a \in Buffers : c.blk[a].dirty}
  OBVIOUS
<1>5. Lists(c) /\ Placed(c)
  BY DEF Good
<1>6. Lists(r)
  BY <1>1, <1>3, <1>4, <1>5 DEF Lists
<1>7. Placed(r)
  BY <1>1, <1>2, <1>5 DEF Placed
<1> QED
  BY <1>1, <1>6, <1>7 DEF Good

\* What BufWriteSector does: the device has the buffer, or it dropped one write more.
LEMMA WriteDoes ==
  ASSUME config \in Configs, NEW c, Good(c), NEW b \in Used(c), NEW r \in BufWriteSector(c, b)
  PROVE  /\ Good(r) /\ Used(r) = Used(c) /\ r.blk = c.blk
         /\ r.lru_list = c.lru_list /\ r.free_list = c.free_list
         /\ \/ /\ r.dropped = c.dropped
               /\ r.disk = [c.disk EXCEPT ![c.blk[b].sector] = c.blk[b].mem]
            \/ c.dropped < config.maxDropped /\ r.dropped = c.dropped + 1 /\ r.disk = c.disk
<1>1. Shape(c) /\ b \in Buffers /\ c.blk[b].sector \in SectorIds /\ config.maxDropped \in Nat
  BY ConfigAssumption DEF Good, Used, Placed
<1> DEFINE disk == [c.disk EXCEPT ![c.blk[b].sector] = c.blk[b].mem]
<1>2. CASE r = [c EXCEPT !.disk[c.blk[b].sector] = c.blk[b].mem]
  <2>1. r = [c EXCEPT !.disk = disk]
    BY <1>1, <1>2 DEF Shape
  <2>2. disk \in [SectorIds -> SectorData]
    BY <1>1 DEF Shape
  <2> HIDE DEF disk
  <2>3. /\ r.blk = c.blk /\ r.dirty_list = c.dirty_list /\ r.lru_list = c.lru_list
        /\ r.free_list = c.free_list /\ r.hash_list = c.hash_list /\ r.disk = disk
        /\ r.dropped = c.dropped
    BY <1>1, <2>1 DEF Shape
  <2>4. Shape(r)
    BY <1>1, <2>1, <2>2 DEF Shape
  <2>5. Good(r) /\ Used(r) = Used(c)
    BY <2>3, <2>4, GoodAlike
  <2> QED
    BY <2>3, <2>5 DEF disk
<1>3. CASE c.dropped < config.maxDropped /\ r = [c EXCEPT !.dropped = @ + 1]
  <2>1. /\ r.blk = c.blk /\ r.dirty_list = c.dirty_list /\ r.lru_list = c.lru_list
        /\ r.free_list = c.free_list /\ r.hash_list = c.hash_list /\ r.disk = c.disk
        /\ r.dropped = c.dropped + 1
    BY <1>1, <1>3 DEF Shape
  <2>2. c.dropped + 1 \in 0..config.maxDropped
    BY <1>1, <1>3 DEF Shape
  <2>3. Shape(r)
    BY <1>1, <1>3, <2>2 DEF Shape
  <2>4. Good(r) /\ Used(r) = Used(c)
    BY <2>1, <2>3, GoodAlike
  <2> QED
    BY <1>3, <2>1, <2>4
<1> QED
  BY <1>2, <1>3 DEF BufWriteSector

\* The effect of a write on what the device has of the buffers.
LEMMA WriteSaves ==
  ASSUME NEW c, Good(c), NEW b \in Used(c), NEW r, r.blk = c.blk,
         r.disk = [c.disk EXCEPT ![c.blk[b].sector] = c.blk[b].mem]
  PROVE  /\ Saved(r, b)
         /\ \A a \in Used(c) : a # b => (Saved(r, a) <=> Saved(c, a))
         /\ \A s \in SectorIds : s # c.blk[b].sector => r.disk[s] = c.disk[s]
<1>1. c.disk \in [SectorIds -> SectorData] /\ c.blk[b].sector \in SectorIds
  BY DEF Good, Shape, Placed
<1>2. \A a \in Used(c) : /\ c.blk[a].sector \in SectorIds
                         /\ a # b => c.blk[a].sector # c.blk[b].sector
  BY DEF Good, Placed
<1> QED
  BY <1>1, <1>2 DEF Saved

\* What readers see is the same if the buffers in use hold the same and the device has
\* changed only under them.
LEMMA ViewSame ==
  ASSUME NEW c, Good(c), NEW r, Good(r), Used(r) = Used(c),
         \A a \in Used(c) : r.blk[a].sector = c.blk[a].sector /\ r.blk[a].mem = c.blk[a].mem,
         NEW s \in SectorIds,
         (\A a \in Used(c) : c.blk[a].sector # s) => r.disk[s] = c.disk[s]
  PROVE  View(r, s) = View(c, s)
<1>1. CASE \E a \in Used(c) : c.blk[a].sector = s
  BY <1>1, ViewIs
<1>2. CASE \A a \in Used(c) : c.blk[a].sector # s
  BY <1>2, ViewIs
<1> QED
  BY <1>1, <1>2

-------------------------------------------------------------------------------
(* Getting a buffer *)

\* The first half of giving up buffer b: it is clean, and on the device, although its
\* write may have been dropped.  Then the device still had what it held.
LEMMA GiveUp ==
  ASSUME config \in Configs, NEW c, Fine(c), NEW b \in Used(c), c.free_list = <<>>,
         NEW w \in IF c.blk[b].dirty THEN BufWriteSector(Clean(c, b), b) ELSE {c}
  PROVE  /\ Fine(w) /\ Used(w) = Used(c) /\ w.free_list = <<>> /\ w.lru_list = c.lru_list
         /\ ~w.blk[b].dirty /\ Saved(w, b)
         /\ \A a \in Used(c) : w.blk[a].sector = c.blk[a].sector
         /\ \A s \in SectorIds : View(w, s) = View(c, s)
<1>1. CASE ~c.blk[b].dirty
  <2>1. w = c
    BY <1>1
  <2>2. Saved(w, b)
    BY <1>1, <2>1 DEF Fine, Backed
  <2> QED
    BY <1>1, <2>1, <2>2
<1>2. CASE c.blk[b].dirty
  <2> DEFINE l == Clean(c, b)
  <2>1. Good(c) /\ Shape(c) /\ \A a \in Used(c) : a \in Buffers
    BY DEF Fine, Good, Used
  <2>2. /\ Good(l) /\ Used(l) = Used(c) /\ l.disk = c.disk /\ l.dropped = c.dropped
        /\ l.free_list = c.free_list /\ l.lru_list = c.lru_list
        /\ \A a \in Used(c) : /\ l.blk[a].sector = c.blk[a].sector /\ l.blk[a].mem = c.blk[a].mem
                              /\ l.blk[a].dirty <=> a # b /\ c.blk[a].dirty
    BY <2>1, CleanDoes
  <2>3. w \in BufWriteSector(l, b)
    BY <1>2
  <2> HIDE DEF l
  <2>4. /\ Good(w) /\ Used(w) = Used(l) /\ w.blk = l.blk
        /\ w.lru_list = l.lru_list /\ w.free_list = l.free_list
        /\ \/ /\ w.dropped = l.dropped
              /\ w.disk = [l.disk EXCEPT ![l.blk[b].sector] = l.blk[b].mem]
           \/ l.dropped < config.maxDropped /\ w.dropped = l.dropped + 1 /\ w.disk = l.disk
    BY <2>2, <2>3, WriteDoes
  <2>5. \A a \in Used(c) : Saved(l, a) <=> Saved(c, a)
    BY <2>2 DEF Saved
  <2>6. \A a \in Used(c) : a # b => (Saved(w, a) <=> Saved(c, a))
    <3>1. CASE w.disk = [l.disk EXCEPT ![l.blk[b].sector] = l.blk[b].mem]
      BY <2>2, <2>4, <2>5, <3>1, WriteSaves
    <3>2. CASE w.disk = l.disk
      BY <2>2, <2>4, <3>2 DEF Saved
    <3> QED
      BY <2>4, <3>1, <3>2
  <2>7. Saved(w, b)
    <3>1. CASE w.disk = [l.disk EXCEPT ![l.blk[b].sector] = l.blk[b].mem]
      BY <2>2, <2>4, <3>1, WriteSaves
    <3>2. CASE l.dropped < config.maxDropped /\ w.disk = l.disk
      <4>1. Saved(c, b)
        BY <2>2, <3>2 DEF Fine, Backed
      <4> QED
        BY <2>2, <2>4, <3>2, <4>1 DEF Saved
    <3> QED
      BY <2>4, <3>1, <3>2
  <2>8. \A a \in Used(c) : Saved(c, a) => Saved(w, a)
    BY <2>6, <2>7
  <2>9. \A a \in Used(c) : w.blk[a].dirty <=> a # b /\ c.blk[a].dirty
    BY <2>2, <2>4
  <2>10. c.dropped \in Nat /\ config.maxDropped \in Nat /\ (w.dropped = c.dropped \/ w.dropped = c.dropped + 1)
    BY <2>1, <2>2, <2>4, ConfigAssumption DEF Shape
  <2>11. w.dropped < config.maxDropped => c.dropped < config.maxDropped
    BY <2>10
  <2>12. w.dropped = 0 => c.dropped = 0
    BY <2>10
  <2>13. Backed(w)
    BY <2>2, <2>4, <2>7, <2>8, <2>9, <2>11 DEF Fine, Backed
  <2>14. Prompt(w)
    BY <2>2, <2>4, <2>8, <2>12 DEF Fine, Prompt
  <2>15. \A s \in SectorIds : View(w, s) = View(c, s)
    <3> SUFFICES ASSUME NEW s \in SectorIds
                 PROVE  View(w, s) = View(c, s)
      OBVIOUS
    <3>1. ASSUME \A a \in Used(c) : c.blk[a].sector # s
          PROVE  w.disk[s] = c.disk[s]
      <4>1. s # l.blk[b].sector
        BY <2>2, <3>1
      <4> QED
        BY <2>2, <2>4, <4>1, WriteSaves
    <3> QED
      BY <2>1, <2>2, <2>4, <3>1, ViewSame
  <2> QED
    BY <2>2, <2>4, <2>7, <2>9, <2>13, <2>14, <2>15 DEF Fine
<1> QED
  BY <1>1, <1>2

\* The other half: a clean buffer that the device has goes to the free list.
Evicted(w, b) == [w EXCEPT !.lru_list = Without(@, b),
                           !.hash_list[Hash(w.blk[b].sector)] = Without(@, b),
                           !.free_list = <<b>> \o @,
                           !.blk[b].in_use = FALSE]

LEMMA Evict ==
  ASSUME NEW w, Fine(w), NEW b \in Used(w), w.free_list = <<>>, ~w.blk[b].dirty, Saved(w, b),
         NEW r, r = Evicted(w, b)
  PROVE  /\ Fine(r) /\ Used(r) = Used(w) \ {b} /\ r.free_list # <<>>
         /\ \A a \in Used(r) : r.blk[a].sector = w.blk[a].sector
         /\ \A s \in SectorIds : View(r, s) = View(w, s)
<1> DEFINE blk  == [w.blk EXCEPT ![b].in_use = FALSE]
           k    == Hash(w.blk[b].sector)
           lru  == Without(w.lru_list, b)
           hash == [w.hash_list EXCEPT ![k] = Without(@, b)]
           free == <<b>> \o w.free_list
<1>1. Shape(w) /\ Lists(w) /\ Placed(w) /\ b \in Buffers /\ w.blk[b].sector \in SectorIds
  BY DEF Fine, Good, Used, Placed
<1>2. \A a \in Buffers : /\ blk[a].sector = w.blk[a].sector /\ blk[a].mem = w.blk[a].mem
                         /\ blk[a].in_use <=> a # b /\ w.blk[a].in_use
                         /\ blk[a].dirty <=> w.blk[a].dirty
  BY <1>1 DEF Shape
<1>3. blk \in [Buffers -> [sector : SectorIds \union {-1, 0}, dirty : BOOLEAN, in_use : BOOLEAN,
                           mem : SectorData]]
  BY <1>1, ZenonT(30) DEF Shape
<1>4. IsList(lru, Used(w) \ {b})
  BY <1>1, ListWithout DEF Lists
<1>5. IsList(free, (Buffers \ Used(w)) \union {b})
  BY <1>1, ListPrepend DEF Lists
<1>6. k \in 0..(BUF_HASH_CNT - 1)
  BY <1>1, Hashes
<1>7. \A h \in 0..(BUF_HASH_CNT - 1) : IsList(hash[h], InBucket(w, h) \ {b})
  <2> SUFFICES ASSUME NEW h \in 0..(BUF_HASH_CNT - 1)
               PROVE  IsList(hash[h], InBucket(w, h) \ {b})
    OBVIOUS
  <2>1. IsList(w.hash_list[h], InBucket(w, h))
    BY <1>1 DEF Lists
  <2>2. CASE h = k
    <3>1. hash[h] = Without(w.hash_list[h], b)
      BY <1>1, <1>6, <2>2 DEF Shape
    <3> QED
      BY <2>1, <3>1, ListWithout
  <2>3. CASE h # k
    <3>1. hash[h] = w.hash_list[h]
      BY <1>1, <1>6, <2>3 DEF Shape
    <3>2. b \notin InBucket(w, h)
      BY <2>3 DEF InBucket
    <3>3. InBucket(w, h) \ {b} = InBucket(w, h)
      BY <3>2
    <3> QED
      BY <2>1, <3>1, <3>3
  <2> QED
    BY <2>2, <2>3
<1>8. hash \in [0..(BUF_HASH_CNT - 1) -> Seq(Buffers)]
  <2>1. \A h \in 0..(BUF_HASH_CNT - 1) : hash[h] \in Seq(Buffers)
    BY <1>7 DEF IsList
  <2> QED
    BY <1>1, <2>1 DEF Shape
<1>9. lru \in Seq(Buffers) /\ free \in Seq(Buffers)
  BY <1>4, <1>5 DEF IsList
<1>10. free # <<>>
  BY <1>1 DEF Shape
<1>11. r = [w EXCEPT !.lru_list = lru, !.hash_list = hash, !.free_list = free, !.blk = blk]
  BY <1>1 DEF Shape, Evicted
<1> HIDE DEF blk, lru, hash, free, k
<1>12. /\ r.blk = blk /\ r.lru_list = lru /\ r.hash_list = hash /\ r.free_list = free
       /\ r.dirty_list = w.dirty_list /\ r.disk = w.disk /\ r.dropped = w.dropped
  BY <1>1, <1>11 DEF Shape
<1>13. Shape(r)
  BY <1>1, <1>3, <1>8, <1>9, <1>11 DEF Shape
<1>14. Used(r) = Used(w) \ {b}
  BY <1>2, <1>12 DEF Used
<1>15. \A a \in Used(w) : a \in Buffers
  BY DEF Used
<1>16. \A h : InBucket(r, h) = InBucket(w, h) \ {b}
  BY <1>2, <1>12, <1>14, <1>15 DEF InBucket
<1>17. Buffers \ Used(r) = (Buffers \ Used(w)) \union {b}
  BY <1>1, <1>14
<1>18. {a \in Buffers : r.blk[a].dirty} = {a \in Buffers : w.blk[a].dirty}
  BY <1>2, <1>12
<1>19. Lists(r)
  <2>1. IsList(r.lru_list, Used(r)) /\ IsList(r.free_list, Buffers \ Used(r))
    BY <1>4, <1>5, <1>12, <1>14, <1>17
  <2>2. IsList(r.dirty_list, {a \in Buffers : r.blk[a].dirty})
    BY <1>1, <1>12, <1>18 DEF Lists
  <2>3. \A h \in 0..(BUF_HASH_CNT - 1) : IsList(r.hash_list[h], InBucket(r, h))
    BY <1>7, <1>12, <1>16
  <2> QED
    BY <2>1, <2>2, <2>3 DEF Lists
<1>20. \A a \in Used(r) : /\ a \in Used(w) /\ r.blk[a].sector = w.blk[a].sector
                          /\ r.blk[a].mem = w.blk[a].mem
                          /\ r.blk[a].dirty <=> w.blk[a].dirty
                          /\ Saved(r, a) <=> Saved(w, a)
  BY <1>2, <1>12, <1>14, <1>15 DEF Saved
<1>21. \A a \in Buffers : r.blk[a].dirty => w.blk[a].dirty /\ a # b
  BY <1>2, <1>12
<1>22. Placed(r)
  BY <1>1, <1>14, <1>20, <1>21 DEF Placed
<1>23. Good(r)
  BY <1>13, <1>19, <1>22 DEF Good
<1>24. Backed(r)
  BY <1>12, <1>20 DEF Fine, Backed
<1>25. Prompt(r)
  BY <1>12, <1>20 DEF Fine, Prompt
<1>26. ASSUME NEW s \in SectorIds
       PROVE  View(r, s) = View(w, s)
  <2>0. Good(w)
    BY DEF Fine
  <2>1. CASE s = w.blk[b].sector
    <3>1. View(w, s) = w.blk[b].mem
      BY <2>0, <2>1, ViewIs
    <3>2. \A a \in Used(r) : r.blk[a].sector # s
      BY <1>1, <1>14, <1>20, <2>1 DEF Placed
    <3>3. View(r, s) = r.disk[s]
      BY <1>23, <3>2, ViewIs
    <3> QED
      BY <1>12, <2>1, <3>1, <3>3 DEF Saved
  <2>2. CASE s # w.blk[b].sector
    <3>1. CASE \E a \in Used(r) : r.blk[a].sector = s
      <4>1. PICK a \in Used(r) : r.blk[a].sector = s
        BY <3>1
      <4>2. a \in Used(w) /\ w.blk[a].sector = s /\ r.blk[a].mem = w.blk[a].mem
        BY <1>20, <4>1
      <4>3. View(r, s) = r.blk[a].mem
        BY <1>23, <4>1, ViewIs
      <4>4. View(w, s) = w.blk[a].mem
        BY <2>0, <4>2, ViewIs
      <4> QED
        BY <4>2, <4>3, <4>4
    <3>2. CASE \A a \in Used(r) : r.blk[a].sector # s
      <4>1. \A a \in Used(w) : w.blk[a].sector # s
        BY <1>14, <1>20, <2>2, <3>2
      <4>2. View(r, s) = r.disk[s]
        BY <1>23, <3>2, ViewIs
      <4>3. View(w, s) = w.disk[s]
        BY <2>0, <4>1, ViewIs
      <4> QED
        BY <1>12, <4>2, <4>3
    <3> QED
      BY <3>1, <3>2
  <2> QED
    BY <2>1, <2>2
<1> QED
  BY <1>10, <1>12, <1>14, <1>20, <1>23, <1>24, <1>25, <1>26 DEF Fine

\* The last buffer of the LRU list is in use, or there would be a free one.
LEMMA LastIsUsed ==
  ASSUME NEW c, Good(c), c.free_list = <<>>
  PROVE  Last(c.lru_list) \in Used(c)
<1>1. Lists(c) /\ \A b \in Used(c) : b \in Buffers
  BY DEF Good, Used
<1>2. Buffers \ Used(c) = {}
  <2>1. IsList(<<>>, Buffers \ Used(c))
    BY <1>1 DEF Lists
  <2>2. \A b \in Buffers \ Used(c) : \E i \in 1..Len(<<>>) : <<>>[i] = b
    BY <2>1, ListDef DEF IsList
  <2> QED
    BY <2>2
<1>3. PICK b \in Used(c) : TRUE
  BY <1>2, SectorAssumption
<1> DEFINE l == c.lru_list
<1>4. l \in Seq(Buffers) /\ Len(l) \in Nat /\ IsList(l, Used(c))
  BY <1>1 DEF Lists, IsList
<1> HIDE DEF l
<1>5. \A i \in 1..Len(l) : l[i] \in Used(c)
  BY <1>4, ListDef DEF IsList
<1>6. PICK i \in 1..Len(l) : l[i] = b
  BY <1>3, <1>4, ListDef DEF IsList
<1>7. Len(l) \in 1..Len(l)
  BY <1>4, <1>6
<1> QED
  BY <1>5, <1>7 DEF Last, l

LEMMA ReclaimDoes ==
  ASSUME config \in Configs, NEW c, Fine(c), c.free_list = <<>>, NEW r \in Reclaim(c)
  PROVE  /\ Fine(r) /\ r.free_list # <<>>
         /\ \A a \in Used(r) : a \in Used(c) /\ r.blk[a].sector = c.blk[a].sector
         /\ \A s \in SectorIds : View(r, s) = View(c, s)
<1> DEFINE b == Last(c.lru_list)
<1>1. b \in Used(c)
  BY LastIsUsed DEF Fine
<1>2. PICK w \in IF c.blk[b].dirty THEN BufWriteSector(Clean(c, b), b) ELSE {c} :
        r = Evicted(w, b)
  BY DEF Reclaim, Evicted
<1> HIDE DEF b
<1>3. /\ Fine(w) /\ Used(w) = Used(c) /\ w.free_list = <<>>
      /\ ~w.blk[b].dirty /\ Saved(w, b)
      /\ \A a \in Used(c) : w.blk[a].sector = c.blk[a].sector
      /\ \A s \in SectorIds : View(w, s) = View(c, s)
  BY <1>1, <1>2, GiveUp
<1>4. b \in Used(w)
  BY <1>1, <1>3
<1>5. /\ Fine(r) /\ Used(r) = Used(w) \ {b} /\ r.free_list # <<>>
      /\ \A a \in Used(r) : r.blk[a].sector = w.blk[a].sector
      /\ \A s \in SectorIds : View(r, s) = View(w, s)
  BY <1>2, <1>3, <1>4, Evict
<1> QED
  BY <1>3, <1>5

\* The first free buffer becomes that of a sector that has none.
LEMMA FillDoes ==
  ASSUME NEW c, Fine(c), c.free_list # <<>>, NEW s \in SectorIds,
         \A a \in Used(c) : c.blk[a].sector # s,
         NEW r, r = Fill(c, s)
  PROVE  /\ Fine(r) /\ Head(r.lru_list) \in Used(r) /\ r.blk[Head(r.lru_list)].sector = s
         /\ \A x \in SectorIds : View(r, x) = View(c, x)
<1> DEFINE b    == Head(c.free_list)
           new  == [sector |-> s, dirty |-> FALSE, in_use |-> TRUE, mem |-> c.disk[s]]
           blk  == [c.blk EXCEPT ![b] = new]
           k    == Hash(s)
           lru  == <<b>> \o c.lru_list
           hash == [c.hash_list EXCEPT ![k] = <<b>> \o @]
           free == Tail(c.free_list)
<1>1. Good(c) /\ Shape(c) /\ Lists(c) /\ Placed(c)
  BY DEF Fine, Good
<1>2. b \in Buffers \ Used(c) /\ IsList(free, (Buffers \ Used(c)) \ {b})
  BY <1>1, ListTail DEF Lists
<1>3. /\ blk[b].sector = s /\ blk[b].mem = c.disk[s]
      /\ blk[b].in_use
      /\ ~blk[b].dirty
      /\ \A a \in Buffers : a # b => blk[a] = c.blk[a]
  BY <1>1, <1>2 DEF Shape
<1>4. blk \in [Buffers -> [sector : SectorIds \union {-1, 0}, dirty : BOOLEAN, in_use : BOOLEAN,
                           mem : SectorData]]
  <2>1. c.disk[s] \in SectorData
    BY <1>1 DEF Shape
  <2>2. new \in [sector : SectorIds \union {-1, 0}, dirty : BOOLEAN, in_use : BOOLEAN, mem : SectorData]
    BY <2>1
  <2> HIDE DEF new
  <2> QED
    BY <1>1, <2>2 DEF Shape
<1>5. IsList(lru, Used(c) \union {b})
  BY <1>1, <1>2, ListPrepend DEF Lists
<1>6. k \in 0..(BUF_HASH_CNT - 1)
  BY Hashes
<1>7. \A h \in 0..(BUF_HASH_CNT - 1) :
        IsList(hash[h], IF h = k THEN InBucket(c, h) \union {b} ELSE InBucket(c, h))
  <2> SUFFICES ASSUME NEW h \in 0..(BUF_HASH_CNT - 1)
               PROVE  IsList(hash[h], IF h = k THEN InBucket(c, h) \union {b} ELSE InBucket(c, h))
    OBVIOUS
  <2>1. IsList(c.hash_list[h], InBucket(c, h))
    BY <1>1 DEF Lists
  <2>2. CASE h = k
    <3>1. hash[h] = <<b>> \o c.hash_list[h]
      BY <1>1, <1>6, <2>2 DEF Shape
    <3>2. b \notin InBucket(c, h)
      BY <1>2 DEF InBucket
    <3> QED
      BY <1>2, <2>1, <2>2, <3>1, <3>2, ListPrepend
  <2>3. CASE h # k
    <3>1. hash[h] = c.hash_list[h]
      BY <1>1, <1>6, <2>3 DEF Shape
    <3> QED
      BY <2>1, <2>3, <3>1
  <2> QED
    BY <2>2, <2>3
<1>8. hash \in [0..(BUF_HASH_CNT - 1) -> Seq(Buffers)]
  <2>1. \A h \in 0..(BUF_HASH_CNT - 1) : hash[h] \in Seq(Buffers)
    BY <1>7 DEF IsList
  <2> QED
    BY <1>1, <2>1 DEF Shape
<1>9. lru \in Seq(Buffers) /\ free \in Seq(Buffers) /\ Head(lru) = b
  BY <1>1, <1>2, <1>5 DEF IsList, Shape
<1>10. r = [c EXCEPT !.free_list = free, !.lru_list = lru, !.blk = blk, !.hash_list = hash]
  BY <1>1 DEF Shape, Fill
<1> HIDE DEF blk, lru, hash, free, k, new, b
<1>11. /\ r.blk = blk /\ r.lru_list = lru /\ r.hash_list = hash /\ r.free_list = free
       /\ r.dirty_list = c.dirty_list /\ r.disk = c.disk /\ r.dropped = c.dropped
  BY <1>1, <1>10 DEF Shape
<1>12. Shape(r)
  BY <1>1, <1>4, <1>8, <1>9, <1>10 DEF Shape
<1>13. \A a \in Used(c) : a \in Buffers /\ a # b
  BY <1>2 DEF Used
<1>14. Used(r) = Used(c) \union {b}
  BY <1>2, <1>3, <1>11 DEF Used
<1>15. ASSUME NEW h
       PROVE  InBucket(r, h) = IF h = k THEN InBucket(c, h) \union {b} ELSE InBucket(c, h)
  <2>1. \A a \in Used(c) : a \in InBucket(r, h) <=> a \in InBucket(c, h)
    BY <1>3, <1>11, <1>13, <1>14 DEF InBucket
  <2>2. b \in InBucket(r, h) <=> h = k
    BY <1>3, <1>11, <1>14 DEF InBucket, k
  <2>3. InBucket(r, h) \subseteq Used(c) \union {b} /\ InBucket(c, h) \subseteq Used(c)
    BY <1>14 DEF InBucket
  <2> QED
    BY <2>1, <2>2, <2>3
<1>16. Buffers \ Used(r) = (Buffers \ Used(c)) \ {b}
  BY <1>14
<1>17. \A a \in Buffers : r.blk[a].dirty => a # b /\ c.blk[a].dirty
  BY <1>3, <1>11
<1>18. {a \in Buffers : r.blk[a].dirty} = {a \in Buffers : c.blk[a].dirty}
  <2>1. \A a \in Buffers : c.blk[a].dirty => a # b
    BY <1>1, <1>2 DEF Placed
  <2>2. \A a \in Buffers : r.blk[a].dirty <=> c.blk[a].dirty
    BY <1>3, <1>11, <2>1
  <2> QED
    BY <2>2
<1>19. Lists(r)
  <2>1. IsList(r.lru_list, Used(r)) /\ IsList(r.free_list, Buffers \ Used(r))
    BY <1>2, <1>5, <1>11, <1>14, <1>16
  <2>2. IsList(r.dirty_list, {a \in Buffers : r.blk[a].dirty})
    BY <1>1, <1>11, <1>18 DEF Lists
  <2>3. \A h \in 0..(BUF_HASH_CNT - 1) : IsList(r.hash_list[h], InBucket(r, h))
    BY <1>7, <1>11, <1>15
  <2> QED
    BY <2>1, <2>2, <2>3 DEF Lists
<1>20. \A a \in Used(c) : r.blk[a] = c.blk[a] /\ a # b
  BY <1>3, <1>11, <1>13
<1>21. r.blk[b].sector = s /\ r.blk[b].mem = c.disk[s]
  BY <1>3, <1>11
<1>22. Placed(r)
  <2>1. \A x, y \in Used(r) : r.blk[x].sector = r.blk[y].sector => x = y
    BY <1>1, <1>14, <1>20, <1>21 DEF Placed
  <2>2. \A x \in Used(r) : r.blk[x].sector \in SectorIds
    BY <1>1, <1>14, <1>20, <1>21 DEF Placed
  <2>3. \A x \in Buffers : r.blk[x].dirty => x \in Used(r)
    BY <1>1, <1>14, <1>17 DEF Placed
  <2> QED
    BY <2>1, <2>2, <2>3 DEF Placed
<1>23. Good(r)
  BY <1>12, <1>19, <1>22 DEF Good
<1>24. Saved(r, b) /\ \A a \in Used(c) : Saved(r, a) <=> Saved(c, a)
  BY <1>11, <1>20, <1>21 DEF Saved
<1>25. Backed(r)
  BY <1>11, <1>14, <1>20, <1>24 DEF Fine, Backed
<1>26. Prompt(r)
  BY <1>11, <1>14, <1>24 DEF Fine, Prompt
<1>27. ASSUME NEW x \in SectorIds
       PROVE  View(r, x) = View(c, x)
  <2>1. CASE x = s
    <3>1. View(c, x) = c.disk[s]
      BY <1>1, <2>1, ViewIs
    <3>2. View(r, x) = r.blk[b].mem
      BY <1>14, <1>21, <1>23, <2>1, ViewIs
    <3> QED
      BY <1>21, <3>1, <3>2
  <2>2. CASE x # s /\ \E a \in Used(c) : c.blk[a].sector = x
    <3>1. PICK a \in Used(c) : c.blk[a].sector = x
      BY <2>2
    <3>2. View(c, x) = c.blk[a].mem
      BY <1>1, <3>1, ViewIs
    <3>3. a \in Used(r) /\ r.blk[a].sector = x /\ r.blk[a].mem = c.blk[a].mem
      BY <1>14, <1>20, <3>1
    <3>4. View(r, x) = r.blk[a].mem
      BY <1>23, <3>3, ViewIs
    <3> QED
      BY <3>2, <3>3, <3>4
  <2>3. CASE x # s /\ \A a \in Used(c) : c.blk[a].sector # x
    <3>1. View(c, x) = c.disk[x]
      BY <1>1, <2>3, ViewIs
    <3>2. \A a \in Used(r) : r.blk[a].sector # x
      BY <1>14, <1>20, <1>21, <2>3
    <3>3. View(r, x) = r.disk[x]
      BY <1>23, <3>2, ViewIs
    <3> QED
      BY <1>11, <3>1, <3>3
  <2> QED
    BY <2>1, <2>2, <2>3
<1> QED
  BY <1>9, <1>11, <1>14, <1>21, <1>23, <1>25, <1>26, <1>27 DEF Fine

\* A buffer in use moves within the LRU list.
LEMMA Moved ==
  ASSUME NEW c, Good(c), NEW list, IsList(list, Used(c)),
         NEW r, r = [c EXCEPT !.lru_list = list]
  PROVE  /\ Good(r) /\ Used(r) = Used(c) /\ r.blk = c.blk /\ r.lru_list = list
         /\ r.disk = c.disk /\ r.dropped = c.dropped
<1>1. Shape(c) /\ Lists(c) /\ Placed(c) /\ Good(c) /\ list \in Seq(Buffers)
  BY DEF Good, IsList
<1>2. /\ r.blk = c.blk /\ r.lru_list = list /\ r.hash_list = c.hash_list
      /\ r.free_list = c.free_list /\ r.dirty_list = c.dirty_list /\ r.disk = c.disk
      /\ r.dropped = c.dropped
  BY <1>1 DEF Shape
<1>3. Shape(r)
  BY <1>1 DEF Shape
<1>4. Used(r) = Used(c)
  BY <1>2 DEF Used
<1>5. \A h : InBucket(r, h) = InBucket(c, h)
  BY <1>2, <1>4 DEF InBucket
<1>6. Lists(r)
  BY <1>1, <1>2, <1>4, <1>5 DEF Lists
<1>7. Placed(r)
  BY <1>1, <1>2, <1>4 DEF Placed
<1> QED
  BY <1>2, <1>3, <1>4, <1>6, <1>7 DEF Good

\* BufGetBlock changes nothing that a reader can see, and leaves the buffer of s first in
\* the LRU list.
LEMMA GetDoes ==
  ASSUME config \in Configs, NEW c, Fine(c), NEW s \in SectorIds, NEW r \in BufGetBlock(c, s)
  PROVE  /\ Fine(r) /\ Head(r.lru_list) \in Used(r) /\ r.blk[Head(r.lru_list)].sector = s
         /\ \A x \in SectorIds : View(r, x) = View(c, x)
<1>1. Good(c)
  BY DEF Fine
<1>2. CASE Buffered(c, s)
  <2> DEFINE b    == BufferOf(c, s)
             rest == Without(c.lru_list, b)
             list == <<b>> \o rest
  <2>1. b \in Used(c) /\ c.blk[b].sector = s /\ b \in Buffers
    BY <1>1, <1>2, BufferFound DEF Used
  <2> HIDE DEF b
  <2>2. IsList(rest, Used(c) \ {b})
    BY <1>1, ListWithout DEF Good, Lists
  <2> HIDE DEF rest
  <2>3. IsList(list, (Used(c) \ {b}) \union {b})
    BY <2>1, <2>2, ListPrepend
  <2>4. (Used(c) \ {b}) \union {b} = Used(c)
    BY <2>1
  <2>5. Head(list) = b
    BY <2>1, <2>2 DEF IsList
  <2>6. r = [c EXCEPT !.lru_list = list]
    BY <1>1, <1>2 DEF BufGetBlock, Good, Shape, b, rest
  <2> HIDE DEF list
  <2>7. IsList(list, Used(c))
    BY <2>3, <2>4
  <2>8. /\ Good(r) /\ Used(r) = Used(c) /\ r.blk = c.blk /\ r.lru_list = list
        /\ r.disk = c.disk /\ r.dropped = c.dropped
    BY <1>1, <2>6, <2>7, Moved
  <2>9. \A a : Saved(r, a) <=> Saved(c, a)
    BY <2>8 DEF Saved
  <2>10. Fine(r)
    BY <2>8, <2>9 DEF Fine, Backed, Prompt
  <2>11. \A x \in SectorIds : View(r, x) = View(c, x)
    BY <1>1, <2>8, ViewSame
  <2> QED
    BY <2>1, <2>5, <2>8, <2>10, <2>11
<1>3. CASE ~Buffered(c, s)
  <2>1. \A a \in Used(c) : c.blk[a].sector # s
    BY <1>1, <1>3, BufferFound
  <2>2. PICK f \in IF c.free_list = <<>> THEN Reclaim(c) ELSE {c} : r = Fill(f, s)
    BY <1>3 DEF BufGetBlock
  <2>3. /\ Fine(f) /\ f.free_list # <<>>
        /\ \A a \in Used(f) : a \in Used(c) /\ f.blk[a].sector = c.blk[a].sector
        /\ \A x \in SectorIds : View(f, x) = View(c, x)
    <3>1. CASE c.free_list = <<>>
      BY <2>2, <3>1, ReclaimDoes
    <3>2. CASE c.free_list # <<>>
      <4>1. f = c
        BY <2>2, <3>2
      <4> QED
        BY <3>2, <4>1
    <3> QED
      BY <3>1, <3>2
  <2>4. \A a \in Used(f) : f.blk[a].sector # s
    BY <2>1, <2>3
  <2>5. /\ Fine(r) /\ Head(r.lru_list) \in Used(r) /\ r.blk[Head(r.lru_list)].sector = s
        /\ \A x \in SectorIds : View(r, x) = View(f, x)
    BY <2>2, <2>3, <2>4, FillDoes
  <2> QED
    BY <2>3, <2>5
<1> QED
  BY <1>2, <1>3

-------------------------------------------------------------------------------
(* Putting a buffer back *)

LEMMA MakeDirtyDoes ==
  ASSUME NEW c, Good(c), NEW b \in Used(c), NEW r, r = MakeDirty(c, b)
  PROVE  /\ Good(r) /\ Used(r) = Used(c) /\ r.disk = c.disk /\ r.dropped = c.dropped
         /\ \A a \in Buffers : /\ r.blk[a].sector = c.blk[a].sector /\ r.blk[a].mem = c.blk[a].mem
                               /\ r.blk[a].dirty <=> a = b \/ c.blk[a].dirty
<1> DEFINE blk  == [c.blk EXCEPT ![b].dirty = TRUE]
           list == Append(c.dirty_list, b)
<1>1. b \in Buffers /\ Shape(c) /\ Lists(c) /\ Placed(c)
  BY DEF Used, Good
<1>2. CASE c.blk[b].dirty
  BY <1>1, <1>2 DEF MakeDirty
<1>3. CASE ~c.blk[b].dirty
  <2>1. \A a \in Buffers : /\ blk[a].sector = c.blk[a].sector /\ blk[a].mem = c.blk[a].mem
                           /\ blk[a].in_use <=> c.blk[a].in_use
                           /\ blk[a].dirty <=> a = b \/ c.blk[a].dirty
    BY <1>1 DEF Shape
  <2>2. IsList(list, {a \in Buffers : c.blk[a].dirty} \union {b})
    BY <1>1, <1>3, ListAppend DEF Lists
  <2>3. blk \in [Buffers -> [sector : SectorIds \union {-1, 0}, dirty : BOOLEAN, in_use : BOOLEAN,
                             mem : SectorData]]
    BY <1>1 DEF Shape
  <2>4. list \in Seq(Buffers)
    BY <2>2 DEF IsList
  <2>5. r = [c EXCEPT !.blk = blk, !.dirty_list = list]
    BY <1>1, <1>3 DEF MakeDirty, Shape
  <2> HIDE DEF blk, list
  <2>6. /\ r.blk = blk /\ r.dirty_list = list /\ r.lru_list = c.lru_list
        /\ r.free_list = c.free_list /\ r.hash_list = c.hash_list /\ r.disk = c.disk
        /\ r.dropped = c.dropped
    BY <1>1, <2>5 DEF Shape
  <2>7. Shape(r)
    BY <1>1, <2>3, <2>4, <2>5 DEF Shape
  <2>8. Used(r) = Used(c)
    BY <2>1, <2>6 DEF Used
  <2>9. \A a \in Used(c) : a \in Buffers /\ r.blk[a].sector = c.blk[a].sector
    BY <2>1, <2>6 DEF Used
  <2>10. \A h : InBucket(r, h) = InBucket(c, h)
    BY <2>8, <2>9 DEF InBucket
  <2>11. {a \in Buffers : r.blk[a].dirty} = {a \in Buffers : c.blk[a].dirty} \union {b}
    BY <1>1, <2>1, <2>6
  <2>12. Lists(r)
    BY <1>1, <2>2, <2>6, <2>8, <2>10, <2>11 DEF Lists
  <2>13. \A a \in Buffers : r.blk[a].dirty => a = b \/ c.blk[a].dirty
    BY <2>1, <2>6
  <2>14. Placed(r)
    BY <1>1, <2>8, <2>9, <2>13 DEF Placed
  <2> QED
    BY <2>1, <2>6, <2>7, <2>8, <2>12, <2>14 DEF Good
<1> QED
  BY <1>2, <1>3

\* The caller of BufGetBlock writes to the memory of the buffer.
WithMemory(c, b, mem) == [c EXCEPT !.blk[b].mem = mem]

LEMMA MemoryDoes ==
  ASSUME NEW c, Good(c), NEW b \in Used(c), NEW mem \in SectorData,
         NEW r, r = WithMemory(c, b, mem)
  PROVE  /\ Good(r) /\ Used(r) = Used(c) /\ r.disk = c.disk /\ r.dropped = c.dropped
         /\ \A a \in Buffers : /\ r.blk[a].sector = c.blk[a].sector
                               /\ r.blk[a].mem = IF a = b THEN mem ELSE c.blk[a].mem
                               /\ r.blk[a].dirty <=> c.blk[a].dirty
<1> DEFINE blk  == [c.blk EXCEPT ![b].mem = mem]
<1>1. b \in Buffers /\ Shape(c)
  BY DEF Used, Good
<1>2. \A a \in Buffers : /\ blk[a].sector = c.blk[a].sector
                         /\ blk[a].mem = IF a = b THEN mem ELSE c.blk[a].mem
                         /\ blk[a].in_use <=> c.blk[a].in_use
                         /\ blk[a].dirty <=> c.blk[a].dirty
  BY <1>1 DEF Shape
<1>3. blk \in [Buffers -> [sector : SectorIds \union {-1, 0}, dirty : BOOLEAN, in_use : BOOLEAN,
                           mem : SectorData]]
  BY <1>1 DEF Shape
<1>4. r = [c EXCEPT !.blk = blk]
  BY <1>1 DEF Shape, WithMemory
<1> HIDE DEF blk
<1>5. /\ r.blk = blk /\ r.dirty_list = c.dirty_list /\ r.lru_list = c.lru_list
      /\ r.free_list = c.free_list /\ r.hash_list = c.hash_list /\ r.disk = c.disk
      /\ r.dropped = c.dropped
  BY <1>1, <1>4 DEF Shape
<1>6. Shape(r)
  BY <1>1, <1>3, <1>4 DEF Shape
<1>7. Good(r) /\ Used(r) = Used(c)
  BY <1>2, <1>5, <1>6, GoodAlike
<1> QED
  BY <1>2, <1>5, <1>7

\* Backed and Prompt of every buffer but b, whose memory was just written to.
FineBut(c, b) ==
  /\ \A a \in Used(c) : a # b /\ ~c.blk[a].dirty => Saved(c, a)
  /\ c.dropped < config.maxDropped => \A a \in Used(c) : a # b => Saved(c, a)
  /\ config.writeback_delay = 0 =>
       /\ c.dropped = 0 => \A a \in Used(c) : a # b => Saved(c, a)
       /\ \A x, y \in Used(c) : x # b /\ y # b /\ ~Saved(c, x) /\ ~Saved(c, y) => x = y

\* The three ways in which BufPutBlock makes good for b: the device has it; the device
\* dropped it, which no other buffer suffered; there is a delay.
LEMMA Settled ==
  ASSUME config \in Configs, NEW c, Good(c), NEW b \in Used(c), FineBut(c, b),
         NEW r, Good(r), Used(r) = Used(c),
         \A a \in Used(c) : a # b => /\ r.blk[a].dirty <=> c.blk[a].dirty
                                     /\ Saved(r, a) <=> Saved(c, a),
         \/ Saved(r, b) /\ r.dropped = c.dropped
         \/ r.blk[b].dirty /\ c.dropped < config.maxDropped /\ r.dropped = c.dropped + 1
         \/ r.blk[b].dirty /\ config.writeback_delay # 0 /\ r.dropped = c.dropped
  PROVE  Fine(r)
<1>1. /\ config.maxDropped \in {0, 1}
      /\ config.maxDropped = 1 => config.writeback_delay = 0
      /\ c.dropped \in Nat /\ c.dropped <= config.maxDropped
  <2>1. config.maxDropped \in 0..1 /\ (config.maxDropped = 1 => config.writeback_delay = 0)
    BY ConfigAssumption
  <2>2. c.dropped \in 0..config.maxDropped
    BY DEF Good, Shape
  <2> QED
    BY <2>1, <2>2
<1>2. CASE Saved(r, b) /\ r.dropped = c.dropped
  <2>1. Backed(r)
    BY <1>2 DEF FineBut, Backed
  <2>2. Prompt(r)
    BY <1>2 DEF FineBut, Prompt
  <2> QED
    BY <2>1, <2>2 DEF Fine
<1>3. CASE r.blk[b].dirty /\ c.dropped < config.maxDropped /\ r.dropped = c.dropped + 1
  <2>1. ~(r.dropped < config.maxDropped) /\ r.dropped # 0
    BY <1>1, <1>3
  <2>2. \A a \in Used(c) : a # b => Saved(r, a)
    BY <1>3 DEF FineBut
  <2>3. Backed(r) /\ Prompt(r)
    BY <1>3, <2>1, <2>2 DEF Backed, Prompt
  <2> QED
    BY <2>3 DEF Fine
<1>4. CASE r.blk[b].dirty /\ config.writeback_delay # 0 /\ r.dropped = c.dropped
  <2>1. ~(r.dropped < config.maxDropped)
    BY <1>1, <1>4
  <2>2. Backed(r) /\ Prompt(r)
    BY <1>4, <2>1 DEF FineBut, Backed, Prompt
  <2> QED
    BY <2>2 DEF Fine
<1> QED
  BY <1>2, <1>3, <1>4

LEMMA PutWritten ==
  ASSUME config \in Configs, NEW c, Good(c), NEW b \in Used(c), FineBut(c, b),
         c.blk[b].dirty \/ config.maxDropped = 0,
         NEW r \in BufWriteSector(c, b)
  PROVE  Fine(r) /\ Used(r) = Used(c) /\ \A s \in SectorIds : View(r, s) = View(c, s)
<1>1. /\ Good(r) /\ Used(r) = Used(c) /\ r.blk = c.blk
      /\ \/ /\ r.dropped = c.dropped
            /\ r.disk = [c.disk EXCEPT ![c.blk[b].sector] = c.blk[b].mem]
         \/ c.dropped < config.maxDropped /\ r.dropped = c.dropped + 1 /\ r.disk = c.disk
  BY WriteDoes
<1>2. CASE r.dropped = c.dropped /\ r.disk = [c.disk EXCEPT ![c.blk[b].sector] = c.blk[b].mem]
  <2>1. /\ Saved(r, b)
        /\ \A a \in Used(c) : a # b => (Saved(r, a) <=> Saved(c, a))
        /\ \A s \in SectorIds : s # c.blk[b].sector => r.disk[s] = c.disk[s]
    BY <1>1, <1>2, WriteSaves
  <2>2. Fine(r)
    BY <1>1, <1>2, <2>1, Settled
  <2>3. \A s \in SectorIds : View(r, s) = View(c, s)
    BY <1>1, <2>1, ViewSame
  <2> QED
    BY <1>1, <2>2, <2>3
<1>3. CASE c.dropped < config.maxDropped /\ r.dropped = c.dropped + 1 /\ r.disk = c.disk
  <2>1. c.dropped \in Nat
    BY DEF Good, Shape
  <2>2. r.blk[b].dirty
    BY <1>1, <1>3, <2>1
  <2>3. \A a \in Used(c) : Saved(r, a) <=> Saved(c, a)
    BY <1>1, <1>3 DEF Saved
  <2>4. Fine(r)
    BY <1>1, <1>3, <2>2, <2>3, Settled
  <2>5. \A s \in SectorIds : View(r, s) = View(c, s)
    BY <1>1, <1>3, ViewSame
  <2> QED
    BY <1>1, <2>4, <2>5
<1> QED
  BY <1>1, <1>2, <1>3

LEMMA PutDoes ==
  ASSUME config \in Configs, NEW mode \in config.modes,
         NEW c, Good(c), NEW b \in Used(c), FineBut(c, b), NEW r \in BufPutBlock(c, b, mode)
  PROVE  Fine(r) /\ Used(r) = Used(c) /\ \A s \in SectorIds : View(r, s) = View(c, s)
<1> DEFINE l == IF "BUF_ONESHOT" \in mode
                THEN [c EXCEPT !.lru_list = Append(Without(@, b), b)] ELSE c
<1>1. b \in Buffers /\ \A a \in Used(c) : a \in Buffers
  BY DEF Used
<1>2. Good(l) /\ Used(l) = Used(c) /\ l.blk = c.blk /\ l.disk = c.disk /\ l.dropped = c.dropped
  <2>1. CASE "BUF_ONESHOT" \in mode
    <3> DEFINE rest == Without(c.lru_list, b)
               list == Append(rest, b)
    <3>1. IsList(rest, Used(c) \ {b})
      BY ListWithout DEF Good, Lists
    <3> HIDE DEF rest
    <3>2. IsList(list, (Used(c) \ {b}) \union {b})
      BY <1>1, <3>1, ListAppend
    <3>3. (Used(c) \ {b}) \union {b} = Used(c)
      OBVIOUS
    <3>4. l = [c EXCEPT !.lru_list = list]
      BY <2>1 DEF Good, Shape, rest
    <3> HIDE DEF list, l
    <3> QED
      BY <3>2, <3>3, <3>4, Moved
  <2>2. CASE ~("BUF_ONESHOT" \in mode)
    BY <2>2
  <2> QED
    BY <2>1, <2>2
<1>3. r \in IF "BUF_IMMED" \in mode
            THEN IF config.writethru_critical # 0 THEN BufWriteSector(Clean(l, b), b) ELSE {Clean(l, b)}
            ELSE IF config.writeback_delay = 0 THEN BufWriteSector(MakeDirty(l, b), b)
                 ELSE {MakeDirty(l, b)}
  BY DEF BufPutBlock
<1> HIDE DEF l
<1>4. FineBut(l, b)
  BY <1>2 DEF FineBut, Saved
<1>5. \A s \in SectorIds : View(l, s) = View(c, s)
  BY <1>2, ViewSame
<1>6. CASE "BUF_IMMED" \in mode
  <2> DEFINE x == Clean(l, b)
  <2>1. config.writethru_critical # 0 /\ config.maxDropped = 0
    BY <1>6, ConfigAssumption
  <2>2. /\ Good(x) /\ Used(x) = Used(l) /\ x.disk = l.disk /\ x.dropped = l.dropped
        /\ \A a \in Buffers : /\ x.blk[a].sector = l.blk[a].sector /\ x.blk[a].mem = l.blk[a].mem
                              /\ x.blk[a].dirty <=> a # b /\ l.blk[a].dirty
    BY <1>2, CleanDoes
  <2>3. r \in BufWriteSector(x, b)
    BY <1>3, <1>6, <2>1
  <2> HIDE DEF x
  <2>4. \A a \in Used(l) : /\ Saved(x, a) <=> Saved(l, a)
                           /\ a # b => (x.blk[a].dirty <=> l.blk[a].dirty)
    BY <1>1, <1>2, <2>2 DEF Saved
  <2>5. FineBut(x, b)
    BY <1>4, <2>2, <2>4 DEF FineBut
  <2>6. \A s \in SectorIds : View(x, s) = View(l, s)
    BY <1>1, <1>2, <2>2, ViewSame
  <2>7. Fine(r) /\ Used(r) = Used(x) /\ \A s \in SectorIds : View(r, s) = View(x, s)
    BY <1>2, <2>1, <2>2, <2>3, <2>5, PutWritten
  <2> QED
    BY <1>2, <1>5, <2>2, <2>6, <2>7
<1>7. CASE ~("BUF_IMMED" \in mode)
  <2> DEFINE x == MakeDirty(l, b)
  <2>1. /\ Good(x) /\ Used(x) = Used(l) /\ x.disk = l.disk /\ x.dropped = l.dropped
        /\ \A a \in Buffers : /\ x.blk[a].sector = l.blk[a].sector /\ x.blk[a].mem = l.blk[a].mem
                              /\ x.blk[a].dirty <=> a = b \/ l.blk[a].dirty
    BY <1>2, MakeDirtyDoes
  <2>2. r \in IF config.writeback_delay = 0 THEN BufWriteSector(x, b) ELSE {x}
    BY <1>3, <1>7
  <2> HIDE DEF x
  <2>3. /\ x.blk[b].dirty
        /\ \A a \in Used(l) : /\ Saved(x, a) <=> Saved(l, a)
                              /\ a # b => (x.blk[a].dirty <=> l.blk[a].dirty)
    BY <1>1, <1>2, <2>1 DEF Saved
  <2>4. FineBut(x, b)
    BY <1>4, <2>1, <2>3 DEF FineBut
  <2>5. \A s \in SectorIds : View(x, s) = View(l, s)
    BY <1>1, <1>2, <2>1, ViewSame
  <2>6. Fine(r) /\ Used(r) = Used(x) /\ \A s \in SectorIds : View(r, s) = View(x, s)
    <3>1. CASE config.writeback_delay = 0
      BY <1>2, <2>1, <2>2, <2>3, <2>4, <3>1, PutWritten
    <3>2. CASE config.writeback_delay # 0
      <4>1. r = x
        BY <2>2, <3>2
      <4>2. Fine(x)
        BY <1>2, <2>1, <2>3, <2>4, <3>2, Settled
      <4> QED
        BY <4>1, <4>2
    <3> QED
      BY <3>1, <3>2
  <2> QED
    BY <1>2, <1>5, <2>1, <2>5, <2>6
<1> QED
  BY <1>6, <1>7

-------------------------------------------------------------------------------
(* The actions *)

\* No action changes the parameters of the cache.
LEMMA InvariantAfter ==
  ASSUME config \in Configs, UNCHANGED config, Fine(cache')
  PROVE  CacheInv'
BY DEF CacheInv, Fine, Good, Shape, Lists, Placed, Backed, Prompt, Used, InBucket, Saved

LEMMA ReadBlocksKeeps ==
  ASSUME CacheInv, NEW s \in SectorIds, BufReadBlocks(s)
  PROVE  CacheInv' /\ \A x \in SectorIds : View(cache', x) = View(cache, x)
<1>1. config \in Configs /\ Fine(cache) /\ cache' \in BufGetBlock(cache, s) /\ UNCHANGED config
  BY DEF CacheInv, BufReadBlocks
<1>2. Fine(cache') /\ \A x \in SectorIds : View(cache', x) = View(cache, x)
  BY <1>1, GetDoes
<1> QED
  BY <1>1, <1>2, InvariantAfter

\* A write changes what readers see of the one sector, at the offsets it covers.
LEMMA WriteBlocksKeeps ==
  ASSUME CacheInv, NEW s \in SectorIds, NEW mode \in config.modes, NEW span \in Spans,
         NEW bytes \in [span -> Bytes], BufWriteBlocks(s, bytes, mode)
  PROVE  /\ CacheInv'
         /\ \A x \in SectorIds :
              View(cache', x) =
                IF x = s THEN [o \in Offsets |-> IF o \in DOMAIN bytes THEN bytes[o] ELSE View(cache, s)[o]]
                ELSE View(cache, x)
<1>1. config \in Configs /\ Fine(cache) /\ UNCHANGED config
  BY DEF CacheInv, BufWriteBlocks
<1> DEFINE Over(old) == [o \in Offsets |-> IF o \in DOMAIN bytes THEN bytes[o] ELSE old[o]]
<1>2. PICK g \in BufGetBlock(cache, s) :
        cache' \in BufPutBlock([g EXCEPT !.blk[Head(g.lru_list)].mem = Over(@)],
                               Head(g.lru_list), mode)
  BY DEF BufWriteBlocks
<1>3. \A old \in SectorData : Over(old) \in SectorData
  <2>1. \A o \in DOMAIN bytes : bytes[o] \in Bytes
    OBVIOUS
  <2> QED
    BY <2>1 DEF SectorData
<1> HIDE DEF Over
<1>4. /\ Fine(g) /\ Head(g.lru_list) \in Used(g) /\ g.blk[Head(g.lru_list)].sector = s
      /\ \A x \in SectorIds : View(g, x) = View(cache, x)
  BY <1>1, <1>2, GetDoes
<1> DEFINE b   == Head(g.lru_list)
           mem == Over(g.blk[b].mem)
           m   == [g EXCEPT !.blk[b].mem = mem]
<1>5. b \in Used(g) /\ b \in Buffers /\ g.blk[b].sector = s /\ Good(g) /\ Shape(g)
  BY <1>4 DEF Used, Fine, Good
<1>6. g.blk[b].mem = View(cache, s)
  <2>1. View(g, s) = g.blk[b].mem
    BY <1>5, ViewIs
  <2> QED
    BY <1>4, <2>1
<1>7. mem \in SectorData
  BY <1>3, <1>5 DEF Shape
<1>8. [g EXCEPT !.blk[b].mem = Over(@)] = m
  BY <1>5 DEF Shape
<1>9. cache' \in BufPutBlock(m, b, mode)
  BY <1>2, <1>8
<1> HIDE DEF b, mem
<1>10. m = WithMemory(g, b, mem)
  BY DEF WithMemory
<1> HIDE DEF m
<1>11. /\ Good(m) /\ Used(m) = Used(g) /\ m.disk = g.disk /\ m.dropped = g.dropped
       /\ \A a \in Buffers : /\ m.blk[a].sector = g.blk[a].sector
                             /\ m.blk[a].mem = IF a = b THEN mem ELSE g.blk[a].mem
                             /\ m.blk[a].dirty <=> g.blk[a].dirty
  BY <1>5, <1>7, <1>10, MemoryDoes
<1>12. \A a \in Used(g) : a \in Buffers
  BY DEF Used
<1>13. \A a \in Used(g) : a # b => (Saved(m, a) <=> Saved(g, a))
  BY <1>11, <1>12 DEF Saved
<1>14. FineBut(m, b)
  <2>1. Backed(g) /\ Prompt(g)
    BY <1>4 DEF Fine
  <2> QED
    BY <1>11, <1>12, <1>13, <2>1 DEF FineBut, Backed, Prompt
<1>15. Fine(cache') /\ Used(cache') = Used(m) /\ \A x \in SectorIds : View(cache', x) = View(m, x)
  BY <1>1, <1>5, <1>9, <1>11, <1>14, PutDoes
<1>16. View(m, s) = mem
  <2>1. m.blk[b].sector = s /\ m.blk[b].mem = mem
    BY <1>5, <1>11
  <2> QED
    BY <1>5, <1>11, <2>1, ViewIs
<1>17. ASSUME NEW x \in SectorIds, x # s
       PROVE  View(m, x) = View(cache, x)
  <2>1. CASE \E a \in Used(g) : g.blk[a].sector = x
    <3>1. PICK a \in Used(g) : g.blk[a].sector = x
      BY <2>1
    <3>2. a # b /\ m.blk[a].sector = x /\ m.blk[a].mem = g.blk[a].mem
      BY <1>5, <1>11, <1>12, <1>17, <3>1
    <3>3. View(m, x) = m.blk[a].mem
      BY <1>11, <3>1, <3>2, ViewIs
    <3>4. View(g, x) = g.blk[a].mem
      BY <1>5, <3>1, ViewIs
    <3> QED
      BY <1>4, <3>2, <3>3, <3>4
  <2>2. CASE \A a \in Used(g) : g.blk[a].sector # x
    <3>1. \A a \in Used(m) : m.blk[a].sector # x
      BY <1>11, <1>12, <2>2
    <3>2. View(m, x) = m.disk[x]
      BY <1>11, <3>1, ViewIs
    <3>3. View(g, x) = g.disk[x]
      BY <1>5, <2>2, ViewIs
    <3> QED
      BY <1>4, <1>11, <3>2, <3>3
  <2> QED
    BY <2>1, <2>2
<1>18. mem = Over(View(cache, s))
  BY <1>6 DEF mem
<1>19. CacheInv'
  BY <1>1, <1>15, InvariantAfter
<1> QED
  BY <1>15, <1>16, <1>17, <1>18, <1>19 DEF Over

\* What SyncCache drops was on the device already.
LEMMA SyncKeeps ==
  ASSUME CacheInv, SyncCache
  PROVE  CacheInv' /\ \A x \in SectorIds : View(cache', x) = View(cache, x)
<1> DEFINE c == cache
           r == cache'
           listed == ToSet(c.dirty_list)
<1>1. /\ config \in Configs /\ Fine(c) /\ Good(c) /\ Shape(c) /\ Lists(c) /\ Placed(c)
      /\ Backed(c) /\ UNCHANGED config /\ config.maxDropped \in Nat
  BY ConfigAssumption DEF CacheInv, Fine, Good, SyncCache
<1>2. PICK missed \in SUBSET listed :
        LET Written(s) == {b \in listed \ missed : c.blk[b].sector = s}
        IN /\ c.dropped + Cardinality(missed) <= config.maxDropped
           /\ r = [c EXCEPT
                !.blk = [b \in Buffers |-> IF b \in listed THEN [@[b] EXCEPT !.dirty = FALSE] ELSE @[b]],
                !.dirty_list = <<>>,
                !.disk = [s \in SectorIds |-> IF Written(s) = {} THEN @[s]
                                              ELSE c.blk[CHOOSE b \in Written(s) : TRUE].mem],
                !.dropped = @ + Cardinality(missed)]
  BY DEF SyncCache
<1>3. listed = {b \in Buffers : c.blk[b].dirty}
  BY <1>1 DEF Lists, IsList, Listed
<1> HIDE DEF listed
<1> DEFINE Written(s) == {b \in listed \ missed : c.blk[b].sector = s}
           blk  == [b \in Buffers |-> IF b \in listed THEN [c.blk[b] EXCEPT !.dirty = FALSE] ELSE c.blk[b]]
           disk == [s \in SectorIds |-> IF Written(s) = {} THEN c.disk[s]
                                        ELSE c.blk[CHOOSE b \in Written(s) : TRUE].mem]
           n    == Cardinality(missed)
<1>4. r = [c EXCEPT !.blk = blk, !.dirty_list = <<>>, !.disk = disk, !.dropped = c.dropped + n]
  BY <1>1, <1>2 DEF Shape
<1>5. \A a \in Buffers : /\ blk[a].sector = c.blk[a].sector /\ blk[a].mem = c.blk[a].mem
                         /\ blk[a].in_use <=> c.blk[a].in_use
                         /\ ~blk[a].dirty
  BY <1>1, <1>3 DEF Shape
<1>6. blk \in [Buffers -> [sector : SectorIds \union {-1, 0}, dirty : BOOLEAN, in_use : BOOLEAN,
                           mem : SectorData]]
  BY <1>1 DEF Shape
<1>7. \A b \in listed : b \in Used(c) /\ b \in Buffers
  BY <1>1, <1>3 DEF Placed
<1>8. \A a \in Used(c) : a \in Buffers /\ c.blk[a].sector \in SectorIds
  BY <1>1 DEF Used, Placed
<1>9. \A a \in listed \ missed : Written(c.blk[a].sector) = {a}
  BY <1>1, <1>7 DEF Placed
<1>10. \A s \in SectorIds : (\A a \in Used(c) : c.blk[a].sector # s) => Written(s) = {}
  BY <1>7
<1>11. \A a \in Used(c) : a \notin listed \ missed => Written(c.blk[a].sector) = {}
  BY <1>1, <1>7 DEF Placed
<1> HIDE DEF Written
<1>12. \A s \in SectorIds : disk[s] = IF Written(s) = {} THEN c.disk[s]
                                      ELSE c.blk[CHOOSE b \in Written(s) : TRUE].mem
  OBVIOUS
<1>13. disk \in [SectorIds -> SectorData]
  <2>1. \A s \in SectorIds : \A a \in Written(s) : c.blk[a].mem \in SectorData
    BY <1>1, <1>7 DEF Shape, Written
  <2>2. \A s \in SectorIds : Written(s) # {} => (CHOOSE b \in Written(s) : TRUE) \in Written(s)
    OBVIOUS
  <2>3. \A s \in SectorIds : disk[s] \in SectorData
    BY <1>1, <1>12, <2>1, <2>2 DEF Shape
  <2> QED
    BY <2>3
<1>14. IsFiniteSet(missed) /\ n \in Nat /\ (missed # {} => n # 0)
  <2>1. missed \subseteq Buffers
    BY <1>2, <1>7
  <2> QED
    BY <2>1, SectorAssumption, FS_Subset, FS_CardinalityType, FS_EmptySet
<1>15. c.dropped \in Nat /\ c.dropped + n <= config.maxDropped
  BY <1>1, <1>2 DEF Shape
<1> HIDE DEF disk, blk, n, r, c
<1>16. /\ r.blk = blk /\ r.dirty_list = <<>> /\ r.lru_list = c.lru_list
       /\ r.free_list = c.free_list /\ r.hash_list = c.hash_list /\ r.disk = disk
       /\ r.dropped = c.dropped + n
  BY <1>1, <1>4 DEF Shape
<1>17. Shape(r)
  <2>1. c.dropped + n \in 0..config.maxDropped
    BY <1>1, <1>14, <1>15
  <2>2. <<>> \in Seq(Buffers)
    OBVIOUS
  <2> QED
    BY <1>1, <1>4, <1>6, <1>13, <2>1, <2>2 DEF Shape
<1>18. Used(r) = Used(c)
  BY <1>5, <1>16 DEF Used
<1>19. \A h : InBucket(r, h) = InBucket(c, h)
  BY <1>5, <1>8, <1>16, <1>18 DEF InBucket
<1>20. {b \in Buffers : r.blk[b].dirty} = {}
  BY <1>5, <1>16
<1>21. Lists(r)
  BY <1>1, <1>16, <1>18, <1>19, <1>20, ListEmpty DEF Lists
<1>22. Placed(r)
  BY <1>1, <1>5, <1>8, <1>16, <1>18 DEF Placed
<1>23. Good(r)
  BY <1>17, <1>21, <1>22 DEF Good
<1>24. ASSUME NEW a \in Used(c)
       PROVE  Saved(r, a)
  <2>1. r.blk[a].mem = c.blk[a].mem /\ r.blk[a].sector = c.blk[a].sector /\ c.blk[a].sector \in SectorIds
    BY <1>5, <1>8, <1>16
  <2>2. CASE a \in listed \ missed
    <3>1. (CHOOSE b \in Written(c.blk[a].sector) : TRUE) = a
      BY <1>9, <2>2
    <3>2. Written(c.blk[a].sector) # {}
      BY <1>9, <2>2
    <3>3. disk[c.blk[a].sector] = c.blk[a].mem
      BY <1>12, <2>1, <3>1, <3>2
    <3> QED
      BY <1>16, <2>1, <3>3 DEF Saved
  <2>3. CASE a \notin listed \ missed
    <3>1. disk[c.blk[a].sector] = c.disk[c.blk[a].sector]
      BY <1>11, <1>12, <2>1, <2>3
    <3>2. Saved(c, a)
      <4>1. CASE a \in missed
        <5>1. c.dropped < config.maxDropped
          BY <1>1, <1>14, <1>15, <4>1
        <5> QED
          BY <1>1, <5>1 DEF Backed
      <4>2. CASE a \notin listed
        BY <1>1, <1>3, <1>8, <4>2 DEF Backed
      <4> QED
        BY <2>3, <4>1, <4>2
    <3> QED
      BY <1>16, <2>1, <3>1, <3>2 DEF Saved
  <2> QED
    BY <2>2, <2>3
<1>25. Fine(r)
  BY <1>18, <1>23, <1>24 DEF Fine, Backed, Prompt
<1>26. \A x \in SectorIds : View(r, x) = View(c, x)
  <2>1. \A a \in Used(c) : r.blk[a].sector = c.blk[a].sector /\ r.blk[a].mem = c.blk[a].mem
    BY <1>5, <1>8, <1>16
  <2>2. \A x \in SectorIds : (\A a \in Used(c) : c.blk[a].sector # x) => r.disk[x] = c.disk[x]
    BY <1>10, <1>12, <1>16
  <2> QED
    BY <1>1, <1>18, <1>23, <2>1, <2>2, ViewSame
<1> QED
  BY <1>1, <1>25, <1>26, InvariantAfter DEF r, c

\* After SyncCache nothing is lost with the buffers.
LEMMA InvalidateKeeps ==
  ASSUME CacheInv, InvalidateCache
  PROVE  CacheInv' /\ \A x \in SectorIds : View(cache', x) = View(cache, x)
<1> DEFINE c    == cache
           r    == cache'
           blk  == [b \in Buffers |-> IF c.blk[b].in_use
                                      THEN [c.blk[b] EXCEPT !.in_use = FALSE, !.dirty = FALSE, !.sector = 0]
                                      ELSE c.blk[b]]
           hash == [h \in 0..(BUF_HASH_CNT - 1) |-> <<>>]
           freed == Reverse(SetToSeq(Used(c)))
           free == freed \o c.free_list
<1>1. /\ config \in Configs /\ Fine(c) /\ Good(c) /\ Shape(c) /\ Lists(c) /\ Placed(c)
      /\ Backed(c) /\ UNCHANGED config /\ c.dirty_list = <<>>
  BY DEF CacheInv, Fine, Good, InvalidateCache
<1>2. r = [c EXCEPT !.blk = blk, !.lru_list = <<>>, !.hash_list = hash, !.free_list = free]
  BY <1>1 DEF Shape, InvalidateCache, Used
<1>3. \A b \in Buffers : ~c.blk[b].dirty
  <2>1. IsList(<<>>, {b \in Buffers : c.blk[b].dirty})
    BY <1>1 DEF Lists
  <2>2. \A b \in {b \in Buffers : c.blk[b].dirty} : \E i \in 1..Len(<<>>) : <<>>[i] = b
    BY <2>1, ListDef DEF IsList
  <2> QED
    BY <2>2
<1>4. \A a \in Buffers : ~blk[a].in_use /\ ~blk[a].dirty
  BY <1>1, <1>3 DEF Shape
<1>5. blk \in [Buffers -> [sector : SectorIds \union {-1, 0}, dirty : BOOLEAN, in_use : BOOLEAN,
                           mem : SectorData]]
  BY <1>1 DEF Shape
<1>6. hash \in [0..(BUF_HASH_CNT - 1) -> Seq(Buffers)] /\ \A h \in 0..(BUF_HASH_CNT - 1) : hash[h] = <<>>
  OBVIOUS
<1>7. IsList(free, Buffers)
  <2>1. Used(c) \in SUBSET Buffers
    BY DEF Used
  <2>2. IsList(freed, Used(c))
    BY <2>1, ListOfSet, ListReverse
  <2>3. IsList(c.free_list, Buffers \ Used(c)) /\ Used(c) \intersect (Buffers \ Used(c)) = {}
    BY <1>1 DEF Lists
  <2> HIDE DEF freed
  <2>4. IsList(free, Used(c) \union (Buffers \ Used(c)))
    BY <2>2, <2>3, ListConcat
  <2>5. Used(c) \union (Buffers \ Used(c)) = Buffers
    BY <2>1
  <2> HIDE DEF free
  <2> QED
    BY <2>4, <2>5
<1>8. free \in Seq(Buffers)
  BY <1>7 DEF IsList
<1> HIDE DEF blk, hash, free, freed, c, r
<1>9. /\ r.blk = blk /\ r.dirty_list = <<>> /\ r.lru_list = <<>>
      /\ r.free_list = free /\ r.hash_list = hash /\ r.disk = c.disk
      /\ r.dropped = c.dropped
  BY <1>1, <1>2 DEF Shape
<1>10. Shape(r)
  <2>1. <<>> \in Seq(Buffers)
    OBVIOUS
  <2> QED
    BY <1>1, <1>2, <1>5, <1>6, <1>8, <2>1 DEF Shape
<1>11. Used(r) = {}
  BY <1>4, <1>9 DEF Used
<1>12. \A h : InBucket(r, h) = {}
  BY <1>11 DEF InBucket
<1>13. {b \in Buffers : r.blk[b].dirty} = {}
  BY <1>4, <1>9
<1>14. Lists(r)
  <2>1. Buffers \ Used(r) = Buffers
    BY <1>11
  <2> QED
    BY <1>6, <1>7, <1>9, <1>11, <1>12, <1>13, <2>1, ListEmpty DEF Lists
<1>15. Placed(r)
  BY <1>11, <1>13 DEF Placed
<1>16. Fine(r)
  BY <1>10, <1>11, <1>14, <1>15 DEF Fine, Good, Backed, Prompt
<1>17. ASSUME NEW x \in SectorIds
       PROVE  View(r, x) = View(c, x)
  <2>1. View(r, x) = c.disk[x]
    BY <1>9, <1>11, <1>16, ViewIs DEF Fine
  <2>2. CASE \E a \in Used(c) : c.blk[a].sector = x
    <3>1. PICK a \in Used(c) : c.blk[a].sector = x
      BY <2>2
    <3>2. View(c, x) = c.blk[a].mem
      BY <1>1, <3>1, ViewIs
    <3>3. Saved(c, a)
      BY <1>1, <1>3, <3>1 DEF Backed, Used
    <3> QED
      BY <2>1, <3>1, <3>2, <3>3 DEF Saved
  <2>3. CASE \A a \in Used(c) : c.blk[a].sector # x
    BY <1>1, <2>1, <2>3, ViewIs
  <2> QED
    BY <2>2, <2>3
<1> QED
  BY <1>1, <1>16, <1>17, InvariantAfter DEF r, c

LEMMA InitEstablishes == CacheInit => CacheInv
<1> SUFFICES ASSUME CacheInit
             PROVE  CacheInv
  OBVIOUS
<1> DEFINE blk  == [b \in Buffers |-> [sector |-> -1, dirty |-> FALSE, in_use |-> FALSE,
                                       mem |-> [o \in Offsets |-> 0]]]
           hash == [h \in 0..(BUF_HASH_CNT - 1) |-> <<>>]
           free == SetToSeq(Buffers)
<1>1. config \in Configs /\ config.maxDropped \in Nat
  BY ConfigAssumption DEF CacheInit
<1>2. PICK d \in [SectorIds -> SectorData] :
        cache = [blk |-> blk, lru_list |-> <<>>, dirty_list |-> <<>>, free_list |-> free,
                 hash_list |-> hash, disk |-> d, dropped |-> 0]
  BY DEF CacheInit
<1>3. IsList(free, Buffers) /\ free \in Seq(Buffers)
  BY ListOfSet DEF IsList
<1>4. [o \in Offsets |-> 0] \in SectorData
  BY SectorAssumption DEF SectorData
<1>5. blk \in [Buffers -> [sector : SectorIds \union {-1, 0}, dirty : BOOLEAN, in_use : BOOLEAN,
                           mem : SectorData]]
  BY <1>4
<1>6. \A a \in Buffers : ~blk[a].in_use /\ ~blk[a].dirty
  OBVIOUS
<1>7. hash \in [0..(BUF_HASH_CNT - 1) -> Seq(Buffers)] /\ \A h \in 0..(BUF_HASH_CNT - 1) : hash[h] = <<>>
  OBVIOUS
<1> HIDE DEF blk, hash, free
<1>8. 0 \in 0..config.maxDropped /\ <<>> \in Seq(Buffers)
  BY <1>1
<1>9. Shape(cache)
  BY <1>2, <1>3, <1>5, <1>7, <1>8 DEF Shape
<1>10. Used(cache) = {} /\ {b \in Buffers : cache.blk[b].dirty} = {}
  BY <1>2, <1>6 DEF Used
<1>11. Buffers \ Used(cache) = Buffers /\ \A h : InBucket(cache, h) = {}
  BY <1>10 DEF InBucket
<1>12. Lists(cache)
  BY <1>2, <1>3, <1>7, <1>10, <1>11, ListEmpty DEF Lists
<1>13. Placed(cache)
  BY <1>10 DEF Placed
<1> QED
  BY <1>1, <1>9, <1>10, <1>12, <1>13 DEF CacheInv, Fine, Good, Backed, Prompt

\* What a step does to the invariant and to what readers see.
LEMMA StepDoes ==
  ASSUME CacheInv, [CacheNext]_cacheVars
  PROVE  /\ CacheInv' /\ UNCHANGED config
         /\ \/ \A x \in SectorIds : View(cache', x) = View(cache, x)
            \/ \E s \in SectorIds, span \in Spans : \E bytes \in [span -> Bytes] :
                 \A x \in SectorIds :
                   View(cache', x) =
                     IF x = s
                     THEN [o \in Offsets |-> IF o \in DOMAIN bytes THEN bytes[o] ELSE View(cache, s)[o]]
                     ELSE View(cache, x)
<1>1. CASE \E s \in SectorIds : BufReadBlocks(s)
  <2>1. PICK s \in SectorIds : BufReadBlocks(s)
    BY <1>1
  <2>2. UNCHANGED config
    BY <2>1 DEF BufReadBlocks
  <2> QED
    BY <2>1, <2>2, ReadBlocksKeeps
<1>2. CASE \E s \in SectorIds, mode \in config.modes, span \in Spans :
             \E bytes \in [span -> Bytes] : BufWriteBlocks(s, bytes, mode)
  <2>1. PICK s \in SectorIds, mode \in config.modes, span \in Spans :
               \E bytes \in [span -> Bytes] : BufWriteBlocks(s, bytes, mode)
    BY <1>2
  <2>2. PICK bytes \in [span -> Bytes] : BufWriteBlocks(s, bytes, mode)
    BY <2>1
  <2>3. UNCHANGED config
    BY <2>2 DEF BufWriteBlocks
  <2> QED
    BY <2>2, <2>3, WriteBlocksKeeps
<1>3. CASE SyncCache
  <2>1. UNCHANGED config
    BY <1>3 DEF SyncCache
  <2> QED
    BY <1>3, <2>1, SyncKeeps
<1>4. CASE InvalidateCache
  <2>1. UNCHANGED config
    BY <1>4 DEF InvalidateCache
  <2> QED
    BY <1>4, <2>1, InvalidateKeeps
<1>5. CASE UNCHANGED cacheVars
  <2>1. UNCHANGED config /\ cache' = cache
    BY <1>5 DEF cacheVars
  <2>2. CacheInv'
    BY <2>1, InvariantAfter DEF CacheInv
  <2> QED
    BY <2>1, <2>2
<1> QED
  BY <1>1, <1>2, <1>3, <1>4, <1>5 DEF CacheNext

-------------------------------------------------------------------------------
(* Theorems *)

\* The inductive invariant: however the calls of sector.c follow one another, its lists
\* match the flags of the buffers, and what a clean buffer holds is on the device.
THEOREM CacheInvariant == CacheSpec => []CacheInv
<1>1. CacheInit => CacheInv
  BY InitEstablishes
<1>2. CacheInv /\ [CacheNext]_cacheVars => CacheInv'
  BY StepDoes
<1> QED
  BY <1>1, <1>2, PTL DEF CacheSpec

\* A buffer is of a sector of the device or of none yet, and no list of sector.c gets longer
\* than the table of buffers.
THEOREM CacheTypeCorrect == CacheSpec => []CacheTypeOK
<1>1. CacheInv => CacheTypeOK
  <2> SUFFICES ASSUME CacheInv
               PROVE  CacheTypeOK
    OBVIOUS
  <2>1. config \in Configs /\ Shape(cache) /\ Lists(cache)
    BY DEF CacheInv, Fine, Good
  <2> DEFINE Short == SeqOf(Buffers, Cardinality(Buffers))
  <2>2. cache.lru_list \in Short /\ cache.dirty_list \in Short /\ cache.free_list \in Short
    BY <2>1, ListLength DEF Lists
  <2>3. \A h \in 0..(BUF_HASH_CNT - 1) : cache.hash_list[h] \in Short
    BY <2>1, ListLength DEF Lists
  <2> HIDE DEF Short
  <2>4. cache.hash_list \in [0..(BUF_HASH_CNT - 1) -> Short]
    BY <2>1, <2>3 DEF Shape
  <2> QED
    BY <2>1, <2>2, <2>4 DEF CacheTypeOK, Shape, Short
<1> QED
  BY <1>1, CacheInvariant, PTL

\* Whatever BufGetBlock, BufPutBlock, SyncCache and InvalidateCache do to the lists of
\* sector.c, they always agree with the flags of the buffers.
THEOREM ListsAgree == CacheSpec => []ListsExact
<1>1. CacheInv => ListsExact
  <2> SUFFICES ASSUME CacheInv
               PROVE  ListsExact
    OBVIOUS
  <2>1. Shape(cache) /\ Lists(cache) /\ Placed(cache)
    BY DEF CacheInv, Fine, Good
  <2>2. InUse = Used(cache)
    BY DEF InUse, Used
  <2>3. DOMAIN cache.hash_list = 0..(BUF_HASH_CNT - 1)
    BY <2>1 DEF Shape
  <2>4. \A h \in 0..(BUF_HASH_CNT - 1) :
          Listed(cache.hash_list[h], {b \in InUse : Hash(cache.blk[b].sector) = h})
    BY <2>1, <2>2 DEF Lists, IsList, InBucket
  <2>5. /\ Listed(cache.lru_list, InUse) /\ Listed(cache.free_list, Buffers \ InUse)
        /\ Listed(cache.dirty_list, {b \in Buffers : cache.blk[b].dirty})
    BY <2>1, <2>2 DEF Lists, IsList
  <2>6. \A b, c \in InUse : cache.blk[b].sector = cache.blk[c].sector => b = c
    BY <2>1, <2>2 DEF Placed
  <2> QED
    BY <2>3, <2>4, <2>5, <2>6 DEF ListsExact
<1> QED
  BY <1>1, CacheInvariant, PTL

\* Without delay ("write EVERYTHING IMMEDIATELY", sector.c:383) the device lags in no more
\* sectors than it dropped writes, and only in those that are still dirty.
THEOREM LagsByDropped == CacheSpec => []DeviceLagsByDropped
<1>1. CacheInv => DeviceLagsByDropped
  <2> DEFINE behind == {s \in SectorIds : cache.disk[s] # Content(s)}
  <2> SUFFICES ASSUME CacheInv, config.writeback_delay = 0
               PROVE  /\ Cardinality(behind) <= cache.dropped
                      /\ \A s \in behind : cache.blk[BufferOf(cache, s)].dirty
    BY DEF DeviceLagsByDropped
  <2>1. Good(cache) /\ Backed(cache) /\ Prompt(cache)
    BY DEF CacheInv, Fine
  <2>2. cache.dropped \in Nat
    BY <2>1 DEF Good, Shape
  <2>3. ASSUME NEW s \in behind
        PROVE  /\ BufferOf(cache, s) \in Used(cache) /\ cache.blk[BufferOf(cache, s)].sector = s
               /\ ~Saved(cache, BufferOf(cache, s))
    <3>1. Buffered(cache, s)
      BY DEF Content
    <3>2. BufferOf(cache, s) \in Used(cache) /\ cache.blk[BufferOf(cache, s)].sector = s
      BY <2>1, <3>1, BufferFound
    <3>3. Content(s) = cache.blk[BufferOf(cache, s)].mem
      BY <3>1 DEF Content
    <3> QED
      BY <3>2, <3>3 DEF Saved
  <2>4. \A s \in behind : cache.blk[BufferOf(cache, s)].dirty
    BY <2>1, <2>3 DEF Backed
  <2>5. \A s, t \in behind : s = t
    BY <2>1, <2>3 DEF Prompt
  <2>6. behind # {} => cache.dropped # 0
    BY <2>1, <2>3 DEF Prompt
  <2> HIDE DEF behind
  <2>7. Cardinality(behind) <= cache.dropped
    <3>1. CASE behind = {}
      BY <2>2, <3>1, FS_EmptySet
    <3>2. CASE behind # {}
      <4>1. PICK s \in behind : TRUE
        BY <3>2
      <4>2. behind = {s}
        BY <2>5, <4>1
      <4>3. Cardinality(behind) = 1
        BY <4>2, FS_Singleton
      <4> QED
        BY <2>2, <2>6, <3>2, <4>3
    <3> QED
      BY <3>1, <3>2
  <2> QED
    BY <2>4, <2>7
<1> QED
  BY <1>1, CacheInvariant, PTL

\* The buffers cannot be told from the device: every step of the cache is a write of
\* Sectors, or one that no reader sees.
THEOREM Implements == CacheSpec => ImplementsSectors
<1> DEFINE content == [s \in SectorIds |-> Content(s)]
<1>1. CacheInit => Abstract!Init
  <2> SUFFICES ASSUME CacheInit
               PROVE  content \in [SectorIds -> [Offsets -> Bytes]]
    BY DEF Abstract!Init
  <2>1. Good(cache)
    BY InitEstablishes DEF CacheInv, Fine
  <2>2. \A s \in SectorIds : Content(s) \in SectorData
    BY <2>1, ContentIsView, ViewIs
  <2> QED
    BY <2>2 DEF SectorData
<1>2. CacheInv /\ [CacheNext]_cacheVars => [Abstract!Next]_content
  <2> SUFFICES ASSUME CacheInv, [CacheNext]_cacheVars
               PROVE  Abstract!Next \/ content' = content
    OBVIOUS
  <2>1. Good(cache)
    BY DEF CacheInv, Fine
  <2>2. Good(cache')
    <3>1. CacheInv' /\ UNCHANGED config
      BY StepDoes
    <3> QED
      BY <3>1 DEF CacheInv, Fine, Good, Shape, Lists, Placed, Used, InBucket
  <2>3. \A s \in SectorIds : Content(s) = View(cache, s)
    BY <2>1, ContentIsView
  <2>4. \A s \in SectorIds : Content(s)' = View(cache', s)
    BY <2>2, BufferFound, ViewIs DEF Content
  <2>5. content' = [s \in SectorIds |-> Content(s)']
    OBVIOUS
  <2>6. CASE \A x \in SectorIds : View(cache', x) = View(cache, x)
    BY <2>3, <2>4, <2>5, <2>6
  <2>7. CASE \E s \in SectorIds, span \in Spans : \E bytes \in [span -> Bytes] :
               \A x \in SectorIds :
                 View(cache', x) =
                   IF x = s
                   THEN [o \in Offsets |-> IF o \in DOMAIN bytes THEN bytes[o] ELSE View(cache, s)[o]]
                   ELSE View(cache, x)
    <3>1. PICK s \in SectorIds, span \in Spans :
                 \E bytes \in [span -> Bytes] :
                   \A x \in SectorIds :
                     View(cache', x) =
                       IF x = s
                       THEN [o \in Offsets |-> IF o \in DOMAIN bytes THEN bytes[o] ELSE View(cache, s)[o]]
                       ELSE View(cache, x)
      BY <2>7
    <3>2. PICK bytes \in [span -> Bytes] :
                   \A x \in SectorIds :
                     View(cache', x) =
                       IF x = s
                       THEN [o \in Offsets |-> IF o \in DOMAIN bytes THEN bytes[o] ELSE View(cache, s)[o]]
                       ELSE View(cache, x)
      BY <3>1
    <3>3. content' = [content EXCEPT ![s] =
                        [o \in Offsets |-> IF o \in DOMAIN bytes THEN bytes[o] ELSE @[o]]]
      BY <2>3, <2>4, <2>5, <3>2, ZenonT(40)
    <3>4. Abstract!Write(s, bytes)
      BY <3>3 DEF Abstract!Write
    <3> QED
      BY <3>1, <3>2, <3>4 DEF Abstract!Next
  <2> QED
    BY <2>6, <2>7, StepDoes
<1> QED
  BY <1>1, <1>2, CacheInvariant, PTL DEF CacheSpec, ImplementsSectors, Abstract!Spec

-------------------------------------------------------------------------------
(* PART 2: CHAINS, DIRECTORIES AND NODES.  First, numbers.                 *)

\* A set of numbers has a least one.
LEMMA LeastOf ==
  ASSUME NEW I \in SUBSET Nat, I # {}
  PROVE  \E x \in I : \A y \in I : x <= y
<1> DEFINE R == OpToRel(<, Nat)
<1>1. IsWellFoundedOn(R, Nat)
  BY NatLessThanWellFounded
<1>2. \A x, y \in Nat : y < x => <<y, x>> \in R
  BY DEF OpToRel
<1> HIDE DEF R
<1>3. PICK x \in I : \A y \in I : ~(<<y, x>> \in R)
  BY <1>1, WFMin, Zenon
<1>4. \A y \in I : y \in Nat /\ x \in Nat /\ ~(y < x)
  BY <1>2, <1>3, Zenon
<1>5. \A y \in I : x <= y
  BY <1>4
<1> QED
  BY <1>5

\* A set of numbers that has 0, and with a number the next, has all of them.
LEMMA EveryNumber ==
  ASSUME NEW S \in SUBSET Nat, 0 \in S, \A n \in S : n + 1 \in S
  PROVE  \A n \in Nat : n \in S
<1> DEFINE B == Nat \ S
<1>1. ASSUME B # {}
      PROVE  FALSE
  <2>1. PICK x \in B : \A y \in B : x <= y
    BY <1>1, LeastOf
  <2>2. x # 0 /\ x - 1 \in Nat
    OBVIOUS
  <2>3. x - 1 \in S
    BY <2>1, <2>2
  <2> QED
    BY <2>2, <2>3
<1> QED
  BY <1>1

-------------------------------------------------------------------------------
(* Chains. *)

LEMMA ClusterFacts ==
  /\ IsFiniteSet(Clusters) /\ Cardinality(Clusters) \in Nat /\ Clusters \subseteq Nat
  /\ ROOT \notin Clusters /\ FREE \notin Clusters /\ EOC \notin Clusters /\ FREE # EOC
<1>1. cluster_cnt \in Nat
  BY FatAssumption
<1>2. IsFiniteSet(Clusters)
  BY <1>1, FS_Interval DEF Clusters
<1> QED
  BY <1>1, <1>2, FS_CardinalityType DEF Clusters, ROOT, FREE, EOC

\* The first n steps of a walk.
WalkTo(w, f, c, n) ==
  w = [k \in 0..n |-> IF k = 0 THEN c ELSE IF w[k - 1] \in Clusters THEN f[w[k - 1]] ELSE w[k - 1]]

LEMMA WalkExists ==
  ASSUME NEW f, NEW c
  PROVE  \A n \in Nat : \E w : WalkTo(w, f, c, n)
<1> DEFINE S == {n \in Nat : \E w : WalkTo(w, f, c, n)}
<1>1. 0 \in S
  <2>1. WalkTo([k \in 0..0 |-> c], f, c, 0)
    BY DEF WalkTo
  <2> QED
    BY <2>1
<1>2. ASSUME NEW n \in S
      PROVE  n + 1 \in S
  <2>1. PICK w : WalkTo(w, f, c, n)
    OBVIOUS
  <2> DEFINE next == IF w[n] \in Clusters THEN f[w[n]] ELSE w[n]
             v == [k \in 0..(n + 1) |-> IF k = n + 1 THEN next ELSE w[k]]
  <2>2. \A k \in 0..n : w[k] = IF k = 0 THEN c ELSE IF w[k - 1] \in Clusters THEN f[w[k - 1]] ELSE w[k - 1]
    BY <2>1 DEF WalkTo
  <2>3. ASSUME NEW k \in 0..(n + 1)
        PROVE  v[k] = IF k = 0 THEN c ELSE IF v[k - 1] \in Clusters THEN f[v[k - 1]] ELSE v[k - 1]
    <3>1. CASE k = n + 1
      <4>1. k # 0 /\ k - 1 = n /\ n \in 0..(n + 1) /\ n # n + 1
        BY <3>1
      <4>2. v[n] = w[n] /\ v[k] = next
        BY <3>1, <4>1
      <4> QED
        BY <4>1, <4>2
    <3>2. CASE k # n + 1
      <4>1. k \in 0..n /\ v[k] = w[k]
        BY <3>2
      <4>2. CASE k = 0
        BY <2>2, <4>1, <4>2
      <4>3. CASE k # 0
        <5>1. k - 1 \in 0..(n + 1) /\ k - 1 # n + 1
          BY <4>1, <4>3
        <5>2. v[k - 1] = w[k - 1]
          BY <5>1
        <5> QED
          BY <2>2, <4>1, <4>3, <5>2
      <4> QED
        BY <4>2, <4>3
    <3> QED
      BY <3>1, <3>2
  <2>4. WalkTo(v, f, c, n + 1)
    BY <2>3 DEF WalkTo
  <2> HIDE DEF v
  <2> QED
    BY <2>4
<1> HIDE DEF S
<1>3. S \in SUBSET Nat
  BY DEF S
<1>4. \A n \in Nat : n \in S
  BY <1>1, <1>2, <1>3, EveryNumber
<1> QED
  BY <1>4 DEF S

\* A walk starts at its cluster and goes where the FAT says.
LEMMA WalkSteps ==
  ASSUME NEW f, NEW c, NEW w, w = Walk(f, c)
  PROVE  /\ w[0] = c
         /\ \A k \in Nat : k < Cardinality(Clusters) =>
              w[k + 1] = IF w[k] \in Clusters THEN f[w[k]] ELSE w[k]
<1> DEFINE N == Cardinality(Clusters)
<1>1. N \in Nat
  BY ClusterFacts
<1>2. Walk(f, c) = CHOOSE v : WalkTo(v, f, c, N)
  BY DEF Walk, WalkTo
<1> HIDE DEF N
<1>3. WalkTo(w, f, c, N)
  BY <1>1, <1>2, WalkExists, Zenon
<1>4. \A k \in 0..N : w[k] = IF k = 0 THEN c ELSE IF w[k - 1] \in Clusters THEN f[w[k - 1]] ELSE w[k - 1]
  BY <1>3 DEF WalkTo
<1>5. w[0] = c
  BY <1>1, <1>4
<1>6. ASSUME NEW k \in Nat, k < N
      PROVE  w[k + 1] = IF w[k] \in Clusters THEN f[w[k]] ELSE w[k]
  <2>1. k + 1 \in 0..N /\ k + 1 # 0 /\ (k + 1) - 1 = k
    BY <1>1, <1>6
  <2> QED
    BY <1>4, <2>1
<1> QED
  BY <1>5, <1>6 DEF N

LEMMA ChainDef ==
  ASSUME NEW f, NEW c, NEW w, w = Walk(f, c)
  PROVE  Chain(f, c) = {w[k] : k \in 0..Cardinality(Clusters)} \intersect Clusters
BY Zenon DEF Chain

\* A chain is in every set that has its start and follows the FAT.
LEMMA ChainLeast ==
  ASSUME NEW f, NEW c, NEW D, c \in D,
         \A b \in D : b \in Clusters /\ f[b] \in Clusters => f[b] \in D
  PROVE  Chain(f, c) \subseteq D
<1> DEFINE N == Cardinality(Clusters)
<1>1. PICK w : w = Walk(f, c)
  OBVIOUS
<1>2. w[0] = c /\ \A k \in Nat : k < N => w[k + 1] = IF w[k] \in Clusters THEN f[w[k]] ELSE w[k]
  BY <1>1, WalkSteps
<1> DEFINE S == {k \in Nat : k <= N => w[k] \notin Clusters \/ w[k] \in D}
<1>3. N \in Nat
  BY ClusterFacts
<1>4. Chain(f, c) = {w[k] : k \in 0..N} \intersect Clusters
  BY <1>1, ChainDef
<1> HIDE DEF N
<1>5. 0 \in S
  BY <1>2
<1>6. ASSUME NEW k \in S
      PROVE  k + 1 \in S
  BY <1>2, <1>3
<1>7. \A k \in Nat : k \in S
  <2> HIDE DEF S
  <2>1. S \in SUBSET Nat
    BY DEF S
  <2> QED
    BY <1>5, <1>6, <2>1, EveryNumber
<1>8. ASSUME NEW k \in 0..N, w[k] \in Clusters
      PROVE  w[k] \in D
  BY <1>3, <1>7, <1>8
<1> QED
  BY <1>4, <1>8

\* A set that follows the FAT.
Follows(f, D) == \A b \in D : f[b] \in Clusters => f[b] \in D

\* What a walk has visited is closed before the steps are more than the clusters.
LEMMA ChainCloses ==
  ASSUME NEW f, NEW c \in Clusters
  PROVE  c \in Chain(f, c) /\ Chain(f, c) \subseteq Clusters /\ Follows(f, Chain(f, c))
<1> DEFINE N == Cardinality(Clusters)
<1>1. PICK w : w = Walk(f, c)
  OBVIOUS
<1>2. w[0] = c /\ \A k \in Nat : k < N => w[k + 1] = IF w[k] \in Clusters THEN f[w[k]] ELSE w[k]
  BY <1>1, WalkSteps
<1> DEFINE X(k) == {w[i] : i \in 0..k} \intersect Clusters
           Longer(k) == w[k] \in Clusters /\ IsFiniteSet(X(k)) /\ Cardinality(X(k)) = k + 1
           S == {k \in Nat : k <= N => Follows(f, X(k)) \/ Longer(k)}
<1>3. N \in Nat
  BY ClusterFacts
<1>4. Chain(f, c) = X(N)
  BY <1>1, ChainDef
<1> HIDE DEF N
<1>5. 0 \in S
  <2>1. X(0) = {c}
    BY <1>2
  <2> HIDE DEF X
  <2>2. IsFiniteSet(X(0)) /\ Cardinality(X(0)) = 1
    BY <2>1, FS_Singleton
  <2> QED
    BY <1>2, <2>2
<1>6. ASSUME NEW k \in S
      PROVE  k + 1 \in S
  <2> SUFFICES ASSUME k + 1 <= N
               PROVE  Follows(f, X(k + 1)) \/ Longer(k + 1)
    OBVIOUS
  <2>1. w[k + 1] = IF w[k] \in Clusters THEN f[w[k]] ELSE w[k]
    BY <1>2, <1>3
  <2>2. Follows(f, X(k)) \/ Longer(k)
    BY <1>3
  <2>3. X(k + 1) = X(k) \union ({w[k + 1]} \intersect Clusters)
    <3>1. \A i : i \in 0..(k + 1) <=> i \in 0..k \/ i = k + 1
      OBVIOUS
    <3> QED
      BY <3>1
  <2>4. w[k] \in Clusters => w[k] \in X(k)
    OBVIOUS
  <2>5. CASE Follows(f, X(k))
    <3>1. w[k + 1] \in Clusters => w[k + 1] \in X(k)
      <4> HIDE DEF X
      <4> QED
        BY <2>1, <2>4, <2>5 DEF Follows
    <3>2. X(k + 1) = X(k)
      <4> HIDE DEF X
      <4> QED
        BY <2>3, <3>1
    <3> HIDE DEF X
    <3> QED
      BY <2>5, <3>2
  <2>6. CASE Longer(k) /\ w[k + 1] \in Clusters /\ w[k + 1] \notin X(k)
    <3> HIDE DEF X
    <3>1. X(k + 1) = X(k) \union {w[k + 1]}
      BY <2>3, <2>6
    <3>2. IsFiniteSet(X(k + 1)) /\ Cardinality(X(k + 1)) = Cardinality(X(k)) + 1
      BY <2>6, <3>1, FS_AddElement
    <3>3. Cardinality(X(k + 1)) = k + 1 + 1
      BY <2>6, <3>2
    <3> QED
      BY <2>6, <3>2, <3>3
  <2>7. CASE Longer(k) /\ ~(w[k + 1] \in Clusters /\ w[k + 1] \notin X(k))
    <3>1. X(k + 1) = X(k)
      <4> HIDE DEF X
      <4> QED
        BY <2>3, <2>7
    <3>2. ASSUME NEW b \in X(k), f[b] \in Clusters
          PROVE  f[b] \in X(k)
      <4>1. PICK i \in 0..k : b = w[i]
        OBVIOUS
      <4>2. w[i + 1] = f[b]
        <5>1. i < N /\ i \in Nat /\ w[i] \in Clusters
          BY <1>3, <4>1
        <5> QED
          BY <1>2, <4>1, <5>1
      <4>3. CASE i = k
        <5> HIDE DEF X
        <5> QED
          BY <2>7, <3>2, <4>2, <4>3
      <4>4. CASE i # k
        <5>1. i + 1 \in 0..k
          BY <4>4
        <5> QED
          BY <3>2, <4>2, <5>1
      <4> QED
        BY <4>3, <4>4
    <3>3. Follows(f, X(k))
      <4> HIDE DEF X
      <4> QED
        BY <3>2 DEF Follows
    <3> HIDE DEF X
    <3> QED
      BY <3>1, <3>3
  <2> QED
    BY <2>2, <2>5, <2>6, <2>7
<1>7. \A k \in Nat : k \in S
  <2> HIDE DEF S
  <2>1. S \in SUBSET Nat
    BY DEF S
  <2> QED
    BY <1>5, <1>6, <2>1, EveryNumber
<1>8. Follows(f, X(N)) \/ Longer(N)
  BY <1>3, <1>7
<1>9. X(N) \subseteq Clusters /\ c \in X(N)
  BY <1>2, <1>3
<1> HIDE DEF X
<1>10. Cardinality(X(N)) <= N
  BY <1>9, ClusterFacts, FS_Subset DEF N
<1> QED
  BY <1>3, <1>4, <1>8, <1>9, <1>10

LEMMA ChainFinite ==
  ASSUME NEW f, NEW c \in Clusters
  PROVE  IsFiniteSet(Chain(f, c)) /\ Cardinality(Chain(f, c)) \in Nat
<1>1. IsFiniteSet(Chain(f, c))
  BY ChainCloses, ClusterFacts, FS_Subset
<1> QED
  BY <1>1, FS_CardinalityType

\* A chain stays while the FAT changes elsewhere.
LEMMA ChainSame ==
  ASSUME NEW f, NEW g, NEW c \in Clusters, \A b \in Chain(f, c) : g[b] = f[b]
  PROVE  Chain(g, c) = Chain(f, c)
<1> DEFINE F == Chain(f, c)
           G == Chain(g, c)
<1>1. c \in F /\ Follows(f, F) /\ c \in G /\ Follows(g, G)
  BY ChainCloses
<1>2. G \subseteq F
  <2>1. \A b \in F : b \in Clusters /\ g[b] \in Clusters => g[b] \in F
    BY <1>1 DEF Follows
  <2> HIDE DEF F
  <2> QED
    BY <1>1, <2>1, ChainLeast
<1>3. F \subseteq G
  <2> DEFINE D == F \intersect G
  <2>1. \A b \in D : b \in Clusters /\ f[b] \in Clusters => f[b] \in D
    BY <1>1 DEF Follows
  <2>2. c \in D
    BY <1>1
  <2> HIDE DEF D
  <2>3. F \subseteq D
    BY <2>1, <2>2, ChainLeast
  <2> QED
    BY <2>3 DEF D
<1> QED
  BY <1>2, <1>3

\* A chain without a free cluster that comes to its end.
Ends(f, c) ==
  /\ \A b \in Chain(f, c) : f[b] # FREE
  /\ \E b \in Chain(f, c) : f[b] = EOC

LEMMA LastOfChain ==
  ASSUME NEW f \in Fats, NEW c \in Clusters, Ends(f, c)
  PROVE  LET t == FindLastCluster(f, c) IN t \in Chain(f, c) /\ t \in Clusters /\ f[t] = EOC
<1> DEFINE t == FindLastCluster(f, c)
<1>1. \E b \in Chain(f, c) : f[b] \notin Clusters
  BY ClusterFacts DEF Ends
<1>2. t \in Chain(f, c) /\ f[t] \notin Clusters
  BY <1>1 DEF FindLastCluster
<1>3. t \in Clusters /\ f[t] # FREE
  BY <1>2, ChainCloses DEF Ends
<1> HIDE DEF t
<1>4. f[t] = EOC
  BY <1>2, <1>3 DEF Fats
<1> QED
  BY <1>2, <1>3, <1>4 DEF t

\* g is f with the j free clusters of s linked behind t.
Extends(g, f, t, s, j) ==
  /\ \A k \in 1..j : s[k] \in Clusters /\ f[s[k]] = FREE
  /\ \A k, l \in 1..j : s[k] = s[l] => k = l
  /\ g \in Fats
  /\ \A k \in 1..j : g[s[k]] = IF k = j THEN EOC ELSE s[k + 1]
  /\ j > 0 => g[t] = s[1]
  /\ \A b \in Clusters : (b # t \/ j = 0) /\ (\A k \in 1..j : b # s[k]) => g[b] = f[b]

\* The chain that ends in t gets longer by them.
LEMMA ChainExtended ==
  ASSUME NEW f \in Fats, NEW c \in Clusters, Ends(f, c),
         NEW t \in Chain(f, c), f[t] = EOC, NEW j \in Nat, NEW s, NEW g, Extends(g, f, t, s, j)
  PROVE  Ends(g, c) /\ Chain(g, c) = Chain(f, c) \union {s[k] : k \in 1..j}
<1> DEFINE F == Chain(f, c)
           G == Chain(g, c)
           T == {s[k] : k \in 1..j}
<1>1. c \in F /\ F \subseteq Clusters /\ Follows(f, F) /\ c \in G /\ G \subseteq Clusters /\ Follows(g, G)
  BY ChainCloses
<1>2. \A b \in F : f[b] # FREE
  BY DEF Ends
<1>3. CASE j = 0
  <2>1. T = {}
    BY <1>3
  <2>2. \A b \in F : g[b] = f[b]
    <3>1. \A k \in 1..j : FALSE
      BY <1>3
    <3> HIDE DEF F
    <3> QED
      BY <1>1, <1>3, <3>1 DEF Extends
  <2>3. G = F
    BY <2>2, ChainSame
  <2> QED
    BY <2>1, <2>2, <2>3 DEF Ends
<1>4. CASE j # 0
  <2>1. t \in Clusters /\ 1 \in 1..j /\ j \in 1..j /\ g[t] = s[1]
    BY <1>1, <1>4 DEF Extends
  <2>2. \A k \in 1..j : s[k] \in Clusters /\ s[k] \notin F
    BY <1>2 DEF Extends
  <2> HIDE DEF F, G
  <2>3. \A b \in F : b # t => g[b] = f[b]
    BY <1>1, <2>2 DEF Extends
  <2>4. \A b \in F \union T : b \in Clusters /\ g[b] \in Clusters => g[b] \in F \union T
    <3> SUFFICES ASSUME NEW b \in F \union T, g[b] \in Clusters
                 PROVE  g[b] \in F \union T
      OBVIOUS
    <3>1. CASE b = t
      BY <2>1, <3>1
    <3>2. CASE b # t /\ b \in F
      BY <1>1, <2>3, <3>2 DEF Follows
    <3>3. CASE b \in T
      <4>1. PICK k \in 1..j : b = s[k]
        BY <3>3
      <4>2. g[b] = IF k = j THEN EOC ELSE s[k + 1]
        BY <4>1 DEF Extends
      <4>3. k # j /\ k + 1 \in 1..j
        BY <4>1, <4>2, ClusterFacts
      <4> QED
        BY <4>2, <4>3
    <3> QED
      BY <3>1, <3>2, <3>3
  <2>5. G \subseteq F \union T
    <3> DEFINE D == F \union T
    <3>1. c \in D /\ \A b \in D : b \in Clusters /\ g[b] \in Clusters => g[b] \in D
      BY <1>1, <2>4
    <3> HIDE DEF D
    <3>2. G \subseteq D
      BY <3>1, ChainLeast DEF G
    <3> QED
      BY <3>2 DEF D
  <2>6. F \subseteq G
    <3> DEFINE D == F \intersect G
    <3>1. \A b \in D : b \in Clusters /\ f[b] \in Clusters => f[b] \in D
      <4> SUFFICES ASSUME NEW b \in D, f[b] \in Clusters
                   PROVE  f[b] \in D
        OBVIOUS
      <4>1. b # t
        BY ClusterFacts
      <4> QED
        BY <1>1, <2>3, <4>1 DEF Follows
    <3>2. c \in D
      BY <1>1
    <3> HIDE DEF D
    <3>3. F \subseteq D
      BY <3>1, <3>2, ChainLeast DEF F
    <3> QED
      BY <3>3 DEF D
  <2>7. \A k \in 1..j : s[k] \in G
    <3> DEFINE S == {n \in Nat : n + 1 <= j => s[n + 1] \in G}
    <3>1. 0 \in S
      <4>1. t \in G /\ g[t] \in Clusters
        BY <2>1, <2>2, <2>6 DEF F
      <4> QED
        BY <1>1, <2>1, <4>1 DEF Follows
    <3>2. ASSUME NEW n \in S
          PROVE  n + 1 \in S
      <4> SUFFICES ASSUME n + 1 + 1 <= j
                   PROVE  s[n + 1 + 1] \in G
        OBVIOUS
      <4>1. n + 1 \in 1..j /\ n + 1 # j /\ n + 1 + 1 \in 1..j /\ s[n + 1] \in G
        OBVIOUS
      <4>2. g[s[n + 1]] = s[n + 1 + 1] /\ s[n + 1 + 1] \in Clusters
        BY <2>2, <4>1 DEF Extends
      <4> QED
        BY <1>1, <4>1, <4>2 DEF Follows
    <3>3. \A n \in Nat : n \in S
      <4> HIDE DEF S
      <4>1. S \in SUBSET Nat
        BY DEF S
      <4> QED
        BY <3>1, <3>2, <4>1, EveryNumber
    <3>4. ASSUME NEW k \in 1..j
          PROVE  s[k] \in G
      <4>1. k - 1 \in Nat /\ k - 1 + 1 = k /\ k <= j
        OBVIOUS
      <4> QED
        BY <3>3, <4>1
    <3> QED
      BY <3>4
  <2>8. G = F \union T
    BY <2>5, <2>6, <2>7
  <2>9. \A b \in F \union T : g[b] # FREE
    <3>1. \A b \in F : g[b] # FREE
      BY <1>2, <2>1, <2>2, <2>3, ClusterFacts
    <3>2. ASSUME NEW k \in 1..j
          PROVE  g[s[k]] # FREE
      <4>1. k # j => k + 1 \in 1..j
        OBVIOUS
      <4> QED
        BY <2>2, <4>1, ClusterFacts DEF Extends
    <3> QED
      BY <3>1, <3>2
  <2>10. g[s[j]] = EOC
    BY <2>1 DEF Extends
  <2> QED
    BY <2>1, <2>8, <2>9, <2>10 DEF Ends, F, G
<1> QED
  BY <1>3, <1>4

\* Another chain stays.
LEMMA ChainBeside ==
  ASSUME NEW f \in Fats, NEW c \in Clusters, Ends(f, c),
         NEW t, t \notin Chain(f, c), NEW j \in Nat, NEW s, NEW g, Extends(g, f, t, s, j)
  PROVE  Ends(g, c) /\ Chain(g, c) = Chain(f, c)
<1>1. ASSUME NEW b \in Chain(f, c)
      PROVE  g[b] = f[b]
  <2>1. b \in Clusters /\ b # t /\ f[b] # FREE
    BY ChainCloses DEF Ends
  <2> QED
    BY <2>1 DEF Extends
<1>2. Chain(g, c) = Chain(f, c)
  BY <1>1, ChainSame
<1> QED
  BY <1>1, <1>2 DEF Ends

-------------------------------------------------------------------------------
(* Free clusters, in the order in which FindFreeCluster finds them. *)

\* The clusters that are found before c.
Earlier(c) == {b \in Free : Turn(b) < Turn(c)}

\* There is a k-th free cluster, and no two have the same number.
LEMMA NthFree ==
  ASSUME start \in Nat
  PROVE  /\ IsFiniteSet(Free) /\ Cardinality(Free) \in Nat
         /\ \A k \in 1..Cardinality(Free) : Nth(k) \in Free
         /\ \A k, l \in 1..Cardinality(Free) : Nth(k) = Nth(l) => k = l
<1> DEFINE N == Cardinality(Free)
           rank == [c \in Free |-> Cardinality(Earlier(c))]
<1>1. Free \subseteq Clusters /\ IsFiniteSet(Free)
  BY ClusterFacts, FS_Subset DEF Free
<1>2. N \in Nat
  BY <1>1, FS_CardinalityType
<1>3. \A b, c \in Free : Turn(b) \in Nat /\ (Turn(b) = Turn(c) => b = c)
  BY <1>1, FatAssumption DEF Turn, Clusters
<1>4. ASSUME NEW c \in Free
      PROVE  IsFiniteSet(Earlier(c)) /\ Cardinality(Earlier(c)) \in Nat /\ Cardinality(Earlier(c)) < N
  <2>1. Earlier(c) \subseteq Free /\ c \notin Earlier(c)
    BY <1>3 DEF Earlier
  <2>2. IsFiniteSet(Earlier(c)) /\ Cardinality(Earlier(c)) <= N
        /\ (N = Cardinality(Earlier(c)) => Free = Earlier(c))
    BY <1>1, <2>1, FS_Subset
  <2>3. Cardinality(Earlier(c)) \in Nat
    BY <2>2, FS_CardinalityType
  <2>4. Cardinality(Earlier(c)) # N
    BY <2>1, <2>2
  <2> HIDE DEF N
  <2>5. N \in Nat
    BY <1>2 DEF N
  <2> QED
    BY <2>2, <2>3, <2>4, <2>5
<1>5. ASSUME NEW b \in Free, NEW c \in Free, Turn(b) < Turn(c)
      PROVE  Cardinality(Earlier(b)) < Cardinality(Earlier(c))
  <2>1. Earlier(b) \subseteq Earlier(c) /\ b \in Earlier(c) /\ b \notin Earlier(b)
    <3>1. \A x, y, z \in Nat : x < y /\ y < z => x < z
      OBVIOUS
    <3>2. \A x \in Free : Turn(x) < Turn(b) => Turn(x) < Turn(c)
      BY <1>3, <1>5, <3>1
    <3>3. ~(Turn(b) < Turn(b))
      BY <1>3
    <3> QED
      BY <1>5, <3>2, <3>3 DEF Earlier
  <2>2. IsFiniteSet(Earlier(c)) /\ Cardinality(Earlier(c)) \in Nat /\ Cardinality(Earlier(b)) \in Nat
    BY <1>4
  <2>3. Cardinality(Earlier(b)) <= Cardinality(Earlier(c))
        /\ (Cardinality(Earlier(c)) = Cardinality(Earlier(b)) => Earlier(c) = Earlier(b))
    BY <2>1, <2>2, FS_Subset
  <2> QED
    BY <2>1, <2>2, <2>3
<1>6. rank \in [Free -> 0..(N - 1)]
  BY <1>2, <1>4
<1>7. \A b, c \in Free : rank[b] = rank[c] => b = c
  <2> TAKE b, c \in Free
  <2>1. /\ rank[b] \in Nat /\ rank[b] = Cardinality(Earlier(b))
        /\ rank[c] \in Nat /\ rank[c] = Cardinality(Earlier(c))
    BY <1>4
  <2>2. Turn(b) \in Nat /\ Turn(c) \in Nat /\ (Turn(b) = Turn(c) => b = c)
    BY <1>3
  <2> HIDE DEF rank
  <2>3. Turn(b) < Turn(c) => rank[b] < rank[c]
    BY <1>5, <2>1
  <2>4. Turn(c) < Turn(b) => rank[c] < rank[b]
    BY <1>5, <2>1
  <2> QED
    BY <2>1, <2>2, <2>3, <2>4
<1>8. IsFiniteSet(0..(N - 1)) /\ Cardinality(0..(N - 1)) = N
  <2>1. 0 \in Int /\ N - 1 \in Int /\ ~(0 > N - 1 /\ N # 0) /\ N - 1 - 0 + 1 = N
    BY <1>2
  <2> HIDE DEF N
  <2> QED
    BY <1>2, <2>1, FS_Interval
<1>9. \A k \in 0..(N - 1) : \E c \in Free : rank[c] = k
  <2> DEFINE T == {rank[c] : c \in Free}
  <2>1. T \subseteq 0..(N - 1)
    BY <1>6
  <2>2. rank \in Bijection(Free, T)
    <3> HIDE DEF rank
    <3> QED
      BY <1>6, <1>7 DEF Bijection, Injection, Surjection, IsInjective
  <2>3. IsFiniteSet(T) /\ Cardinality(T) = N
    <3> HIDE DEF rank, T
    <3>1. ExistsBijection(Free, T)
      BY <2>2 DEF ExistsBijection
    <3> QED
      BY <1>1, <3>1, FS_Bijection
  <2> HIDE DEF T
  <2>4. T = 0..(N - 1)
    BY <1>8, <2>1, <2>3, FS_Subset
  <2> QED
    BY <2>4 DEF T
<1>10. \A k \in 1..N : Nth(k) \in Free /\ rank[Nth(k)] = k - 1
  <2> TAKE k \in 1..N
  <2>1. k - 1 \in 0..(N - 1)
    BY <1>2
  <2>2. \E c \in Free : Cardinality(Earlier(c)) = k - 1
    BY <1>9, <2>1
  <2>3. Nth(k) \in Free /\ Cardinality(Earlier(Nth(k))) = k - 1
    BY <2>2 DEF Nth, Earlier
  <2> QED
    BY <2>3
<1> HIDE DEF rank
<1>11. ASSUME NEW k \in 1..N, NEW l \in 1..N, Nth(k) = Nth(l)
       PROVE  k = l
  <2>1. rank[Nth(k)] = k - 1 /\ rank[Nth(l)] = l - 1
    BY <1>10
  <2>2. k \in Nat /\ l \in Nat
    BY <1>2
  <2>3. k - 1 = l - 1
    BY <1>11, <2>1
  <2> QED
    BY <2>2, <2>3
<1> QED
  BY <1>1, <1>2, <1>10, <1>11

\* What j appends do: the first j free clusters are linked behind the end of the chain.
LEMMA AppendExtends ==
  ASSUME fat \in Fats, start \in Nat, NEW c \in Clusters, Ends(fat, c),
         NEW j \in Nat, j <= Cardinality(Free), NEW t, t = FindLastCluster(fat, c),
         NEW s, s = [k \in 1..j |-> Nth(k)]
  PROVE  Extends(AppendCluster(c, j), fat, t, s, j)
<1>1. t \in Clusters /\ fat[t] = EOC
  BY LastOfChain
<1>2. \A k \in 1..j : s[k] = Nth(k) /\ s[k] \in Clusters /\ fat[s[k]] = FREE
  <2>1. \A k \in 1..j : k \in 1..Cardinality(Free)
    BY NthFree
  <2>2. \A k \in 1..j : Nth(k) \in Free
    BY <2>1, NthFree
  <2> QED
    BY <2>2 DEF Free
<1>3. \A k, l \in 1..j : s[k] = s[l] => k = l
  <2>1. \A k \in 1..j : k \in 1..Cardinality(Free)
    BY NthFree
  <2>2. \A k, l \in 1..j : Nth(k) = Nth(l) => k = l
    BY <2>1, NthFree
  <2> QED
    BY <1>2, <2>2
<1>4. ASSUME NEW k \in 1..j
      PROVE  s[k] \in New(j) /\ After(s[k], j) = IF k = j THEN EOC ELSE s[k + 1]
  <2>1. s[k] \in New(j)
    BY <1>2 DEF New
  <2>2. (CHOOSE l \in 1..j : Nth(l) = s[k]) = k
    BY <1>2, <1>3
  <2>3. k # j => k + 1 \in 1..j
    OBVIOUS
  <2>4. k # j => s[k + 1] = Nth(k + 1)
    BY <1>2, <2>3
  <2> QED
    BY <2>1, <2>2, <2>4 DEF After
<1>5. \A b : b \in New(j) <=> \E k \in 1..j : b = s[k]
  BY <1>2 DEF New
<1> DEFINE g == AppendCluster(c, j)
<1>6. g = [b \in Clusters |-> IF b \in New(j) THEN After(b, j)
                              ELSE IF b = t /\ j > 0 THEN Nth(1) ELSE fat[b]]
  BY Zenon DEF AppendCluster
<1> HIDE DEF g
<1>7. \A k \in 1..j : g[s[k]] = IF k = j THEN EOC ELSE s[k + 1]
  BY <1>2, <1>4, <1>6
<1>8. t \notin New(j)
  BY <1>1, <1>2, <1>5, ClusterFacts
<1>9. j > 0 => g[t] = s[1]
  <2>1. j > 0 => 1 \in 1..j
    OBVIOUS
  <2> QED
    BY <1>1, <1>2, <1>6, <1>8, <2>1
<1>10. \A b \in Clusters : (b # t \/ j = 0) /\ (\A k \in 1..j : b # s[k]) => g[b] = fat[b]
  BY <1>5, <1>6
<1>11. g \in Fats
  <2>1. ASSUME NEW b \in Clusters
        PROVE  g[b] \in Clusters \union {FREE, EOC}
    <3>1. CASE b \in New(j)
      <4>1. PICK k \in 1..j : b = s[k]
        BY <1>5, <3>1
      <4>2. k # j => k + 1 \in 1..j
        OBVIOUS
      <4> QED
        BY <1>2, <1>7, <4>1, <4>2
    <3>2. CASE b \notin New(j) /\ b = t /\ j > 0
      <4>1. 1 \in 1..j
        BY <3>2
      <4> QED
        BY <1>2, <1>9, <3>2, <4>1
    <3>3. CASE b \notin New(j) /\ ~(b = t /\ j > 0)
      BY <1>6, <3>3 DEF Fats
    <3> QED
      BY <3>1, <3>2, <3>3
  <2> QED
    BY <1>6, <2>1 DEF Fats
<1>12. /\ \A k \in 1..j : s[k] \in Clusters /\ fat[s[k]] = FREE
       /\ \A b \in Clusters : (b # t \/ j = 0) /\ (\A k \in 1..j : b # s[k]) => g[b] = fat[b]
  BY <1>2, <1>10
<1> QED
  BY <1>3, <1>7, <1>9, <1>11, <1>12 DEF Extends, g

-------------------------------------------------------------------------------
(* The tree of directories. *)

LEMMA PlacesFinite == IsFiniteSet(Places) /\ Cardinality(Places) \in Nat
<1>1. IsFiniteSet({ROOT}) /\ IsFiniteSet(1..RootSlots) /\ IsFiniteSet(1..DirSlots)
  <2>1. IsFiniteSet({ROOT})
    BY FS_Singleton
  <2>2. RootSlots \in Int /\ DirSlots \in Int /\ 1 \in Int
    BY FatAssumption
  <2> QED
    BY <2>1, <2>2, FS_Interval
<1>2. IsFiniteSet({ROOT} \X (1..RootSlots)) /\ IsFiniteSet(Clusters \X (1..DirSlots))
  BY <1>1, ClusterFacts, FS_Product
<1>3. IsFiniteSet(Places)
  BY <1>2, FS_Union DEF Places
<1> QED
  BY <1>3, FS_CardinalityType

LEMMA BelowIn ==
  ASSUME NEW f, NEW e, NEW d
  PROVE  /\ Below(f, e, d) \subseteq Places
         /\ \A p \in Below(f, e, d) : e[p].kind \in Live
<1>1. Chain(f, d) \subseteq Clusters
  BY DEF Chain
<1>2. PlacesOf(f, d) \subseteq Places
  BY <1>1 DEF PlacesOf, Places
<1> QED
  BY <1>2 DEF Below

\* A set of places and what is in the directories that it has.
Further(f, e, S) == S \union UNION {Below(f, e, e[p].first) : p \in {q \in S : e[q].kind = "dir"}}

ReachTo(r, f, e, n) ==
  r = [k \in 0..n |-> IF k = 0 THEN Below(f, e, ROOT) ELSE Further(f, e, r[k - 1])]

LEMMA ReachExists ==
  ASSUME NEW f, NEW e
  PROVE  \A n \in Nat : \E r : ReachTo(r, f, e, n)
<1> DEFINE S == {n \in Nat : \E r : ReachTo(r, f, e, n)}
<1>1. 0 \in S
  <2>1. ReachTo([k \in 0..0 |-> Below(f, e, ROOT)], f, e, 0)
    BY DEF ReachTo
  <2> QED
    BY <2>1
<1>2. ASSUME NEW n \in S
      PROVE  n + 1 \in S
  <2>1. PICK r : ReachTo(r, f, e, n)
    OBVIOUS
  <2> DEFINE v == [k \in 0..(n + 1) |-> IF k = n + 1 THEN Further(f, e, r[n]) ELSE r[k]]
  <2>2. \A k \in 0..n : r[k] = IF k = 0 THEN Below(f, e, ROOT) ELSE Further(f, e, r[k - 1])
    BY <2>1 DEF ReachTo
  <2>3. ASSUME NEW k \in 0..(n + 1)
        PROVE  v[k] = IF k = 0 THEN Below(f, e, ROOT) ELSE Further(f, e, v[k - 1])
    <3>1. CASE k = n + 1
      <4>1. k # 0 /\ k - 1 = n /\ n \in 0..(n + 1) /\ n # n + 1
        BY <3>1
      <4>2. v[n] = r[n] /\ v[k] = Further(f, e, r[n])
        BY <3>1, <4>1
      <4> QED
        BY <4>1, <4>2
    <3>2. CASE k # n + 1
      <4>1. k \in 0..n /\ v[k] = r[k]
        BY <3>2
      <4>2. CASE k = 0
        BY <2>2, <4>1, <4>2
      <4>3. CASE k # 0
        <5>1. k - 1 \in 0..(n + 1) /\ k - 1 # n + 1
          BY <4>1, <4>3
        <5>2. v[k - 1] = r[k - 1]
          BY <5>1
        <5> QED
          BY <2>2, <4>1, <4>3, <5>2
      <4> QED
        BY <4>2, <4>3
    <3> QED
      BY <3>1, <3>2
  <2>4. ReachTo(v, f, e, n + 1)
    BY <2>3 DEF ReachTo
  <2> HIDE DEF v
  <2> QED
    BY <2>4
<1> HIDE DEF S
<1>3. S \in SUBSET Nat
  BY DEF S
<1>4. \A n \in Nat : n \in S
  BY <1>1, <1>2, <1>3, EveryNumber
<1> QED
  BY <1>4 DEF S

\* What a search finds, one directory deeper with each step.
LEMMA ReachSteps ==
  ASSUME NEW f, NEW e
  PROVE  \E r : /\ Reached(f, e) = r[Cardinality(Places)]
                /\ r[0] = Below(f, e, ROOT)
                /\ \A k \in Nat : k < Cardinality(Places) => r[k + 1] = Further(f, e, r[k])
<1> DEFINE N == Cardinality(Places)
           r == CHOOSE v : ReachTo(v, f, e, N)
<1>1. N \in Nat
  BY PlacesFinite
<1>2. Reached(f, e) = r[N]
  BY DEF Reached, ReachTo, Further
<1> HIDE DEF N
<1>3. ReachTo(r, f, e, N)
  BY <1>1, ReachExists, Zenon
<1> HIDE DEF r
<1>4. \A k \in 0..N : r[k] = IF k = 0 THEN Below(f, e, ROOT) ELSE Further(f, e, r[k - 1])
  BY <1>3 DEF ReachTo
<1>5. r[0] = Below(f, e, ROOT)
  BY <1>1, <1>4
<1>6. ASSUME NEW k \in Nat, k < N
      PROVE  r[k + 1] = Further(f, e, r[k])
  <2>1. k + 1 \in 0..N /\ k + 1 # 0 /\ (k + 1) - 1 = k
    BY <1>1, <1>6
  <2> QED
    BY <1>4, <2>1
<1> QED
  BY <1>2, <1>5, <1>6 DEF N

\* A set of places that has the root's entries and those of each of its directories.
Closed(f, e, D) ==
  /\ Below(f, e, ROOT) \subseteq D
  /\ \A p \in D : e[p].kind = "dir" => Below(f, e, e[p].first) \subseteq D

\* What can be reached is such a set, and in each other one.
LEMMA ReachedLeast ==
  ASSUME NEW f, NEW e, NEW D, Closed(f, e, D)
  PROVE  Reached(f, e) \subseteq D
<1> DEFINE N == Cardinality(Places)
<1>1. PICK r : /\ Reached(f, e) = r[N]
               /\ r[0] = Below(f, e, ROOT)
               /\ \A k \in Nat : k < N => r[k + 1] = Further(f, e, r[k])
  BY ReachSteps
<1>2. N \in Nat
  BY PlacesFinite
<1> HIDE DEF N
<1> DEFINE S == {k \in Nat : k <= N => r[k] \subseteq D}
<1>3. 0 \in S
  BY <1>1 DEF Closed
<1>4. ASSUME NEW k \in S
      PROVE  k + 1 \in S
  <2> SUFFICES ASSUME k + 1 <= N
               PROVE  r[k + 1] \subseteq D
    OBVIOUS
  <2>1. r[k] \subseteq D /\ r[k + 1] = Further(f, e, r[k])
    BY <1>1, <1>2
  <2>2. Further(f, e, r[k]) \subseteq D
    BY <2>1 DEF Further, Closed
  <2> QED
    BY <2>1, <2>2
<1>5. \A k \in Nat : k \in S
  <2> HIDE DEF S
  <2>1. S \in SUBSET Nat
    BY DEF S
  <2> QED
    BY <1>3, <1>4, <2>1, EveryNumber
<1> QED
  BY <1>1, <1>2, <1>5

LEMMA ReachedCloses ==
  ASSUME NEW f, NEW e
  PROVE  /\ Closed(f, e, Reached(f, e))
         /\ Reached(f, e) \subseteq Places
         /\ \A p \in Reached(f, e) : e[p].kind \in Live
<1> DEFINE N == Cardinality(Places)
<1>1. PICK r : /\ Reached(f, e) = r[N]
               /\ r[0] = Below(f, e, ROOT)
               /\ \A k \in Nat : k < N => r[k + 1] = Further(f, e, r[k])
  BY ReachSteps
<1>2. N \in Nat
  BY PlacesFinite
<1> HIDE DEF N
<1> DEFINE Whole(k) == Further(f, e, r[k]) \subseteq r[k]
           Larger(k) == IsFiniteSet(r[k]) /\ Cardinality(r[k]) \in Nat /\ Cardinality(r[k]) >= k
           S == {k \in Nat : k <= N => /\ r[0] \subseteq r[k] /\ r[k] \subseteq Places
                                       /\ Whole(k) \/ Larger(k)}
<1>3. \A k : r[k] \subseteq Places => IsFiniteSet(r[k]) /\ Cardinality(r[k]) \in Nat
  BY PlacesFinite, FS_Subset, FS_CardinalityType
<1>4. 0 \in S
  <2>1. r[0] \subseteq Places
    BY <1>1, BelowIn
  <2>2. Larger(0)
    BY <1>3, <2>1
  <2> QED
    BY <2>1, <2>2
<1>5. ASSUME NEW k \in S
      PROVE  k + 1 \in S
  <2> SUFFICES ASSUME k + 1 <= N
               PROVE  /\ r[0] \subseteq r[k + 1] /\ r[k + 1] \subseteq Places
                      /\ Whole(k + 1) \/ Larger(k + 1)
    OBVIOUS
  <2>1. r[0] \subseteq r[k] /\ r[k] \subseteq Places /\ (Whole(k) \/ Larger(k))
    BY <1>2
  <2>2. r[k + 1] = Further(f, e, r[k])
    BY <1>1, <1>2
  <2>3. r[k] \subseteq r[k + 1]
    BY <2>2 DEF Further
  <2>4. r[k + 1] \subseteq Places
    BY <2>1, <2>2, BelowIn DEF Further
  <2>5. CASE r[k + 1] = r[k]
    <3>1. Whole(k + 1)
      BY <2>2, <2>5
    <3> HIDE DEF Whole, Larger
    <3> QED
      BY <2>1, <2>4, <2>5, <3>1
  <2>6. CASE r[k + 1] # r[k]
    <3>1. ~Whole(k)
      BY <2>2, <2>3, <2>6
    <3>2. Larger(k) /\ IsFiniteSet(r[k + 1]) /\ Cardinality(r[k + 1]) \in Nat
      BY <1>3, <2>1, <2>4, <3>1
    <3>3. Cardinality(r[k]) <= Cardinality(r[k + 1])
          /\ (Cardinality(r[k + 1]) = Cardinality(r[k]) => r[k + 1] = r[k])
      BY <2>3, <3>2, FS_Subset
    <3>4. Larger(k + 1)
      BY <2>6, <3>2, <3>3
    <3> HIDE DEF Whole, Larger
    <3> QED
      BY <2>1, <2>3, <2>4, <3>4
  <2> QED
    BY <2>5, <2>6
<1>6. \A k \in Nat : k \in S
  <2> HIDE DEF S
  <2>1. S \in SUBSET Nat
    BY DEF S
  <2> QED
    BY <1>4, <1>5, <2>1, EveryNumber
<1>7. r[0] \subseteq r[N] /\ r[N] \subseteq Places /\ (Whole(N) \/ Larger(N))
  BY <1>2, <1>6
<1>8. Further(f, e, r[N]) \subseteq r[N]
  <2>1. CASE Larger(N)
    <3>1. Cardinality(r[N]) <= N /\ (N = Cardinality(r[N]) => Places = r[N])
      BY <1>7, PlacesFinite, FS_Subset DEF N
    <3>2. r[N] = Places
      BY <1>2, <2>1, <3>1
    <3> QED
      BY <3>2, BelowIn DEF Further
  <2> QED
    BY <1>7, <2>1
<1> DEFINE R == r[N]
<1>9. Below(f, e, ROOT) \subseteq R /\ R \subseteq Places
  BY <1>1, <1>7
<1>10. ASSUME NEW p \in R, e[p].kind = "dir"
       PROVE  Below(f, e, e[p].first) \subseteq R
  BY <1>8, <1>10 DEF Further
<1>11. Closed(f, e, R)
  BY <1>9, <1>10 DEF Closed
<1> HIDE DEF R
<1>12. Closed(f, e, {p \in R : e[p].kind \in Live})
  BY <1>11, BelowIn DEF Closed
<1>13. R \subseteq {p \in R : e[p].kind \in Live}
  BY <1>1, <1>12, ReachedLeast DEF R
<1> QED
  BY <1>1, <1>9, <1>11, <1>13 DEF R

LEMMA SoundIs ==
  ASSUME NEW f, NEW e
  PROVE  Sound(f, e) <=>
           \A p \in Reached(f, e) :
             /\ e[p].first \in Clusters /\ Ends(f, e[p].first)
             /\ \A q \in Reached(f, e) :
                  p # q => Chain(f, e[p].first) \intersect Chain(f, e[q].first) = {}
<1> DEFINE R == Reached(f, e)
           chain == [p \in R |-> Chain(f, e[p].first)]
<1>1. \A p \in R : chain[p] = Chain(f, e[p].first)
  OBVIOUS
<1>2. Sound(f, e) <=> \A p \in R : /\ e[p].first \in Clusters
                                   /\ \A b \in chain[p] : f[b] # FREE
                                   /\ \E b \in chain[p] : f[b] = EOC
                                   /\ \A q \in R \ {p} : chain[p] \intersect chain[q] = {}
  BY Zenon DEF Sound
<1> HIDE DEF R, chain
<1>3. \A p \in R : /\ Ends(f, e[p].first) <=> /\ \A b \in chain[p] : f[b] # FREE
                                              /\ \E b \in chain[p] : f[b] = EOC
                   /\ \A q \in R : chain[p] \intersect chain[q]
                                     = Chain(f, e[p].first) \intersect Chain(f, e[q].first)
  BY <1>1 DEF Ends
<1> QED
  BY <1>2, <1>3 DEF R

\* Entries that share a cluster are one.
LEMMA OneOwner ==
  ASSUME NEW f, NEW e, Sound(f, e), NEW p \in Reached(f, e), NEW q \in Reached(f, e),
         NEW b, b \in Chain(f, e[p].first), b \in Chain(f, e[q].first)
  PROVE  p = q
BY SoundIs

\* The tree stays when its directories keep what they list.
LEMMA TreeKept ==
  ASSUME NEW f, NEW e, NEW f2, NEW e2,
         \A p \in Reached(f, e) : e2[p] = e[p],
         Below(f2, e2, ROOT) = Below(f, e, ROOT),
         \A p \in Reached(f, e) :
           e[p].kind = "dir" => Below(f2, e2, e[p].first) = Below(f, e, e[p].first)
  PROVE  Reached(f2, e2) = Reached(f, e)
<1> DEFINE R == Reached(f, e)
           R2 == Reached(f2, e2)
           D == R \intersect R2
<1>1. Closed(f, e, R) /\ Closed(f2, e2, R2)
  BY ReachedCloses
<1>2. Closed(f2, e2, R)
  BY <1>1 DEF Closed
<1>3. Closed(f, e, D)
  BY <1>1 DEF Closed
<1> HIDE DEF D
<1>4. R2 \subseteq R /\ R \subseteq D
  BY <1>2, <1>3, ReachedLeast
<1> QED
  BY <1>4 DEF D

\* p0 and its chain are removed.
Cut(f2, e2, f, e, p0) ==
  /\ e2 = [e EXCEPT ![p0] = Vacant]
  /\ f2 \in Fats
  /\ \A b \in Clusters : f2[b] = IF b \in Chain(f, e[p0].first) THEN FREE ELSE f[b]

\* The other entries that stay in reach keep their chains, and their directories lose
\* no other entry.
LEMMA CutTree ==
  ASSUME NEW f, NEW e \in [Places -> Entries], Sound(f, e), NEW p0 \in Reached(f, e),
         NEW f2, NEW e2, Cut(f2, e2, f, e, p0)
  PROVE  /\ Reached(f2, e2) \subseteq Reached(f, e) \ {p0}
         /\ \A p \in Reached(f, e) \ {p0} :
              /\ e2[p] = e[p] /\ Chain(f2, e[p].first) = Chain(f, e[p].first) /\ Ends(f2, e[p].first)
              /\ Below(f2, e2, e[p].first) = Below(f, e, e[p].first) \ {p0}
         /\ Below(f2, e2, ROOT) = Below(f, e, ROOT) \ {p0}
<1> DEFINE R == Reached(f, e)
           R2 == Reached(f2, e2)
<1>1. R \subseteq Places /\ Closed(f, e, R)
  BY ReachedCloses
<1>2. p0 \in Places /\ e2[p0] = Vacant /\ \A p \in Places : p # p0 => e2[p] = e[p]
  BY <1>1 DEF Cut
<1>3. Vacant.kind \notin Live
  BY DEF Vacant, Live
<1>4. ASSUME NEW p \in R \ {p0}
      PROVE  e2[p] = e[p] /\ e[p].first \in Clusters
             /\ Chain(f2, e[p].first) = Chain(f, e[p].first) /\ Ends(f2, e[p].first)
  <2>1. e[p].first \in Clusters /\ Ends(f, e[p].first)
        /\ Chain(f, e[p].first) \intersect Chain(f, e[p0].first) = {}
    BY SoundIs
  <2>2. \A b \in Chain(f, e[p].first) : f2[b] = f[b]
    BY <2>1, ChainCloses DEF Cut
  <2>3. Chain(f2, e[p].first) = Chain(f, e[p].first)
    BY <2>1, <2>2, ChainSame
  <2> QED
    BY <1>1, <1>2, <2>1, <2>2, <2>3 DEF Ends
<1>5. \A d : PlacesOf(f2, d) = PlacesOf(f, d) => Below(f2, e2, d) = Below(f, e, d) \ {p0}
  <2>1. \A d : PlacesOf(f, d) \subseteq Places
    BY DEF PlacesOf, Places, Chain
  <2>2. \A p \in Places : e2[p].kind \in Live <=> (e[p].kind \in Live /\ p # p0)
    BY <1>2, <1>3, Zenon
  <2> QED
    BY <2>1, <2>2 DEF Below
<1>6. Below(f2, e2, ROOT) = Below(f, e, ROOT) \ {p0}
  BY <1>5 DEF PlacesOf
<1>7. ASSUME NEW p \in R \ {p0}
      PROVE  Below(f2, e2, e[p].first) = Below(f, e, e[p].first) \ {p0}
  BY <1>4, <1>5 DEF PlacesOf
<1>8. R2 \subseteq R \ {p0}
  <2> DEFINE D == R \ {p0}
  <2>1. Below(f2, e2, ROOT) \subseteq D
    BY <1>1, <1>6 DEF Closed
  <2>2. ASSUME NEW p \in D, e2[p].kind = "dir"
        PROVE  Below(f2, e2, e2[p].first) \subseteq D
    <3>1. e2[p] = e[p] /\ Below(f2, e2, e[p].first) = Below(f, e, e[p].first) \ {p0}
      BY <1>4, <1>7
    <3>2. Below(f, e, e[p].first) \subseteq R
      BY <1>1, <2>2, <3>1 DEF Closed
    <3> QED
      BY <3>1, <3>2
  <2>3. Closed(f2, e2, D)
    BY <2>1, <2>2 DEF Closed
  <2> HIDE DEF D
  <2>4. R2 \subseteq D
    BY <2>3, ReachedLeast
  <2> QED
    BY <2>4 DEF D
<1> QED
  BY <1>4, <1>6, <1>7, <1>8

LEMMA CutSound ==
  ASSUME NEW f, NEW e \in [Places -> Entries], Sound(f, e), NEW p0 \in Reached(f, e),
         NEW f2, NEW e2, Cut(f2, e2, f, e, p0)
  PROVE  Sound(f2, e2)
<1>1. /\ Reached(f2, e2) \subseteq Reached(f, e) \ {p0}
      /\ \A p \in Reached(f, e) \ {p0} :
           e2[p] = e[p] /\ Chain(f2, e[p].first) = Chain(f, e[p].first) /\ Ends(f2, e[p].first)
  BY CutTree
<1>2. \A p \in Reached(f, e) :
             /\ e[p].first \in Clusters
             /\ \A q \in Reached(f, e) :
                  p # q => Chain(f, e[p].first) \intersect Chain(f, e[q].first) = {}
  BY SoundIs
<1>3. ASSUME NEW p \in Reached(f2, e2)
      PROVE  /\ e2[p].first \in Clusters /\ Ends(f2, e2[p].first)
             /\ \A q \in Reached(f2, e2) :
                  p # q => Chain(f2, e2[p].first) \intersect Chain(f2, e2[q].first) = {}
  BY <1>1, <1>2
<1> QED
  BY <1>3, SoundIs

\* What only p0 kept in reach goes with it.  A set of places stays when the directory of
\* each is in the set, or is the root.
LEMMA CutKeeps ==
  ASSUME NEW f, NEW e \in [Places -> Entries], Sound(f, e), NEW p0 \in Reached(f, e),
         NEW f2, NEW e2, Cut(f2, e2, f, e, p0),
         NEW K \in SUBSET Reached(f, e), p0 \notin K,
         \A q \in K : \/ q \in Below(f, e, ROOT)
                      \/ \E p \in K : e[p].kind = "dir" /\ q \in Below(f, e, e[p].first)
  PROVE  K \subseteq Reached(f2, e2)
<1> DEFINE R == Reached(f, e)
           R2 == Reached(f2, e2)
           D == {q \in R : q \in K => q \in R2}
<1>1. Closed(f, e, R) /\ Closed(f2, e2, R2)
  BY ReachedCloses
<1>2. /\ \A p \in R \ {p0} :
           e2[p] = e[p] /\ Below(f2, e2, e[p].first) = Below(f, e, e[p].first) \ {p0}
      /\ Below(f2, e2, ROOT) = Below(f, e, ROOT) \ {p0}
  BY CutTree
<1>3. Below(f, e, ROOT) \subseteq D
  BY <1>1, <1>2 DEF Closed
<1>4. ASSUME NEW p \in D, e[p].kind = "dir", NEW q \in Below(f, e, e[p].first)
      PROVE  q \in D
  <2>1. q \in R
    BY <1>1, <1>4 DEF Closed
  <2> SUFFICES ASSUME q \in K
               PROVE  q \in R2
    BY <2>1
  <2>2. CASE q \in Below(f, e, ROOT)
    BY <1>3, <2>2
  <2>3. ASSUME NEW r \in K, e[r].kind = "dir", q \in Below(f, e, e[r].first)
        PROVE  q \in R2
    <3>1. e[p].first \in Clusters /\ e[r].first \in Clusters
      BY SoundIs
    <3>2. q[1] \in Chain(f, e[p].first) /\ q[1] \in Chain(f, e[r].first)
      BY <1>4, <2>3, <3>1, ClusterFacts DEF Below, PlacesOf
    <3>3. p = r
      BY <3>2, OneOwner
    <3>4. p # p0 /\ p \in R2
      BY <3>3
    <3>5. Below(f2, e2, e[p].first) \subseteq R2 /\ q \in Below(f2, e2, e[p].first)
      BY <1>1, <1>2, <1>4, <3>4 DEF Closed
    <3> QED
      BY <3>5
  <2> QED
    BY <2>2, <2>3
<1>5. Closed(f, e, D)
  BY <1>3, <1>4 DEF Closed
<1> HIDE DEF D
<1>6. R \subseteq D
  BY <1>5, ReachedLeast
<1> QED
  BY <1>6 DEF D

\* A file, or a directory without entries, takes nothing with it.
LEMMA CutLeaf ==
  ASSUME NEW f, NEW e \in [Places -> Entries], Sound(f, e), NEW p0 \in Reached(f, e),
         NEW f2, NEW e2, Cut(f2, e2, f, e, p0),
         e[p0].kind = "dir" => Below(f, e, e[p0].first) = {}
  PROVE  /\ Reached(f2, e2) = Reached(f, e) \ {p0}
         /\ Marked(f) = Owned(f, e) => Marked(f2) = Owned(f2, e2)
<1> DEFINE R == Reached(f, e)
           R2 == Reached(f2, e2)
           D == R2 \union {p0}
<1>1. Closed(f, e, R) /\ Closed(f2, e2, R2)
  BY ReachedCloses
<1>2. /\ R2 \subseteq R \ {p0}
      /\ \A p \in R \ {p0} :
           /\ e2[p] = e[p] /\ Chain(f2, e[p].first) = Chain(f, e[p].first)
           /\ Below(f2, e2, e[p].first) = Below(f, e, e[p].first) \ {p0}
      /\ Below(f2, e2, ROOT) = Below(f, e, ROOT) \ {p0}
  BY CutTree
<1>3. ASSUME NEW p \in D, e[p].kind = "dir"
      PROVE  Below(f, e, e[p].first) \subseteq D
  <2>1. CASE p = p0
    BY <1>3, <2>1
  <2>2. CASE p # p0
    <3>1. p \in R2 /\ p \in R \ {p0}
      BY <1>2, <2>2
    <3> HIDE DEF R, R2, D
    <3>2. Below(f2, e2, e[p].first) \subseteq R2
      BY <1>1, <1>2, <1>3, <3>1 DEF Closed
    <3> QED
      BY <1>2, <3>1, <3>2 DEF D
  <2> QED
    BY <2>1, <2>2
<1>4. Closed(f, e, D)
  BY <1>1, <1>2, <1>3 DEF Closed
<1> HIDE DEF D
<1>5. R \subseteq D
  BY <1>4, ReachedLeast
<1>6. R2 = R \ {p0}
  BY <1>2, <1>5 DEF D
<1>7. ASSUME Marked(f) = Owned(f, e)
      PROVE  Marked(f2) = Owned(f2, e2)
  <2> DEFINE C == Chain(f, e[p0].first)
  <2>1. Marked(f2) = Marked(f) \ C
    BY DEF Marked, Cut
  <2>2. Owned(f2, e2) = UNION {Chain(f, e[p].first) : p \in R \ {p0}}
    <3>1. \A p \in R2 : Chain(f2, e2[p].first) = Chain(f, e[p].first)
      BY <1>2
    <3> HIDE DEF R, R2
    <3>2. UNION {Chain(f2, e2[p].first) : p \in R2} = UNION {Chain(f, e[p].first) : p \in R2}
      BY <3>1
    <3> QED
      BY <1>6, <3>2, Zenon DEF Owned, R2
  <2>3. \A p \in R \ {p0} : Chain(f, e[p].first) \intersect C = {}
    BY SoundIs
  <2>4. Owned(f, e) \ C = UNION {Chain(f, e[p].first) : p \in R \ {p0}}
    <3> HIDE DEF R
    <3>1. Owned(f, e) = UNION {Chain(f, e[p].first) : p \in R}
      BY Zenon DEF Owned, R
    <3> HIDE DEF C
    <3>2. \A b : b \in C <=> b \in Chain(f, e[p0].first)
      BY DEF C
    <3> QED
      BY <2>3, <3>1, <3>2
  <2> QED
    BY <1>7, <2>1, <2>2, <2>4
<1> QED
  BY <1>6, <1>7

-------------------------------------------------------------------------------
(* Clusters are appended to the chain of the entry at p0; those of a directory *)
(* are cleared.                                                            *)

Grown(f2, e2, f, e, p0, s, j) ==
  /\ Extends(f2, f, FindLastCluster(f, e[p0].first), s, j)
  /\ e2 \in [Places -> Entries]
  /\ \A p \in Places : (\A k \in 1..j : p[1] # s[k]) => e2[p] = e[p]
  /\ e[p0].kind = "dir" => \A p \in Places : (\E k \in 1..j : p[1] = s[k]) => e2[p] = Vacant

\* What is in reach is in the root directory or in a cluster of another directory.
LEMMA InDirectory ==
  ASSUME NEW f, NEW e, NEW p \in Reached(f, e)
  PROVE  \/ p \in Below(f, e, ROOT)
         \/ \E q \in Reached(f, e) : e[q].kind = "dir" /\ p \in Below(f, e, e[q].first)
<1> DEFINE R == Reached(f, e)
           D == {x \in R : \/ x \in Below(f, e, ROOT)
                           \/ \E q \in R : e[q].kind = "dir" /\ x \in Below(f, e, e[q].first)}
<1>1. Closed(f, e, R)
  BY ReachedCloses
<1>2. Closed(f, e, D)
  <2> HIDE DEF R
  <2> QED
    BY <1>1 DEF Closed
<1> HIDE DEF D
<1>3. R \subseteq D
  BY <1>2, ReachedLeast
<1> QED
  BY <1>3 DEF D

\* The clusters of a directory are those of its places.
LEMMA ClusterOfPlace ==
  ASSUME NEW f, NEW e, NEW d \in Clusters, NEW p, p \in Below(f, e, d)
  PROVE  p[1] \in Chain(f, d)
<1>1. d # ROOT
  BY ClusterFacts
<1> QED
  BY <1>1 DEF Below, PlacesOf

LEMMA PlaceUsed ==
  ASSUME NEW f, NEW e, Sound(f, e), NEW p \in Reached(f, e)
  PROVE  p[1] = ROOT \/ (p[1] \in Clusters /\ f[p[1]] # FREE)
<1>1. CASE p \in Below(f, e, ROOT)
  BY <1>1 DEF Below, PlacesOf
<1>2. ASSUME NEW q \in Reached(f, e), e[q].kind = "dir", p \in Below(f, e, e[q].first)
      PROVE  p[1] \in Clusters /\ f[p[1]] # FREE
  <2>1. e[q].first \in Clusters /\ Ends(f, e[q].first)
    BY SoundIs
  <2>2. p[1] \in Chain(f, e[q].first)
    BY <1>2, <2>1, ClusterOfPlace
  <2> QED
    BY <2>1, <2>2, ChainCloses DEF Ends
<1> QED
  BY <1>1, <1>2, InDirectory

\* Their chains, and what they list, are as before but for the clusters appended.
LEMMA GrownChains ==
  ASSUME NEW f \in Fats, NEW e \in [Places -> Entries], Sound(f, e), NEW p0 \in Reached(f, e),
         NEW j \in Nat, NEW s, NEW f2, NEW e2, Grown(f2, e2, f, e, p0, s, j)
  PROVE  /\ Reached(f2, e2) = Reached(f, e)
         /\ \A p \in Reached(f, e) : e2[p] = e[p] /\ Ends(f2, e[p].first)
         /\ \A p \in Reached(f, e) \ {p0} : Chain(f2, e[p].first) = Chain(f, e[p].first)
         /\ Chain(f2, e[p0].first) = Chain(f, e[p0].first) \union {s[k] : k \in 1..j}
<1> DEFINE R == Reached(f, e)
           c0 == e[p0].first
           t == FindLastCluster(f, c0)
           T == {s[k] : k \in 1..j}
<1>1. \A p \in R : /\ e[p].first \in Clusters /\ Ends(f, e[p].first)
                   /\ p # p0 => Chain(f, e[p].first) \intersect Chain(f, c0) = {}
  BY SoundIs
<1>2. t \in Chain(f, c0) /\ f[t] = EOC
  BY <1>1, LastOfChain
<1>3. Extends(f2, f, t, s, j)
  BY DEF Grown
<1>4. Ends(f2, c0) /\ Chain(f2, c0) = Chain(f, c0) \union T
  <2> HIDE DEF t
  <2> QED
    BY <1>1, <1>2, <1>3, ChainExtended
<1>5. ASSUME NEW p \in R, p # p0
      PROVE  Ends(f2, e[p].first) /\ Chain(f2, e[p].first) = Chain(f, e[p].first)
  <2> HIDE DEF t
  <2>1. t \notin Chain(f, e[p].first)
    BY <1>1, <1>2, <1>5
  <2> QED
    BY <1>1, <1>3, <2>1, ChainBeside
<1>6. \A b \in T : b \in Clusters /\ f[b] = FREE
  BY <1>3 DEF Extends
<1>7. \A p \in Places : p[1] \notin T => e2[p] = e[p]
  BY DEF Grown
<1>8. ASSUME NEW p \in R
      PROVE  e2[p] = e[p]
  <2>1. p[1] \notin T
    BY <1>6, PlaceUsed, ClusterFacts
  <2> QED
    BY <1>7, <2>1, ReachedCloses
<1>9. Below(f2, e2, ROOT) = Below(f, e, ROOT)
  <2>1. \A p \in PlacesOf(f, ROOT) : p \in Places /\ p[1] = ROOT
    BY DEF PlacesOf, Places
  <2>2. PlacesOf(f2, ROOT) = PlacesOf(f, ROOT)
    BY DEF PlacesOf
  <2>3. \A p \in PlacesOf(f, ROOT) : e2[p] = e[p]
    BY <1>6, <1>7, <2>1, ClusterFacts
  <2> QED
    BY <2>2, <2>3 DEF Below
<1>10. ASSUME NEW p \in R, e[p].kind = "dir"
       PROVE  Below(f2, e2, e[p].first) = Below(f, e, e[p].first)
  <2> DEFINE c == e[p].first
  <2>1. c \in Clusters /\ c # ROOT
    BY <1>1, ClusterFacts
  <2>2. PlacesOf(f, c) = Chain(f, c) \X (1..DirSlots) /\ PlacesOf(f2, c) = Chain(f2, c) \X (1..DirSlots)
    BY <2>1 DEF PlacesOf
  <2>3. Chain(f, c) \subseteq Clusters /\ \A b \in Chain(f, c) : f[b] # FREE
    BY <1>1, ChainCloses DEF Ends
  <2>4. PlacesOf(f, c) \subseteq Places
    BY <2>2, <2>3 DEF Places
  <2>5. \A q \in PlacesOf(f, c) : e2[q] = e[q]
    BY <1>6, <1>7, <2>2, <2>3, <2>4
  <2>6. CASE p # p0
    <3>1. PlacesOf(f2, c) = PlacesOf(f, c)
      BY <1>5, <2>2, <2>6
    <3> QED
      BY <2>5, <3>1 DEF Below
  <2>7. CASE p = p0
    <3>1. PlacesOf(f2, c) = PlacesOf(f, c) \union (T \X (1..DirSlots))
      BY <1>4, <2>2, <2>7
    <3>2. \A q \in T \X (1..DirSlots) : q \in Places /\ e2[q] = Vacant
      <4>1. \A q \in T \X (1..DirSlots) : q \in Places /\ \E k \in 1..j : q[1] = s[k]
        BY <1>6 DEF Places
      <4>2. \A q \in Places : (\E k \in 1..j : q[1] = s[k]) => e2[q] = Vacant
        BY <1>10, <2>7 DEF Grown
      <4> QED
        BY <4>1, <4>2
    <3>3. "vacant" \notin Live /\ Vacant.kind = "vacant"
      BY DEF Live, Vacant
    <3>4. \A q \in PlacesOf(f2, c) : e2[q].kind \in Live <=> q \in PlacesOf(f, c) /\ e[q].kind \in Live
      <4> HIDE DEF T, c
      <4> QED
        BY <2>5, <3>1, <3>2, <3>3
    <3>5. PlacesOf(f, c) \subseteq PlacesOf(f2, c)
      BY <3>1
    <3> QED
      BY <3>4, <3>5 DEF Below
  <2> QED
    BY <2>6, <2>7
<1>11. Reached(f2, e2) = R
  <2> HIDE DEF T, c0, t
  <2> QED
    BY <1>8, <1>9, <1>10, TreeKept
<1> HIDE DEF c0, T, t
<1> QED
  BY <1>4, <1>5, <1>8, <1>11 DEF c0, T

LEMMA GrownSound ==
  ASSUME NEW f \in Fats, NEW e \in [Places -> Entries], Sound(f, e), NEW p0 \in Reached(f, e),
         NEW j \in Nat, NEW s, NEW f2, NEW e2, Grown(f2, e2, f, e, p0, s, j)
  PROVE  /\ Sound(f2, e2)
         /\ Marked(f) = Owned(f, e) => Marked(f2) = Owned(f2, e2)
         /\ Cardinality(Chain(f2, e[p0].first)) = Cardinality(Chain(f, e[p0].first)) + j
<1> DEFINE R == Reached(f, e)
           c0 == e[p0].first
           T == {s[k] : k \in 1..j}
           C(p) == Chain(f, e[p].first)
           C2(p) == Chain(f2, e[p].first)
<1>1. /\ Reached(f2, e2) = R
      /\ \A p \in R : e2[p] = e[p] /\ Ends(f2, e[p].first)
      /\ \A p \in R \ {p0} : C2(p) = C(p)
      /\ C2(p0) = C(p0) \union T
  BY GrownChains
<1>2. \A p \in R : /\ e[p].first \in Clusters /\ Ends(f, e[p].first)
                   /\ \A q \in R : p # q => C(p) \intersect C(q) = {}
  BY SoundIs
<1>3. Extends(f2, f, FindLastCluster(f, c0), s, j)
  BY DEF Grown
<1>4. \A b \in T : b \in Clusters /\ f[b] = FREE /\ f2[b] # FREE
  <2>1. \A k \in 1..j : s[k] \in Clusters /\ f[s[k]] = FREE /\ f2[s[k]] = IF k = j THEN EOC ELSE s[k + 1]
    BY <1>3 DEF Extends
  <2>2. \A k \in 1..j : k # j => k + 1 \in 1..j
    OBVIOUS
  <2> QED
    BY <2>1, <2>2, ClusterFacts
<1>5. \A p \in R : C(p) \intersect T = {}
  BY <1>2, <1>4 DEF Ends
<1>6. Sound(f2, e2)
  <2>1. \A p, q \in R : p # q => C2(p) \intersect C2(q) = {}
    <3> HIDE DEF R, T, C, C2
    <3> QED
      BY <1>1, <1>2, <1>5
  <2>2. \A p \in R : e2[p] = e[p] /\ e[p].first \in Clusters /\ Ends(f2, e[p].first)
    BY <1>1, <1>2
  <2> HIDE DEF R
  <2>3. \A p \in R : /\ e2[p].first \in Clusters /\ Ends(f2, e2[p].first)
                     /\ \A q \in R : p # q => Chain(f2, e2[p].first) \intersect Chain(f2, e2[q].first) = {}
    BY <2>1, <2>2
  <2> QED
    BY <1>1, <2>3, SoundIs
<1>7. ASSUME Marked(f) = Owned(f, e)
      PROVE  Marked(f2) = Owned(f2, e2)
  <2>1. Owned(f2, e2) = UNION {C2(p) : p \in R}
    <3> HIDE DEF R
    <3> QED
      BY <1>1 DEF Owned
  <2>2. UNION {C2(p) : p \in R} = (UNION {C(p) : p \in R}) \union T
    <3>1. p0 \in R
      OBVIOUS
    <3> HIDE DEF R, T, C, C2
    <3> QED
      BY <1>1, <3>1
  <2>3. Owned(f, e) = UNION {C(p) : p \in R}
    BY Zenon DEF Owned
  <2>4. Marked(f2) = Marked(f) \union T
    <3>1. LET t == FindLastCluster(f, c0) IN t \in Chain(f, c0) /\ t \in Clusters /\ f[t] = EOC
      BY <1>2, LastOfChain
    <3>2. PICK t : t = FindLastCluster(f, c0)
      OBVIOUS
    <3>3. f[t] # FREE /\ t \in Clusters
      BY <3>1, <3>2, ClusterFacts
    <3>4. \A b \in Clusters : b \notin T /\ (b # t \/ j = 0) => f2[b] = f[b]
      BY <1>3, <3>2 DEF Extends
    <3>5. j > 0 => f2[t] # FREE
      <4>1. ASSUME j > 0 PROVE f2[t] = s[1] /\ s[1] \in Clusters
        BY <1>3, <3>2, <4>1 DEF Extends
      <4> QED
        BY <4>1, ClusterFacts
    <3> HIDE DEF T
    <3> QED
      BY <1>4, <3>3, <3>4, <3>5 DEF Marked
  <2> QED
    BY <1>7, <2>1, <2>2, <2>3, <2>4
<1>8. Cardinality(C2(p0)) = Cardinality(C(p0)) + j
  <2>1. IsFiniteSet(T) /\ Cardinality(T) = j
    <3> DEFINE g == [k \in 1..j |-> s[k]]
    <3>1. \A k, l \in 1..j : g[k] = g[l] => k = l
      BY <1>3 DEF Extends
    <3>2. g \in [1..j -> T] /\ \A b \in T : \E k \in 1..j : g[k] = b
      OBVIOUS
    <3>4. ExistsBijection(1..j, T)
      <4> HIDE DEF g, T
      <4> QED
        BY <3>1, <3>2 DEF ExistsBijection, Bijection, Injection, Surjection, IsInjective
    <3>3. IsFiniteSet(1..j) /\ Cardinality(1..j) = j
      BY FS_Interval
    <3> HIDE DEF g, T
    <3> QED
      BY <3>3, <3>4, FS_Bijection
  <2>2. IsFiniteSet(C(p0)) /\ Cardinality(C(p0)) \in Nat
    BY <1>2, ChainFinite
  <2>3. C(p0) \intersect T = {}
    BY <1>5
  <2>4. Cardinality(C(p0) \intersect T) = 0
    BY <2>3, FS_EmptySet
  <2>5. C2(p0) = C(p0) \union T
    BY <1>1
  <2> HIDE DEF T, C, C2
  <2>6. Cardinality(C(p0) \union T) = Cardinality(C(p0)) + Cardinality(T) - Cardinality(C(p0) \intersect T)
    BY <2>1, <2>2, FS_Union
  <2> QED
    BY <2>1, <2>2, <2>4, <2>5, <2>6
<1> QED
  BY <1>6, <1>7, <1>8

-------------------------------------------------------------------------------
(* Nodes.                                                                  *)

NodeRecords == [ref : 1..MaxRefs, place : Places, dirent : Entries,
                hint : Clusters \union {0}, is_root : BOOLEAN, extended : BOOLEAN]

\* The node x of number n is that of an entry in reach.
Tied(f, e, x, n) ==
  /\ x \in NodeRecords
  /\ x.place \in Reached(f, e) /\ e[x.place].first = n
  /\ x.dirent.kind = e[x.place].kind
  /\ x.dirent.kind = "dir" => x.dirent = e[x.place]
  /\ x.hint \in Chain(f, n) \union {0}
  /\ x.dirent.kind = "file" /\ ~x.extended =>
       x.dirent.size <= ClusterSize * Cardinality(Chain(f, n))

\* A place in the root directory or in one with a node.
HeldIn(f, e, N, p) ==
  \/ p \in Below(f, e, ROOT)
  \/ \E m \in DOMAIN N : e[N[m].place].kind = "dir" /\ p \in Below(f, e, m)

NodesGood(f, e, N) ==
  /\ DOMAIN N \subseteq Clusters
  /\ \A n \in DOMAIN N : Tied(f, e, N[n], n) /\ HeldIn(f, e, N, N[n].place)

\* The files of the entries in reach have their clusters.
EntrySizes(f, e) ==
  \A p \in Reached(f, e) : e[p].kind = "file" =>
    e[p].size <= ClusterSize * Cardinality(Chain(f, e[p].first))

\* Nodes may change and be added.
LEMMA NodesMore ==
  ASSUME NEW f, NEW e, NEW N, NodesGood(f, e, N), NEW N2,
         DOMAIN N \subseteq DOMAIN N2, DOMAIN N2 \subseteq Clusters,
         \A n \in DOMAIN N2 : Tied(f, e, N2[n], n),
         \A n \in DOMAIN N : N2[n].place = N[n].place,
         \A n \in DOMAIN N2 : n \notin DOMAIN N => HeldIn(f, e, N, N2[n].place)
  PROVE  NodesGood(f, e, N2)
<1>1. ASSUME NEW n \in DOMAIN N2
      PROVE  HeldIn(f, e, N2, N2[n].place)
  <2>1. HeldIn(f, e, N, N2[n].place)
    BY DEF NodesGood
  <2> QED
    BY <2>1 DEF HeldIn
<1> QED
  BY <1>1 DEF NodesGood

LEMMA ChainCardGrows ==
  ASSUME NEW f, NEW g, NEW c \in Clusters, Chain(f, c) \subseteq Chain(g, c)
  PROVE  ClusterSize * Cardinality(Chain(f, c)) <= ClusterSize * Cardinality(Chain(g, c))
<1>1. IsFiniteSet(Chain(g, c)) /\ Cardinality(Chain(f, c)) \in Nat /\ Cardinality(Chain(g, c)) \in Nat
  BY ChainFinite
<1>2. Cardinality(Chain(f, c)) <= Cardinality(Chain(g, c))
  BY <1>1, FS_Subset
<1> DEFINE x == Cardinality(Chain(f, c))
           y == Cardinality(Chain(g, c))
<1>3. ClusterSize \in Nat
  BY FatAssumption
<1> HIDE DEF x, y
<1>4. x \in Nat /\ y \in Nat /\ x <= y
  BY <1>1, <1>2 DEF x, y
<1>5. ClusterSize * y = ClusterSize * x + ClusterSize * (y - x) /\ ClusterSize * (y - x) \in Nat
  BY <1>3, <1>4
<1>6. ClusterSize * x <= ClusterSize * y
  BY <1>3, <1>4, <1>5
<1> QED
  BY <1>6 DEF x, y

\* The nodes stay good when a chain grows.
LEMMA NodesGrown ==
  ASSUME NEW f \in Fats, NEW e \in [Places -> Entries], Sound(f, e), NEW p0 \in Reached(f, e),
         NEW j \in Nat, NEW s, NEW f2, NEW e2, Grown(f2, e2, f, e, p0, s, j),
         NEW N, NodesGood(f, e, N)
  PROVE  NodesGood(f2, e2, N)
<1> DEFINE R == Reached(f, e)
<1>1. /\ Reached(f2, e2) = R
      /\ \A p \in R : e2[p] = e[p]
      /\ \A p \in R : Chain(f, e[p].first) \subseteq Chain(f2, e[p].first)
  BY GrownChains
<1>2. \A p \in R : e[p].first \in Clusters
  BY SoundIs
<1>3. ASSUME NEW n \in DOMAIN N
      PROVE  Tied(f2, e2, N[n], n)
  <2> DEFINE x == N[n]
  <2>1. Tied(f, e, x, n) /\ n \in Clusters
    BY DEF NodesGood
  <2>2. x.place \in R /\ e[x.place].first = n
    BY <2>1 DEF Tied
  <2>3. Chain(f, n) \subseteq Chain(f2, n)
    BY <1>1, <2>2
  <2>4. ClusterSize * Cardinality(Chain(f, n)) <= ClusterSize * Cardinality(Chain(f2, n))
    BY <2>1, <2>3, ChainCardGrows
  <2>5. x.dirent.kind = "file" /\ ~x.extended =>
          x.dirent.size <= ClusterSize * Cardinality(Chain(f2, n))
    <3>1. /\ x.dirent.kind = "file" /\ ~x.extended =>
               x.dirent.size <= ClusterSize * Cardinality(Chain(f, n))
          /\ x \in NodeRecords
      BY <2>1 DEF Tied
    <3>2. x.dirent.size \in Nat
      BY <3>1, FatAssumption DEF NodeRecords, Entries
    <3>3. ClusterSize * Cardinality(Chain(f, n)) \in Nat /\ ClusterSize * Cardinality(Chain(f2, n)) \in Nat
      BY <2>1, ChainFinite, FatAssumption
    <3> HIDE DEF x
    <3> QED
      BY <2>4, <3>1, <3>2, <3>3
  <2> HIDE DEF x, R
  <2> QED
    BY <1>1, <2>1, <2>2, <2>3, <2>5 DEF Tied, x
<1>4. \A q \in R : (q \in Below(f, e, ROOT) => q \in Below(f2, e2, ROOT))
  <2>1. ASSUME NEW q \in R, q \in Below(f, e, ROOT) PROVE q \in Below(f2, e2, ROOT)
    BY <1>1, <2>1 DEF Below, PlacesOf
  <2> QED
    BY <2>1
<1>5. ASSUME NEW q \in R, NEW m \in DOMAIN N, e[N[m].place].kind = "dir", q \in Below(f, e, m)
      PROVE  e2[N[m].place].kind = "dir" /\ q \in Below(f2, e2, m)
  <2>1. m \in Clusters /\ N[m].place \in R /\ e[N[m].place].first = m
    BY DEF NodesGood, Tied
  <2>2. Chain(f, m) \subseteq Chain(f2, m) /\ m # ROOT
    BY <1>1, <2>1, ClusterFacts
  <2>3. q \in Below(f2, e2, m)
    BY <1>1, <1>5, <2>2 DEF Below, PlacesOf
  <2> QED
    BY <1>1, <1>5, <2>1, <2>3
<1>6. ASSUME NEW n \in DOMAIN N
      PROVE  HeldIn(f2, e2, N, N[n].place)
  <2>1. HeldIn(f, e, N, N[n].place) /\ N[n].place \in R
    BY DEF NodesGood, Tied
  <2> HIDE DEF R
  <2> QED
    BY <1>4, <1>5, <2>1 DEF HeldIn
<1> QED
  BY <1>3, <1>6 DEF NodesGood

LEMMA EntrySizesGrown ==
  ASSUME NEW f \in Fats, NEW e \in [Places -> Entries], Sound(f, e), NEW p0 \in Reached(f, e),
         NEW j \in Nat, NEW s, NEW f2, NEW e2, Grown(f2, e2, f, e, p0, s, j), EntrySizes(f, e)
  PROVE  EntrySizes(f2, e2)
<1> SUFFICES ASSUME NEW p \in Reached(f, e), e[p].kind = "file"
             PROVE  e[p].size <= ClusterSize * Cardinality(Chain(f2, e[p].first))
  BY GrownChains DEF EntrySizes
<1> DEFINE c == e[p].first
<1>1. c \in Clusters /\ Chain(f, c) \subseteq Chain(f2, c)
  BY SoundIs, GrownChains
<1>2. ClusterSize * Cardinality(Chain(f, c)) <= ClusterSize * Cardinality(Chain(f2, c))
  BY <1>1, ChainCardGrows
<1>3. ClusterSize * Cardinality(Chain(f, c)) \in Nat /\ ClusterSize * Cardinality(Chain(f2, c)) \in Nat
  BY <1>1, ChainFinite, FatAssumption
<1>4. e[p].size \in Nat
  BY ReachedCloses, FatAssumption DEF Entries
<1>5. e[p].size <= ClusterSize * Cardinality(Chain(f, c))
  BY DEF EntrySizes
<1> HIDE DEF c
<1> QED
  BY <1>2, <1>3, <1>4, <1>5 DEF c

\* The nodes stay good when an entry without a node is cut off.
LEMMA NodesCut ==
  ASSUME NEW f, NEW e \in [Places -> Entries], Sound(f, e), NEW p0 \in Reached(f, e),
         NEW f2, NEW e2, Cut(f2, e2, f, e, p0),
         NEW N, NodesGood(f, e, N), e[p0].first \notin DOMAIN N
  PROVE  NodesGood(f2, e2, N)
<1> DEFINE R == Reached(f, e)
           K == {N[n].place : n \in DOMAIN N}
<1>1. \A n \in DOMAIN N : /\ n \in Clusters /\ N[n].place \in R \ {p0} /\ e[N[n].place].first = n
                          /\ HeldIn(f, e, N, N[n].place)
  BY DEF NodesGood, Tied
<1>2. K \subseteq R \ {p0}
  BY <1>1
<1>3. K \subseteq Reached(f2, e2)
  <2>1. ASSUME NEW q \in K
        PROVE  \/ q \in Below(f, e, ROOT)
               \/ \E p \in K : e[p].kind = "dir" /\ q \in Below(f, e, e[p].first)
    <3>1. HeldIn(f, e, N, q)
      BY <1>1
    <3>2. ASSUME NEW m \in DOMAIN N, e[N[m].place].kind = "dir", q \in Below(f, e, m)
          PROVE  \E p \in K : e[p].kind = "dir" /\ q \in Below(f, e, e[p].first)
      <4>1. N[m].place \in K /\ e[N[m].place].first = m
        BY <1>1
      <4> QED
        BY <3>2, <4>1
    <3> HIDE DEF K
    <3> QED
      BY <3>1, <3>2 DEF HeldIn
  <2> HIDE DEF K
  <2>2. p0 \notin K /\ K \in SUBSET R
    BY <1>2
  <2> QED
    BY <2>1, <2>2, CutKeeps
<1>4. /\ \A p \in R \ {p0} :
           /\ e2[p] = e[p] /\ Chain(f2, e[p].first) = Chain(f, e[p].first)
           /\ Below(f2, e2, e[p].first) = Below(f, e, e[p].first) \ {p0}
      /\ Below(f2, e2, ROOT) = Below(f, e, ROOT) \ {p0}
  BY CutTree
<1>5. ASSUME NEW n \in DOMAIN N
      PROVE  Tied(f2, e2, N[n], n)
  <2> DEFINE x == N[n]
  <2>1. Tied(f, e, x, n) /\ x.place \in R \ {p0} /\ e[x.place].first = n
    BY <1>1 DEF NodesGood
  <2>2. Chain(f2, n) = Chain(f, n) /\ e2[x.place] = e[x.place]
    BY <1>4, <2>1
  <2>3. x.place \in Reached(f2, e2)
    BY <1>3
  <2> HIDE DEF x, R
  <2> QED
    BY <2>1, <2>2, <2>3 DEF Tied, x
<1>6. ASSUME NEW n \in DOMAIN N
      PROVE  HeldIn(f2, e2, N, N[n].place)
  <2> DEFINE q == N[n].place
  <2>1. HeldIn(f, e, N, q) /\ q # p0
    BY <1>1
  <2>2. ASSUME NEW m \in DOMAIN N, e[N[m].place].kind = "dir", q \in Below(f, e, m)
        PROVE  e2[N[m].place].kind = "dir" /\ q \in Below(f2, e2, m)
    <3>1. N[m].place \in R \ {p0} /\ e[N[m].place].first = m
      BY <1>1
    <3> HIDE DEF R, q
    <3> QED
      BY <1>4, <2>1, <2>2, <3>1
  <2> HIDE DEF q, R
  <2> QED
    BY <1>4, <2>1, <2>2 DEF HeldIn, q
<1> QED
  BY <1>5, <1>6 DEF NodesGood

LEMMA EntrySizesCut ==
  ASSUME NEW f, NEW e \in [Places -> Entries], Sound(f, e), NEW p0 \in Reached(f, e),
         NEW f2, NEW e2, Cut(f2, e2, f, e, p0), EntrySizes(f, e)
  PROVE  EntrySizes(f2, e2)
<1>1. /\ Reached(f2, e2) \subseteq Reached(f, e) \ {p0}
      /\ \A p \in Reached(f, e) \ {p0} :
           e2[p] = e[p] /\ Chain(f2, e[p].first) = Chain(f, e[p].first)
  BY CutTree
<1> QED
  BY <1>1 DEF EntrySizes

-------------------------------------------------------------------------------
(* What lookup finds.                                                      *)

Rank(d, p) == IF IsRoot(d) THEN 0 ELSE Index(fat, d, p[1])

\* The step of a walk that is at a cluster of its chain.
LEMMA IndexOf ==
  ASSUME NEW f, NEW c, NEW b \in Chain(f, c), NEW w, w = Walk(f, c)
  PROVE  Index(f, c, b) \in 0..Cardinality(Clusters) /\ w[Index(f, c, b)] = b
<1>1. \E k \in 0..Cardinality(Clusters) : w[k] = b
  BY ChainDef
<1>2. Index(f, c, b) = CHOOSE k \in 0..Cardinality(Clusters) : w[k] = b
  BY DEF Index
<1> QED
  BY <1>1, <1>2

\* A directory that has the name has a first entry of it.
LEMMA FoundNamed ==
  ASSUME NEW d, d = ROOT \/ d \in Clusters, NEW nm, Named(d, nm) # {}
  PROVE  Found(d, nm) \in Named(d, nm)
<1> DEFINE S == Named(d, nm)
           r(p) == Rank(d, p)
<1>1. \A p \in S : p \in Places /\ p = <<p[1], p[2]>> /\ p[2] \in Nat
  <2>1. S \subseteq Searched(d)
    BY DEF Named
  <2>2. \A p \in Searched(d) : p \in Places
    BY ChainCloses DEF Searched, PlacesOf, Places
  <2> QED
    BY <2>1, <2>2, FatAssumption DEF Places
<1>2. \A p \in S : r(p) \in Nat
  <2>1. CASE IsRoot(d)
    BY <2>1 DEF Rank
  <2>2. CASE ~IsRoot(d)
    <3>1. d # ROOT
      BY <2>2 DEF IsRoot
    <3>2. \A p \in S : p[1] \in Chain(fat, d)
      BY <2>2, <3>1 DEF Named, Searched, PlacesOf
    <3>3. \A b \in Chain(fat, d) : Index(fat, d, b) \in Nat
      BY IndexOf, ClusterFacts
    <3> QED
      BY <2>2, <3>2, <3>3 DEF Rank
  <2> QED
    BY <2>1, <2>2
<1>3. \A p, q \in S : r(p) = r(q) => p[1] = q[1]
  <2>1. CASE IsRoot(d)
    BY <2>1 DEF Named, Searched, PlacesOf
  <2>2. CASE ~IsRoot(d)
    <3>1. d # ROOT
      BY <2>2 DEF IsRoot
    <3>2. \A p \in S : p[1] \in Chain(fat, d)
      BY <2>2, <3>1 DEF Named, Searched, PlacesOf
    <3>3. PICK w : w = Walk(fat, d)
      OBVIOUS
    <3>4. \A b \in Chain(fat, d) : w[Index(fat, d, b)] = b
      BY <3>3, IndexOf
    <3>5. \A p \in S : r(p) = Index(fat, d, p[1])
      BY <2>2 DEF Rank
    <3> HIDE DEF S, r
    <3> QED
      BY <3>2, <3>4, <3>5
  <2> QED
    BY <2>1, <2>2
<1>4. PICK p \in S : \A q \in S : r(p) <= r(q)
  <2> DEFINE I == {r(q) : q \in S}
  <2>1. I \in SUBSET Nat /\ I # {}
    BY <1>2
  <2> HIDE DEF I
  <2>2. PICK a \in I : \A b \in I : a <= b
    BY <2>1, LeastOf
  <2> QED
    BY <2>2 DEF I
<1>5. PICK p1 \in S : r(p1) = r(p) /\ \A q \in S : r(q) = r(p) => p1[2] <= q[2]
  <2> DEFINE I == {q[2] : q \in {y \in S : r(y) = r(p)}}
  <2>1. I \in SUBSET Nat /\ I # {}
    BY <1>1, <1>4
  <2> HIDE DEF I
  <2>2. PICK a \in I : \A b \in I : a <= b
    BY <2>1, LeastOf
  <2> QED
    BY <2>2 DEF I
<1>6. \A q \in S \ {p1} : Before(d, p1, q)
  <2>1. \A x, y : Before(d, x, y) <=> r(x) < r(y) \/ (r(x) = r(y) /\ x[2] < y[2])
    BY DEF Before, Rank
  <2>2. ASSUME NEW q \in S, q # p1
        PROVE  r(p1) < r(q) \/ (r(p1) = r(q) /\ p1[2] < q[2])
    <3>1. r(p) <= r(q) /\ r(p1) = r(p) /\ r(p1) \in Nat /\ r(q) \in Nat
      BY <1>2, <1>4, <1>5
    <3>2. p1 = <<p1[1], p1[2]>> /\ q = <<q[1], q[2]>> /\ p1[2] \in Nat /\ q[2] \in Nat
      BY <1>1
    <3> HIDE DEF S, r
    <3>3. CASE r(q) = r(p)
      <4>1. p1[1] = q[1] /\ p1[2] <= q[2]
        BY <1>3, <1>5, <3>1, <3>3
      <4>2. p1[2] # q[2]
        BY <2>2, <3>2, <4>1
      <4> QED
        BY <3>1, <3>2, <3>3, <4>1, <4>2
    <3> QED
      BY <3>1, <3>3
  <2> HIDE DEF S, r
  <2> QED
    BY <2>1, <2>2
<1> HIDE DEF S
<1>7. \E x \in S : \A q \in S \ {x} : Before(d, x, q)
  BY <1>6
<1>8. Found(d, nm) = CHOOSE x \in S : \A q \in S \ {x} : Before(d, x, q)
  BY DEF Found, S
<1>9. Found(d, nm) \in S
  BY <1>7, <1>8
<1> QED
  BY <1>9 DEF S

-------------------------------------------------------------------------------
(* The inductive invariant, and what requests do to the nodes.             *)

Volumes ==
  /\ fat \in Fats /\ entry \in [Places -> Entries] /\ start \in Clusters \union {0}
  /\ Sound(fat, entry) /\ NodesGood(fat, entry, node) /\ EntrySizes(fat, entry)

IInv == Volumes /\ NothingLeaks /\ lost \in BOOLEAN /\ crashed \in BOOLEAN

LEMMA NamedReached ==
  ASSUME Volumes, NEW d \in Dirs, NEW nm, NEW p \in Named(d, nm)
  PROVE  /\ p \in Reached(fat, entry) /\ HeldIn(fat, entry, node, p)
         /\ entry[p].first \in Clusters /\ entry[p].kind \in Live
<1> DEFINE R == Reached(fat, entry)
<1>1. Closed(fat, entry, R)
  BY ReachedCloses
<1>2. p \in Searched(d) /\ entry[p].kind \in Live
  BY DEF Named
<1>3. CASE IsRoot(d)
  <2>1. p \in Below(fat, entry, ROOT)
    BY <1>2, <1>3 DEF Searched, Below
  <2>2. p \in R
    <3> HIDE DEF R
    <3> QED
      BY <1>1, <2>1 DEF Closed
  <2>3. HeldIn(fat, entry, node, p)
    BY <2>1 DEF HeldIn
  <2> QED
    BY <1>2, <2>2, <2>3, SoundIs DEF Volumes
<1>4. CASE ~IsRoot(d)
  <2>1. d \in DOMAIN node /\ node[d].dirent.kind = "dir"
    BY <1>4 DEF IsRoot, Dirs
  <2>2. p \in Below(fat, entry, d)
    BY <1>2, <1>4 DEF Searched, Below
  <2>3. node[d].place \in R /\ entry[node[d].place].first = d /\ entry[node[d].place].kind = "dir"
    BY <2>1 DEF Volumes, NodesGood, Tied
  <2>4. HeldIn(fat, entry, node, p)
    BY <2>1, <2>2, <2>3 DEF HeldIn
  <2>5. p \in R
    <3> HIDE DEF R
    <3> QED
      BY <1>1, <2>2, <2>3 DEF Closed
  <2> QED
    BY <1>2, <2>4, <2>5, SoundIs DEF Volumes
<1> QED
  BY <1>3, <1>4

\* A directory that is not the root is that of an entry in reach, as its node says.
LEMMA DirIs ==
  ASSUME Volumes, NEW d \in Dirs, d # ROOT
  PROVE  /\ d \in DOMAIN node /\ d \in Clusters
         /\ node[d].place \in Reached(fat, entry) /\ node[d].place \in Places
         /\ entry[node[d].place].first = d /\ entry[node[d].place].kind = "dir"
         /\ node[d].dirent = entry[node[d].place]
<1>1. d \in DOMAIN node /\ node[d].dirent.kind = "dir"
  BY DEF Dirs
<1>2. Tied(fat, entry, node[d], d) /\ d \in Clusters
  BY <1>1 DEF Volumes, NodesGood
<1> QED
  BY <1>1, <1>2, ReachedCloses DEF Tied

\* A node with another number of references.
LEMMA TiedRef ==
  ASSUME NEW f, NEW e, NEW n, NEW x, Tied(f, e, x, n), NEW y \in NodeRecords,
         y.place = x.place, y.dirent = x.dirent, y.hint = x.hint, y.extended = x.extended
  PROVE  Tied(f, e, y, n)
BY DEF Tied

\* FindNode keeps the nodes good.
LEMMA TakenGood ==
  ASSUME Volumes, NEW n \in {ROOT} \union DOMAIN node, Serves(n)
  PROVE  /\ NodesGood(fat, entry, Taken(n)) /\ DOMAIN Taken(n) = DOMAIN node
         /\ \A m \in DOMAIN node : Taken(n)[m].place = node[m].place
<1>1. CASE n = ROOT
  BY <1>1 DEF Taken, Volumes
<1>2. CASE n # ROOT
  <2> DEFINE N == Taken(n)
             x == node[n]
             y == [node[n] EXCEPT !.ref = @ + 1]
  <2>1. n \in DOMAIN node /\ NodesGood(fat, entry, node)
    BY <1>2 DEF Volumes
  <2>2. Tied(fat, entry, x, n) /\ x \in NodeRecords /\ x.ref < MaxRefs
    BY <1>2, <2>1 DEF NodesGood, Tied, Serves
  <2>3. y \in NodeRecords /\ y.place = x.place /\ y.dirent = x.dirent /\ y.hint = x.hint
        /\ y.extended = x.extended
    <3>1. x.ref + 1 \in 1..MaxRefs
      BY <2>2, FatAssumption DEF NodeRecords
    <3> QED
      BY <2>2, <3>1 DEF NodeRecords
  <2>4. Tied(fat, entry, y, n)
    BY <2>2, <2>3, TiedRef
  <2>5. DOMAIN N = DOMAIN node /\ N[n] = y /\ \A m \in DOMAIN node : m # n => N[m] = node[m]
    BY <1>2, <2>1 DEF Taken
  <2> HIDE DEF N, x, y
  <2>6. \A m \in DOMAIN N : Tied(fat, entry, N[m], m) /\ N[m].place = node[m].place
    <3>1. x = node[n]
      BY DEF x
    <3> QED
      BY <2>1, <2>3, <2>4, <2>5, <3>1 DEF NodesGood
  <2>7. NodesGood(fat, entry, N)
    <3>1. DOMAIN N \subseteq Clusters
      BY <2>1, <2>5 DEF NodesGood
    <3> QED
      BY <2>1, <2>5, <2>6, <3>1, NodesMore
  <2> QED
    BY <2>5, <2>6, <2>7 DEF N
<1> QED
  BY <1>1, <1>2

\* The node that lookup makes or renews.
LEMMA TiedFresh ==
  ASSUME Volumes, NEW p \in Reached(fat, entry), NEW r \in 1..MaxRefs, NEW b \in BOOLEAN
  PROVE  Tied(fat, entry, [ref |-> r, place |-> p, is_root |-> b, dirent |-> entry[p], hint |-> 0,
                           extended |-> FALSE], entry[p].first)
<1> DEFINE x == [ref |-> r, place |-> p, is_root |-> b, dirent |-> entry[p], hint |-> 0,
                 extended |-> FALSE]
<1>1. p \in Places /\ entry[p] \in Entries
  BY ReachedCloses DEF Volumes
<1>2. x \in NodeRecords
  BY <1>1 DEF NodeRecords
<1>3. x.place = p /\ x.dirent = entry[p] /\ x.hint = 0
  OBVIOUS
<1>4. entry[p].kind = "file" => entry[p].size <= ClusterSize * Cardinality(Chain(fat, entry[p].first))
  BY DEF Volumes, EntrySizes
<1> HIDE DEF x
<1>5. Tied(fat, entry, x, entry[p].first)
  BY <1>2, <1>3, <1>4 DEF Tied
<1> QED
  BY <1>5 DEF x

\* An old node of the entry has its place.
LEMMA SamePlace ==
  ASSUME Volumes, NEW N, NodesGood(fat, entry, N), NEW p \in Reached(fat, entry),
         entry[p].first \in DOMAIN N
  PROVE  N[entry[p].first].place = p
<1> DEFINE c == entry[p].first
<1>1. c \in Clusters /\ N[c].place \in Reached(fat, entry) /\ entry[N[c].place].first = c
  BY DEF NodesGood, Tied
<1>2. c \in Chain(fat, c)
  BY <1>1, ChainCloses
<1> QED
  BY <1>1, <1>2, OneOwner DEF Volumes

LEMMA ObtainedGood ==
  ASSUME Volumes, NEW N, NodesGood(fat, entry, N), NEW p \in Reached(fat, entry),
         HeldIn(fat, entry, N, p), NEW garbage \in BOOLEAN,
         entry[p].first \in DOMAIN N => N[entry[p].first].ref < MaxRefs
  PROVE  NodesGood(fat, entry, Obtained(N, p, garbage))
<1> DEFINE c == entry[p].first
           N2 == Obtained(N, p, garbage)
           old == c \in DOMAIN N
           x == [ref |-> IF old THEN N[c].ref + 1 ELSE 1,
                 place |-> IF old THEN N[c].place ELSE p,
                 is_root |-> IF old THEN N[c].is_root ELSE garbage,
                 dirent |-> entry[p], hint |-> 0, extended |-> FALSE]
<1>1. DOMAIN N2 = DOMAIN N \union {c} /\ N2[c] = x /\ \A n \in DOMAIN N : n # c => N2[n] = N[n]
  BY DEF Obtained
<1>2. c \in Clusters
  BY SoundIs DEF Volumes
<1>3. Tied(fat, entry, x, c) /\ x.place = p
  <2>1. CASE old
    <3>1. N[c].place = p
      BY <2>1, SamePlace
    <3>2. N[c] \in NodeRecords /\ N[c].ref < MaxRefs
      BY <2>1 DEF NodesGood, Tied
    <3>3. N[c].ref + 1 \in 1..MaxRefs /\ N[c].is_root \in BOOLEAN
      BY <3>2, FatAssumption DEF NodeRecords
    <3>4. x = [ref |-> N[c].ref + 1, place |-> p, is_root |-> N[c].is_root,
               dirent |-> entry[p], hint |-> 0, extended |-> FALSE]
      BY <2>1, <3>1
    <3> QED
      BY <3>3, <3>4, TiedFresh
  <2>2. CASE ~old
    <3>1. x = [ref |-> 1, place |-> p, is_root |-> garbage, dirent |-> entry[p], hint |-> 0,
               extended |-> FALSE]
      BY <2>2
    <3>2. 1 \in 1..MaxRefs
      BY FatAssumption
    <3> QED
      BY <3>1, <3>2, TiedFresh
  <2> QED
    BY <2>1, <2>2
<1> HIDE DEF N2, x, c
<1>4. \A n \in DOMAIN N2 : Tied(fat, entry, N2[n], n)
  BY <1>1, <1>3 DEF NodesGood
<1>5. \A n \in DOMAIN N : N2[n].place = N[n].place
  BY <1>1, <1>3, SamePlace DEF c
<1>6. DOMAIN N \subseteq DOMAIN N2 /\ DOMAIN N2 \subseteq Clusters
  BY <1>1, <1>2 DEF NodesGood
<1>7. \A n \in DOMAIN N2 : n \notin DOMAIN N => HeldIn(fat, entry, N, N2[n].place)
  BY <1>1, <1>3
<1>8. NodesGood(fat, entry, N2)
  BY <1>4, <1>5, <1>6, <1>7, NodesMore
<1> QED
  BY <1>8 DEF N2

LEMMA WithRef ==
  ASSUME NEW q, NEW p, NEW b, NEW d, NEW h, NEW v, NEW r, NEW y,
         y = [ref |-> q, place |-> p, is_root |-> b, dirent |-> d, hint |-> h, extended |-> v]
  PROVE  [y EXCEPT !.ref = r]
           = [ref |-> r, place |-> p, is_root |-> b, dirent |-> d, hint |-> h, extended |-> v]
  OBVIOUS

\* A lookup whose reference is given back keeps the nodes, as renewed.
LEMMA RenewedGood ==
  ASSUME Volumes, NEW N, NodesGood(fat, entry, N), NEW p \in Reached(fat, entry)
  PROVE  NodesGood(fat, entry, Released(Obtained(N, p, FALSE), entry[p].first))
<1> DEFINE c == entry[p].first
           O == Obtained(N, p, FALSE)
           N2 == Released(O, c)
<1>1. c \in DOMAIN O /\ DOMAIN O = DOMAIN N \union {c} /\ \A n \in DOMAIN N : n # c => O[n] = N[n]
  BY DEF Obtained
<1>2. CASE c \notin DOMAIN N
  <2>1. O[c].ref = 1
    BY <1>2 DEF Obtained
  <2>2. DOMAIN N2 = DOMAIN N /\ \A n \in DOMAIN N : N2[n] = N[n]
    <3>1. N2 = [n \in DOMAIN O \ {c} |-> O[n]]
      BY <2>1 DEF Released
    <3> HIDE DEF O, N2, c
    <3> QED
      BY <1>1, <1>2, <3>1
  <2> HIDE DEF N2
  <2>3. \A n \in DOMAIN N2 : Tied(fat, entry, N2[n], n)
    BY <2>2 DEF NodesGood
  <2>4. NodesGood(fat, entry, N2)
    <3>1. DOMAIN N2 \subseteq Clusters /\ DOMAIN N \subseteq DOMAIN N2
      BY <2>2 DEF NodesGood
    <3> QED
      BY <2>2, <2>3, <3>1, NodesMore
  <2> QED
    BY <2>4 DEF N2
<1>3. CASE c \in DOMAIN N
  <2> DEFINE x == [ref |-> N[c].ref, place |-> p, is_root |-> N[c].is_root,
                   dirent |-> entry[p], hint |-> 0, extended |-> FALSE]
  <2>1. N[c].place = p /\ N[c] \in NodeRecords
    BY <1>3, SamePlace DEF NodesGood, Tied
  <2>2. N[c].ref \in 1..MaxRefs /\ N[c].is_root \in BOOLEAN
    BY <2>1 DEF NodeRecords
  <2>3. Tied(fat, entry, x, c)
    BY <2>2, TiedFresh
  <2>4. O[c] = [ref |-> N[c].ref + 1, place |-> p, is_root |-> N[c].is_root,
                dirent |-> entry[p], hint |-> 0, extended |-> FALSE]
    BY <1>3, <2>1 DEF Obtained
  <2>5. N2[c] = x /\ DOMAIN N2 = DOMAIN O /\ \A n \in DOMAIN N : n # c => N2[n] = N[n]
    <3> HIDE DEF O, N2, c
    <3>0. PICK r, b : r \in Nat \ {0} /\ N[c].ref = r /\ N[c].is_root = b
      BY <2>2, FatAssumption
    <3>4. O[c] = [ref |-> r + 1, place |-> p, is_root |-> b, dirent |-> entry[p], hint |-> 0,
                  extended |-> FALSE]
      BY <2>4, <3>0
    <3>1. O[c].ref # 1 /\ O[c].ref - 1 = N[c].ref
      BY <3>0, <3>4
    <3>2. N2 = [O EXCEPT ![c].ref = @ - 1]
      BY <3>1 DEF Released, N2
    <3>3. [O[c] EXCEPT !.ref = @ - 1] = x
      <4>1. [O[c] EXCEPT !.ref = @ - 1] = [O[c] EXCEPT !.ref = r]
        BY <3>0, <3>1
      <4>2. [O[c] EXCEPT !.ref = r] = [ref |-> r, place |-> p, is_root |-> b,
                                       dirent |-> entry[p], hint |-> 0, extended |-> FALSE]
        <5> DEFINE v == FALSE
        <5>1. O[c] = [ref |-> r + 1, place |-> p, is_root |-> b, dirent |-> entry[p],
                      hint |-> 0, extended |-> v]
          BY <3>4
        <5> HIDE DEF v
        <5>2. [O[c] EXCEPT !.ref = r] = [ref |-> r, place |-> p, is_root |-> b,
                                         dirent |-> entry[p], hint |-> 0, extended |-> v]
          BY <5>1, WithRef
        <5> QED
          BY <5>2 DEF v
      <4>3. x = [ref |-> r, place |-> p, is_root |-> b, dirent |-> entry[p], hint |-> 0,
                 extended |-> FALSE]
        BY <3>0
      <4> QED
        BY <4>1, <4>2, <4>3
    <3> HIDE DEF x
    <3> QED
      BY <1>1, <3>2, <3>3
  <2>6. x.place = p
    OBVIOUS
  <2> HIDE DEF x, N2, c
  <2>7. DOMAIN N2 = DOMAIN N /\ DOMAIN N \subseteq Clusters
    BY <1>1, <1>3, <2>5 DEF NodesGood
  <2>8. \A n \in DOMAIN N2 : Tied(fat, entry, N2[n], n) /\ N2[n].place = N[n].place
    BY <2>1, <2>3, <2>5, <2>6, <2>7 DEF NodesGood
  <2>9. NodesGood(fat, entry, N2)
    BY <2>7, <2>8, NodesMore
  <2> QED
    BY <2>9 DEF N2, c
<1> QED
  BY <1>2, <1>3

-------------------------------------------------------------------------------
(* Requests that take clusters.                                            *)

\* The clusters appended are the first j that are free.
LEMMA AppendGrows ==
  ASSUME Volumes, NEW n \in DOMAIN node, NEW j \in Nat, j <= Cardinality(Free),
         NEW s, s = [k \in 1..j |-> Nth(k)],
         NEW p0, p0 = node[n].place, NEW e2 \in [Places -> Entries],
         \A p \in Places : p[1] \notin New(j) => e2[p] = entry[p],
         entry[p0].kind = "dir" => \A p \in Places : p[1] \in New(j) => e2[p] = Vacant
  PROVE  /\ p0 \in Reached(fat, entry) /\ entry[p0].first = n /\ n \in Clusters
         /\ Grown(AppendCluster(n, j), e2, fat, entry, p0, s, j)
         /\ {s[k] : k \in 1..j} = New(j)
<1>1. p0 \in Reached(fat, entry) /\ entry[p0].first = n /\ n \in Clusters
  BY DEF Volumes, NodesGood, Tied
<1>2. {s[k] : k \in 1..j} = New(j)
  BY DEF New
<1>3. start \in Nat /\ fat \in Fats /\ Ends(fat, n)
  BY <1>1, SoundIs, ClusterFacts DEF Volumes
<1>4. Extends(AppendCluster(n, j), fat, FindLastCluster(fat, n), s, j)
  BY <1>1, <1>3, AppendExtends
<1>5. \A p : p[1] \in New(j) <=> \E k \in 1..j : p[1] = s[k]
  BY <1>2
<1>6. Grown(AppendCluster(n, j), e2, fat, entry, p0, s, j)
  BY <1>1, <1>4, <1>5 DEF Grown
<1> QED
  BY <1>1, <1>2, <1>6

\* The first clusters that are free.
LEMMA NthIn ==
  ASSUME start \in Nat, NEW k \in 1..Cardinality(Free)
  PROVE  Nth(k) \in Clusters
BY NthFree DEF Free

LEMMA HintGood ==
  ASSUME Volumes, NEW n \in DOMAIN node, NEW want \in Nat, NEW got \in Nat,
         got <= want, got <= Cardinality(Free), NEW g,
         Chain(g, n) = Chain(fat, n) \union New(got)
  PROVE  HintAfter(n, want, got) \in Chain(g, n) \union {0}
<1> DEFINE seen == IF want > got THEN got ELSE got - 1
<1>1. Tied(fat, entry, node[n], n) /\ n \in Clusters
  BY DEF Volumes, NodesGood
<1>2. node[n].hint \in Chain(g, n) \union {0}
  BY <1>1 DEF Tied
<1>3. FindLastCluster(fat, n) \in Chain(g, n)
  <2>1. fat \in Fats /\ Ends(fat, n)
    BY <1>1, SoundIs DEF Volumes, Tied
  <2> QED
    BY <1>1, <2>1, LastOfChain
<1>4. seen > 0 => Nth(seen) \in Chain(g, n)
  <2>1. seen > 0 => seen \in 1..got
    OBVIOUS
  <2> HIDE DEF seen
  <2> QED
    BY <2>1 DEF New
<1> QED
  BY <1>2, <1>3, <1>4 DEF HintAfter

\* As many clusters as writeFile asks for hold the write.
LEMMA EnoughClusters ==
  ASSUME NEW e \in Nat \ {0}, NEW h \in Nat, (e - 1) \div ClusterSize + 1 <= h
  PROVE  e <= ClusterSize * h
<1> DEFINE q == (e - 1) \div ClusterSize
<1>1. ClusterSize \in Nat \ {0} /\ e - 1 \in Nat
  BY FatAssumption
<1>2. q \in Nat /\ (e - 1) % ClusterSize \in 0..(ClusterSize - 1)
  BY <1>1
<1>3. e - 1 = ClusterSize * q + ((e - 1) % ClusterSize)
  BY <1>1
<1>4. h = q + 1 + (h - (q + 1)) /\ h - (q + 1) \in Nat
  BY <1>2
<1> HIDE DEF q
<1>5. ClusterSize * h = ClusterSize * q + ClusterSize + ClusterSize * (h - (q + 1))
  BY <1>1, <1>2, <1>4
<1>6. ClusterSize * (h - (q + 1)) \in Nat /\ ClusterSize * q \in Nat
  BY <1>1, <1>2, <1>4
<1> QED
  BY <1>1, <1>2, <1>3, <1>5, <1>6

LEMMA WantedGot ==
  ASSUME Volumes, NEW n \in DOMAIN node, NEW o \in Nat, NEW k \in Nat,
         NEW want, want = Wanted(n, o, k), NEW got, got = Least(want, Cardinality(Free))
  PROVE  /\ want \in Nat /\ got \in Nat /\ got <= want /\ got <= Cardinality(Free)
         /\ want = got /\ k # 0 => o + k <= ClusterSize * (Cardinality(Chain(fat, n)) + got)
<1> DEFINE needed == (o + k - 1) \div ClusterSize + 1
           has == Cardinality(Chain(fat, n))
<1>1. n \in Clusters
  BY DEF Volumes, NodesGood
<1>2. has \in Nat /\ ClusterSize \in Nat \ {0} /\ Cardinality(Clusters) \in Nat
  BY <1>1, ChainFinite, ClusterFacts, FatAssumption
<1>3. k # 0 => needed \in Nat
  BY <1>2
<1>4. Cardinality(Free) \in Nat /\ Cardinality(Free) <= Cardinality(Clusters)
  <2>1. Free \subseteq Clusters
    BY DEF Free
  <2> QED
    BY <2>1, ClusterFacts, FS_Subset, FS_CardinalityType
<1>5. want = IF k = 0 THEN 0
             ELSE IF node[n].is_root THEN Cardinality(Clusters) + 1
             ELSE IF needed <= has THEN 0 ELSE needed - has
  BY DEF Wanted
<1> HIDE DEF needed, has
<1>6. want \in Nat
  BY <1>2, <1>3, <1>5
<1>7. got \in Nat /\ got <= want /\ got <= Cardinality(Free)
  BY <1>4, <1>6 DEF Least
<1>8. ASSUME want = got, k # 0
      PROVE  o + k <= ClusterSize * (has + got)
  <2>1. ~node[n].is_root
    BY <1>2, <1>4, <1>5, <1>7, <1>8
  <2>2. needed <= has + got
    BY <1>2, <1>3, <1>5, <1>8, <2>1
  <2>3. o + k \in Nat \ {0}
    <3>1. k # 0
      BY <1>8
    <3> QED
      BY <3>1
  <2>4. has + got \in Nat
    BY <1>2, <1>7
  <2> QED
    BY <2>2, <2>3, <2>4, EnoughClusters DEF needed
<1> QED
  BY <1>6, <1>7, <1>8 DEF has

\* start_search_cluster follows the cluster that was taken last.
LEMMA StartGood ==
  ASSUME Volumes, NEW j \in Nat, j <= Cardinality(Free)
  PROVE  (IF j = 0 THEN start ELSE Nth(j)) \in Clusters \union {0}
<1>1. start \in Nat
  BY ClusterFacts DEF Volumes
<1> QED
  BY <1>1, NthIn DEF Volumes

\* The node with another size, hint and history.
WithSize(x, size, hint, none) ==
  [[[x EXCEPT !.dirent.size = size] EXCEPT !.hint = hint] EXCEPT !.extended = none]

\* It is a node, and nothing else of it changes.
LEMMA WrittenNode ==
  ASSUME NEW x \in NodeRecords, NEW size \in 0..MaxSize, NEW hint \in Clusters \union {0},
         NEW none \in BOOLEAN, NEW y, y = WithSize(x, size, hint, none)
  PROVE  /\ y \in NodeRecords /\ y.place = x.place /\ y.hint = hint
         /\ y.dirent.kind = x.dirent.kind /\ y.dirent.size = size /\ y.extended = none
<1> DEFINE z == [x.dirent EXCEPT !.size = size]
           w == [[[x EXCEPT !.dirent = z] EXCEPT !.hint = hint] EXCEPT !.extended = none]
<1>1. z \in Entries /\ z.kind = x.dirent.kind /\ z.size = size
  BY DEF Entries, NodeRecords
<1>2. w = y
  BY DEF NodeRecords, WithSize
<1> HIDE DEF z
<1>3. /\ w \in NodeRecords /\ w.place = x.place /\ w.hint = hint /\ w.dirent = z
      /\ w.extended = none
  BY <1>1 DEF NodeRecords
<1> HIDE DEF w
<1> QED
  BY <1>1, <1>2, <1>3

\* A write that does not run into the next sector, with the clusters it gets.
LEMMA WriteGood ==
  ASSUME Volumes, NEW n \in Files, NEW o \in 0..MaxSize, NEW k \in 0..MaxSize, o + k <= MaxSize,
         Write(n, o, k), ~Overruns(n, o)
  PROVE  /\ fat' \in Fats /\ Sound(fat', entry) /\ EntrySizes(fat', entry)
         /\ NodesGood(fat', entry, node')
         /\ Marked(fat) = Owned(fat, entry) => Marked(fat') = Owned(fat', entry)
         /\ start' \in Clusters \union {0} /\ crashed' = crashed
<1> DEFINE want == Wanted(n, o, k)
           got  == Least(want, Cardinality(Free))
           g    == AppendCluster(n, got)
           size == SizeAfter(n, o + k, want = got)
           none == IF size > node[n].dirent.size THEN k = 0 ELSE node[n].extended
           hint == HintAfter(n, want, got)
           p0   == node[n].place
           s    == [i \in 1..got |-> Nth(i)]
           N    == Taken(n)
           x    == N[n]
           N2   == [N EXCEPT ![n].dirent.size = size, ![n].hint = hint, ![n].extended = none]
           y    == [[[x EXCEPT !.dirent.size = size] EXCEPT !.hint = hint] EXCEPT !.extended = none]
<1>1. n \in DOMAIN node /\ node[n].dirent.kind = "file" /\ Serves(n)
  BY DEF Files, Write
<1>2. /\ fat' = g /\ node' = N2 /\ crashed' = crashed
      /\ start' = IF got = 0 THEN start ELSE Nth(got)
  BY DEF Write
<1>3. /\ want \in Nat /\ got \in Nat /\ got <= want /\ got <= Cardinality(Free)
      /\ want = got /\ k # 0 => o + k <= ClusterSize * (Cardinality(Chain(fat, n)) + got)
  BY <1>1, WantedGot
<1>4. \/ size = node[n].dirent.size
      \/ size = o + k /\ want = got /\ size > node[n].dirent.size
  BY DEF SizeAfter
<1>5. node[n].extended \in BOOLEAN
  BY <1>1 DEF Volumes, NodesGood, Tied, NodeRecords
<1> HIDE DEF want, got, size
<1>6. none \in BOOLEAN /\ (none \/ IF size > node[n].dirent.size THEN k # 0 ELSE ~node[n].extended)
  BY <1>5
<1> HIDE DEF none
<1>7. entry[p0].kind = "file" /\ entry[p0].first = n /\ p0 \in Reached(fat, entry) /\ n \in Clusters
  BY <1>1 DEF Volumes, NodesGood, Tied
<1>8. fat \in Fats /\ entry \in [Places -> Entries] /\ Sound(fat, entry) /\ NodesGood(fat, entry, node)
      /\ EntrySizes(fat, entry)
  BY DEF Volumes
<1>9. /\ Grown(g, entry, fat, entry, p0, s, got)
      /\ {s[i] : i \in 1..got} = New(got)
  BY <1>1, <1>3, <1>7, <1>8, AppendGrows
<1>10. NodesGood(fat, entry, N) /\ DOMAIN N = DOMAIN node
  BY <1>1, TakenGood
<1>11. N2[n] = y /\ DOMAIN N2 = DOMAIN N /\ \A m \in DOMAIN N : m # n => N2[m] = N[m]
  <2> HIDE DEF N, hint
  <2> QED
    BY <1>1, <1>10
<1> HIDE DEF N, N2, p0, s, g, hint
<1>12. /\ NodesGood(g, entry, N) /\ EntrySizes(g, entry) /\ Sound(g, entry)
       /\ Marked(fat) = Owned(fat, entry) => Marked(g) = Owned(g, entry)
       /\ Cardinality(Chain(g, n)) = Cardinality(Chain(fat, n)) + got
       /\ Chain(g, n) = Chain(fat, n) \union New(got)
  <2>1. NodesGood(g, entry, N)
    BY <1>3, <1>7, <1>8, <1>9, <1>10, NodesGrown
  <2>2. EntrySizes(g, entry)
    BY <1>3, <1>7, <1>8, <1>9, EntrySizesGrown
  <2>3. Sound(g, entry) /\ (Marked(fat) = Owned(fat, entry) => Marked(g) = Owned(g, entry))
    BY <1>3, <1>7, <1>8, <1>9, GrownSound
  <2>4. /\ Cardinality(Chain(g, n)) = Cardinality(Chain(fat, n)) + got
        /\ Chain(g, n) = Chain(fat, n) \union New(got)
    BY <1>3, <1>7, <1>8, <1>9, GrownChains, GrownSound
  <2> QED
    BY <2>1, <2>2, <2>3, <2>4
<1>13. g \in Fats
  BY <1>9 DEF Grown, Extends
<1>14. hint \in Chain(g, n) \union {0} /\ hint \in Clusters \union {0}
  <2>1. hint \in Chain(g, n) \union {0}
    BY <1>1, <1>3, <1>12, HintGood DEF hint
  <2> QED
    BY <1>7, <2>1, ChainCloses
<1>15. Tied(g, entry, x, n) /\ x.dirent.kind = "file" /\ x.dirent.size = node[n].dirent.size
       /\ x.extended = node[n].extended
  <2>1. x = [node[n] EXCEPT !.ref = @ + 1]
    <3>1. n # ROOT
      BY <1>7, ClusterFacts
    <3> QED
      BY <1>1, <3>1 DEF N, Taken
  <2>2. node[n] \in NodeRecords
    BY <1>1, <1>8 DEF NodesGood, Tied
  <2>3. x.dirent = node[n].dirent /\ x.extended = node[n].extended
    BY <2>1, <2>2 DEF NodeRecords
  <2> QED
    BY <1>1, <1>10, <1>12, <2>3 DEF NodesGood
<1> HIDE DEF x
<1>16. Tied(g, entry, y, n) /\ y.place = x.place
  <2>1. x \in NodeRecords /\ x.dirent.size \in 0..MaxSize
    BY <1>15 DEF Tied, NodeRecords, Entries
  <2>2. size \in 0..MaxSize
    BY <1>4, <1>15, <2>1, FatAssumption
  <2>3. /\ y \in NodeRecords /\ y.place = x.place /\ y.hint = hint
        /\ y.dirent.kind = "file" /\ y.dirent.size = size /\ y.extended = none
    <3>1. none \in BOOLEAN /\ hint \in Clusters \union {0} /\ x.dirent.kind = "file"
      BY <1>6, <1>14, <1>15
    <3>2. y = WithSize(x, size, hint, none)
      BY DEF WithSize
    <3> HIDE DEF y
    <3>3. /\ y \in NodeRecords /\ y.place = x.place /\ y.hint = hint
          /\ y.dirent.kind = x.dirent.kind /\ y.dirent.size = size /\ y.extended = none
      <4> HIDE DEF size, none, hint, x
      <4>1. none \in BOOLEAN
        BY <3>1
      <4>2. hint \in Clusters \union {0}
        BY <3>1
      <4> QED
        BY <2>1, <2>2, <3>2, <4>1, <4>2, WrittenNode
    <3> QED
      BY <3>1, <3>3, Zenon
  <2> HIDE DEF y
  <2>4. ~none => size <= ClusterSize * Cardinality(Chain(g, n))
    <3> SUFFICES ASSUME ~none
                 PROVE  size <= ClusterSize * Cardinality(Chain(g, n))
      OBVIOUS
    <3>1. CASE size > node[n].dirent.size
      BY <1>3, <1>4, <1>6, <1>12, <1>15, <2>1, <3>1
    <3>2. CASE ~(size > node[n].dirent.size)
      <4>1. size = x.dirent.size /\ ~x.extended
        BY <1>4, <1>6, <1>15, <3>2
      <4> QED
        BY <1>15, <4>1 DEF Tied
    <3> QED
      BY <3>1, <3>2
  <2>5. x.place \in Reached(g, entry) /\ entry[x.place].first = n /\ entry[x.place].kind = "file"
    BY <1>15 DEF Tied
  <2> QED
    BY <1>14, <2>3, <2>4, <2>5 DEF Tied
<1> HIDE DEF y
<1>17. \A m \in DOMAIN N2 : Tied(g, entry, N2[m], m) /\ N2[m].place = N[m].place
  BY <1>11, <1>12, <1>16 DEF NodesGood, x
<1>18. NodesGood(g, entry, N2)
  <2>1. DOMAIN N2 = DOMAIN N /\ DOMAIN N \subseteq Clusters
    BY <1>11, <1>12 DEF NodesGood
  <2> QED
    BY <1>12, <1>17, <2>1, NodesMore
<1> QED
  BY <1>2, <1>3, <1>12, <1>13, <1>18, StartGood

\* The chain that grows, by its clusters.
LEMMA ChainGrown ==
  ASSUME NEW f \in Fats, NEW e \in [Places -> Entries], Sound(f, e), NEW p0 \in Reached(f, e),
         NEW j \in Nat, NEW s, NEW f2, NEW e2, Grown(f2, e2, f, e, p0, s, j)
  PROVE  \A b : b \in Chain(f2, e[p0].first) <=>
                  b \in Chain(f, e[p0].first) \/ \E k \in 1..j : b = s[k]
<1>1. /\ Reached(f2, e2) = Reached(f, e)
      /\ \A p \in Reached(f, e) : e2[p] = e[p] /\ Ends(f2, e[p].first)
      /\ \A p \in Reached(f, e) \ {p0} : Chain(f2, e[p].first) = Chain(f, e[p].first)
      /\ Chain(f2, e[p0].first) = Chain(f, e[p0].first) \union {s[k] : k \in 1..j}
  BY GrownChains
<1> QED
  BY <1>1

LEMMA VacantEntry == Vacant \in Entries
BY FatAssumption DEF Vacant, Entries, EOC

\* A node with another hint in its chain.
LEMMA TiedHint ==
  ASSUME NEW f, NEW e, NEW n \in Clusters, NEW x, Tied(f, e, x, n), NEW h \in Chain(f, n) \union {0}
  PROVE  Tied(f, e, [x EXCEPT !.hint = h], n) /\ [x EXCEPT !.hint = h].place = x.place
<1> DEFINE y == [x EXCEPT !.hint = h]
<1>1. x \in NodeRecords /\ h \in Clusters \union {0}
  BY ChainCloses DEF Tied
<1>2. y \in NodeRecords /\ y.dirent = x.dirent /\ y.place = x.place /\ y.hint = h
      /\ y.extended = x.extended
  BY <1>1 DEF NodeRecords
<1> HIDE DEF y
<1>3. Tied(f, e, y, n)
  BY <1>2 DEF Tied
<1> QED
  BY <1>2, <1>3 DEF y

LEMMA NoneAppended ==
  ASSUME fat \in Fats, NEW c
  PROVE  AppendCluster(c, 0) = fat
<1>1. New(0) = {}
  BY DEF New
<1> QED
  BY <1>1 DEF AppendCluster, Fats

\* What mkdir leaves of a full directory.
Enlarged(d, got, g, e2, N2) ==
  /\ got = IF Free # {} THEN 1 ELSE 0
  /\ g = AppendCluster(d, got)
  /\ e2 = [p \in Places |-> IF got = 1 /\ p[1] = Nth(1) THEN Vacant ELSE entry[p]]
  /\ N2 = [Taken(d) EXCEPT ![d].hint = HintAfter(d, 1, got)]

\* A full directory has got a cluster, if there was one.
LEMMA MkdirGood ==
  ASSUME Volumes, NEW d \in Dirs, d # ROOT, Serves(d),
         NEW got, NEW g, NEW e2, NEW N2, Enlarged(d, got, g, e2, N2)
  PROVE  /\ g \in Fats /\ e2 \in [Places -> Entries]
         /\ Sound(g, e2) /\ EntrySizes(g, e2) /\ NodesGood(g, e2, N2)
         /\ Marked(fat) = Owned(fat, entry) => Marked(g) = Owned(g, e2)
         /\ (IF got = 0 THEN start ELSE Nth(got)) \in Clusters \union {0}
<1> DEFINE p0 == node[d].place
           s == [i \in 1..got |-> Nth(i)]
           N == Taken(d)
           x == N[d]
           h == HintAfter(d, 1, got)
           y == [x EXCEPT !.hint = h]
<1>0. /\ got = IF Free # {} THEN 1 ELSE 0
      /\ g = AppendCluster(d, got)
      /\ e2 = [p \in Places |-> IF got = 1 /\ p[1] = Nth(1) THEN Vacant ELSE entry[p]]
      /\ N2 = [N EXCEPT ![d].hint = h]
  BY DEF Enlarged
<1>1. d \in DOMAIN node /\ p0 \in Reached(fat, entry) /\ entry[p0].first = d /\ d \in Clusters
  BY DirIs
<1>2. got \in Nat /\ got <= Cardinality(Free) /\ got <= 1
  <2>1. Cardinality(Free) \in Nat /\ (Cardinality(Free) = 0 => Free = {})
    <3>1. IsFiniteSet(Free)
      BY ClusterFacts, FS_Subset DEF Free
    <3> QED
      BY <3>1, FS_CardinalityType, FS_EmptySet
  <2> QED
    BY <1>0, <2>1
<1>3. fat \in Fats /\ entry \in [Places -> Entries] /\ Sound(fat, entry) /\ NodesGood(fat, entry, node)
      /\ EntrySizes(fat, entry)
  BY DEF Volumes
<1>4. e2 \in [Places -> Entries]
  BY <1>0, <1>3, VacantEntry
<1>5. /\ \A p \in Places : p[1] \notin New(got) => e2[p] = entry[p]
      /\ \A p \in Places : p[1] \in New(got) => e2[p] = Vacant
  <2>1. New(got) = IF got = 1 THEN {Nth(1)} ELSE {}
    BY <1>2 DEF New
  <2> QED
    BY <1>0, <2>1
<1>6. /\ Grown(g, e2, fat, entry, p0, s, got)
      /\ {s[i] : i \in 1..got} = New(got)
  BY <1>0, <1>1, <1>2, <1>4, <1>5, AppendGrows
<1>7. NodesGood(fat, entry, N) /\ DOMAIN N = DOMAIN node
  BY <1>1, TakenGood
<1> HIDE DEF N, p0, s
<1>8. /\ NodesGood(g, e2, N) /\ EntrySizes(g, e2) /\ Sound(g, e2)
      /\ Marked(fat) = Owned(fat, entry) => Marked(g) = Owned(g, e2)
      /\ Chain(g, d) = Chain(fat, d) \union New(got)
  <2>1. NodesGood(g, e2, N)
    BY <1>1, <1>2, <1>3, <1>4, <1>6, <1>7, NodesGrown
  <2>2. EntrySizes(g, e2)
    BY <1>1, <1>2, <1>3, <1>4, <1>6, EntrySizesGrown
  <2>3. Sound(g, e2) /\ (Marked(fat) = Owned(fat, entry) => Marked(g) = Owned(g, e2))
    BY <1>1, <1>2, <1>3, <1>4, <1>6, GrownSound
  <2>4. Chain(g, d) = Chain(fat, d) \union New(got)
    <3>1. \A b : b \in Chain(g, entry[p0].first) <=>
                   b \in Chain(fat, entry[p0].first) \/ \E i \in 1..got : b = s[i]
      <4>1. Grown(g, e2, fat, entry, p0, s, got) /\ got \in Nat /\ p0 \in Reached(fat, entry)
            /\ fat \in Fats /\ entry \in [Places -> Entries] /\ Sound(fat, entry)
        BY <1>1, <1>2, <1>3, <1>6
      <4> QED
        BY ONLY <4>1, ChainGrown, SMTT(60)
    <3>2. \A b : b \in New(got) <=> \E i \in 1..got : b = s[i]
      BY <1>6
    <3> QED
      BY <1>1, <3>1, <3>2
  <2> QED
    BY <2>1, <2>2, <2>3, <2>4
<1>9. g \in Fats
  BY <1>6 DEF Grown, Extends
<1>10. h \in Chain(g, d) \union {0}
  BY <1>1, <1>2, <1>8, HintGood
<1>11. Tied(g, e2, y, d) /\ y.place = x.place
  <2>1. Tied(g, e2, x, d)
    BY <1>1, <1>7, <1>8 DEF NodesGood
  <2> HIDE DEF h, x
  <2> QED
    BY <1>1, <1>10, <2>1, TiedHint
<1>12. N2[d] = y /\ DOMAIN N2 = DOMAIN N /\ \A m \in DOMAIN N : m # d => N2[m] = N[m]
  BY <1>0, <1>1, <1>7 DEF N
<1> HIDE DEF y
<1>13. \A m \in DOMAIN N2 : Tied(g, e2, N2[m], m) /\ N2[m].place = N[m].place
  BY <1>8, <1>11, <1>12 DEF NodesGood
<1>14. NodesGood(g, e2, N2)
  <2>1. DOMAIN N2 = DOMAIN N /\ DOMAIN N \subseteq Clusters
    BY <1>8, <1>12 DEF NodesGood
  <2> QED
    BY <1>8, <1>13, <2>1, NodesMore
<1> QED
  BY <1>2, <1>4, <1>8, <1>9, <1>14, StartGood

-------------------------------------------------------------------------------
(* Requests that cut an entry off.                                         *)

LEMMA FlushedSame ==
  ASSUME Volumes, NEW d \in Dirs
  PROVE  Flushed(d) = entry
<1>1. CASE d = ROOT
  BY <1>1 DEF Flushed
<1>2. CASE d # ROOT
  <2>1. node[d].place \in Places /\ node[d].dirent = entry[node[d].place]
    BY <1>2, DirIs
  <2> QED
    BY <1>2, <2>1 DEF Flushed, Volumes
<1> QED
  BY <1>1, <1>2

\* What unlink and rmdir leave of the FAT and the entries.
Cleared(d, p, g, e2) ==
  g = FreeClusters(entry[p].first) /\ e2 = [Flushed(d) EXCEPT ![p] = Vacant]

\* An entry without a node is cut off by a request to its directory d.
LEMMA RemovedGood ==
  ASSUME Volumes, NEW d \in Dirs, Serves(d), NEW p \in Reached(fat, entry),
         entry[p].first \notin DOMAIN node,
         NEW g, NEW e2, Cleared(d, p, g, e2)
  PROVE  /\ g \in Fats /\ e2 \in [Places -> Entries]
         /\ Sound(g, e2) /\ EntrySizes(g, e2) /\ NodesGood(g, e2, Taken(d))
         /\ (entry[p].kind = "dir" => Below(fat, entry, entry[p].first) = {}) =>
              (Marked(fat) = Owned(fat, entry) => Marked(g) = Owned(g, e2))
<1>1. fat \in Fats /\ entry \in [Places -> Entries] /\ Sound(fat, entry) /\ EntrySizes(fat, entry)
  BY DEF Volumes
<1>2. p \in Places
  BY ReachedCloses
<1>3. e2 = [entry EXCEPT ![p] = Vacant] /\ e2 \in [Places -> Entries]
  BY <1>1, FlushedSame, VacantEntry DEF Cleared
<1>4. Cut(g, e2, fat, entry, p)
  <2> DEFINE C == Chain(fat, entry[p].first)
  <2>1. g = [b \in Clusters |-> IF b \in C THEN FREE ELSE fat[b]]
    BY DEF FreeClusters, Cleared
  <2>2. g \in Fats /\ \A b \in Clusters : g[b] = IF b \in C THEN FREE ELSE fat[b]
    <3> HIDE DEF C
    <3> QED
      BY <1>1, <2>1 DEF Fats
  <2> HIDE DEF C
  <2> QED
    BY <1>3, <2>2 DEF Cut, C
<1>5. NodesGood(fat, entry, Taken(d)) /\ DOMAIN Taken(d) = DOMAIN node
  <2>1. d \in {ROOT} \union DOMAIN node
    BY DEF Dirs
  <2> QED
    BY <2>1, TakenGood
<1>6. g \in Fats
  BY <1>4 DEF Cut
<1> QED
  BY <1>1, <1>3, <1>4, <1>5, <1>6, CutSound, CutLeaf, NodesCut, EntrySizesCut

LEMMA NotRemovedGood ==
  ASSUME Volumes, NEW d \in Dirs, Serves(d), NEW nm, NotRemoved(d, nm)
  PROVE  NodesGood(fat, entry, node')
<1>1. NodesGood(fat, entry, Taken(d)) /\ (d = ROOT \/ d \in Clusters)
  <2>1. d \in {ROOT} \union DOMAIN node
    BY DEF Dirs
  <2> QED
    BY <2>1, TakenGood, DirIs
<1>2. CASE Named(d, nm) = {}
  BY <1>1, <1>2 DEF NotRemoved
<1>3. CASE Named(d, nm) # {}
  <2> DEFINE p == Found(d, nm)
  <2>1. p \in Reached(fat, entry)
    BY <1>1, <1>3, FoundNamed, NamedReached
  <2>2. node' = Released(Obtained(Taken(d), p, FALSE), entry[p].first)
    BY <1>3 DEF NotRemoved
  <2> HIDE DEF p
  <2> QED
    BY <1>1, <2>1, <2>2, RenewedGood
<1> QED
  BY <1>2, <1>3

-------------------------------------------------------------------------------
(* The steps.                                                              *)

LEMMA InitIInv == Init => IInv
<1> SUFFICES ASSUME Init
             PROVE  IInv
  OBVIOUS
<1>1. fat = Volume.fat /\ entry = Volume.entry /\ node = << >> /\ start = 0
  BY DEF Init
<1>2. /\ fat \in Fats /\ entry \in [Places -> Entries]
      /\ Sound(fat, entry) /\ Marked(fat) = Owned(fat, entry) /\ EntrySizes(fat, entry)
  BY <1>1, VolumeAssumption DEF EntrySizes
<1>3. DOMAIN node = {}
  BY <1>1
<1>4. NodesGood(fat, entry, node)
  BY <1>3 DEF NodesGood
<1>5. lost \in BOOLEAN /\ crashed \in BOOLEAN
  BY DEF Init
<1> QED
  BY <1>1, <1>2, <1>4, <1>5 DEF IInv, Volumes, NothingLeaks

LEMMA ReadKeeps ==
  ASSUME IInv, NEW n \in {ROOT} \union DOMAIN node, Read(n)
  PROVE  IInv'
<1>1. Volumes /\ Serves(n)
  BY DEF IInv, Read
<1>2. NodesGood(fat, entry, node') /\ UNCHANGED <<fat, entry, start, lost, crashed>>
  BY <1>1, TakenGood DEF Read
<1> QED
  BY <1>1, <1>2 DEF IInv, Volumes, NothingLeaks

LEMMA LookupKeeps ==
  ASSUME IInv, NEW d \in Dirs, NEW nm \in Names, Lookup(d, nm)
  PROVE  IInv'
<1> DEFINE p == Found(d, nm)
           N == Taken(d)
<1>1. Volumes /\ Serves(d) /\ UNCHANGED <<fat, entry, start, lost, crashed>>
  BY DEF IInv, Lookup
<1>2. /\ NodesGood(fat, entry, N) /\ DOMAIN N = DOMAIN node
      /\ \A m \in DOMAIN node : N[m].place = node[m].place
      /\ d = ROOT \/ d \in Clusters
  <2>1. d \in {ROOT} \union DOMAIN node
    BY DEF Dirs
  <2> QED
    BY <1>1, <2>1, TakenGood, DirIs
<1>3. NodesGood(fat, entry, node')
  <2>1. CASE Named(d, nm) = {}
    BY <1>2, <2>1 DEF Lookup
  <2>2. CASE Named(d, nm) # {}
    <3>1. p \in Reached(fat, entry) /\ HeldIn(fat, entry, node, p)
      BY <1>1, <1>2, <2>2, FoundNamed, NamedReached
    <3>2. PICK garbage \in BOOLEAN : node' = Obtained(N, p, garbage)
      BY <2>2 DEF Lookup
    <3>3. entry[p].first \in DOMAIN N => N[entry[p].first].ref < MaxRefs
      BY <1>2, <2>2 DEF Lookup
    <3> HIDE DEF p, N
    <3>4. HeldIn(fat, entry, N, p)
      BY <1>2, <3>1 DEF HeldIn
    <3> QED
      BY <1>1, <1>2, <3>1, <3>2, <3>3, <3>4, ObtainedGood
  <2> QED
    BY <2>1, <2>2
<1> QED
  BY <1>1, <1>3 DEF IInv, Volumes, NothingLeaks

LEMMA WriteKeeps ==
  ASSUME IInv, NEW n \in Files, NEW o \in 0..MaxSize, NEW k \in 0..MaxSize, o + k <= MaxSize,
         Write(n, o, k)
  PROVE  IInv'
<1>1. Volumes /\ Serves(n) /\ UNCHANGED <<entry, lost>>
  BY DEF IInv, Write
<1>2. CASE Overruns(n, o)
  <2>1. crashed' = TRUE /\ UNCHANGED <<fat, node, start>>
    BY <1>2 DEF Write
  <2> QED
    BY <1>1, <2>1 DEF IInv, Volumes, NothingLeaks
<1>3. CASE ~Overruns(n, o)
  BY <1>1, <1>3, WriteGood DEF IInv, Volumes, NothingLeaks
<1> QED
  BY <1>2, <1>3

\* A request that finds nothing to remove.
LEMMA NotRemovedKeeps ==
  ASSUME IInv, NEW d \in Dirs, Serves(d), NEW nm, NotRemoved(d, nm), UNCHANGED <<start, crashed>>
  PROVE  IInv'
<1>1. NodesGood(fat, entry, node') /\ UNCHANGED <<fat, entry, lost>>
  BY NotRemovedGood DEF IInv, NotRemoved
<1> QED
  BY <1>1 DEF IInv, Volumes, NothingLeaks

\* The entry that is removed.
LEMMA FoundGood ==
  ASSUME Volumes, NEW d \in Dirs, NEW nm, Named(d, nm) # {}
  PROVE  Found(d, nm) \in Reached(fat, entry)
<1>1. d = ROOT \/ d \in Clusters
  BY DirIs
<1> QED
  BY <1>1, FoundNamed, NamedReached

LEMMA RemovedKeeps ==
  ASSUME IInv, NEW d \in Dirs, Serves(d), NEW p \in Reached(fat, entry),
         entry[p].first \notin DOMAIN node,
         Removed(d, entry[p].first, p), node' = Taken(d), UNCHANGED <<start, crashed>>,
         lost' = (lost \/ (entry[p].kind = "dir" /\ Below(fat, entry, entry[p].first) # {}))
  PROVE  IInv'
<1>1. Volumes
  BY DEF IInv
<1>2. fat' = FreeClusters(entry[p].first) /\ entry' = [Flushed(d) EXCEPT ![p] = Vacant]
  BY DEF Removed
<1>3. /\ fat' \in Fats /\ entry' \in [Places -> Entries]
      /\ Sound(fat', entry') /\ EntrySizes(fat', entry') /\ NodesGood(fat', entry', node')
      /\ (entry[p].kind = "dir" => Below(fat, entry, entry[p].first) = {}) =>
           (Marked(fat) = Owned(fat, entry) => Marked(fat') = Owned(fat', entry'))
  <2>1. PICK g, e2 : g = fat' /\ e2 = entry'
    OBVIOUS
  <2>2. Cleared(d, p, g, e2)
    BY <1>2, <2>1 DEF Cleared
  <2>3. /\ g \in Fats /\ e2 \in [Places -> Entries]
        /\ Sound(g, e2) /\ EntrySizes(g, e2) /\ NodesGood(g, e2, Taken(d))
        /\ (entry[p].kind = "dir" => Below(fat, entry, entry[p].first) = {}) =>
             (Marked(fat) = Owned(fat, entry) => Marked(g) = Owned(g, e2))
    BY <1>1, <2>2, RemovedGood
  <2> QED
    BY <1>2, <2>1, <2>2, <2>3
<1>4. NothingLeaks'
  BY <1>3 DEF IInv, NothingLeaks
<1>5. lost' \in BOOLEAN /\ crashed' \in BOOLEAN
  BY DEF IInv
<1> QED
  BY <1>1, <1>3, <1>4, <1>5 DEF IInv, Volumes

LEMMA UnlinkKeeps ==
  ASSUME IInv, NEW d \in Dirs, NEW nm \in Names, Unlink(d, nm)
  PROVE  IInv'
<1>1. Serves(d) /\ Volumes /\ UNCHANGED <<start, crashed>>
  BY DEF Unlink, IInv
<1>2. CASE Removable(d, nm, "file") /\ entry[Found(d, nm)].first \notin DOMAIN node
  <2> DEFINE p == Found(d, nm)
  <2>1. p \in Reached(fat, entry) /\ entry[p].kind = "file"
    BY <1>1, <1>2, FoundGood DEF Removable
  <2>2. Removed(d, entry[p].first, p) /\ node' = Taken(d) /\ lost' = lost
    BY <1>2 DEF Unlink
  <2>3. entry[p].first \notin DOMAIN node
    BY <1>2
  <2> HIDE DEF p
  <2>4. lost' = (lost \/ (entry[p].kind = "dir" /\ Below(fat, entry, entry[p].first) # {}))
    BY <2>1, <2>2 DEF IInv
  <2> QED
    BY <1>1, <2>1, <2>2, <2>3, <2>4, RemovedKeeps
<1>3. CASE ~(Removable(d, nm, "file") /\ entry[Found(d, nm)].first \notin DOMAIN node)
  BY <1>1, <1>3, NotRemovedKeeps DEF Unlink
<1> QED
  BY <1>2, <1>3

LEMMA RmdirKeeps ==
  ASSUME IInv, NEW d \in Dirs, NEW nm \in Names, Rmdir(d, nm)
  PROVE  IInv'
<1>1. Serves(d) /\ Volumes /\ UNCHANGED <<start, crashed>>
  BY DEF Rmdir, IInv
<1>2. CASE Removable(d, nm, "dir") /\ entry[Found(d, nm)].first \notin DOMAIN node
  <2> DEFINE p == Found(d, nm)
  <2>1. p \in Reached(fat, entry) /\ entry[p].kind = "dir"
    BY <1>1, <1>2, FoundGood DEF Removable
  <2>2. /\ Removed(d, entry[p].first, p) /\ node' = Taken(d)
        /\ lost' = (lost \/ Below(fat, entry, entry[p].first) # {})
    BY <1>2 DEF Rmdir
  <2>3. entry[p].first \notin DOMAIN node
    BY <1>2
  <2> HIDE DEF p
  <2> QED
    BY <1>1, <2>1, <2>2, <2>3, RemovedKeeps
<1>3. CASE ~(Removable(d, nm, "dir") /\ entry[Found(d, nm)].first \notin DOMAIN node)
  BY <1>1, <1>3, NotRemovedKeeps DEF Rmdir
<1> QED
  BY <1>2, <1>3

LEMMA MkdirKeeps ==
  ASSUME IInv, NEW d \in Dirs, Mkdir(d)
  PROVE  IInv'
<1> DEFINE full == d # ROOT /\ (node[d].is_root \/ \A p \in PlacesOf(fat, d) : entry[p].kind # "vacant")
           got == IF full /\ Free # {} THEN 1 ELSE 0
           e2 == [p \in Places |-> IF got = 1 /\ p[1] = Nth(1) THEN Vacant ELSE entry[p]]
<1>1. Volumes /\ Serves(d) /\ UNCHANGED <<lost, crashed>>
  BY DEF IInv, Mkdir
<1>2. /\ fat' = IF got = 0 THEN fat ELSE AppendCluster(d, got)
      /\ start' = IF got = 0 THEN start ELSE Nth(got)
      /\ entry' = e2
      /\ node' = IF full THEN [Taken(d) EXCEPT ![d].hint = HintAfter(d, 1, got)] ELSE Taken(d)
  BY DEF Mkdir
<1>3. fat \in Fats /\ entry \in [Places -> Entries]
  BY <1>1 DEF Volumes
<1>4. CASE full
  <2> DEFINE g == AppendCluster(d, got)
             N2 == [Taken(d) EXCEPT ![d].hint = HintAfter(d, 1, got)]
  <2>1. got = IF Free # {} THEN 1 ELSE 0
    BY <1>4
  <2>2. d # ROOT
    BY <1>4
  <2> HIDE DEF full, got
  <2>3. /\ g \in Fats /\ e2 \in [Places -> Entries]
        /\ Sound(g, e2) /\ EntrySizes(g, e2) /\ NodesGood(g, e2, N2)
        /\ Marked(fat) = Owned(fat, entry) => Marked(g) = Owned(g, e2)
        /\ (IF got = 0 THEN start ELSE Nth(got)) \in Clusters \union {0}
    <3>1. PICK h, e, N : h = g /\ e = e2 /\ N = N2
      OBVIOUS
    <3>2. Enlarged(d, got, h, e, N)
      BY <2>1, <3>1 DEF Enlarged
    <3>4. /\ h \in Fats /\ e \in [Places -> Entries]
          /\ Sound(h, e) /\ EntrySizes(h, e) /\ NodesGood(h, e, N)
          /\ Marked(fat) = Owned(fat, entry) => Marked(h) = Owned(h, e)
          /\ (IF got = 0 THEN start ELSE Nth(got)) \in Clusters \union {0}
      BY <1>1, <2>2, <3>2, MkdirGood
    <3> HIDE DEF g, e2, N2
    <3> QED
      BY <3>1, <3>4
  <2>4. fat' = g /\ node' = N2
    BY <1>2, <1>3, <1>4, NoneAppended
  <2> HIDE DEF g, N2, e2
  <2> QED
    BY <1>1, <1>2, <2>3, <2>4 DEF IInv, Volumes, NothingLeaks
<1>5. CASE ~full
  <2>1. got = 0
    BY <1>5
  <2>2. e2 = entry
    BY <1>3, <2>1
  <2>3. NodesGood(fat, entry, Taken(d))
    <3>1. d \in {ROOT} \union DOMAIN node
      BY DEF Dirs
    <3> QED
      BY <1>1, <3>1, TakenGood
  <2> HIDE DEF full, got, e2
  <2>4. UNCHANGED <<fat, entry, start>> /\ node' = Taken(d)
    BY <1>2, <1>5, <2>1, <2>2
  <2> QED
    BY <1>1, <2>3, <2>4 DEF IInv, Volumes, NothingLeaks
<1> QED
  BY <1>4, <1>5

LEMMA NextIInv == IInv /\ [Next]_vars => IInv'
<1> SUFFICES ASSUME IInv, [Next]_vars
             PROVE  IInv'
  OBVIOUS
<1>1. CASE UNCHANGED vars
  BY <1>1 DEF vars, IInv, Volumes, NothingLeaks
<1>2. ASSUME NEW n \in {ROOT} \union DOMAIN node, Read(n)
      PROVE  IInv'
  BY <1>2, ReadKeeps
<1>3. ASSUME NEW d \in Dirs, NEW nm \in Names, Lookup(d, nm) \/ Unlink(d, nm) \/ Rmdir(d, nm)
      PROVE  IInv'
  BY <1>3, LookupKeeps, UnlinkKeeps, RmdirKeeps
<1>4. ASSUME NEW d \in Dirs, Mkdir(d)
      PROVE  IInv'
  BY <1>4, MkdirKeeps
<1>5. ASSUME NEW n \in Files, NEW o \in 0..MaxSize, NEW k \in 0..MaxSize,
             o + k <= MaxSize /\ Write(n, o, k)
      PROVE  IInv'
  BY <1>5, WriteKeeps
<1> QED
  BY <1>1, <1>2, <1>3, <1>4, <1>5 DEF Next

LEMMA Invariant == Spec => []IInv
BY InitIInv, NextIInv, PTL DEF Spec

\* Types (TypeOK), for any volume and bounds.
THEOREM TypeCorrect == Spec => []TypeOK
<1>1. IInv => TypeOK
  <2> SUFFICES ASSUME IInv PROVE TypeOK
    OBVIOUS
  <2>1. \A n \in DOMAIN node : node[n] \in NodeRecords
    BY DEF IInv, Volumes, NodesGood, Tied
  <2> QED
    BY <2>1 DEF IInv, Volumes, NodesGood, TypeOK, NodeRecords
<1> QED
  BY <1>1, Invariant, PTL

\* AppendCluster (cluster.c:216) and FreeClusters (cluster.c:468): whatever is created,
\* written and removed, files and directories in reach have chains of their own that
\* end, and nodes are those of such entries, with their hint in the chain.
THEOREM VolumeIntact == Spec => []ChainsIntact
<1>1. IInv => ChainsIntact
  <2> SUFFICES ASSUME IInv PROVE ChainsIntact
    OBVIOUS
  <2>1. \A n \in DOMAIN node :
          /\ node[n].place \in Reached(fat, entry) /\ entry[node[n].place].first = n
          /\ node[n].hint \in Chain(fat, n) \union {0}
    BY DEF IInv, Volumes, NodesGood, Tied
  <2> QED
    BY <2>1 DEF IInv, Volumes, ChainsIntact
<1> QED
  BY <1>1, Invariant, PTL

\* FindFreeCluster (cluster.c:418), unlink (main.c:482) and mkdir with a full parent: every
\* marked cluster is of a file or directory, unless a directory went with its entries.
THEOREM NoClusterLeaks == Spec => []NothingLeaks
<1>1. IInv => NothingLeaks
  BY DEF IInv
<1> QED
  BY <1>1, Invariant, PTL

\* writeFile (file.c:98): no file ends behind its clusters, on a full disk either, but
\* for one whose size comes from a write of no bytes (file.c:152).
THEOREM SizesAreBacked == Spec => []SizesBacked
<1>1. IInv => SizesBacked
  <2> SUFFICES ASSUME IInv PROVE SizesBacked
    OBVIOUS
  <2> QED
    BY DEF IInv, Volumes, NodesGood, Tied, SizesBacked, Files
<1> QED
  BY <1>1, Invariant, PTL
==============================================================================
