--------------------------- MODULE InodeAllocProofs ---------------------------
(***************************************************************************)
(* Theorems about InodeAlloc, for every number and size of groups: the     *)
(* counts agree with each other and with the bitmaps, mkdir's search for a *)
(* group finds one whenever there is a free inode, and until an inode is   *)
(* freed none is handed out twice, a restart or not.                       *)
(***************************************************************************)
EXTENDS InodeAlloc, FiniteSetTheorems, WellFoundedInduction, TLAPS

-------------------------------------------------------------------------------
(* The inductive invariant *)

\* The free inodes the descriptors promise, as pairs: the sum of the counts without a fold.
Units(counts) == {u \in GroupIds \X Nat : u[2] >= 1 /\ u[2] <= counts[u[1]]}
FreeUnits     == Units(free)

LiveIn(g) == {n \in live : GroupOf(n) = g}

Typed ==
  /\ bitmap \in [GroupIds -> SUBSET (0..(BlockBits - 1))]
  /\ free \in [GroupIds -> Nat] /\ sfree \in Nat
  /\ freeBlocks \in [GroupIds -> 0..MaxBlocks]
  /\ live \subseteq Inodes /\ dirs \subseteq live
  /\ freed \in BOOLEAN /\ restarted \in BOOLEAN /\ panicked \in BOOLEAN

\* s_free_inodes_count is the sum of the groups' counts, also after the restart.
SumOfCounts == IsFiniteSet(FreeUnits) /\ Cardinality(FreeUnits) = sfree

\* Whatever is freed was handed out before.
CountBounded ==
  ~restarted => \A g \in GroupIds : free[g] + Cardinality(LiveIn(g)) <= PerGroup

MarkedUntilFreed ==
  ~freed => /\ \A n \in live : BitOf(n) \in bitmap[GroupOf(n)]
            /\ sfree <= SfreeAtMount

IInv == Typed /\ SumOfCounts /\ CountBounded /\ MarkedUntilFreed /\ CountsMatchBitmap

-------------------------------------------------------------------------------
(* Groups, bits and inodes *)

LEMMA Constants ==
  /\ Groups \in Nat \ {0} /\ PerGroup \in Nat \ {0} /\ FirstIno \in 1..PerGroup
  /\ RootIno \in 1..(FirstIno - 1) /\ BlockBits \in Nat /\ MaxBlocks \in Nat \ {0}
  /\ Groups * PerGroup \in Nat /\ Groups * PerGroup < BlockBits /\ PerGroup < BlockBits
  /\ GroupIds \subseteq Nat /\ 0 \in GroupIds
  /\ NO_GROUP \notin GroupIds
<1> USE AllocAssumption
<1>1. /\ Groups \in Nat \ {0} /\ PerGroup \in Nat \ {0} /\ FirstIno \in 1..PerGroup
      /\ RootIno \in 1..(FirstIno - 1) /\ BlockBits \in Nat /\ MaxBlocks \in Nat \ {0}
      /\ Groups * PerGroup < BlockBits
  OBVIOUS
<1>2. Groups * PerGroup \in Nat /\ Groups * PerGroup >= PerGroup
  BY <1>1
<1> QED
  BY <1>1, <1>2 DEF GroupIds, NO_GROUP

\* Every bit of a group's inodes has a number of its own.
LEMMA Numbering ==
  ASSUME NEW g \in GroupIds, NEW b \in 0..(PerGroup - 1)
  PROVE  /\ InoAt(g, b) \in Inodes
         /\ GroupOf(InoAt(g, b)) = g /\ BitOf(InoAt(g, b)) = b
<1>1. g \in Nat /\ g <= Groups - 1 /\ b \in Nat /\ b <= PerGroup - 1
  BY Constants DEF GroupIds
<1>2. PerGroup \in Nat \ {0} /\ Groups \in Nat \ {0} /\ Groups * PerGroup \in Nat
  BY Constants
<1>3. g * PerGroup \in Nat /\ g * PerGroup <= (Groups - 1) * PerGroup
  BY <1>1, <1>2
<1>4. (Groups - 1) * PerGroup = Groups * PerGroup - PerGroup
  BY <1>2
<1>5. InoAt(g, b) \in 1..(Groups * PerGroup)
  BY <1>1, <1>2, <1>3, <1>4 DEF InoAt
<1>6. InoAt(g, b) - 1 = g * PerGroup + b
  BY <1>1, <1>3 DEF InoAt
<1>7. (g * PerGroup + b) \div PerGroup = g /\ (g * PerGroup + b) % PerGroup = b
  BY <1>1, <1>2, <1>3
<1> QED
  BY <1>5, <1>6, <1>7 DEF GroupOf, BitOf, Inodes

LEMMA InodePlace ==
  ASSUME NEW n \in Inodes
  PROVE  GroupOf(n) \in GroupIds /\ BitOf(n) \in 0..(PerGroup - 1)
<1>1. n \in Nat /\ n - 1 \in Nat /\ n - 1 < Groups * PerGroup
  BY Constants DEF Inodes
<1>2. PerGroup \in Nat \ {0} /\ Groups \in Nat \ {0}
  BY Constants
<1>3. (n - 1) \div PerGroup \in Nat /\ (n - 1) % PerGroup \in 0..(PerGroup - 1)
  BY <1>1, <1>2
<1>4. (n - 1) \div PerGroup < Groups
  BY <1>1, <1>2
<1> QED
  BY <1>2, <1>3, <1>4 DEF GroupOf, BitOf, GroupIds

LEMMA FirstIn ==
  ASSUME NEW S \in SUBSET Nat, S # {}
  PROVE  \E x \in S : \A y \in S : x <= y
<1> DEFINE R == OpToRel(<, Nat)
<1>1. IsWellFoundedOn(R, Nat)
  BY NatLessThanWellFounded
<1>2. \A x, y \in Nat : y < x => <<y, x>> \in R
  BY DEF OpToRel
<1> HIDE DEF R
<1>3. PICK x \in S : \A y \in S : ~(<<y, x>> \in R)
  BY <1>1, WFMin, Zenon
<1>4. \A y \in S : y \in Nat /\ x \in Nat /\ ~(y < x)
  BY <1>2, <1>3, Zenon
<1>5. \A y \in S : x <= y
  BY <1>4
<1> QED
  BY <1>5

LEMMA LowestBit ==
  ASSUME NEW g \in GroupIds, ClearBits(g) # {}
  PROVE  Min(ClearBits(g)) \in ClearBits(g)
<1>1. ClearBits(g) \in SUBSET Nat
  BY Constants DEF ClearBits
<1>2. \E x \in ClearBits(g) : \A y \in ClearBits(g) : x <= y
  BY <1>1, FirstIn
<1> QED
  BY <1>2 DEF Min

\* Among candidates there is always a best one: the most free blocks, and the first of
\* those from the start of the search on.
LEMMA BestExists ==
  ASSUME Typed, Candidates # {}, NEW start \in GroupIds
  PROVE  Best(start) \in Candidates
<1> DEFINE Turn(g) == (g - start) % Groups
           Lack == {MaxBlocks - freeBlocks[g] : g \in Candidates}
<1>1. \A g \in Candidates : g \in GroupIds /\ freeBlocks[g] \in 0..MaxBlocks
  BY DEF Typed, Candidates
<1>2. Lack \in SUBSET Nat /\ Lack # {}
  BY <1>1, Constants
<1>3. PICK g0 \in Candidates : \A h \in Candidates : MaxBlocks - freeBlocks[g0] <= MaxBlocks - freeBlocks[h]
  <2>1. PICK l \in Lack : \A m \in Lack : l <= m
    BY <1>2, FirstIn
  <2> QED
    BY <2>1
<1>4. \A h \in Candidates : freeBlocks[h] <= freeBlocks[g0]
  BY <1>1, <1>3, Constants
<1> DEFINE Most == {g \in Candidates : freeBlocks[g] = freeBlocks[g0]}
           Turns == {Turn(g) : g \in Most}
<1>5. \A g \in Candidates : Turn(g) \in Nat
  BY <1>1, Constants DEF GroupIds
<1>6. Turns \in SUBSET Nat /\ Turns # {}
  <2>1. g0 \in Most
    OBVIOUS
  <2>2. Turn(g0) \in Turns
    BY <2>1
  <2> QED
    BY <1>5, <2>2
<1> HIDE DEF Turn
<1>7. PICK g1 \in Most : \A h \in Most : Turn(g1) <= Turn(h)
  <2>1. PICK t \in Turns : \A u \in Turns : t <= u
    BY <1>6, FirstIn
  <2> QED
    BY <2>1
<1>8. g1 \in Candidates /\ \A h \in Candidates : \/ freeBlocks[h] < freeBlocks[g1]
                                                 \/ freeBlocks[h] = freeBlocks[g1] /\ Turn(g1) <= Turn(h)
  BY <1>1, <1>4, <1>7
<1> QED
  BY <1>8 DEF Best, Turn

-------------------------------------------------------------------------------
(* Counting *)

\* So many groups with at most so many free inodes each promise at most their product.
LEMMA UnitsBound ==
  ASSUME Typed, NEW m \in Nat, \A g \in GroupIds : free[g] <= m
  PROVE  IsFiniteSet(FreeUnits) /\ Cardinality(FreeUnits) <= Groups * m
<1>1. IsFiniteSet(GroupIds) /\ Cardinality(GroupIds) = Groups
  BY Constants, FS_Interval DEF GroupIds
<1>2. IsFiniteSet(1..m) /\ Cardinality(1..m) = m
  BY FS_Interval
<1>3. IsFiniteSet(GroupIds \X (1..m)) /\ Cardinality(GroupIds \X (1..m)) = Groups * m
  BY <1>1, <1>2, FS_Product
<1>4. FreeUnits \subseteq GroupIds \X (1..m)
  BY DEF FreeUnits, Units, Typed
<1> QED
  BY <1>3, <1>4, FS_Subset

\* The count of a group goes up by one: so does the sum.
LEMMA OneMore ==
  ASSUME Typed, SumOfCounts, NEW g \in GroupIds,
         free' = [free EXCEPT ![g] = @ + 1]
  PROVE  IsFiniteSet(FreeUnits') /\ Cardinality(FreeUnits') = sfree + 1
<1> DEFINE u == <<g, free[g] + 1>>
<1>1. free[g] \in Nat
  BY DEF Typed
<1>2. u \notin FreeUnits
  BY <1>1 DEF FreeUnits, Units
<1>3. FreeUnits' = FreeUnits \union {u}
  <2>1. ASSUME NEW v \in GroupIds \X Nat
        PROVE  v \in FreeUnits' <=> v \in FreeUnits \/ v = u
    <3>1. v = <<v[1], v[2]>> /\ v[1] \in GroupIds /\ v[2] \in Nat
      OBVIOUS
    <3>2. free[v[1]] \in Nat
      BY <3>1 DEF Typed
    <3>3. v \in FreeUnits' <=> v[2] >= 1 /\ v[2] <= free'[v[1]]
      BY DEF FreeUnits, Units
    <3>4. v \in FreeUnits <=> v[2] >= 1 /\ v[2] <= free[v[1]]
      BY DEF FreeUnits, Units
    <3>5. free'[v[1]] = IF v[1] = g THEN free[g] + 1 ELSE free[v[1]]
      BY <3>1 DEF Typed
    <3>6. v = u <=> v[1] = g /\ v[2] = free[g] + 1
      BY <3>1
    <3> HIDE DEF u
    <3> QED
      BY <3>1, <3>2, <3>3, <3>4, <3>5, <3>6, <1>1
  <2>2. u \in GroupIds \X Nat
    BY <1>1
  <2>3. FreeUnits \subseteq GroupIds \X Nat /\ FreeUnits' \subseteq GroupIds \X Nat
    BY DEF FreeUnits, Units
  <2> HIDE DEF u
  <2> QED
    BY <2>1, <2>2, <2>3
<1> HIDE DEF u
<1> QED
  BY <1>2, <1>3, FS_AddElement DEF SumOfCounts

\* The count of a group goes down by one: so does the sum, which was at least one.
LEMMA OneLess ==
  ASSUME Typed, SumOfCounts, NEW g \in GroupIds, free[g] # 0,
         free' = [free EXCEPT ![g] = @ - 1]
  PROVE  IsFiniteSet(FreeUnits') /\ Cardinality(FreeUnits') = sfree - 1 /\ sfree - 1 \in Nat
<1> DEFINE u == <<g, free[g]>>
<1>1. free[g] \in Nat /\ free[g] >= 1
  BY DEF Typed
<1>2. u \in FreeUnits
  BY <1>1 DEF FreeUnits, Units
<1>3. FreeUnits' = FreeUnits \ {u}
  <2>1. ASSUME NEW v \in GroupIds \X Nat
        PROVE  v \in FreeUnits' <=> v \in FreeUnits /\ v # u
    <3>1. v = <<v[1], v[2]>> /\ v[1] \in GroupIds /\ v[2] \in Nat
      OBVIOUS
    <3>2. free[v[1]] \in Nat
      BY <3>1 DEF Typed
    <3>3. v \in FreeUnits' <=> v[2] >= 1 /\ v[2] <= free'[v[1]]
      BY DEF FreeUnits, Units
    <3>4. v \in FreeUnits <=> v[2] >= 1 /\ v[2] <= free[v[1]]
      BY DEF FreeUnits, Units
    <3>5. free'[v[1]] = IF v[1] = g THEN free[g] - 1 ELSE free[v[1]]
      BY <3>1 DEF Typed
    <3>6. v = u <=> v[1] = g /\ v[2] = free[g]
      BY <3>1
    <3> HIDE DEF u
    <3> QED
      BY <3>1, <3>2, <3>3, <3>4, <3>5, <3>6, <1>1
  <2>2. FreeUnits \subseteq GroupIds \X Nat /\ FreeUnits' \subseteq GroupIds \X Nat
    BY DEF FreeUnits, Units
  <2> HIDE DEF u
  <2> QED
    BY <2>1, <2>2
<1> HIDE DEF u
<1>4. IsFiniteSet(FreeUnits') /\ Cardinality(FreeUnits') = sfree - 1
  BY <1>2, <1>3, FS_RemoveElement DEF SumOfCounts
<1>5. Cardinality(FreeUnits') \in Nat
  BY <1>4, FS_CardinalityType
<1> QED
  BY <1>4, <1>5

\* The counts at mount add up to that of the superblock: all but the reserved inodes,
\* which are in the first group.
LEMMA UnitsAtMount ==
  ASSUME NEW f, f = FreeAtMount
  PROVE  /\ IsFiniteSet(Units(f)) /\ Cardinality(Units(f)) = SfreeAtMount
         /\ \A g \in GroupIds : /\ IsFiniteSet(Reserved(g)) /\ f[g] \in 0..PerGroup
                                /\ f[g] = PerGroup - Cardinality(Reserved(g))
         /\ SfreeAtMount \in Nat
<1> DEFINE r == FirstIno - 1
<1>0. /\ Groups \in Nat \ {0} /\ PerGroup \in Nat \ {0} /\ r \in 0..(PerGroup - 1)
      /\ (Groups - 1) * PerGroup = Groups * PerGroup - PerGroup
      /\ (Groups - 1) * PerGroup \in Nat /\ Groups * PerGroup \in Nat
  BY Constants
<1>1. Reserved(0) = 0..(r - 1)
  <2>1. \A b \in 0..(PerGroup - 1) : 0 * PerGroup + b + 1 < FirstIno <=> b <= r - 1
    BY <1>0, Constants
  <2>2. 0..(r - 1) \subseteq 0..(PerGroup - 1)
    BY <1>0
  <2>3. \A b \in 0..(PerGroup - 1) : b \in 0..(r - 1) <=> b <= r - 1
    BY <1>0
  <2> HIDE DEF r
  <2> QED
    BY <2>1, <2>2, <2>3 DEF Reserved, InoAt
<1>2. ASSUME NEW g \in GroupIds, g # 0
      PROVE  Reserved(g) = {}
  <2>1. g \in Nat /\ g >= 1
    BY <1>2, Constants DEF GroupIds
  <2>2. g * PerGroup >= PerGroup /\ g * PerGroup \in Nat
    BY <1>0, <2>1
  <2>3. \A b \in 0..(PerGroup - 1) : ~(g * PerGroup + b + 1 < FirstIno)
    BY <1>0, <2>2, Constants
  <2> QED
    BY <2>3 DEF Reserved, InoAt
<1>3. IsFiniteSet(Reserved(0)) /\ Cardinality(Reserved(0)) = r
  <2>0. r \in Nat
    BY <1>0
  <2> HIDE DEF r
  <2>1. r - 1 \in Int /\ (0 > r - 1 => r = 0) /\ r - 1 - 0 + 1 = r
    BY <2>0
  <2>2. /\ IsFiniteSet(0..(r - 1))
        /\ Cardinality(0..(r - 1)) = IF 0 > r - 1 THEN 0 ELSE r - 1 - 0 + 1
    BY <2>1, FS_Interval
  <2> QED
    BY <1>1, <2>1, <2>2
<1>4. ASSUME NEW g \in GroupIds
      PROVE  /\ IsFiniteSet(Reserved(g))
             /\ Cardinality(Reserved(g)) = IF g = 0 THEN r ELSE 0
  BY <1>2, <1>3, FS_EmptySet
<1>5. \A g \in GroupIds : f[g] = IF g = 0 THEN PerGroup - r ELSE PerGroup
  BY <1>0, <1>4 DEF FreeAtMount
<1> HIDE DEF r
<1> DEFINE A == {0} \X (1..(PerGroup - r))
           B == (1..(Groups - 1)) \X (1..PerGroup)
<1>6. Units(f) = A \union B
  <2>1. ASSUME NEW g \in GroupIds, NEW k \in Nat
        PROVE  <<g, k>> \in Units(f) <=> <<g, k>> \in A \union B
    <3>1. <<g, k>> \in Units(f) <=> k >= 1 /\ k <= f[g]
      BY DEF Units
    <3>2. g # 0 => g \in 1..(Groups - 1)
      BY Constants DEF GroupIds
    <3> QED
      BY <3>1, <3>2, <1>0, <1>5
  <2>2. Units(f) \subseteq GroupIds \X Nat
    BY DEF Units
  <2>3. 1..(Groups - 1) \subseteq GroupIds /\ 0 \in GroupIds
    BY <1>0 DEF GroupIds
  <2>4. A \union B \subseteq GroupIds \X Nat
    BY <2>3
  <2> HIDE DEF A, B
  <2> QED
    BY <2>1, <2>2, <2>4
<1>7. IsFiniteSet(A) /\ Cardinality(A) = PerGroup - r
  <2>1. IsFiniteSet(1..(PerGroup - r)) /\ Cardinality(1..(PerGroup - r)) = PerGroup - r
    BY <1>0, FS_Interval
  <2>2. IsFiniteSet({0}) /\ Cardinality({0}) = 1
    BY FS_Singleton
  <2>3. IsFiniteSet(A) /\ Cardinality(A) = 1 * (PerGroup - r)
    BY <2>1, <2>2, FS_Product, ZenonT(30)
  <2> QED
    BY <1>0, <2>3
<1>8. IsFiniteSet(B) /\ Cardinality(B) = (Groups - 1) * PerGroup
  <2>1. IsFiniteSet(1..PerGroup) /\ Cardinality(1..PerGroup) = PerGroup
    BY <1>0, FS_Interval
  <2>2. IsFiniteSet(1..(Groups - 1)) /\ Cardinality(1..(Groups - 1)) = Groups - 1
    BY <1>0, FS_Interval
  <2> QED
    BY <2>1, <2>2, FS_Product, ZenonT(30)
<1>9. A \intersect B = {}
  OBVIOUS
<1> HIDE DEF A, B
<1>10. /\ IsFiniteSet(A \union B)
       /\ Cardinality(A \union B) = Cardinality(A) + Cardinality(B) - Cardinality(A \intersect B)
  BY <1>7, <1>8, FS_Union
<1>11. Cardinality(A \intersect B) = 0
  BY <1>9, FS_EmptySet
<1>12. Cardinality(Units(f)) = Groups * PerGroup - r
  BY <1>0, <1>6, <1>7, <1>8, <1>10, <1>11
<1>13. SfreeAtMount = Groups * PerGroup - r /\ SfreeAtMount \in Nat
  BY <1>0, Constants DEF SfreeAtMount, r
<1> QED
  BY <1>0, <1>4, <1>5, <1>6, <1>10, <1>12, <1>13

-------------------------------------------------------------------------------
(* What a step does *)

\* An allocation that succeeds.
Allocated(g, b) ==
  /\ free[g] # 0
  /\ bitmap' = [bitmap EXCEPT ![g] = @ \union {b}]
  /\ free' = [free EXCEPT ![g] = @ - 1]
  /\ sfree' = sfree - 1
  /\ live' = live \union {InoAt(g, b)}
  /\ dirs' \subseteq dirs \union {InoAt(g, b)}
  /\ UNCHANGED <<freeBlocks, freed, restarted, panicked>>

\* The release of an inode that is marked.
Released(n) ==
  /\ bitmap' = [bitmap EXCEPT ![GroupOf(n)] = @ \ {n}]
  /\ free' = [free EXCEPT ![GroupOf(n)] = @ + 1]
  /\ sfree' = sfree + 1
  /\ live' = live \ {n}
  /\ dirs' = dirs \ {n}
  /\ freed' = TRUE
  /\ UNCHANGED <<freeBlocks, restarted, panicked>>

\* A failed search, or panic().
NothingDone ==
  /\ UNCHANGED <<bitmap, free, sfree, freeBlocks, live, dirs, freed, restarted>>
  /\ panicked' \in BOOLEAN

LEMMA AllocInGroupDoes ==
  ASSUME Typed, NEW g \in GroupIds, NEW isDir \in BOOLEAN, AllocInGroup(g, isDir)
  PROVE  NothingDone \/ \E b \in ClearBits(g) : Allocated(g, b)
<1>1. CASE free[g] = 0 \/ ClearBits(g) = {} \/ InoAt(g, Min(ClearBits(g))) < FirstIno
  BY <1>1 DEF AllocInGroup, Panic, NothingDone
<1>2. CASE ~(free[g] = 0 \/ ClearBits(g) = {} \/ InoAt(g, Min(ClearBits(g))) < FirstIno)
  <2> DEFINE b == Min(ClearBits(g))
  <2>1. b \in ClearBits(g)
    BY <1>2, LowestBit
  <2>2. Allocated(g, b)
    BY <1>2 DEF AllocInGroup, Allocated
  <2> QED
    BY <2>1, <2>2
<1> QED
  BY <1>1, <1>2

\* The groups that the searches find.
LEMMA GroupsFound ==
  ASSUME Typed, NEW p \in dirs \union {RootIno}
  PROVE  /\ DirGroups(p) \subseteq GroupIds \union {NO_GROUP}
         /\ FileGroups(p) \subseteq GroupIds \union {NO_GROUP}
         /\ NO_GROUP \in DirGroups(p) => Candidates = {}
<1>1. p \in Inodes
  <2>1. RootIno \in Nat /\ RootIno >= 1 /\ RootIno <= Groups * PerGroup
    <3>1. Groups * PerGroup >= PerGroup
      BY Constants
    <3> QED
      BY <3>1, Constants
  <2> QED
    BY <2>1, Constants DEF Typed, Inodes
<1>2. GroupOf(p) \in GroupIds
  BY <1>1, InodePlace
<1>3. (GroupOf(p) + 1) % Groups \in GroupIds
  BY <1>2, Constants DEF GroupIds
<1>4. FileGroups(p) \subseteq GroupIds \union {NO_GROUP}
  BY <1>2, <1>3 DEF FileGroups
<1>5. Candidates \subseteq GroupIds
  BY DEF Candidates
<1>6. CASE Candidates = {}
  BY <1>4, <1>6 DEF DirGroups
<1>7. CASE Candidates # {}
  <2>1. \A s \in GroupIds : Best(s) \in Candidates
    BY <1>7, BestExists
  <2>2. DirGroups(p) \subseteq Candidates
    BY <1>2, <1>7, <2>1 DEF DirGroups
  <2> QED
    BY <1>4, <1>5, <2>2, Constants
<1> QED
  BY <1>6, <1>7

LEMMA StepKinds ==
  ASSUME Typed, Next
  PROVE  \/ NothingDone
         \/ \E g \in GroupIds : \E b \in ClearBits(g) : Allocated(g, b)
         \/ \E n \in live : Released(n)
         \/ \E g \in GroupIds : BlockCount(g)
         \/ Restart
<1>1. ASSUME NEW g \in GroupIds \union {NO_GROUP}, NEW isDir \in BOOLEAN,
             IF g = NO_GROUP THEN UNCHANGED vars ELSE AllocInGroup(g, isDir)
      PROVE  NothingDone \/ \E h \in GroupIds : \E b \in ClearBits(h) : Allocated(h, b)
  <2>1. CASE g = NO_GROUP
    <3>1. UNCHANGED vars
      BY <1>1, <2>1
    <3> QED
      BY <3>1 DEF vars, NothingDone, Typed
  <2>2. CASE g # NO_GROUP
    BY <1>1, <2>2, AllocInGroupDoes
  <2> QED
    BY <2>1, <2>2
<1>2. ASSUME NEW p \in dirs \union {RootIno}, AllocDir(p) \/ AllocFile(p)
      PROVE  NothingDone \/ \E h \in GroupIds : \E b \in ClearBits(h) : Allocated(h, b)
  <2>1. PICK g \in GroupIds \union {NO_GROUP}, isDir \in BOOLEAN :
          IF g = NO_GROUP THEN UNCHANGED vars ELSE AllocInGroup(g, isDir)
    BY <1>2, GroupsFound DEF AllocDir, AllocFile
  <2> QED
    BY <1>1, <2>1
<1>3. ASSUME NEW n \in live, FreeInode(n)
      PROVE  NothingDone \/ Released(n)
  BY <1>3 DEF FreeInode, Panic, NothingDone, Released
<1> QED
  BY <1>2, <1>3 DEF Next

-------------------------------------------------------------------------------
(* Every step preserves the invariant *)

LEMMA LiveFinite ==
  ASSUME Typed
  PROVE  IsFiniteSet(live) /\ \A g : IsFiniteSet(LiveIn(g)) /\ Cardinality(LiveIn(g)) \in Nat
<1>1. IsFiniteSet(Inodes)
  BY Constants, FS_Interval DEF Inodes
<1>2. live \in SUBSET Inodes /\ \A g : LiveIn(g) \in SUBSET Inodes
  BY DEF Typed, LiveIn
<1> QED
  BY <1>1, <1>2, FS_Subset, FS_CardinalityType

LEMMA BitsFinite ==
  ASSUME NEW g
  PROVE  IsFiniteSet(ClearBits(g)) /\ Cardinality(ClearBits(g)) \in Nat
<1>1. IsFiniteSet(0..(PerGroup - 1))
  BY Constants, FS_Interval
<1>2. ClearBits(g) \in SUBSET (0..(PerGroup - 1))
  BY DEF ClearBits
<1> QED
  BY <1>1, <1>2, FS_Subset, FS_CardinalityType

LEMMA AllocatedKeeps ==
  ASSUME IInv, NEW g \in GroupIds, NEW b \in ClearBits(g), Allocated(g, b)
  PROVE  IInv'
<1> USE DEF IInv, Allocated
<1> DEFINE m == InoAt(g, b)
<1>1. /\ b \in 0..(PerGroup - 1) /\ b \notin bitmap[g] /\ b \in 0..(BlockBits - 1)
  BY Constants DEF ClearBits
<1>2. m \in Inodes /\ GroupOf(m) = g /\ BitOf(m) = b
  BY <1>1, Numbering
<1> HIDE DEF m
<1>3. IsFiniteSet(FreeUnits') /\ Cardinality(FreeUnits') = sfree - 1 /\ sfree - 1 \in Nat
  BY OneLess
<1>4. free[g] \in Nat /\ free[g] - 1 \in Nat /\ sfree \in Nat
  BY DEF Typed
<1>5. Typed'
  <2>1. bitmap' \in [GroupIds -> SUBSET (0..(BlockBits - 1))]
    BY <1>1 DEF Typed
  <2>2. free' \in [GroupIds -> Nat] /\ sfree' \in Nat
    BY <1>3, <1>4 DEF Typed
  <2>3. live' \subseteq Inodes /\ dirs' \subseteq live'
    BY <1>2 DEF Typed, m
  <2> QED
    BY <2>1, <2>2, <2>3 DEF Typed
<1>6. SumOfCounts'
  BY <1>3 DEF SumOfCounts
<1>7. CountBounded'
  <2> SUFFICES ASSUME ~restarted, NEW h \in GroupIds
               PROVE  free'[h] + Cardinality(LiveIn(h)') <= PerGroup
    BY DEF CountBounded
  <2>1. free[h] + Cardinality(LiveIn(h)) <= PerGroup
    BY DEF CountBounded
  <2>2. /\ free[h] \in Nat /\ PerGroup \in Nat
        /\ IsFiniteSet(LiveIn(h)) /\ Cardinality(LiveIn(h)) \in Nat
    BY LiveFinite, Constants DEF Typed
  <2>3. CASE h = g
    <3>1. LiveIn(h)' = LiveIn(h) \union {m}
      BY <1>2, <2>3 DEF LiveIn, m
    <3>2. Cardinality(LiveIn(h)')
            = IF m \in LiveIn(h) THEN Cardinality(LiveIn(h)) ELSE Cardinality(LiveIn(h)) + 1
      BY <2>2, <3>1, FS_AddElement
    <3>3. free'[h] = free[h] - 1
      BY <2>3 DEF Typed
    <3> QED
      BY <2>1, <2>2, <3>2, <3>3
  <2>4. CASE h # g
    <3>1. LiveIn(h)' = LiveIn(h)
      BY <1>2, <2>4 DEF LiveIn, m
    <3>2. free'[h] = free[h]
      BY <2>4 DEF Typed
    <3> QED
      BY <2>1, <3>1, <3>2
  <2> QED
    BY <2>3, <2>4
<1>8. MarkedUntilFreed'
  <2> SUFFICES ASSUME ~freed
               PROVE  /\ \A n \in live' : BitOf(n) \in bitmap'[GroupOf(n)]
                      /\ sfree' <= SfreeAtMount
    BY DEF MarkedUntilFreed
  <2>1. sfree' <= SfreeAtMount
    BY <1>4, Constants DEF MarkedUntilFreed, SfreeAtMount
  <2>2. ASSUME NEW n \in live'
        PROVE  BitOf(n) \in bitmap'[GroupOf(n)]
    <3>1. CASE n \in live
      <4>1. BitOf(n) \in bitmap[GroupOf(n)] /\ GroupOf(n) \in GroupIds
        BY <3>1, InodePlace DEF MarkedUntilFreed, Typed
      <4> QED
        BY <4>1 DEF Typed
    <3>2. CASE n = m
      BY <1>2, <3>2 DEF Typed
    <3> QED
      BY <3>1, <3>2 DEF m
  <2> QED
    BY <2>1, <2>2
<1>9. CountsMatchBitmap'
  <2> SUFFICES ASSUME ~freed, ~restarted, NEW h \in GroupIds
               PROVE  free'[h] = Cardinality(ClearBits(h)')
    BY DEF CountsMatchBitmap
  <2>1. free[h] = Cardinality(ClearBits(h))
    BY DEF CountsMatchBitmap
  <2>2. IsFiniteSet(ClearBits(h))
    BY BitsFinite
  <2>3. CASE h = g
    <3>1. ClearBits(h)' = ClearBits(h) \ {b}
      BY <2>3 DEF ClearBits, Typed
    <3>2. Cardinality(ClearBits(h)') = Cardinality(ClearBits(h)) - 1
      BY <2>2, <2>3, <3>1, FS_RemoveElement
    <3> QED
      BY <2>1, <2>3, <3>2 DEF Typed
  <2>4. CASE h # g
    BY <2>1, <2>4 DEF ClearBits, Typed
  <2> QED
    BY <2>3, <2>4
<1> QED
  BY <1>5, <1>6, <1>7, <1>8, <1>9

LEMMA ReleasedKeeps ==
  ASSUME IInv, NEW n \in live, Released(n)
  PROVE  IInv'
<1> USE DEF IInv, Released
<1> DEFINE g == GroupOf(n)
<1>1. g \in GroupIds
  BY InodePlace DEF Typed
<1>2. IsFiniteSet(FreeUnits') /\ Cardinality(FreeUnits') = sfree + 1
  BY <1>1, OneMore
<1>3. free[g] \in Nat /\ sfree \in Nat
  BY <1>1 DEF Typed
<1>4. Typed'
  BY <1>1, <1>3 DEF Typed
<1>5. SumOfCounts'
  BY <1>2 DEF SumOfCounts
<1>6. CountBounded'
  <2> SUFFICES ASSUME ~restarted, NEW h \in GroupIds
               PROVE  free'[h] + Cardinality(LiveIn(h)') <= PerGroup
    BY DEF CountBounded
  <2>1. free[h] + Cardinality(LiveIn(h)) <= PerGroup
    BY DEF CountBounded
  <2>2. /\ free[h] \in Nat /\ PerGroup \in Nat
        /\ IsFiniteSet(LiveIn(h)) /\ Cardinality(LiveIn(h)) \in Nat
    BY LiveFinite, Constants DEF Typed
  <2>3. CASE h = g
    <3>1. LiveIn(h)' = LiveIn(h) \ {n} /\ n \in LiveIn(h)
      BY <2>3 DEF LiveIn
    <3>2. Cardinality(LiveIn(h)') = Cardinality(LiveIn(h)) - 1
      BY <2>2, <3>1, FS_RemoveElement
    <3>3. free'[h] = free[h] + 1
      BY <2>3 DEF Typed
    <3> QED
      BY <2>1, <2>2, <3>2, <3>3
  <2>4. CASE h # g
    <3>1. LiveIn(h)' = LiveIn(h)
      BY <2>4 DEF LiveIn
    <3>2. free'[h] = free[h]
      BY <2>4 DEF Typed
    <3> QED
      BY <2>1, <3>1, <3>2
  <2> QED
    BY <2>3, <2>4
<1>7. MarkedUntilFreed' /\ CountsMatchBitmap'
  BY DEF MarkedUntilFreed, CountsMatchBitmap
<1> QED
  BY <1>4, <1>5, <1>6, <1>7

LEMMA RestartKeeps ==
  ASSUME IInv, Restart
  PROVE  IInv'
<1> USE DEF IInv, Restart
<1>1. /\ IsFiniteSet(FreeUnits') /\ Cardinality(FreeUnits') = SfreeAtMount
      /\ \A g \in GroupIds : free'[g] \in 0..PerGroup
      /\ SfreeAtMount \in Nat
  <2>1. free' = FreeAtMount /\ FreeUnits' = Units(free')
    BY DEF FreeUnits
  <2> QED
    BY <2>1, UnitsAtMount
<1>2. free' \in [GroupIds -> Nat]
  BY <1>1, Constants DEF FreeAtMount
<1>3. Typed'
  BY <1>1, <1>2 DEF Typed
<1> QED
  BY <1>1, <1>3, Constants DEF SumOfCounts, CountBounded, MarkedUntilFreed, CountsMatchBitmap

LEMMA InitIInv == Init => IInv
<1> SUFFICES ASSUME Init
             PROVE  IInv
  OBVIOUS
<1> USE DEF Init
<1>1. /\ IsFiniteSet(FreeUnits) /\ Cardinality(FreeUnits) = SfreeAtMount /\ SfreeAtMount \in Nat
      /\ \A g \in GroupIds : IsFiniteSet(Reserved(g)) /\ free[g] \in 0..PerGroup
      /\ \A g \in GroupIds : free[g] = PerGroup - Cardinality(Reserved(g))
  <2>1. free = FreeAtMount /\ FreeUnits = Units(free)
    BY DEF FreeUnits
  <2> HIDE DEF Init
  <2> QED
    BY <2>1, UnitsAtMount
<1>2. free \in [GroupIds -> Nat]
  BY <1>1, Constants DEF FreeAtMount
<1>3. bitmap \in [GroupIds -> SUBSET (0..(BlockBits - 1))]
  <2>1. ASSUME NEW g \in GroupIds
        PROVE  Reserved(g) \union (PerGroup..(BlockBits - 1)) \in SUBSET (0..(BlockBits - 1))
    BY Constants DEF Reserved
  <2> QED
    BY <2>1
<1>4. Typed
  BY <1>1, <1>2, <1>3 DEF Typed
<1>5. ASSUME NEW g \in GroupIds
      PROVE  Cardinality(LiveIn(g)) = 0
  <2>1. LiveIn(g) = {}
    BY DEF LiveIn
  <2> QED
    BY <2>1, FS_EmptySet
<1>6. CountBounded
  BY <1>1, <1>5, Constants DEF CountBounded
<1>7. SumOfCounts /\ MarkedUntilFreed
  BY <1>1 DEF SumOfCounts, MarkedUntilFreed
<1>8. ASSUME NEW g \in GroupIds
      PROVE  free[g] = Cardinality(ClearBits(g))
  <2> DEFINE S == 0..(PerGroup - 1)
  <2>0. PerGroup - 1 \in Int /\ ~(0 > PerGroup - 1) /\ PerGroup - 1 - 0 + 1 = PerGroup
    BY Constants
  <2>1. IsFiniteSet(S) /\ Cardinality(S) = PerGroup
    BY <2>0, FS_Interval
  <2>2. Reserved(g) \subseteq S
    BY DEF Reserved
  <2>3. ClearBits(g) = S \ Reserved(g)
    BY Constants DEF ClearBits
  <2>4. S \intersect Reserved(g) = Reserved(g)
    BY <2>2
  <2> HIDE DEF S
  <2>5. Cardinality(S \ Reserved(g)) = Cardinality(S) - Cardinality(S \intersect Reserved(g))
    BY <2>1, FS_Difference
  <2> QED
    BY <1>1, <2>1, <2>3, <2>4, <2>5
<1> QED
  BY <1>4, <1>6, <1>7, <1>8 DEF IInv, CountsMatchBitmap

LEMMA NextIInv == IInv /\ [Next]_vars => IInv'
<1> SUFFICES ASSUME IInv, [Next]_vars
             PROVE  IInv'
  OBVIOUS
<1>1. ASSUME UNCHANGED <<bitmap, free, sfree, live, dirs, freed, restarted>>,
             freeBlocks' \in [GroupIds -> 0..MaxBlocks], panicked' \in BOOLEAN
      PROVE  IInv'
  <2>1. Typed'
    BY <1>1 DEF IInv, Typed
  <2>2. SumOfCounts'
    BY <1>1 DEF IInv, SumOfCounts, FreeUnits, Units
  <2>3. CountBounded'
    BY <1>1 DEF IInv, CountBounded, LiveIn
  <2>4. MarkedUntilFreed'
    BY <1>1 DEF IInv, MarkedUntilFreed
  <2>5. CountsMatchBitmap'
    BY <1>1 DEF IInv, CountsMatchBitmap, ClearBits
  <2> QED
    BY <2>1, <2>2, <2>3, <2>4, <2>5 DEF IInv
<1>2. CASE UNCHANGED vars
  BY <1>1, <1>2 DEF vars, IInv, Typed
<1>3. CASE NothingDone
  BY <1>1, <1>3 DEF NothingDone, IInv, Typed
<1>4. ASSUME NEW g \in GroupIds, BlockCount(g)
      PROVE  IInv'
  <2>1. freeBlocks' \in [GroupIds -> 0..MaxBlocks]
    BY <1>4 DEF BlockCount, IInv, Typed
  <2>2. UNCHANGED <<bitmap, free, sfree, live, dirs, freed, restarted, panicked>>
    BY <1>4 DEF BlockCount
  <2> QED
    BY <1>1, <2>1, <2>2 DEF IInv, Typed
<1>5. CASE Next
  BY <1>3, <1>4, <1>5, StepKinds, AllocatedKeeps, ReleasedKeeps, RestartKeeps DEF IInv
<1> QED
  BY <1>2, <1>5

LEMMA Invariant == Spec => []IInv
  BY InitIInv, NextIInv, PTL DEF Spec

-------------------------------------------------------------------------------
(* Theorems *)

\* No count ever goes below zero, neither a group's nor that of the superblock, and until
\* a restart no group promises more inodes than it has (alloc_inode_bit, free_inode_bit).
THEOREM TypeCorrect == Spec => []TypeOK
<1>1. IInv => TypeOK
  <2> SUFFICES ASSUME IInv
               PROVE  TypeOK
    OBVIOUS
  <2>1. ASSUME ~restarted, NEW g \in GroupIds
        PROVE  free[g] <= PerGroup
    <3>1. free[g] + Cardinality(LiveIn(g)) <= PerGroup
      BY <2>1 DEF IInv, CountBounded
    <3>2. free[g] \in Nat /\ Cardinality(LiveIn(g)) \in Nat /\ PerGroup \in Nat
      BY LiveFinite, Constants DEF IInv, Typed
    <3> QED
      BY <3>1, <3>2
  <2> QED
    BY <2>1 DEF IInv, Typed, TypeOK
<1> QED
  BY <1>1, Invariant, PTL

\* As long as no inode is freed and the handler not started again, a group's count is the
\* number of clear bits in its bitmap, so alloc_inode_bit finds the inode the descriptor
\* promises (inode.c:193).
THEOREM CountsAgree == Spec => []CountsMatchBitmap
<1>1. IInv => CountsMatchBitmap
  BY DEF IInv
<1> QED
  BY <1>1, Invariant, PTL

\* find_free_inode_dir_group finds a group whenever some group has a free inode: the
\* groups cannot all be below the average (inode.c:274).
THEOREM DirSearchFinds == Spec => []DirSearchComplete
<1>1. IInv => DirSearchComplete
  <2> SUFFICES ASSUME IInv, Candidates = {}, NEW g \in GroupIds, free[g] # 0
               PROVE  FALSE
    BY GroupsFound DEF IInv, DirSearchComplete
  <2> DEFINE a == sfree \div Groups
  <2>1. sfree \in Nat /\ Groups \in Nat \ {0} /\ free \in [GroupIds -> Nat]
    BY Constants DEF IInv, Typed
  <2>2. a \in Nat /\ a * Groups <= sfree
    BY <2>1
  <2>3. \A h \in GroupIds : free[h] > 0 => free[h] < a
    BY <2>1, <2>2 DEF Candidates
  <2> HIDE DEF a
  <2>4. a >= 1 /\ a - 1 \in Nat
    BY <2>1, <2>2, <2>3
  <2>5. \A h \in GroupIds : free[h] <= a - 1
    BY <2>1, <2>2, <2>3, <2>4
  <2>6. Cardinality(FreeUnits) <= Groups * (a - 1)
    BY <2>4, <2>5, UnitsBound DEF IInv
  <2>7. sfree <= Groups * (a - 1)
    BY <2>6 DEF IInv, SumOfCounts
  <2>8. Groups * (a - 1) = a * Groups - Groups /\ a * Groups \in Nat
    BY <2>1, <2>2
  <2> QED
    BY <2>1, <2>2, <2>7, <2>8
<1> QED
  BY <1>1, Invariant, PTL

\* Until an inode is freed, new_inode is never given one that is in use: neither in one
\* run of the handler nor after a restart with counts that promise too much.
THEOREM HandedOutOnce == Spec => NeverHandedOutTwice
<1>1. IInv /\ [Next]_vars
        => [~freed /\ sfree' < sfree => Cardinality(live') = Cardinality(live) + 1]_vars
  <2> SUFFICES ASSUME IInv, Next, ~freed, sfree' < sfree
               PROVE  Cardinality(live') = Cardinality(live) + 1
    BY DEF vars
  <2>1. sfree \in Nat /\ Typed
    BY DEF IInv, Typed
  <2>2. ASSUME NEW g \in GroupIds, NEW b \in ClearBits(g), Allocated(g, b)
        PROVE  Cardinality(live') = Cardinality(live) + 1
    <3>1. b \in 0..(PerGroup - 1) /\ b \notin bitmap[g]
      BY DEF ClearBits
    <3>2. InoAt(g, b) \notin live
      BY <3>1, Numbering DEF IInv, MarkedUntilFreed
    <3>3. live' = live \union {InoAt(g, b)}
      BY <2>2 DEF Allocated
    <3> QED
      BY <2>1, <3>2, <3>3, LiveFinite, FS_AddElement
  <2>3. ~(\E n \in live : Released(n)) /\ ~NothingDone /\ ~(\E g \in GroupIds : BlockCount(g))
    BY <2>1 DEF Released, NothingDone, BlockCount
  <2>4. ~Restart
    BY <2>1, Constants DEF Restart, IInv, MarkedUntilFreed, SfreeAtMount
  <2> QED
    BY <2>1, <2>2, <2>3, <2>4, StepKinds
<1> QED
  BY <1>1, Invariant, PTL DEF Spec, NeverHandedOutTwice
===============================================================================
