--------------------------- MODULE InodeCacheProofs ---------------------------
(***************************************************************************)
(* Proofs about InodeCache for any number of slots and inodes: the slots,  *)
(* the hash lists and the unused list stay consistent, a referenced slot   *)
(* keeps its inode, no link count and no change by a request other than    *)
(* for file data is lost when a slot is recycled, and the cache implements *)
(* InodeStore.                                                             *)
(***************************************************************************)
EXTENDS InodeCache, FiniteSetTheorems, TLAPS

SlotRecords == [ino : Inos \union {NO_ENTRY}, count : Nat, dirty : BOOLEAN, odi : Ondisk]

\* The lists and the slots together are inductive.
Inv == TypeOK /\ OneSlotPerInode /\ UnusedExact

-------------------------------------------------------------------------------
\* What the proofs need of the constants.
LEMMA Constants ==
  NumSlots \in Nat \ {0} /\ 0 \in Vals /\ MaxLinks \in Nat /\ MaxHeld \in Nat /\ NO_ENTRY \notin Inos
BY CacheAssumption

(* Removing a slot from the unused list. *)

\* LIST_REM_ENTRY takes out exactly the slot it is given, when it is in the list
\* once.
LEMMA WithoutRemoves ==
  ASSUME unused \in Seq(Slots), NEW s \in Slots, InUnused(s),
         \A j, k \in 1..Len(unused) : unused[j] = unused[k] => j = k
  PROVE  /\ Without(s) \in Seq(Slots)
         /\ \A t \in Slots : (\E j \in 1..Len(Without(s)) : Without(s)[j] = t)
                               <=> InUnused(t) /\ t # s
         /\ \A j, k \in 1..Len(Without(s)) : Without(s)[j] = Without(s)[k] => j = k
<1> DEFINE p == Position(s)
           w == Without(s)
           m == Len(unused)
<1>1. p \in 1..m /\ unused[p] = s
  BY DEF InUnused, Position
<1>2. m \in Nat /\ m - 1 \in Nat
  BY <1>1
<1>3. w = [j \in 1..(m - 1) |-> IF j < p THEN unused[j] ELSE unused[j + 1]]
  BY DEF Without
<1> HIDE DEF p, w, m
<1>4. \A j \in 1..m : unused[j] \in Slots
  BY DEF m
<1>5. \A j \in 1..(m - 1) : w[j] \in Slots
  BY <1>1, <1>2, <1>3, <1>4
<1>6. w \in Seq(Slots) /\ Len(w) = m - 1
  <2>1. w \in [1..(m - 1) -> Slots]
    BY <1>3, <1>5
  <2> QED BY <2>1, <1>2
<1>7. \A j, k \in 1..m : unused[j] = unused[k] => j = k
  BY DEF m
<1>8. \A j \in 1..(m - 1) : w[j] # s
  BY <1>1, <1>2, <1>3, <1>7
<1>9. \A t \in Slots : (\E j \in 1..(m - 1) : w[j] = t) <=> (\E j \in 1..m : unused[j] = t) /\ t # s
  <2> TAKE t \in Slots
  <2>1. ASSUME NEW j \in 1..(m - 1), w[j] = t
        PROVE  (\E k \in 1..m : unused[k] = t) /\ t # s
    <3>1. j \in 1..m /\ j + 1 \in 1..m
      BY <1>2
    <3> QED BY <3>1, <2>1, <1>3, <1>8
  <2>2. ASSUME NEW j \in 1..m, unused[j] = t, t # s
        PROVE  \E k \in 1..(m - 1) : w[k] = t
    <3>1. CASE j < p
      <4>1. j \in 1..(m - 1)
        BY <3>1, <1>1, <1>2
      <4> QED BY <4>1, <3>1, <2>2, <1>3
    <3>2. CASE ~(j < p)
      <4>1. j # p
        BY <2>2, <1>1
      <4>2. j - 1 \in 1..(m - 1) /\ ~(j - 1 < p) /\ (j - 1) + 1 = j
        BY <4>1, <3>2, <1>1, <1>2
      <4> QED BY <4>2, <2>2, <1>3
    <3> QED BY <3>1, <3>2
  <2> QED BY <2>1, <2>2
<1>10. \A j, k \in 1..(m - 1) : w[j] = w[k] => j = k
  <2> SUFFICES ASSUME NEW j \in 1..(m - 1), NEW k \in 1..(m - 1), w[j] = w[k]
               PROVE  j = k
    OBVIOUS
  <2>1. j \in 1..m /\ k \in 1..m /\ j + 1 \in 1..m /\ k + 1 \in 1..m
    BY <1>2
  <2> QED BY <2>1, <1>1, <1>2, <1>3, <1>7
<1> QED BY <1>6, <1>9, <1>10 DEF InUnused, m, w

-------------------------------------------------------------------------------
(* The invariant, action by action. *)

LEMMA InitInv == Init => Inv
<1> SUFFICES ASSUME Init PROVE Inv
  OBVIOUS
<1> USE Constants
<1>1. Len(unused) = NumSlots /\ unused \in Seq(Slots)
  <2>1. unused \in [1..NumSlots -> Slots]
    BY DEF Init, Slots
  <2> QED BY <2>1
<1>2. Cleared \in Ondisk
  BY DEF Cleared, Ondisk
<1>3. slot \in [Slots -> SlotRecords]
  BY <1>2 DEF Init, SlotRecords
<1>4. TypeOK
  <2>1. held \in 0..MaxHeld
    BY DEF Init
  <2> QED BY <1>1, <1>3, <2>1 DEF Init, TypeOK, SlotRecords
<1>5. OneSlotPerInode
  BY DEF Init, OneSlotPerInode
<1>6. UnusedExact
  <2>1. \A s \in Slots : unused[s] = s /\ slot[s].count = 0
    BY DEF Init
  <2> QED BY <1>1, <2>1 DEF UnusedExact, InUnused, Slots
<1> QED BY <1>4, <1>5, <1>6 DEF Inv

\* A step that leaves every slot's inode and reference count alone, and the list.
LEMMA SameSlotsInv ==
  ASSUME Inv, slot' \in [Slots -> SlotRecords], disk' \in [Inos -> Ondisk],
         \A s \in Slots : slot'[s].ino = slot[s].ino /\ slot'[s].count = slot[s].count,
         UNCHANGED <<unused, held, releasing>>, late' \subseteq Inos
  PROVE  Inv'
<1>1. TypeOK'
  BY DEF Inv, TypeOK, SlotRecords
<1>2. OneSlotPerInode'
  BY DEF Inv, OneSlotPerInode
<1>3. UnusedExact'
  BY DEF Inv, UnusedExact, InUnused
<1> QED BY <1>1, <1>2, <1>3 DEF Inv

LEMMA GetCachedInv ==
  ASSUME Inv, NEW n \in Inos, GetCached(n), disk' = disk, releasing' = releasing,
         held' \in 0..MaxHeld
  PROVE  Inv'
<1>1. PICK s \in Hashed(n) :
        /\ unused' = IF slot[s].count = 0 THEN Without(s) ELSE unused
        /\ slot' = [slot EXCEPT ![s].count = @ + 1]
  BY DEF GetCached
<1>2. s \in Slots /\ slot[s] \in SlotRecords /\ slot \in [Slots -> SlotRecords]
  BY <1>1 DEF Hashed, Inv, TypeOK, SlotRecords
<1>3. slot' \in [Slots -> SlotRecords]
  BY <1>1, <1>2 DEF SlotRecords
<1>4. \A t \in Slots : slot'[t].ino = slot[t].ino
  BY <1>1, <1>2 DEF SlotRecords
<1>5. slot'[s].count > 0 /\ \A t \in Slots \ {s} : slot'[t].count = slot[t].count
  BY <1>1, <1>2 DEF SlotRecords
<1>6. OneSlotPerInode'
  BY <1>4 DEF Inv, OneSlotPerInode
<1>7. unused \in Seq(Slots) /\ \A j, k \in 1..Len(unused) : unused[j] = unused[k] => j = k
  BY DEF Inv, TypeOK, UnusedExact
<1>8. unused' \in Seq(Slots) /\ UnusedExact'
  <2>1. CASE slot[s].count = 0
    <3>1. InUnused(s)
      BY <2>1, <1>2 DEF Inv, UnusedExact
    <3>2. unused' = Without(s)
      BY <2>1, <1>1
    <3>3. /\ Without(s) \in Seq(Slots)
          /\ \A t \in Slots : (\E j \in 1..Len(Without(s)) : Without(s)[j] = t)
                                <=> InUnused(t) /\ t # s
          /\ \A j, k \in 1..Len(Without(s)) : Without(s)[j] = Without(s)[k] => j = k
      BY <3>1, <1>2, <1>7, WithoutRemoves
    <3>4. \A t \in Slots : (\E j \in 1..Len(unused') : unused'[j] = t)
                              <=> InUnused(t) /\ t # s
      BY <3>2, <3>3
    <3>5. \A t \in Slots : InUnused(t)' <=> slot'[t].count = 0
      BY <3>4, <1>2, <1>5 DEF Inv, UnusedExact, InUnused
    <3> QED BY <3>2, <3>3, <3>5 DEF UnusedExact
  <2>2. CASE slot[s].count # 0
    <3>1. unused' = unused
      BY <2>2, <1>1
    <3>2. \A t \in Slots : slot'[t].count = 0 <=> slot[t].count = 0
      BY <2>2, <1>5
    <3> QED BY <3>1, <3>2, <1>7 DEF Inv, UnusedExact, InUnused
  <2> QED BY <2>1, <2>2
<1>9. TypeOK'
  BY <1>3, <1>8 DEF Inv, TypeOK, SlotRecords, GetCached
<1> QED BY <1>6, <1>8, <1>9 DEF Inv

LEMMA GetFromDiskInv ==
  ASSUME Inv, NEW n \in Inos, GetFromDisk(n), disk' = disk, releasing' = releasing,
         held' \in 0..MaxHeld
  PROVE  Inv'
<1> DEFINE s == Head(unused)
<1>1. /\ Hashed(n) = {}
      /\ unused' = Tail(unused)
      /\ slot' = [slot EXCEPT ![s] =
                    [ino |-> n, count |-> 1, dirty |-> slot[s].dirty, odi |-> disk[n]]]
  BY DEF GetFromDisk
<1>2. unused \in Seq(Slots) /\ unused # <<>>
  BY DEF Inv, TypeOK, GetFromDisk
<1>3. /\ s \in Slots /\ s = unused[1] /\ Len(unused) \in Nat \ {0}
      /\ unused' \in Seq(Slots) /\ Len(unused') = Len(unused) - 1
      /\ \A j \in 1..Len(unused') : unused'[j] = unused[j + 1]
  BY <1>1, <1>2
<1> HIDE DEF s
<1>4. slot \in [Slots -> SlotRecords] /\ slot[s] \in SlotRecords /\ disk[n] \in Ondisk
  BY <1>3 DEF Inv, TypeOK, SlotRecords
<1>5. slot' \in [Slots -> SlotRecords]
  BY <1>1, <1>3, <1>4 DEF SlotRecords
<1>6. /\ slot'[s].ino = n /\ slot'[s].count = 1
      /\ \A t \in Slots \ {s} : slot'[t] = slot[t]
  BY <1>1, <1>3, <1>4
<1>7. OneSlotPerInode'
  BY <1>1, <1>6 DEF Inv, OneSlotPerInode, Hashed
<1>8. \A j, k \in 1..Len(unused) : unused[j] = unused[k] => j = k
  BY DEF Inv, UnusedExact
<1>9. \A j, k \in 1..Len(unused') : unused'[j] = unused'[k] => j = k
  <2> SUFFICES ASSUME NEW j \in 1..Len(unused'), NEW k \in 1..Len(unused'),
                      unused'[j] = unused'[k]
               PROVE  j = k
    OBVIOUS
  <2>1. j + 1 \in 1..Len(unused) /\ k + 1 \in 1..Len(unused)
    BY <1>3
  <2> QED BY <2>1, <1>3, <1>8
<1>10. \A t \in Slots : InUnused(t)' <=> InUnused(t) /\ t # s
  <2> TAKE t \in Slots
  <2>1. ASSUME NEW j \in 1..Len(unused'), unused'[j] = t
        PROVE  InUnused(t) /\ t # s
    <3>1. j + 1 \in 1..Len(unused) /\ 1 \in 1..Len(unused) /\ j + 1 # 1
      BY <1>3
    <3> QED BY <3>1, <2>1, <1>3, <1>8 DEF InUnused
  <2>2. ASSUME NEW j \in 1..Len(unused), unused[j] = t, t # s
        PROVE  InUnused(t)'
    <3>1. j # 1
      BY <2>2, <1>3
    <3>2. j - 1 \in 1..Len(unused') /\ (j - 1) + 1 = j
      BY <3>1, <1>3
    <3> QED BY <3>2, <2>2, <1>3 DEF InUnused
  <2> QED BY <2>1, <2>2 DEF InUnused
<1>11. UnusedExact'
  BY <1>6, <1>9, <1>10 DEF Inv, UnusedExact
<1>12. late' \subseteq Inos
  BY DEF GetFromDisk, Inv, TypeOK
<1>13. TypeOK'
  BY <1>3, <1>5, <1>12 DEF Inv, TypeOK, SlotRecords
<1> QED BY <1>7, <1>11, <1>13 DEF Inv

LEMMA PutSharedInv ==
  ASSUME Inv, NEW s \in Slots, PutShared(s), releasing' \in BOOLEAN, held' \in 0..MaxHeld
  PROVE  Inv'
<1>1. slot \in [Slots -> SlotRecords] /\ slot[s] \in SlotRecords /\ slot[s].count > 1
  BY DEF Inv, TypeOK, SlotRecords, PutShared
<1>2. slot' = [slot EXCEPT ![s].count = @ - 1, ![s].dirty = FALSE] /\ unused' = unused
  BY DEF PutShared
<1>3. slot' \in [Slots -> SlotRecords]
  <2>1. slot[s].count - 1 \in Nat
    BY <1>1 DEF SlotRecords
  <2> QED BY <2>1, <1>1, <1>2 DEF SlotRecords
<1>4. \A t \in Slots : slot'[t].ino = slot[t].ino /\ (slot'[t].count = 0 <=> slot[t].count = 0)
  BY <1>1, <1>2 DEF SlotRecords
<1>5. disk' \in [Inos -> Ondisk] /\ late' \subseteq Inos
  BY <1>1 DEF PutShared, FlushIfDirty, Inv, TypeOK, SlotRecords
<1>6. TypeOK'
  BY <1>2, <1>3, <1>5 DEF Inv, TypeOK, SlotRecords
<1>7. OneSlotPerInode'
  BY <1>4 DEF Inv, OneSlotPerInode
<1>8. UnusedExact'
  BY <1>2, <1>4 DEF Inv, UnusedExact, InUnused
<1> QED BY <1>6, <1>7, <1>8 DEF Inv

LEMMA PutLastInv ==
  ASSUME Inv, NEW s \in Slots, PutLast(s), releasing' \in BOOLEAN, held' \in 0..MaxHeld
  PROVE  Inv'
<1>1. slot \in [Slots -> SlotRecords] /\ slot[s] \in SlotRecords /\ slot[s].count = 1
  BY DEF Inv, TypeOK, SlotRecords, PutLast
<1>2. /\ slot' = [slot EXCEPT ![s].count = 0, ![s].dirty = FALSE]
      /\ unused' = Append(unused, s)
  BY DEF PutLast
<1>3. slot' \in [Slots -> SlotRecords]
  BY <1>1, <1>2 DEF SlotRecords
<1>4. /\ \A t \in Slots : slot'[t].ino = slot[t].ino
      /\ slot'[s].count = 0
      /\ \A t \in Slots \ {s} : slot'[t].count = slot[t].count
  BY <1>1, <1>2 DEF SlotRecords
<1>5. disk' \in [Inos -> Ondisk] /\ late' \subseteq Inos
  BY <1>1 DEF PutLast, FlushIfDirty, Inv, TypeOK, SlotRecords
<1>6. unused \in Seq(Slots) /\ ~InUnused(s)
  BY <1>1 DEF Inv, TypeOK, UnusedExact
<1>7. /\ unused' \in Seq(Slots) /\ Len(unused) \in Nat /\ Len(unused') = Len(unused) + 1
      /\ \A j \in 1..Len(unused) : unused'[j] = unused[j]
      /\ unused'[Len(unused) + 1] = s
  BY <1>2, <1>6
<1>8. \A t \in Slots : InUnused(t)' <=> InUnused(t) \/ t = s
  BY <1>7 DEF InUnused
<1>9. \A j, k \in 1..Len(unused') : unused'[j] = unused'[k] => j = k
  <2>1. \A j, k \in 1..Len(unused) : unused[j] = unused[k] => j = k
    BY DEF Inv, UnusedExact
  <2>2. \A j \in 1..Len(unused) : unused[j] # s
    BY <1>6 DEF InUnused
  <2> QED BY <2>1, <2>2, <1>7
<1>10. TypeOK'
  BY <1>3, <1>5, <1>7 DEF Inv, TypeOK, SlotRecords
<1>11. OneSlotPerInode'
  BY <1>4 DEF Inv, OneSlotPerInode
<1>12. UnusedExact'
  BY <1>4, <1>8, <1>9 DEF Inv, UnusedExact
<1> QED BY <1>10, <1>11, <1>12 DEF Inv

LEMMA PutFreeInv ==
  ASSUME Inv, NEW s \in Slots, PutFree(s), releasing' \in BOOLEAN, held' \in 0..MaxHeld
  PROVE  Inv'
<1>1. slot \in [Slots -> SlotRecords] /\ slot[s] \in SlotRecords /\ slot[s].count = 1
  BY DEF Inv, TypeOK, SlotRecords, PutFree
<1>2. /\ slot' = [slot EXCEPT ![s] =
                    [ino |-> NO_ENTRY, count |-> 0, dirty |-> FALSE, odi |-> Cleared]]
      /\ unused' = <<s>> \o unused
      /\ disk' = [disk EXCEPT ![slot[s].ino] = Cleared]
  BY DEF PutFree
<1>3. Cleared \in Ondisk
  BY Constants DEF Cleared, Ondisk
<1>4. slot' \in [Slots -> SlotRecords]
  BY <1>1, <1>2, <1>3 DEF SlotRecords
<1>5. /\ slot'[s].ino = NO_ENTRY /\ slot'[s].count = 0
      /\ \A t \in Slots \ {s} : slot'[t] = slot[t]
  BY <1>1, <1>2 DEF SlotRecords
<1>6. disk' \in [Inos -> Ondisk] /\ late' \subseteq Inos
  BY <1>2, <1>3 DEF PutFree, Inv, TypeOK
<1>7. unused \in Seq(Slots) /\ ~InUnused(s)
  BY <1>1 DEF Inv, TypeOK, UnusedExact
<1>8. /\ unused' \in Seq(Slots) /\ Len(unused) \in Nat /\ Len(unused') = Len(unused) + 1
      /\ unused'[1] = s
      /\ \A j \in 2..(Len(unused) + 1) : unused'[j] = unused[j - 1]
  BY <1>2, <1>7
<1>9. \A t \in Slots : InUnused(t)' <=> InUnused(t) \/ t = s
  <2> TAKE t \in Slots
  <2>1. ASSUME NEW j \in 1..Len(unused), unused[j] = t
        PROVE  InUnused(t)'
    <3>1. j + 1 \in 2..(Len(unused) + 1) /\ j + 1 \in 1..Len(unused') /\ (j + 1) - 1 = j
      BY <1>8
    <3> QED BY <3>1, <2>1, <1>8 DEF InUnused
  <2>2. ASSUME NEW j \in 1..Len(unused'), unused'[j] = t, t # s
        PROVE  InUnused(t)
    <3>1. j \in 2..(Len(unused) + 1) /\ j - 1 \in 1..Len(unused)
      BY <2>2, <1>8
    <3> QED BY <3>1, <2>2, <1>8 DEF InUnused
  <2>3. InUnused(s)'
    BY <1>8 DEF InUnused
  <2> QED BY <2>1, <2>2, <2>3 DEF InUnused
<1>10. \A j, k \in 1..Len(unused') : unused'[j] = unused'[k] => j = k
  <2>1. \A j, k \in 1..Len(unused) : unused[j] = unused[k] => j = k
    BY DEF Inv, UnusedExact
  <2>2. \A j \in 1..Len(unused) : unused[j] # s
    BY <1>7 DEF InUnused
  <2>3. \A j \in 1..Len(unused') : j = 1 \/ (j - 1 \in 1..Len(unused) /\ unused'[j] = unused[j - 1])
    BY <1>8
  <2> SUFFICES ASSUME NEW j \in 1..Len(unused'), NEW k \in 1..Len(unused'),
                      unused'[j] = unused'[k]
               PROVE  j = k
    OBVIOUS
  <2>4. CASE j # 1 /\ k # 1
    <3>1. j - 1 = k - 1
      BY <2>1, <2>3, <2>4
    <3> QED BY <3>1, <1>8
  <2> QED BY <2>2, <2>3, <2>4, <1>8
<1>11. TypeOK'
  BY <1>4, <1>6, <1>8 DEF Inv, TypeOK, SlotRecords
<1>12. OneSlotPerInode'
  BY <1>5 DEF Inv, OneSlotPerInode
<1>13. UnusedExact'
  BY <1>5, <1>9, <1>10 DEF Inv, UnusedExact
<1> QED BY <1>11, <1>12, <1>13 DEF Inv

LEMMA NextInv == Inv /\ [Next]_vars => Inv'
<1> SUFFICES ASSUME Inv, [Next]_vars PROVE Inv'
  OBVIOUS
<1> USE Constants
<1>1. slot \in [Slots -> SlotRecords] /\ disk \in [Inos -> Ondisk] /\ held \in 0..MaxHeld
      /\ releasing \in BOOLEAN /\ late \subseteq Inos
  BY DEF Inv, TypeOK, SlotRecords
<1>2. CASE UNCHANGED vars
  BY <1>1, <1>2, SameSlotsInv DEF vars
<1>3. ASSUME NEW n \in Inos, Get(n)
      PROVE  Inv'
  <2>1. held' \in 0..MaxHeld /\ disk' = disk /\ releasing' = releasing
    BY <1>1, <1>3 DEF Get
  <2>2. CASE UNCHANGED <<slot, unused, held, late>>
    BY <2>1, <2>2, <1>1, SameSlotsInv
  <2> QED BY <2>1, <2>2, <1>3, GetCachedInv, GetFromDiskInv DEF Get
<1>4. ASSUME NEW n \in Inos, NEW s \in Hashed(n), NEW v \in Vals, NEW d \in BOOLEAN,
             slot' = [slot EXCEPT ![s].odi.val = v, ![s].dirty = d],
             disk' = disk \/ disk' = [disk EXCEPT ![n] = [slot[s].odi EXCEPT !.val = v]],
             UNCHANGED <<unused, held, releasing>>, late' \subseteq Inos
      PROVE  Inv'
  <2>1. s \in Slots /\ slot[s] \in SlotRecords
    BY <1>1 DEF Hashed
  <2>2. slot[s].odi \in Ondisk /\ [slot[s].odi EXCEPT !.val = v] \in Ondisk
    BY <2>1 DEF SlotRecords, Ondisk
  <2>3. slot' \in [Slots -> SlotRecords]
    BY <1>1, <1>4, <2>1, <2>2 DEF SlotRecords
  <2>4. disk' \in [Inos -> Ondisk]
    BY <1>1, <1>4, <2>2
  <2>5. \A t \in Slots : slot'[t].ino = slot[t].ino /\ slot'[t].count = slot[t].count
    BY <1>1, <1>4, <2>1 DEF SlotRecords
  <2> QED BY <1>4, <2>3, <2>4, <2>5, SameSlotsInv
<1>5. ASSUME NEW n \in Inos, ReadFile(n) \/ WriteFile(n) \/ FailedWrite(n)
      PROVE  Inv'
  <2>1. CASE ReadFile(n)
    BY <1>1, <1>4, <2>1 DEF ReadFile
  <2>2. CASE WriteFile(n)
    BY <1>1, <1>4, <2>2 DEF WriteFile
  <2>3. CASE FailedWrite(n)
    <3>1. PICK s \in Hashed(n), v \in Vals, d \in BOOLEAN :
            slot' = [slot EXCEPT ![s].odi.val = v, ![s].dirty = (slot[s].dirty \/ d)]
      BY <2>3 DEF FailedWrite
    <3>2. (slot[s].dirty \/ d) \in BOOLEAN
      BY <1>1 DEF Hashed, SlotRecords
    <3> QED BY <1>1, <1>4, <2>3, <3>1, <3>2 DEF FailedWrite
  <2> QED BY <1>5, <2>1, <2>2, <2>3
<1>6. ASSUME NEW s \in Slots, Modify(s)
      PROVE  Inv'
  <2>1. slot' \in [Slots -> SlotRecords]
    <3>1. PICK a \in Ondisk : slot' = [slot EXCEPT ![s].odi = a, ![s].dirty = TRUE]
      BY <1>6 DEF Modify
    <3> QED BY <3>1, <1>1 DEF SlotRecords
  <2>2. \A t \in Slots : slot'[t].ino = slot[t].ino /\ slot'[t].count = slot[t].count
    BY <1>1, <1>6 DEF Modify, SlotRecords
  <2> QED BY <1>1, <1>6, <2>1, <2>2, SameSlotsInv DEF Modify
<1>7. ASSUME NEW s \in Slots, Flush(s)
      PROVE  Inv'
  <2>1. slot' \in [Slots -> SlotRecords]
    BY <1>1, <1>7 DEF Flush, SlotRecords
  <2>2. \A t \in Slots : slot'[t].ino = slot[t].ino /\ slot'[t].count = slot[t].count
    BY <1>1, <1>7 DEF Flush, SlotRecords
  <2>3. disk' \in [Inos -> Ondisk] /\ late' \subseteq Inos
    BY <1>1, <1>7 DEF Flush, SlotRecords
  <2> QED BY <1>1, <1>7, <2>1, <2>2, <2>3, SameSlotsInv DEF Flush
<1>8. ASSUME NEW s \in Slots, Put(s)
      PROVE  Inv'
  <2>1. held' \in 0..MaxHeld /\ releasing' \in BOOLEAN
    BY <1>1, <1>8 DEF Put
  <2> QED BY <2>1, <1>8, PutSharedInv, PutLastInv, PutFreeInv DEF Put
<1> QED BY <1>2, <1>3, <1>5, <1>6, <1>7, <1>8 DEF Next

\* The slots, the hash lists and the unused list are consistent in every state.
THEOREM Invariance == Spec => []Inv
<1>1. Init => Inv
  BY InitInv
<1>2. Inv /\ [Next]_vars => Inv'
  BY NextInv
<1> QED BY <1>1, <1>2, PTL DEF Spec

\* Every variable keeps its type, however get_inode and put_inode interleave.
THEOREM TypeCorrect == Spec => []TypeOK
<1>1. Inv => TypeOK
  BY DEF Inv
<1> QED BY <1>1, Invariance, PTL

\* find_inode and get_inode never have two slots to choose from, get_inode recycles only
\* slots without references, and put_inode returns each slot to the unused list once.
THEOREM TableStaysExact == Spec => []TableExact
<1>1. Inv => TableExact
  BY DEF Inv, TableExact
<1> QED
  BY <1>1, Invariance, PTL

\* A slot keeps its inode for as long as it is referenced.
THEOREM ReferencedSlotsStay == Spec => HeldStaysPut
<1> DEFINE Stays(s) == slot[s].count > 0 /\ slot'[s].count > 0 => slot'[s].ino = slot[s].ino
<1>1. ASSUME Inv, [Next]_vars
      PROVE  [\A s \in Slots : Stays(s)]_vars
  <2>1. slot \in [Slots -> SlotRecords] /\ unused \in Seq(Slots)
    BY <1>1 DEF Inv, TypeOK, SlotRecords
  <2> SUFFICES ASSUME Next, NEW s \in Slots, slot[s].count > 0, slot'[s].count > 0
               PROVE  slot'[s].ino = slot[s].ino
    BY <1>1
  <2>2. ASSUME NEW n \in Inos, Get(n)
        PROVE  slot'[s].ino = slot[s].ino
    <3>1. CASE GetCached(n)
      BY <3>1, <2>1 DEF GetCached, Hashed, SlotRecords
    <3>2. CASE GetFromDisk(n)
      <4>1. Head(unused) = unused[1] /\ 1 \in 1..Len(unused) /\ Head(unused) \in Slots
        BY <3>2, <2>1 DEF GetFromDisk
      <4>2. slot[Head(unused)].count = 0
        BY <4>1, <1>1 DEF Inv, UnusedExact, InUnused
      <4>3. s # Head(unused)
        BY <4>2
      <4> QED BY <3>2, <4>3, <2>1 DEF GetFromDisk
    <3> QED BY <2>2, <3>1, <3>2 DEF Get
  <2>3. ASSUME NEW n \in Inos, ReadFile(n) \/ WriteFile(n) \/ FailedWrite(n)
        PROVE  slot'[s].ino = slot[s].ino
    <3>1. CASE ReadFile(n)
      BY <3>1, <2>1 DEF ReadFile, Hashed, SlotRecords
    <3>2. CASE WriteFile(n)
      BY <3>2, <2>1 DEF WriteFile, Hashed, SlotRecords
    <3>3. CASE FailedWrite(n)
      BY <3>3, <2>1 DEF FailedWrite, Hashed, SlotRecords
    <3> QED BY <2>3, <3>1, <3>2, <3>3
  <2>4. ASSUME NEW t \in Slots, Modify(t) \/ Flush(t)
        PROVE  slot'[s].ino = slot[s].ino
    <3>1. CASE Modify(t)
      BY <3>1, <2>1 DEF Modify, SlotRecords
    <3>2. CASE Flush(t)
      BY <3>2, <2>1 DEF Flush, SlotRecords
    <3> QED BY <2>4, <3>1, <3>2
  <2>5. ASSUME NEW t \in Slots, Put(t)
        PROVE  slot'[s].ino = slot[s].ino
    <3>1. CASE PutShared(t)
      BY <3>1, <2>1 DEF PutShared, SlotRecords
    <3>2. CASE PutLast(t)
      BY <3>2, <2>1 DEF PutLast, SlotRecords
    <3>3. CASE PutFree(t)
      <4>1. s # t
        BY <3>3, <2>1 DEF PutFree, SlotRecords
      <4> QED BY <4>1, <3>3, <2>1 DEF PutFree
    <3> QED BY <2>5, <3>1, <3>2, <3>3 DEF Put
  <2> QED BY <2>2, <2>3, <2>4, <2>5 DEF Next
<1> QED BY <1>1, Invariance, PTL DEF Spec, HeldStaysPut

-------------------------------------------------------------------------------
(* What the cached copies and the inode table agree on. *)

\* A referenced slot holds an inode; what an unreferenced or clean one may differ in
\* from the table is bounded.
Referenced == \A s \in Slots : slot[s].count > 0 => slot[s].ino \in Inos
SavedInv   == Referenced /\ SavedWhenClean

\* Slot s keeps its inode, and at most that inode's table entry and lateness change.
LEMMA SlotStep ==
  ASSUME Inv, SavedInv, NEW s \in Slots,
         \A t \in Slots \ {s} : slot'[t] = slot[t],
         slot'[s].ino = slot[s].ino, slot[s].ino \in Inos,
         disk' = disk \/ \E x : disk' = [disk EXCEPT ![slot[s].ino] = x],
         \A n \in Inos \ {slot[s].ino} : n \in late' <=> n \in late,
         ~slot'[s].dirty \/ slot'[s].count = 0 =>
           /\ slot'[s].odi.links = disk'[slot[s].ino].links
           /\ slot[s].ino \notin late' => slot'[s].odi = disk'[slot[s].ino]
  PROVE  SavedInv'
<1>1. slot \in [Slots -> SlotRecords] /\ disk \in [Inos -> Ondisk]
  BY DEF Inv, TypeOK, SlotRecords
<1>2. Referenced'
  BY DEF SavedInv, Referenced
<1>3. ASSUME NEW t \in Slots, t # s, slot[t].ino # NO_ENTRY
      PROVE  disk'[slot[t].ino] = disk[slot[t].ino] /\ (slot[t].ino \in late' <=> slot[t].ino \in late)
  <2>1. slot[t].ino \in Inos /\ slot[t].ino # slot[s].ino
    BY <1>1, <1>3 DEF Inv, OneSlotPerInode, SlotRecords
  <2> QED BY <2>1, <1>1
<1>4. SavedWhenClean'
  <2> SUFFICES ASSUME NEW t \in Slots, slot'[t].ino # NO_ENTRY,
                      ~slot'[t].dirty \/ slot'[t].count = 0
               PROVE  /\ slot'[t].odi.links = disk'[slot'[t].ino].links
                      /\ slot'[t].ino \notin late' => slot'[t].odi = disk'[slot'[t].ino]
    BY DEF SavedWhenClean
  <2>1. CASE t = s
    BY <2>1
  <2>2. CASE t # s
    <3>1. slot'[t] = slot[t]
      BY <2>2
    <3>2. /\ slot[t].odi.links = disk[slot[t].ino].links
          /\ slot[t].ino \notin late => slot[t].odi = disk[slot[t].ino]
      BY <3>1 DEF SavedInv, SavedWhenClean
    <3> QED BY <3>1, <3>2, <2>2, <1>3
  <2> QED BY <2>1, <2>2
<1> QED BY <1>2, <1>4 DEF SavedInv

LEMMA InitSaved == Init => SavedInv
<1> SUFFICES ASSUME Init PROVE SavedInv
  OBVIOUS
<1>1. \A s \in Slots : slot[s].ino = NO_ENTRY /\ slot[s].count = 0
  BY DEF Init
<1> QED BY <1>1 DEF SavedInv, Referenced, SavedWhenClean

LEMMA GetSaved ==
  ASSUME Inv, SavedInv, NEW n \in Inos, Get(n)
  PROVE  SavedInv'
<1>1. slot \in [Slots -> SlotRecords] /\ disk \in [Inos -> Ondisk] /\ disk' = disk
  BY DEF Inv, TypeOK, SlotRecords, Get
<1>2. CASE GetCached(n)
  <2>1. PICK s \in Slots : slot[s].ino = n /\ slot' = [slot EXCEPT ![s].count = @ + 1]
    BY <1>2 DEF GetCached, Hashed
  <2>2. /\ slot'[s].ino = slot[s].ino /\ slot'[s].odi = slot[s].odi
        /\ slot'[s].dirty = slot[s].dirty /\ slot'[s].count # 0
        /\ \A t \in Slots \ {s} : slot'[t] = slot[t]
    BY <2>1, <1>1 DEF SlotRecords
  <2>3. late' = late
    BY <1>2 DEF GetCached
  <2>4. ~slot'[s].dirty => /\ slot[s].odi.links = disk[slot[s].ino].links
                           /\ slot[s].ino \notin late => slot[s].odi = disk[slot[s].ino]
    BY <2>1, <2>2, Constants DEF SavedInv, SavedWhenClean
  <2> QED BY <2>1, <2>2, <2>3, <2>4, <1>1, SlotStep
<1>3. CASE GetFromDisk(n)
  <2> DEFINE s == Head(unused)
  <2>1. s \in Slots
    BY <1>3 DEF GetFromDisk, Inv, TypeOK
  <2>2. /\ slot'[s].ino = n /\ slot'[s].odi = disk[n]
        /\ \A t \in Slots \ {s} : slot'[t] = slot[t]
        /\ late' = late \ {slot[s].ino}
    BY <2>1, <1>1, <1>3 DEF GetFromDisk
  <2> HIDE DEF s
  <2>3. \A t \in Slots \ {s} : slot[t].ino # NO_ENTRY =>
          (slot[t].ino \notin late' => slot[t].ino \notin late)
    BY <2>1, <2>2 DEF Inv, OneSlotPerInode
  <2>4. Referenced'
    BY <2>1, <2>2 DEF SavedInv, Referenced
  <2>5. SavedWhenClean'
    BY <2>1, <2>2, <2>3, <1>1 DEF SavedInv, SavedWhenClean
  <2> QED BY <2>4, <2>5 DEF SavedInv
<1>4. CASE UNCHANGED <<slot, late>>
  BY <1>1, <1>4 DEF SavedInv, Referenced, SavedWhenClean
<1> QED BY <1>2, <1>3, <1>4 DEF Get

\* write_inode, done by put_inode only when the inode is dirty, saves it either way.
LEMMA FlushSaves ==
  ASSUME Inv, SavedInv, NEW s \in Slots, slot[s].ino \in Inos, FlushIfDirty(s)
  PROVE  /\ disk' = disk \/ \E x : disk' = [disk EXCEPT ![slot[s].ino] = x]
         /\ late' = late \/ late' = late \ {slot[s].ino}
         /\ slot[s].odi.links = disk'[slot[s].ino].links
         /\ slot[s].ino \notin late' => slot[s].odi = disk'[slot[s].ino]
<1>1. disk \in [Inos -> Ondisk] /\ slot[s].ino # NO_ENTRY
  BY Constants DEF Inv, TypeOK
<1>2. CASE slot[s].dirty
  BY <1>1, <1>2 DEF FlushIfDirty
<1>3. CASE ~slot[s].dirty
  BY <1>1, <1>3 DEF FlushIfDirty, SavedInv, SavedWhenClean
<1> QED BY <1>2, <1>3

LEMMA PutSaved ==
  ASSUME Inv, SavedInv, NEW s \in Slots, Put(s)
  PROVE  SavedInv'
<1>1. slot \in [Slots -> SlotRecords] /\ slot[s] \in SlotRecords /\ disk \in [Inos -> Ondisk]
  BY DEF Inv, TypeOK, SlotRecords
<1>2. slot[s].count \in Nat /\ slot[s].ino \in Inos
  <2>1. slot[s].count > 0
    BY <1>1 DEF Put, PutShared, PutLast, PutFree, SlotRecords
  <2> QED BY <2>1, <1>1 DEF SavedInv, Referenced, SlotRecords
<1>3. ASSUME NEW c \in Nat, FlushIfDirty(s),
             slot' = [slot EXCEPT ![s].count = c, ![s].dirty = FALSE]
      PROVE  SavedInv'
  <2>1. /\ slot'[s].ino = slot[s].ino /\ slot'[s].odi = slot[s].odi
        /\ \A t \in Slots \ {s} : slot'[t] = slot[t]
    BY <1>1, <1>3 DEF SlotRecords
  <2>2. /\ disk' = disk \/ \E x : disk' = [disk EXCEPT ![slot[s].ino] = x]
        /\ late' = late \/ late' = late \ {slot[s].ino}
        /\ slot[s].odi.links = disk'[slot[s].ino].links
        /\ slot[s].ino \notin late' => slot[s].odi = disk'[slot[s].ino]
    BY <1>2, <1>3, FlushSaves
  <2> QED BY <2>1, <2>2, <1>2, SlotStep
<1>4. CASE PutShared(s)
  <2>1. slot[s].count - 1 \in Nat
    BY <1>2, <1>4 DEF PutShared
  <2> QED BY <2>1, <1>3, <1>4 DEF PutShared
<1>5. CASE PutLast(s)
  BY <1>3, <1>5 DEF PutLast
<1>6. CASE PutFree(s)
  <2>1. /\ slot'[s].ino = NO_ENTRY /\ slot'[s].count = 0
        /\ \A t \in Slots \ {s} : slot'[t] = slot[t]
        /\ disk' = [disk EXCEPT ![slot[s].ino] = Cleared]
        /\ late' = late \ {slot[s].ino}
    BY <1>1, <1>6 DEF PutFree
  <2>2. \A t \in Slots \ {s} : slot[t].ino # slot[s].ino
    BY <1>2, Constants DEF Inv, OneSlotPerInode
  <2>3. \A t \in Slots \ {s} : slot[t].ino # NO_ENTRY =>
          disk'[slot[t].ino] = disk[slot[t].ino] /\ (slot[t].ino \in late' <=> slot[t].ino \in late)
    BY <2>1, <2>2, <1>1 DEF SlotRecords
  <2>4. Referenced'
    BY <2>1 DEF SavedInv, Referenced
  <2>5. SavedWhenClean'
    BY <2>1, <2>3 DEF SavedInv, SavedWhenClean
  <2> QED BY <2>4, <2>5 DEF SavedInv
<1> QED BY <1>4, <1>5, <1>6 DEF Put

\* A request for file data changes an inode's other fields, never its links.
LEMMA DataStep ==
  ASSUME Inv, NEW n \in Inos, NEW s \in Slots, slot[s].ino = n, NEW v \in Vals, NEW d \in BOOLEAN,
         slot' = [slot EXCEPT ![s].odi.val = v, ![s].dirty = d]
  PROVE  /\ slot'[s].ino = n /\ slot'[s].count = slot[s].count /\ slot'[s].dirty = d
         /\ slot'[s].odi = [slot[s].odi EXCEPT !.val = v]
         /\ slot'[s].odi.links = slot[s].odi.links
         /\ slot'[s].odi \in Ondisk
         /\ \A t \in Slots \ {s} : slot'[t] = slot[t]
<1>1. slot \in [Slots -> SlotRecords] /\ slot[s] \in SlotRecords
  BY DEF Inv, TypeOK, SlotRecords
<1> QED BY <1>1 DEF SlotRecords, Ondisk

LEMMA NextSaved ==
  ASSUME Inv, SavedInv, [Next]_vars
  PROVE  SavedInv'
<1>1. slot \in [Slots -> SlotRecords] /\ disk \in [Inos -> Ondisk]
  BY DEF Inv, TypeOK, SlotRecords
<1>2. CASE UNCHANGED vars
  BY <1>2 DEF vars, SavedInv, Referenced, SavedWhenClean
<1>3. ASSUME NEW n \in Inos, NEW s \in Slots, slot[s].ino = n, NEW v \in Vals, NEW d \in BOOLEAN,
             slot' = [slot EXCEPT ![s].odi.val = v, ![s].dirty = d],
             slot[s].dirty => d,
             disk' = disk, late' = late \union {n}
      PROVE  SavedInv'
  <2>1. /\ slot'[s].ino = n /\ slot'[s].count = slot[s].count /\ slot'[s].dirty = d
        /\ slot'[s].odi.links = slot[s].odi.links
        /\ \A t \in Slots \ {s} : slot'[t] = slot[t]
    BY <1>3, DataStep
  <2>2. ~d \/ slot[s].count = 0 => slot[s].odi.links = disk[n].links
    BY <1>3, Constants DEF SavedInv, SavedWhenClean
  <2> QED BY <2>1, <2>2, <1>3, SlotStep
<1>4. ASSUME NEW n \in Inos, ReadFile(n)
      PROVE  SavedInv'
  BY <1>3, <1>4 DEF ReadFile, Hashed
<1>5. ASSUME NEW n \in Inos, FailedWrite(n)
      PROVE  SavedInv'
  <2>1. PICK s \in Hashed(n), v \in Vals, d \in BOOLEAN :
          slot' = [slot EXCEPT ![s].odi.val = v, ![s].dirty = (slot[s].dirty \/ d)]
    BY <1>5 DEF FailedWrite
  <2>2. s \in Slots /\ slot[s].ino = n /\ (slot[s].dirty \/ d) \in BOOLEAN
    BY <1>1 DEF Hashed, SlotRecords
  <2> QED BY <2>1, <2>2, <1>3, <1>5 DEF FailedWrite
<1>6. ASSUME NEW n \in Inos, WriteFile(n)
      PROVE  SavedInv'
  <2>1. PICK s \in Slots, v \in Vals :
          /\ slot[s].ino = n /\ slot' = [slot EXCEPT ![s].odi.val = v, ![s].dirty = FALSE]
          /\ disk' = [disk EXCEPT ![n] = [slot[s].odi EXCEPT !.val = v]]
    BY <1>6 DEF WriteFile, Hashed
  <2>2. /\ slot'[s].ino = n /\ slot'[s].odi = [slot[s].odi EXCEPT !.val = v]
        /\ \A t \in Slots \ {s} : slot'[t] = slot[t]
    BY <2>1, <1>1 DEF SlotRecords, Ondisk
  <2>3. disk'[n] = slot'[s].odi /\ late' = late \ {n}
    BY <1>1, <1>6, <2>1, <2>2 DEF WriteFile
  <2> QED BY <2>1, <2>2, <2>3, SlotStep
<1>7. ASSUME NEW s \in Slots, Modify(s)
      PROVE  SavedInv'
  <2>1. PICK a \in Ondisk : slot' = [slot EXCEPT ![s].odi = a, ![s].dirty = TRUE]
    BY <1>7 DEF Modify
  <2>2. /\ slot'[s].ino = slot[s].ino /\ slot'[s].dirty = TRUE /\ slot'[s].count = slot[s].count
        /\ \A t \in Slots \ {s} : slot'[t] = slot[t]
    BY <2>1, <1>1 DEF SlotRecords
  <2>3. slot[s].count \in Nat /\ slot[s].count > 0
    BY <1>1, <1>7 DEF Modify, SlotRecords
  <2>4. slot[s].ino \in Inos /\ disk' = disk /\ late' = late
    BY <1>7 DEF SavedInv, Referenced, Modify
  <2> QED BY <2>2, <2>3, <2>4, SlotStep
<1>8. ASSUME NEW s \in Slots, Flush(s)
      PROVE  SavedInv'
  <2>1. slot[s].ino \in Inos
    BY <1>8 DEF SavedInv, Referenced, Flush
  <2>2. /\ slot'[s].ino = slot[s].ino /\ slot'[s].odi = slot[s].odi
        /\ \A t \in Slots \ {s} : slot'[t] = slot[t]
    BY <1>8, <1>1 DEF Flush, SlotRecords
  <2>3. /\ disk' = [disk EXCEPT ![slot[s].ino] = slot[s].odi]
        /\ late' = late \ {slot[s].ino}
    BY <1>8 DEF Flush
  <2>4. disk'[slot[s].ino] = slot[s].odi
    BY <2>1, <2>3, <1>1
  <2> QED BY <2>1, <2>2, <2>3, <2>4, SlotStep
<1> QED BY <1>2, <1>4, <1>5, <1>6, <1>7, <1>8, GetSaved, PutSaved DEF Next

\* No link is lost, nor a change by any request other than for file data, when
\* put_inode skips write_inode or get_inode recycles a slot.
THEOREM NothingLost == Spec => []SavedWhenClean
<1>1. Init => SavedInv
  BY InitSaved
<1>2. Inv /\ SavedInv /\ [Next]_vars => SavedInv'
  BY NextSaved
<1>3. SavedInv => SavedWhenClean
  BY DEF SavedInv
<1> QED BY <1>1, <1>2, <1>3, Invariance, PTL DEF Spec

-------------------------------------------------------------------------------
(* There is a slot for a request that holds fewer inodes than the table has.  *)

\* The references: a slot and how many were taken of it before.
Refs    == {r \in Slots \X Nat : r[2] < slot[r[1]].count}
HeldInv == IsFiniteSet(Refs) /\ Cardinality(Refs) = held

\* The inodes that get_inode takes and put_inode gives back are counted by held.
LEMMA RefTaken ==
  ASSUME slot \in [Slots -> SlotRecords], HeldInv, NEW s \in Slots,
         slot'[s].count = slot[s].count + 1, held' = held + 1,
         \A t \in Slots \ {s} : slot'[t].count = slot[t].count
  PROVE  HeldInv'
<1> DEFINE r == <<s, slot[s].count>>
<1>1. slot[s].count \in Nat
  BY DEF SlotRecords
<1>2. \A t \in Slots : slot[t].count \in Nat
  BY DEF SlotRecords
<1>3. Refs' = Refs \union {r} /\ r \notin Refs
  <2>1. ASSUME NEW q \in Slots \X Nat
        PROVE  q \in Refs' <=> q \in Refs \/ q = r
    <3>1. q[1] \in Slots /\ q[2] \in Nat /\ q = <<q[1], q[2]>>
      OBVIOUS
    <3>2. CASE q[1] = s
      BY <1>1, <3>1, <3>2 DEF Refs
    <3>3. CASE q[1] # s
      BY <3>1, <3>3 DEF Refs
    <3> QED
      BY <3>2, <3>3
  <2>2. r \in Slots \X Nat
    BY <1>1
  <2> QED
    BY <1>1, <2>1, <2>2 DEF Refs
<1>4. IsFiniteSet(Refs) /\ Cardinality(Refs) = held
  BY DEF HeldInv
<1>5. IsFiniteSet(Refs \union {r}) /\ Cardinality(Refs \union {r}) = held + 1
  BY <1>3, <1>4, FS_AddElement
<1> QED
  BY <1>3, <1>5 DEF HeldInv

LEMMA RefGiven ==
  ASSUME slot \in [Slots -> SlotRecords], slot' \in [Slots -> SlotRecords], HeldInv,
         NEW s \in Slots, slot[s].count = slot'[s].count + 1, held' = held - 1,
         \A t \in Slots \ {s} : slot'[t].count = slot[t].count
  PROVE  HeldInv'
<1> DEFINE r == <<s, slot'[s].count>>
<1>1. slot'[s].count \in Nat
  BY DEF SlotRecords
<1>2. Refs' = Refs \ {r} /\ r \in Refs
  <2>1. ASSUME NEW q \in Slots \X Nat
        PROVE  q \in Refs' <=> q \in Refs /\ q # r
    <3>1. q[1] \in Slots /\ q[2] \in Nat /\ q = <<q[1], q[2]>>
      OBVIOUS
    <3>2. CASE q[1] = s
      BY <1>1, <3>1, <3>2 DEF Refs
    <3>3. CASE q[1] # s
      BY <3>1, <3>3 DEF Refs
    <3> QED
      BY <3>2, <3>3
  <2>2. r \in Slots \X Nat
    BY <1>1
  <2> QED
    BY <1>1, <2>1, <2>2 DEF Refs
<1>3. IsFiniteSet(Refs) /\ Cardinality(Refs) = held
  BY DEF HeldInv
<1>4. IsFiniteSet(Refs \ {r}) /\ Cardinality(Refs \ {r}) = held - 1
  BY <1>2, <1>3, FS_RemoveElement
<1> QED
  BY <1>2, <1>4 DEF HeldInv

LEMMA RefsSame ==
  ASSUME HeldInv, held' = held, \A t \in Slots : slot'[t].count = slot[t].count
  PROVE  HeldInv'
<1>1. Refs' = Refs
  <2>1. \A q \in Slots \X Nat : q[1] \in Slots
    OBVIOUS
  <2> QED
    BY <2>1 DEF Refs
<1> QED
  BY <1>1 DEF HeldInv

LEMMA NextHeld == Inv /\ HeldInv /\ [Next]_vars => HeldInv'
<1> SUFFICES ASSUME Inv, HeldInv, [Next]_vars PROVE HeldInv'
  OBVIOUS
<1>1. slot \in [Slots -> SlotRecords] /\ unused \in Seq(Slots) /\ UnusedExact /\ Inv'
  BY NextInv DEF Inv, TypeOK, SlotRecords
<1>2. slot' \in [Slots -> SlotRecords]
  BY <1>1 DEF Inv, TypeOK, SlotRecords
<1>3. ASSUME NEW n \in Inos, Get(n)
      PROVE  HeldInv'
  <2>1. CASE UNCHANGED <<slot, unused, held, late>>
    BY <2>1, RefsSame
  <2>2. CASE GetCached(n) /\ held' = held + 1
    <3>1. PICK s \in Hashed(n) : slot' = [slot EXCEPT ![s].count = @ + 1]
      BY <2>2 DEF GetCached
    <3>2. s \in Slots
      BY DEF Hashed
    <3>3. slot'[s].count = slot[s].count + 1 /\ \A t \in Slots \ {s} : slot'[t].count = slot[t].count
      BY <1>1, <3>1, <3>2 DEF SlotRecords
    <3> QED
      BY <1>1, <2>2, <3>2, <3>3, RefTaken
  <2>3. CASE GetFromDisk(n) /\ held' = held + 1
    <3> DEFINE s == Head(unused)
    <3>1. s \in Slots /\ InUnused(s)
      <4>1. 1 \in 1..Len(unused) /\ s = unused[1]
        BY <1>1, <2>3 DEF GetFromDisk
      <4> QED
        BY <1>1, <4>1 DEF InUnused
    <3>2. slot[s].count = 0
      BY <1>1, <3>1 DEF UnusedExact
    <3>3. slot' = [slot EXCEPT ![s] = [ino |-> n, count |-> 1, dirty |-> @.dirty, odi |-> disk[n]]]
      BY <2>3 DEF GetFromDisk
    <3>4. slot'[s].count = slot[s].count + 1 /\ \A t \in Slots \ {s} : slot'[t].count = slot[t].count
      BY <1>1, <3>1, <3>2, <3>3
    <3> QED
      BY <1>1, <2>3, <3>1, <3>4, RefTaken
  <2> QED
    BY <1>3, <2>1, <2>2, <2>3 DEF Get
<1>4. ASSUME NEW n \in Inos, ReadFile(n) \/ WriteFile(n) \/ FailedWrite(n)
      PROVE  HeldInv'
  <2>1. ASSUME NEW s \in Hashed(n), NEW v, NEW d, slot' = [slot EXCEPT ![s].odi.val = v, ![s].dirty = d]
        PROVE  \A t \in Slots : slot'[t].count = slot[t].count
    BY <1>1, <2>1 DEF Hashed, SlotRecords
  <2>2. held' = held
    BY <1>4 DEF ReadFile, WriteFile, FailedWrite
  <2>3. \A t \in Slots : slot'[t].count = slot[t].count
    <3>1. CASE ReadFile(n)
      BY <2>1, <3>1, Zenon DEF ReadFile
    <3>2. CASE WriteFile(n)
      BY <2>1, <3>2, Zenon DEF WriteFile
    <3>3. CASE FailedWrite(n)
      BY <2>1, <3>3, Zenon DEF FailedWrite
    <3> QED
      BY <1>4, <3>1, <3>2, <3>3
  <2> QED
    BY <2>2, <2>3, RefsSame
<1>5. ASSUME NEW s \in Slots, Modify(s) \/ Flush(s)
      PROVE  HeldInv'
  <2>1. \A t \in Slots : slot'[t].count = slot[t].count
    <3>1. CASE Modify(s)
      <4>1. PICK a \in Ondisk : slot' = [slot EXCEPT ![s].odi = a, ![s].dirty = TRUE]
        BY <3>1 DEF Modify
      <4> QED
        BY <1>1, <4>1 DEF SlotRecords
    <3>2. CASE Flush(s)
      <4>1. slot' = [slot EXCEPT ![s].dirty = FALSE]
        BY <3>2 DEF Flush
      <4> QED
        BY <1>1, <4>1 DEF SlotRecords
    <3> QED
      BY <1>5, <3>1, <3>2
  <2>2. held' = held
    BY <1>5 DEF Modify, Flush
  <2> QED
    BY <2>1, <2>2, RefsSame
<1>6. ASSUME NEW s \in Slots, Put(s)
      PROVE  HeldInv'
  <2>1. slot[s].count \in Nat /\ held' = held - 1
    BY <1>1, <1>6 DEF Put, SlotRecords
  <2>2. slot[s].count = slot'[s].count + 1 /\ \A t \in Slots \ {s} : slot'[t].count = slot[t].count
    <3>1. CASE PutShared(s)
      <4>1. slot' = [slot EXCEPT ![s].count = @ - 1, ![s].dirty = FALSE]
        BY <3>1 DEF PutShared
      <4>2. slot'[s].count = slot[s].count - 1
        BY <1>1, <4>1 DEF SlotRecords
      <4>3. \A t \in Slots \ {s} : slot'[t] = slot[t]
        BY <1>1, <4>1
      <4> QED
        BY <2>1, <4>2, <4>3
    <3>2. CASE PutLast(s)
      <4>1. slot[s].count = 1 /\ slot' = [slot EXCEPT ![s].count = 0, ![s].dirty = FALSE]
        BY <3>2 DEF PutLast
      <4> QED
        BY <1>1, <4>1 DEF SlotRecords
    <3>3. CASE PutFree(s)
      <4>1. /\ slot[s].count = 1
            /\ slot' = [slot EXCEPT ![s] =
                          [ino |-> NO_ENTRY, count |-> 0, dirty |-> FALSE, odi |-> Cleared]]
        BY <3>3 DEF PutFree
      <4>2. slot'[s] = [ino |-> NO_ENTRY, count |-> 0, dirty |-> FALSE, odi |-> Cleared]
        BY <1>1, <4>1
      <4>3. \A t \in Slots \ {s} : slot'[t] = slot[t]
        BY <1>1, <4>1
      <4> QED
        BY <4>1, <4>2, <4>3
    <3> QED
      BY <1>6, <3>1, <3>2, <3>3 DEF Put
  <2> QED
    BY <1>1, <1>2, <2>1, <2>2, RefGiven
<1>7. CASE UNCHANGED vars
  BY <1>7, RefsSame DEF vars
<1> QED
  BY <1>3, <1>4, <1>5, <1>6, <1>7 DEF Next

LEMMA InitHeld == Init => HeldInv
<1> SUFFICES ASSUME Init PROVE HeldInv
  OBVIOUS
<1>1. \A s \in Slots : slot[s].count = 0
  BY DEF Init
<1>2. Refs = {}
  <2>1. \A r \in Slots \X Nat : r[1] \in Slots /\ r[2] \in Nat
    OBVIOUS
  <2> QED
    BY <1>1, <2>1 DEF Refs
<1> QED
  BY <1>2, FS_EmptySet DEF HeldInv, Init

\* get_inode has an unused slot for a request that holds fewer inodes than there are
\* slots: were there none, each slot would be referenced, and a request holds all the
\* references there are.
THEOREM UnusedSlotLeft == Spec => []SlotsSuffice
<1>1. Inv /\ HeldInv => SlotsSuffice
  <2> SUFFICES ASSUME Inv, HeldInv, unused = <<>>
               PROVE  ~(held < NumSlots)
    BY DEF SlotsSuffice
  <2>1. NumSlots \in Nat /\ IsFiniteSet(Slots) /\ Cardinality(Slots) = NumSlots
    BY Constants, FS_Interval DEF Slots
  <2>2. \A s \in Slots : slot[s].count \in Nat /\ slot[s].count # 0
    BY DEF Inv, TypeOK, UnusedExact, InUnused
  <2> DEFINE F == [r \in Refs |-> r[1]]
  <2>3. F \in Surjection(Refs, Slots)
    <3>1. \A r \in Refs : r[1] \in Slots
      BY DEF Refs
    <3>2. ASSUME NEW s \in Slots
          PROVE  \E r \in Refs : F[r] = s
      <4>1. <<s, 0>> \in Refs
        BY <2>2 DEF Refs
      <4> QED
        BY <4>1
    <3> QED
      BY <3>1, <3>2 DEF Surjection
  <2>4. Cardinality(Slots) <= Cardinality(Refs)
    BY <2>3, FS_Surjection DEF HeldInv, ExistsSurjection
  <2>5. held \in Nat
    BY Constants DEF Inv, TypeOK
  <2> QED
    BY <2>1, <2>4, <2>5 DEF HeldInv
<1>2. Inv /\ HeldInv /\ [Next]_vars => HeldInv'
  BY NextHeld
<1> QED
  BY <1>1, <1>2, InitHeld, Invariance, PTL DEF Spec

-------------------------------------------------------------------------------
(* The cache implements the store of inodes. *)

\* What handlers see of an inode: its slot, or the inode table.
LEMMA Seen ==
  ASSUME OneSlotPerInode, NEW n \in Inos
  PROVE  /\ \A s \in Slots : slot[s].ino = n => CachedOrDisk(n) = slot[s].odi
         /\ (\A s \in Slots : slot[s].ino # n) => CachedOrDisk(n) = disk[n]
<1>1. n # NO_ENTRY
  BY Constants
<1>2. ASSUME NEW s \in Slots, slot[s].ino = n
      PROVE  CachedOrDisk(n) = slot[s].odi
  <2>1. Hashed(n) = {s}
    BY <1>1, <1>2 DEF Hashed, OneSlotPerInode
  <2> QED BY <2>1 DEF CachedOrDisk
<1> QED BY <1>2 DEF CachedOrDisk, Hashed

LEMMA SeenNext ==
  ASSUME OneSlotPerInode', NEW n \in Inos
  PROVE  /\ \A s \in Slots : slot'[s].ino = n => CachedOrDisk(n)' = slot'[s].odi
         /\ (\A s \in Slots : slot'[s].ino # n) => CachedOrDisk(n)' = disk'[n]
<1>1. n # NO_ENTRY
  BY Constants
<1>2. ASSUME NEW s \in Slots, slot'[s].ino = n
      PROVE  CachedOrDisk(n)' = slot'[s].odi
  <2>1. Hashed(n)' = {s}
    BY <1>1, <1>2 DEF Hashed, OneSlotPerInode
  <2> QED BY <2>1 DEF CachedOrDisk
<1> QED BY <1>2 DEF CachedOrDisk, Hashed

\* A step of one slot that keeps its inode changes what is seen of that inode only.
LEMMA SlotSeen ==
  ASSUME Inv, Inv', NEW s \in Slots, slot[s].ino \in Inos,
         \A t \in Slots \ {s} : slot'[t] = slot[t],
         slot'[s].ino = slot[s].ino,
         disk' = disk \/ \E x : disk' = [disk EXCEPT ![slot[s].ino] = x]
  PROVE  /\ CachedOrDisk(slot[s].ino)' = slot'[s].odi
         /\ CachedOrDisk(slot[s].ino) = slot[s].odi
         /\ \A n \in Inos \ {slot[s].ino} : CachedOrDisk(n)' = CachedOrDisk(n)
<1>1. OneSlotPerInode /\ OneSlotPerInode' /\ disk \in [Inos -> Ondisk]
  BY DEF Inv, TypeOK
<1>2. ASSUME NEW n \in Inos \ {slot[s].ino}
      PROVE  CachedOrDisk(n)' = CachedOrDisk(n)
  <2>1. disk'[n] = disk[n]
    BY <1>1
  <2>2. CASE \E t \in Slots : slot[t].ino = n
    <3>1. PICK t \in Slots : slot[t].ino = n
      BY <2>2
    <3>2. slot'[t] = slot[t]
      BY <3>1
    <3> QED BY <3>1, <3>2, <1>1, Seen, SeenNext
  <2>3. CASE ~ \E t \in Slots : slot[t].ino = n
    <3>1. \A t \in Slots : slot'[t].ino # n
      BY <2>3
    <3> QED BY <3>1, <2>3, <2>1, <1>1, Seen, SeenNext
  <2> QED BY <2>2, <2>3
<1> QED BY <1>1, <1>2, Seen, SeenNext

\* The refinement mapping by name.
Attr   == [n \in Inos |-> CachedOrDisk(n)]
Pinned == {n \in Inos : \E s \in Hashed(n) : slot[s].count > 0}

\* get_inode shows the attributes the inode had, and of no other inode others, but
\* that recycling a slot may undo the late change of the inode that was in it.
LEMMA GetPins ==
  ASSUME Inv, Inv', SavedInv, NEW n \in Inos, GetCached(n) \/ GetFromDisk(n), disk' = disk
  PROVE  Store!Pin(n)
<1>1. /\ slot \in [Slots -> SlotRecords] /\ disk \in [Inos -> Ondisk]
      /\ OneSlotPerInode /\ OneSlotPerInode'
  BY DEF Inv, TypeOK, SlotRecords
<1>2. CASE GetCached(n)
  <2>1. PICK s \in Slots : slot[s].ino = n /\ slot' = [slot EXCEPT ![s].count = @ + 1]
    BY <1>2 DEF GetCached, Hashed
  <2>2. /\ slot'[s].ino = slot[s].ino /\ slot'[s].odi = slot[s].odi
        /\ slot'[s].count > 0
        /\ \A t \in Slots \ {s} : slot'[t] = slot[t]
    BY <2>1, <1>1 DEF SlotRecords
  <2>3. \A m \in Inos : CachedOrDisk(m)' = CachedOrDisk(m)
    BY <2>1, <2>2, SlotSeen
  <2>4. Attr' = Attr
    BY <2>3 DEF Attr
  <2>5. Pinned' = Pinned \union {n}
    BY <2>1, <2>2 DEF Pinned, Hashed
  <2>6. late' = late
    BY <1>2 DEF GetCached
  <2> QED BY <2>4, <2>5, <2>6 DEF Store!Pin, Attr, Pinned
<1>3. CASE GetFromDisk(n)
  <2> DEFINE s == Head(unused)
             i == slot[s].ino
  <2>1. /\ s \in Slots /\ s = unused[1] /\ 1 \in 1..Len(unused)
        /\ \A t \in Slots : slot[t].ino # n
    BY <1>3 DEF GetFromDisk, Inv, TypeOK, Hashed
  <2>2. slot[s].count = 0
    BY <2>1 DEF Inv, UnusedExact, InUnused
  <2>3. /\ slot'[s].ino = n /\ slot'[s].count = 1 /\ slot'[s].odi = disk[n]
        /\ \A t \in Slots \ {s} : slot'[t] = slot[t]
        /\ late' = late \ {i}
    BY <2>1, <1>1, <1>3 DEF GetFromDisk
  <2> HIDE DEF s
  <2>4. i \in Inos => /\ slot[s].odi.links = disk[i].links
                      /\ i \notin late => slot[s].odi = disk[i]
    BY <2>1, <2>2, Constants DEF SavedInv, SavedWhenClean
  <2>5. ASSUME NEW m \in Inos, m # i
        PROVE  CachedOrDisk(m)' = CachedOrDisk(m)
    <3>1. CASE m = n
      BY <3>1, <2>1, <2>3, <1>1, Seen, SeenNext
    <3>2. CASE m # n
      <4>1. CASE \E t \in Slots : slot[t].ino = m
        <5>1. PICK t \in Slots : slot[t].ino = m
          BY <4>1
        <5>2. slot'[t] = slot[t]
          BY <5>1, <2>5, <2>3
        <5> QED BY <5>1, <5>2, <1>1, Seen, SeenNext
      <4>2. CASE ~ \E t \in Slots : slot[t].ino = m
        <5>1. \A t \in Slots : slot'[t].ino # m
          BY <4>2, <3>2, <2>3
        <5> QED BY <5>1, <4>2, <1>1, Seen, SeenNext
      <4> QED BY <4>1, <4>2
    <3> QED BY <3>1, <3>2
  <2>6. ASSUME NEW m \in Inos, m = i
        PROVE  CachedOrDisk(m) = slot[s].odi /\ CachedOrDisk(m)' = disk[m] /\ m # n
    <3>1. m # n
      BY <2>6, <2>1
    <3>2. \A t \in Slots : slot[t].ino = m => t = s
      BY <2>6, <2>1, <1>1, Constants DEF OneSlotPerInode
    <3>3. \A t \in Slots : slot'[t].ino # m
      BY <3>1, <3>2, <2>3
    <3>4. CachedOrDisk(m)' = disk'[m]
      BY <3>3, <1>1, SeenNext
    <3>5. CachedOrDisk(m) = slot[s].odi
      BY <2>6, <2>1, <1>1, Seen
    <3> QED BY <3>1, <3>4, <3>5
  <2>7. Pinned' = Pinned \union {n}
    <3>1. ASSUME NEW m \in Inos, m # n
          PROVE  m \in Pinned' <=> m \in Pinned
      BY <3>1, <2>1, <2>2, <2>3 DEF Pinned, Hashed
    <3>2. n \in Pinned'
      BY <2>1, <2>3 DEF Pinned, Hashed
    <3> QED BY <3>1, <3>2 DEF Pinned
  <2>8. CASE i \in late
    <3>1. i \in Inos
      BY <2>8 DEF Inv, TypeOK
    <3>2. i \notin Pinned
      BY <3>1, <2>1, <2>2, <1>1, Constants DEF Pinned, Hashed, OneSlotPerInode
    <3>3. slot[s].odi \in Ondisk /\ disk[i] \in Ondisk
      BY <3>1, <2>1, <1>1 DEF SlotRecords
    <3>4. disk[i].val \in Vals /\ disk[i] = [slot[s].odi EXCEPT !.val = disk[i].val]
      BY <3>1, <3>3, <2>4 DEF Ondisk
    <3>5. Attr' = [Attr EXCEPT ![i] = disk[i]] /\ Attr[i] = slot[s].odi
      BY <3>1, <2>5, <2>6 DEF Attr
    <3>6. ASSUME NEW m \in Inos, m = i
          PROVE  Store!Undo(m)
      BY <3>4, <3>5, <3>6, <2>3 DEF Store!Undo, Attr
    <3>7. i \in late \ (Pinned \union {n})
      BY <3>1, <3>2, <2>6, <2>8
    <3> QED BY <3>1, <3>6, <3>7, <2>7 DEF Store!Pin, Pinned
  <2>9. CASE i \notin late
    <3>1. \A m \in Inos : CachedOrDisk(m)' = CachedOrDisk(m)
      BY <2>4, <2>5, <2>6, <2>9
    <3>2. Attr' = Attr
      BY <3>1 DEF Attr
    <3>3. late' = late
      BY <2>3, <2>9
    <3> QED BY <3>2, <3>3, <2>7 DEF Store!Pin, Attr, Pinned
  <2> QED BY <2>8, <2>9
<1> QED BY <1>2, <1>3

\* A step of one slot, in terms of the mapping.
LEMMA SlotMaps ==
  ASSUME Inv, Inv', NEW s \in Slots, slot[s].ino \in Inos,
         \A t \in Slots \ {s} : slot'[t] = slot[t],
         slot'[s].ino = slot[s].ino,
         disk' = disk \/ \E x : disk' = [disk EXCEPT ![slot[s].ino] = x]
  PROVE  /\ Attr' = [Attr EXCEPT ![slot[s].ino] = slot'[s].odi]
         /\ Attr[slot[s].ino] = slot[s].odi
         /\ slot[s].count > 0 => slot[s].ino \in Pinned
         /\ (slot'[s].count > 0 <=> slot[s].count > 0) => Pinned' = Pinned
         /\ ~(slot'[s].count > 0) => Pinned' = Pinned \ {slot[s].ino}
<1> DEFINE i == slot[s].ino
<1>1. /\ CachedOrDisk(i)' = slot'[s].odi /\ CachedOrDisk(i) = slot[s].odi
      /\ \A n \in Inos \ {i} : CachedOrDisk(n)' = CachedOrDisk(n)
  BY SlotSeen
<1>2. Attr' = [Attr EXCEPT ![i] = slot'[s].odi] /\ Attr[i] = slot[s].odi
  BY <1>1 DEF Attr
<1>3. ASSUME NEW n \in Inos, n # i
      PROVE  n \in Pinned' <=> n \in Pinned
  BY <1>3 DEF Pinned, Hashed
<1>4. /\ i \in Pinned  <=> slot[s].count > 0
      /\ i \in Pinned' <=> slot'[s].count > 0
  <2>1. /\ \A t \in Slots : slot[t].ino = i => t = s
        /\ \A t \in Slots : slot'[t].ino = i => t = s
    BY Constants DEF Inv, OneSlotPerInode
  <2> QED BY <2>1 DEF Pinned, Hashed
<1>5. Pinned \subseteq Inos /\ Pinned' \subseteq Inos
  BY DEF Pinned
<1> QED BY <1>2, <1>3, <1>4, <1>5

\* The same for put_inode that frees: the slot is emptied.
LEMMA FreeMaps ==
  ASSUME Inv, Inv', NEW s \in Slots, slot[s].ino \in Inos, PutFree(s)
  PROVE  /\ Attr' = [Attr EXCEPT ![slot[s].ino] = Cleared]
         /\ Attr[slot[s].ino] = slot[s].odi
         /\ slot[s].ino \in Pinned
         /\ Pinned' = Pinned \ {slot[s].ino}
<1> DEFINE i == slot[s].ino
<1>1. /\ slot \in [Slots -> SlotRecords] /\ disk \in [Inos -> Ondisk]
      /\ OneSlotPerInode /\ OneSlotPerInode' /\ i # NO_ENTRY
  BY Constants DEF Inv, TypeOK, SlotRecords
<1>2. /\ slot'[s].ino = NO_ENTRY /\ slot[s].count > 0
      /\ \A t \in Slots \ {s} : slot'[t] = slot[t]
      /\ disk'[i] = Cleared
      /\ \A n \in Inos \ {i} : disk'[n] = disk[n]
  BY <1>1 DEF PutFree
<1>3. \A t \in Slots : slot[t].ino = i => t = s
  BY <1>1 DEF OneSlotPerInode
<1>4. \A t \in Slots : slot'[t].ino # i
  BY <1>1, <1>2, <1>3
<1>5. ASSUME NEW n \in Inos, n = i
      PROVE  CachedOrDisk(n)' = Cleared /\ CachedOrDisk(n) = slot[s].odi
  <2>1. CachedOrDisk(n)' = disk'[n]
    BY <1>1, <1>4, <1>5, SeenNext
  <2>2. CachedOrDisk(n) = slot[s].odi
    BY <1>1, <1>5, Seen
  <2> QED BY <2>1, <2>2, <1>2, <1>5
<1>6. ASSUME NEW n \in Inos, n # i
      PROVE  CachedOrDisk(n)' = CachedOrDisk(n) /\ (n \in Pinned' <=> n \in Pinned)
  <2>1. \A t \in Slots : (slot'[t].ino = n <=> slot[t].ino = n)
                         /\ (slot[t].ino = n => slot'[t] = slot[t])
    <3>1. n # NO_ENTRY
      BY Constants
    <3> QED BY <3>1, <1>2, <1>6
  <2>2. CachedOrDisk(n)' = CachedOrDisk(n)
    <3>1. CASE \E t \in Slots : slot[t].ino = n
      BY <3>1, <2>1, <1>1, Seen, SeenNext
    <3>2. CASE ~ \E t \in Slots : slot[t].ino = n
      BY <3>2, <2>1, <1>1, <1>2, <1>6, Seen, SeenNext
    <3> QED BY <3>1, <3>2
  <2>3. n \in Pinned' <=> n \in Pinned
    BY <2>1 DEF Pinned, Hashed
  <2> QED BY <2>2, <2>3
<1>7. Attr' = [Attr EXCEPT ![i] = Cleared] /\ Attr[i] = slot[s].odi
  BY <1>5, <1>6 DEF Attr
<1>8. i \in Pinned /\ i \notin Pinned'
  BY <1>2, <1>4 DEF Pinned, Hashed
<1>9. Pinned \subseteq Inos /\ Pinned' \subseteq Inos
  BY DEF Pinned
<1> QED BY <1>6, <1>7, <1>8, <1>9

\* A step of one slot that keeps its inode and shows of it what it showed before:
\* write_inode saves, put_inode may release.
LEMMA ReleaseMaps ==
  ASSUME Inv, Inv', NEW s \in Slots, slot[s].ino \in Inos, slot[s].count > 0,
         \A t \in Slots \ {s} : slot'[t] = slot[t],
         slot'[s].ino = slot[s].ino, slot'[s].odi = slot[s].odi,
         disk' = disk \/ \E x : disk' = [disk EXCEPT ![slot[s].ino] = x],
         late' = late \/ late' = late \ {slot[s].ino},
         slot'[s].count > 0 \/ (~(slot'[s].count > 0) /\ slot[s].odi.links # 0)
  PROVE  [Store!Next]_<<Attr, Pinned, late>>
<1>1. Attr' = Attr /\ Attr[slot[s].ino] = slot[s].odi /\ slot[s].ino \in Pinned
  <2>1. /\ Attr' = [Attr EXCEPT ![slot[s].ino] = slot'[s].odi]
        /\ Attr[slot[s].ino] = slot[s].odi /\ slot[s].ino \in Pinned
    BY SlotMaps
  <2>2. Attr = [n \in Inos |-> Attr[n]]
    BY DEF Attr
  <2> QED BY <2>1, <2>2
<1>2. CASE slot'[s].count > 0
  <2>1. Pinned' = Pinned
    BY <1>2, SlotMaps
  <2>2. ASSUME NEW n \in Inos, n = slot[s].ino, late' = late \ {n}
        PROVE  Store!Save(n)
    BY <1>1, <2>1, <2>2 DEF Store!Save, Attr, Pinned
  <2> QED BY <1>1, <2>1, <2>2 DEF Store!Next, Attr, Pinned
<1>3. CASE ~(slot'[s].count > 0) /\ slot[s].odi.links # 0
  <2>1. Pinned' = Pinned \ {slot[s].ino}
    BY <1>3, SlotMaps
  <2>2. ASSUME NEW n \in Inos, n = slot[s].ino
        PROVE  Store!Unpin(n)
    BY <2>2, <1>1, <1>3, <2>1 DEF Store!Unpin, Attr, Pinned
  <2> QED BY <2>2 DEF Store!Next
<1> QED BY <1>2, <1>3

\* A request for file data changes other fields than the links of one inode.
LEMMA DataMaps ==
  ASSUME Inv, Inv', NEW n \in Inos, NEW s \in Slots, slot[s].ino = n, NEW v \in Vals, NEW d \in BOOLEAN,
         slot' = [slot EXCEPT ![s].odi.val = v, ![s].dirty = d],
         disk' = disk \/ \E x : disk' = [disk EXCEPT ![n] = x],
         late' = late \union {n} \/ late' = late \ {n}
  PROVE  Store!ChangeByData(n, v)
<1>1. /\ slot'[s].ino = n /\ slot'[s].count = slot[s].count
      /\ slot'[s].odi = [slot[s].odi EXCEPT !.val = v]
      /\ \A t \in Slots \ {s} : slot'[t] = slot[t]
  BY DEF Inv, TypeOK, SlotRecords, Ondisk
<1>2. slot[s].ino \in Inos /\ slot'[s].ino = slot[s].ino
      /\ (disk' = disk \/ \E x : disk' = [disk EXCEPT ![slot[s].ino] = x])
  BY <1>1
<1>3. Attr' = [Attr EXCEPT ![n] = slot'[s].odi] /\ Pinned' = Pinned /\ Attr[n] = slot[s].odi
  BY <1>1, <1>2, SlotMaps
<1> QED BY <1>1, <1>3 DEF Store!ChangeByData, Attr, Pinned

LEMMA StepMaps ==
  ASSUME Inv, Inv', SavedInv, [Next]_vars
  PROVE  [Store!Next]_<<Attr, Pinned, late>>
<1>1. /\ slot \in [Slots -> SlotRecords] /\ disk \in [Inos -> Ondisk]
      /\ Store!Attributes = Ondisk /\ Store!Cleared = Cleared
  BY DEF Inv, TypeOK, SlotRecords, Store!Attributes, Store!Cleared, Ondisk, Cleared
<1>2. CASE UNCHANGED vars
  BY <1>2 DEF vars, Attr, Pinned, CachedOrDisk, Hashed
<1>3. ASSUME NEW n \in Inos, Get(n)
      PROVE  [Store!Next]_<<Attr, Pinned, late>>
  <2>1. disk' = disk
    BY <1>3 DEF Get
  <2>2. CASE GetCached(n) \/ GetFromDisk(n)
    BY <2>1, <2>2, GetPins DEF Store!Next
  <2>3. CASE UNCHANGED <<slot, unused, held, late>>
    BY <2>1, <2>3 DEF Attr, Pinned, CachedOrDisk, Hashed
  <2> QED BY <1>3, <2>2, <2>3 DEF Get
<1>4. ASSUME NEW n \in Inos, ReadFile(n) \/ WriteFile(n) \/ FailedWrite(n)
      PROVE  \E v \in Vals : Store!ChangeByData(n, v)
  <2>1. CASE ReadFile(n)
    <3>1. PICK s \in Slots, v \in Vals :
            slot[s].ino = n /\ slot' = [slot EXCEPT ![s].odi.val = v, ![s].dirty = TRUE]
      BY <2>1 DEF ReadFile, Hashed
    <3>2. disk' = disk /\ late' = late \union {n} /\ TRUE \in BOOLEAN
      BY <2>1 DEF ReadFile
    <3>3. Store!ChangeByData(n, v)
      BY <3>1, <3>2, DataMaps
    <3> QED BY <3>3
  <2>2. CASE WriteFile(n)
    <3>1. PICK s \in Slots, v \in Vals :
            /\ slot[s].ino = n /\ slot' = [slot EXCEPT ![s].odi.val = v, ![s].dirty = FALSE]
            /\ disk' = [disk EXCEPT ![n] = [slot[s].odi EXCEPT !.val = v]]
      BY <2>2 DEF WriteFile, Hashed
    <3>2. (\E x : disk' = [disk EXCEPT ![n] = x]) /\ late' = late \ {n} /\ FALSE \in BOOLEAN
      BY <2>2, <3>1 DEF WriteFile
    <3>3. Store!ChangeByData(n, v)
      BY <3>1, <3>2, DataMaps
    <3> QED BY <3>3
  <2>3. CASE FailedWrite(n)
    <3>1. PICK s \in Slots, v \in Vals, d \in BOOLEAN :
            /\ slot[s].ino = n
            /\ slot' = [slot EXCEPT ![s].odi.val = v, ![s].dirty = (slot[s].dirty \/ d)]
      BY <2>3 DEF FailedWrite, Hashed
    <3>2. disk' = disk /\ late' = late \union {n} /\ (slot[s].dirty \/ d) \in BOOLEAN
      BY <1>1, <2>3 DEF FailedWrite, SlotRecords
    <3>3. Store!ChangeByData(n, v)
      BY <3>1, <3>2, DataMaps
    <3> QED BY <3>3
  <2> QED BY <1>4, <2>1, <2>2, <2>3
<1>5. ASSUME NEW s \in Slots, Modify(s)
      PROVE  [Store!Next]_<<Attr, Pinned, late>>
  <2>1. PICK a \in Ondisk : slot' = [slot EXCEPT ![s].odi = a, ![s].dirty = TRUE]
    BY <1>5 DEF Modify
  <2>2. /\ slot'[s].ino = slot[s].ino /\ slot'[s].count = slot[s].count /\ slot'[s].odi = a
        /\ \A t \in Slots \ {s} : slot'[t] = slot[t]
    BY <2>1, <1>1 DEF SlotRecords
  <2>3. slot[s].ino \in Inos /\ disk' = disk /\ late' = late
    BY <1>5 DEF SavedInv, Referenced, Modify
  <2>4. Attr' = [Attr EXCEPT ![slot[s].ino] = a] /\ Pinned' = Pinned
    BY <2>2, <2>3, SlotMaps
  <2>5. ASSUME NEW n \in Inos, n = slot[s].ino
        PROVE  Store!Change(n, a)
    BY <2>3, <2>4, <2>5 DEF Store!Change, Attr, Pinned
  <2> QED BY <1>1, <2>3, <2>5 DEF Store!Next
<1>6. ASSUME NEW s \in Slots, Flush(s)
      PROVE  [Store!Next]_<<Attr, Pinned, late>>
  <2>1. slot[s].ino \in Inos /\ slot[s].count > 0
    BY <1>6 DEF SavedInv, Referenced, Flush
  <2>2. /\ slot'[s].ino = slot[s].ino /\ slot'[s].odi = slot[s].odi
        /\ slot'[s].count = slot[s].count
        /\ \A t \in Slots \ {s} : slot'[t] = slot[t]
    BY <1>6, <1>1 DEF Flush, SlotRecords
  <2>3. (\E x : disk' = [disk EXCEPT ![slot[s].ino] = x]) /\ late' = late \ {slot[s].ino}
    BY <1>6 DEF Flush
  <2> QED BY <2>1, <2>2, <2>3, ReleaseMaps
<1>7. ASSUME NEW s \in Slots, Put(s)
      PROVE  [Store!Next]_<<Attr, Pinned, late>>
  <2>1. slot[s] \in SlotRecords /\ slot[s].count \in Nat
    BY <1>1 DEF SlotRecords
  <2>2. slot[s].count > 0 /\ slot[s].ino \in Inos
    <3>1. slot[s].count > 1 \/ slot[s].count = 1
      BY <1>7 DEF Put, PutShared, PutLast, PutFree
    <3> QED BY <2>1, <3>1 DEF SavedInv, Referenced
  <2>3. ASSUME FlushIfDirty(s)
        PROVE  /\ disk' = disk \/ \E x : disk' = [disk EXCEPT ![slot[s].ino] = x]
               /\ late' = late \/ late' = late \ {slot[s].ino}
    BY <2>3 DEF FlushIfDirty
  <2>4. CASE PutShared(s)
    <3>1. /\ slot'[s].ino = slot[s].ino /\ slot'[s].odi = slot[s].odi
          /\ slot'[s].count = slot[s].count - 1
          /\ \A t \in Slots \ {s} : slot'[t] = slot[t]
      BY <2>4, <1>1 DEF PutShared, SlotRecords
    <3>2. slot'[s].count > 0
      BY <2>1, <2>4, <3>1 DEF PutShared
    <3>3. FlushIfDirty(s)
      BY <2>4 DEF PutShared
    <3> QED BY <2>2, <2>3, <3>1, <3>2, <3>3, ReleaseMaps
  <2>5. CASE PutLast(s)
    <3>1. /\ slot'[s].ino = slot[s].ino /\ slot'[s].odi = slot[s].odi
          /\ slot'[s].count = 0 /\ slot[s].odi.links # 0
          /\ \A t \in Slots \ {s} : slot'[t] = slot[t]
      BY <2>5, <1>1 DEF PutLast, SlotRecords
    <3>2. ~(slot'[s].count > 0)
      BY <3>1
    <3>3. FlushIfDirty(s)
      BY <2>5 DEF PutLast
    <3> QED BY <2>2, <2>3, <3>1, <3>2, <3>3, ReleaseMaps
  <2>6. CASE PutFree(s)
    <3>1. /\ Attr' = [Attr EXCEPT ![slot[s].ino] = Cleared]
          /\ Attr[slot[s].ino] = slot[s].odi
          /\ slot[s].ino \in Pinned
          /\ Pinned' = Pinned \ {slot[s].ino}
      BY <2>2, <2>6, FreeMaps
    <3>2. slot[s].odi.links = 0 /\ late' = late \ {slot[s].ino}
      BY <2>6 DEF PutFree
    <3>3. ASSUME NEW n \in Inos, n = slot[s].ino
          PROVE  Store!Unpin(n)
      BY <3>3, <3>1, <3>2, <1>1 DEF Store!Unpin, Attr, Pinned
    <3> QED BY <2>2, <3>3 DEF Store!Next
  <2> QED BY <1>7, <2>4, <2>5, <2>6 DEF Put
<1>8. ASSUME NEW n \in Inos, ReadFile(n) \/ WriteFile(n) \/ FailedWrite(n)
      PROVE  [Store!Next]_<<Attr, Pinned, late>>
  BY <1>4, <1>8 DEF Store!Next
<1> QED BY <1>2, <1>3, <1>5, <1>6, <1>7, <1>8 DEF Next

LEMMA InitMaps == Init => Store!Init
<1> SUFFICES ASSUME Init PROVE Store!Init
  OBVIOUS
<1>1. Inv
  BY InitInv
<1>2. \A n \in Inos, s \in Slots : slot[s].ino # n /\ slot[s].count = 0
  BY Constants DEF Init
<1>3. \A n \in Inos : CachedOrDisk(n) = disk[n] /\ Hashed(n) = {}
  BY <1>1, <1>2, Seen DEF Inv, Hashed
<1>4. Store!Attributes = Ondisk /\ disk \in [Inos -> Ondisk]
  BY <1>1 DEF Inv, TypeOK, Store!Attributes, Ondisk
<1>5. [n \in Inos |-> CachedOrDisk(n)] \in [Inos -> Store!Attributes]
  BY <1>3, <1>4
<1>6. {n \in Inos : \E s \in Hashed(n) : slot[s].count > 0} = {}
  BY <1>3
<1>7. late = {}
  BY DEF Init
<1> QED BY <1>5, <1>6, <1>7 DEF Store!Init

\* Recycling slots is invisible to handlers: every execution of the cache is one of
\* the store of inodes, in which only a late change by a request for file data (the
\* access time read_file leaves dirty without a reference, the size of a write that
\* failed) can be undone.
THEOREM CacheIsInvisible == Spec => ImplementsInodeStore
<1>1. Init => SavedInv
  BY InitSaved
<1>2. Inv /\ SavedInv /\ [Next]_vars => SavedInv'
  BY NextSaved
<1>3. Init => Store!Init
  BY InitMaps
<1>4. Inv /\ Inv' /\ SavedInv /\ [Next]_vars => [Store!Next]_<<Attr, Pinned, late>>
  BY StepMaps
<1> QED BY <1>1, <1>2, <1>3, <1>4, Invariance, PTL
        DEF Spec, ImplementsInodeStore, Store!Spec, Attr, Pinned
===============================================================================
