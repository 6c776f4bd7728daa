----------------------------- MODULE ExtDirProofs -----------------------------
(***************************************************************************)
(* Theorems about ExtDir, for every number and size of blocks and every    *)
(* set of names: the records always tile the blocks, free records are only *)
(* ever the first of a block, a scan by cookies misses nothing, and the    *)
(* directory implements NameMap.                                           *)
(***************************************************************************)
EXTENDS ExtDir, WellFoundedInduction, TLAPS

\* A nonempty set of naturals has a first element.
LEMMA FirstIn ==
  ASSUME NEW S \in SUBSET Nat, S # {}
  PROVE  First(S) \in S /\ \A p \in S : First(S) <= p
<1> DEFINE R == OpToRel(<, Nat)
<1>1. IsWellFoundedOn(R, Nat)
  BY NatLessThanWellFounded
<1>2. \A x, y \in Nat : y < x => <<y, x>> \in R
  BY DEF OpToRel
<1> HIDE DEF R
<1>3. PICK x \in S : \A y \in S : ~(<<y, x>> \in R)
  BY <1>1, WFMin, Zenon
<1>4. \A y \in S : y \in Nat /\ x \in Nat /\ ~(y < x)
  BY <1>2, <1>3, Zenon
<1>5. \A y \in S : x <= y
  BY <1>4
<1> QED
  BY <1>5 DEF First

\* The positions at which blocks start, and the end of the last block.
LEMMA Blocks ==
  /\ DirSize \in Nat \ {0}
  /\ BlockStarts \subseteq 0..(DirSize - 1)
  /\ 0 \in BlockStarts
  /\ \A o \in BlockStarts : o + BlockSize \in BlockStarts \union {DirSize}
  /\ \A o, p \in BlockStarts : ~(o < p /\ p < o + BlockSize)
  /\ BlockSize \in 1..DirSize
<1> USE DirAssumption
<1>1. DirSize \in Nat \ {0} /\ BlockSize \in 1..DirSize
  BY DEF DirSize
<1>2. BlockStarts \subseteq 0..(DirSize - 1)
  BY DEF DirSize, BlockStarts
<1>3. 0 \in BlockStarts
  BY DEF BlockStarts
<1>4. ASSUME NEW o \in BlockStarts
      PROVE  o + BlockSize \in BlockStarts \union {DirSize}
  <2>1. PICK k \in 0..(NumBlocks - 1) : o = k * BlockSize
    BY DEF BlockStarts
  <2>2. o + BlockSize = (k + 1) * BlockSize
    BY <2>1
  <2>3. CASE k = NumBlocks - 1
    BY <2>2, <2>3 DEF DirSize
  <2>4. CASE k # NumBlocks - 1
    BY <2>1, <2>2, <2>4 DEF BlockStarts
  <2> QED
    BY <2>3, <2>4
<1>5. ASSUME NEW o \in BlockStarts, NEW p \in BlockStarts, o < p, p < o + BlockSize
      PROVE  FALSE
  <2>1. PICK k \in 0..(NumBlocks - 1), l \in 0..(NumBlocks - 1) :
          o = k * BlockSize /\ p = l * BlockSize
    BY DEF BlockStarts
  <2>2. k < l /\ l < k + 1
    BY <1>5, <2>1
  <2> QED
    BY <2>1, <2>2
<1> QED
  BY <1>1, <1>2, <1>3, <1>4, <1>5

-------------------------------------------------------------------------------
\* The inductive invariant: the layout of the records, and what the history
\* of a scan says about the records behind the cookie.
Layout == TypeOK /\ Tiling /\ NamesFit /\ FreeOnlyFirst
Inv    == Layout /\ stable \subseteq Live /\ ScanMissesNothing

\* Every position inside the directory falls in one record.
LEMMA Covered ==
  ASSUME Layout, NEW c \in 0..(DirSize - 1)
  PROVE  \E o \in DOMAIN ent : o <= c /\ c < o + ent[o].rec
<1> USE Blocks
<1> DEFINE Below == {o \in DOMAIN ent : o <= c}
           Gaps  == {c - o : o \in Below}
<1>1. 0 \in Below /\ Gaps \subseteq Nat /\ Gaps # {}
  BY DEF Layout, TypeOK, Tiling
<1>2. PICK o \in Below : c - o = First(Gaps)
  BY <1>1, FirstIn
<1>3. \A p \in Below : p <= o
  <2>1. \A g \in Gaps : c - o <= g
    BY <1>1, <1>2, FirstIn
  <2>2. ASSUME NEW p \in Below
        PROVE  c - o <= c - p /\ o \in Int /\ p \in Int
    BY <2>1 DEF Layout, TypeOK
  <2> QED
    BY <2>2
<1>4. ent[o].rec \in 1..DirSize /\ o + ent[o].rec \in DOMAIN ent \union {DirSize}
  BY DEF Layout, TypeOK, Tiling, Records
<1>5. c < o + ent[o].rec
  BY <1>3, <1>4 DEF Layout, TypeOK
<1> QED
  BY <1>5

\* The walk of search_block_and_delete has a record before any record that
\* does not begin its block.
LEMMA PrevRecord ==
  ASSUME Layout, NEW o \in DOMAIN ent, o \notin BlockStarts
  PROVE  /\ Prev(o) \in DOMAIN ent
         /\ Prev(o) + ent[Prev(o)].rec = o
<1>1. o \in 1..(DirSize - 1)
  BY Blocks DEF Layout, TypeOK
<1>2. PICK p \in DOMAIN ent : p <= o - 1 /\ o - 1 < p + ent[p].rec
  BY <1>1, Covered, Blocks
<1>3. p + ent[p].rec = o
  BY <1>1, <1>2, Blocks DEF Layout, TypeOK, Tiling, Records
<1> QED
  BY <1>3 DEF Prev

-------------------------------------------------------------------------------
\* Entering a name into a free record changes no record's place or length.
LEMMA OverwriteInv ==
  ASSUME Inv, NEW n \in Names, NEW i \in Inos, NEW o \in DOMAIN ent,
         ReusesFree(o, n), ent' = Overwrite(o, n, i), rc' = "OK",
         UNCHANGED <<cookie, seen, stable>>
  PROVE  Inv'
<1> USE DirAssumption, Blocks
<1>1. /\ DOMAIN ent' = DOMAIN ent
      /\ \A p \in DOMAIN ent : p # o => ent'[p] = ent[p]
      /\ ent'[o] = [ino |-> i, name |-> n, rec |-> ent[o].rec]
      /\ \A p \in DOMAIN ent : ent[p] \in Records
      /\ ent[o].ino = NO_ENTRY /\ Need[n] <= ent[o].rec
  BY DEF Overwrite, ReusesFree, Inv, Layout, TypeOK, Records
<1>2. TypeOK'
  <2>1. ent' \in [DOMAIN ent -> Records]
    BY DEF Overwrite, Inv, Layout, TypeOK, Records
  <2> QED
    BY <1>1, <2>1 DEF Inv, Layout, TypeOK
<1>3. Tiling'
  BY <1>1 DEF Inv, Layout, Tiling
<1>4. NamesFit'
  BY <1>1 DEF Inv, Layout, NamesFit
<1>5. FreeOnlyFirst'
  BY <1>1 DEF Inv, Layout, FreeOnlyFirst, NO_ENTRY
<1>6. o \notin stable
  BY <1>1 DEF Inv, Live
<1>7. stable' \subseteq Live' /\ ScanMissesNothing'
  BY <1>1, <1>6 DEF Inv, Live, ScanMissesNothing
<1> QED
  BY <1>2, <1>3, <1>4, <1>5, <1>7 DEF Inv, Layout

\* Splitting a record of a live name makes two records out of one.
LEMMA SplitInv ==
  ASSUME Inv, NEW n \in Names, NEW i \in Inos, NEW o \in DOMAIN ent,
         HasSlack(o, n), ~ReusesFree(o, n), ent' = Split(o, n, i), rc' = "OK",
         UNCHANGED <<cookie, seen, stable>>
  PROVE  Inv'
<1> USE DirAssumption, Blocks
<1> DEFINE k == Need[ent[o].name]
           s == o + k
<1>1. /\ \A p \in DOMAIN ent : ent[p] \in Records /\ p \in 0..(DirSize - 1)
      /\ k \in 1..BlockSize /\ Need[n] \in 1..BlockSize
      /\ k + Need[n] <= ent[o].rec
      /\ ent[o].ino # NO_ENTRY
  BY DEF HasSlack, ReusesFree, Inv, Layout, TypeOK, Records
<1>2. /\ s \notin DOMAIN ent /\ s \in 0..(DirSize - 1)
      /\ s + (ent[o].rec - k) = o + ent[o].rec
  BY <1>1 DEF Inv, Layout, Tiling, Records
<1>3. /\ DOMAIN ent' = DOMAIN ent \union {s}
      /\ \A p \in DOMAIN ent : p # o => ent'[p] = ent[p]
      /\ ent'[o] = [ino |-> ent[o].ino, name |-> ent[o].name, rec |-> k]
      /\ ent'[s] = [ino |-> i, name |-> n, rec |-> ent[o].rec - k]
  BY <1>1, <1>2 DEF Split, Records
<1> HIDE DEF k, s
<1>4. TypeOK'
  <2>1. \A p \in DOMAIN ent' : ent'[p] \in Records
    BY <1>1, <1>2, <1>3 DEF Records, k
  <2>2. ent' = [p \in DOMAIN ent' |-> ent'[p]]
    BY DEF Split
  <2>3. ent' \in [DOMAIN ent' -> Records]
    BY <2>1, <2>2
  <2> QED
    BY <1>1, <1>2, <1>3, <2>3 DEF Inv, Layout, TypeOK
<1>5. Tiling'
  <2>1. BlockStarts \subseteq DOMAIN ent'
    BY <1>3 DEF Inv, Layout, Tiling
  <2>2. ASSUME NEW p \in DOMAIN ent'
        PROVE  p + ent'[p].rec \in DOMAIN ent' \union {DirSize}
    BY <1>2, <1>3 DEF Inv, Layout, Tiling, s
  <2>3. ASSUME NEW p \in DOMAIN ent', NEW q \in DOMAIN ent',
               p < q, q < p + ent'[p].rec
        PROVE  FALSE
    <3>1. CASE p = o \/ p = s
      BY <1>1, <1>2, <1>3, <2>3, <3>1 DEF Inv, Layout, Tiling, Records, s
    <3>2. CASE p # o /\ p # s
      BY <1>1, <1>2, <1>3, <2>3, <3>2 DEF Inv, Layout, Tiling, Records, s
    <3> QED
      BY <3>1, <3>2
  <2> QED
    BY <2>1, <2>2, <2>3 DEF Tiling
<1>6. NamesFit'
  <2>1. k = Need[ent[o].name]
    BY DEF k
  <2>2. ent[o].rec \in Int /\ Need[n] <= ent[o].rec - k
    BY <1>1 DEF Records
  <2>3. Need[ent'[o].name] <= ent'[o].rec /\ Need[ent'[s].name] <= ent'[s].rec
    BY <1>1, <1>3, <2>1, <2>2
  <2> QED
    BY <1>2, <1>3, <2>3 DEF Inv, Layout, NamesFit
<1>7. FreeOnlyFirst'
  BY <1>1, <1>2, <1>3 DEF Inv, Layout, FreeOnlyFirst, NO_ENTRY
<1>8. stable' \subseteq Live' /\ ScanMissesNothing'
  BY <1>1, <1>2, <1>3 DEF Inv, Live, ScanMissesNothing
<1> QED
  BY <1>4, <1>5, <1>6, <1>7, <1>8 DEF Inv, Layout

\* Deleting the first entry of a block leaves its record in place, free.
LEMMA ClearInv ==
  ASSUME Inv, NEW o \in Live, o \in BlockStarts,
         ent' = Clear(o), stable' = stable \ {o}, rc' = "OK",
         UNCHANGED <<cookie, seen>>
  PROVE  Inv'
<1> USE DirAssumption, Blocks
<1>1. /\ DOMAIN ent' = DOMAIN ent /\ o \in DOMAIN ent
      /\ \A p \in DOMAIN ent : p # o => ent'[p] = ent[p]
      /\ ent'[o] = [ino |-> NO_ENTRY, name |-> ent[o].name, rec |-> ent[o].rec]
      /\ \A p \in DOMAIN ent : ent[p] \in Records
  BY DEF Clear, Live, Inv, Layout, TypeOK, Records
<1>2. TypeOK'
  <2>1. ent' \in [DOMAIN ent -> Records]
    BY <1>1 DEF Clear, Inv, Layout, TypeOK, Records
  <2> QED
    BY <1>1, <2>1 DEF Inv, Layout, TypeOK
<1>3. Tiling'
  BY <1>1 DEF Inv, Layout, Tiling
<1>4. NamesFit'
  BY <1>1 DEF Inv, Layout, NamesFit
<1>5. FreeOnlyFirst'
  BY <1>1 DEF Inv, Layout, FreeOnlyFirst
<1>6. stable' \subseteq Live' /\ ScanMissesNothing'
  BY <1>1 DEF Inv, Live, ScanMissesNothing
<1> QED
  BY <1>2, <1>3, <1>4, <1>5, <1>6 DEF Inv, Layout

\* Deleting any other entry gives its length to the record before it.
LEMMA MergeInv ==
  ASSUME Inv, NEW o \in Live, o \notin BlockStarts,
         ent' = Merge(o), stable' = stable \ {o}, rc' = "OK",
         UNCHANGED <<cookie, seen>>
  PROVE  Inv'
<1> USE DirAssumption, Blocks
<1> DEFINE q == Prev(o)
<1>1. /\ o \in DOMAIN ent /\ q \in DOMAIN ent /\ q + ent[q].rec = o /\ q < o
      /\ \A p \in DOMAIN ent : ent[p] \in Records /\ p \in 0..(DirSize - 1)
      /\ o + ent[o].rec \in DOMAIN ent \union {DirSize}
      /\ o + ent[o].rec = q + (ent[q].rec + ent[o].rec)
  BY PrevRecord DEF Live, Inv, Layout, TypeOK, Tiling, Records
<1>2. /\ DOMAIN ent' = DOMAIN ent \ {o}
      /\ \A p \in DOMAIN ent' : p # q => ent'[p] = ent[p]
      /\ ent'[q] = [ino |-> ent[q].ino, name |-> ent[q].name,
                    rec |-> ent[q].rec + ent[o].rec]
  BY <1>1 DEF Merge, Records
<1>3. ent' = [p \in DOMAIN ent' |-> ent'[p]]
  BY DEF Merge
<1> HIDE DEF q
<1>4. TypeOK'
  <2>1. \A p \in DOMAIN ent' : ent'[p] \in Records
    BY <1>1, <1>2 DEF Records
  <2>2. ent' \in [DOMAIN ent' -> Records]
    BY <1>3, <2>1
  <2> QED
    BY <1>1, <1>2, <2>2 DEF Inv, Layout, TypeOK, Live
<1>5. Tiling'
  <2>1. BlockStarts \subseteq DOMAIN ent'
    BY <1>2 DEF Inv, Layout, Tiling
  <2>2. ASSUME NEW p \in DOMAIN ent'
        PROVE  p + ent'[p].rec \in DOMAIN ent' \union {DirSize}
    <3>1. CASE p = q
      BY <1>1, <1>2, <3>1 DEF Records
    <3>2. CASE p # q /\ p + ent[p].rec = o
      BY <1>1, <1>2, <3>2 DEF Inv, Layout, Tiling, Records
    <3>3. CASE p # q /\ p + ent[p].rec # o
      BY <1>1, <1>2, <3>3 DEF Inv, Layout, Tiling
    <3> QED
      BY <3>1, <3>2, <3>3
  <2>3. ASSUME NEW p \in DOMAIN ent', NEW r \in DOMAIN ent',
               p < r, r < p + ent'[p].rec
        PROVE  FALSE
    BY <1>1, <1>2, <2>3 DEF Inv, Layout, Tiling, Records
  <2> QED
    BY <2>1, <2>2, <2>3 DEF Tiling
<1>6. NamesFit'
  <2>1. Need[ent[q].name] <= ent[q].rec + ent[o].rec
    BY <1>1 DEF Inv, Layout, NamesFit, Records
  <2> QED
    BY <1>1, <1>2, <2>1 DEF Inv, Layout, NamesFit
<1>7. FreeOnlyFirst'
  BY <1>1, <1>2 DEF Inv, Layout, FreeOnlyFirst
<1>8. stable' \subseteq Live' /\ ScanMissesNothing'
  BY <1>1, <1>2 DEF Inv, Live, ScanMissesNothing
<1> QED
  BY <1>4, <1>5, <1>6, <1>7, <1>8 DEF Inv, Layout

\* Reading entries changes no record; the cookie ends past what was returned.
LEMMA ReadDirInv ==
  ASSUME Inv, ReadDir
  PROVE  Inv' /\ cookie < cookie'
<1> USE DirAssumption, Blocks
<1> DEFINE k == Seek(cookie)
<1>1. PICK next \in Live \union {DirSize} :
        /\ Returned(next) # {} \/ next = DirSize
        /\ cookie' = next
        /\ seen' = seen \union {ent[o].name : o \in Returned(next)}
  BY DEF ReadDir
<1>2. /\ cookie \in 0..(DirSize - 1) /\ UNCHANGED <<ent, rc, stable>>
      /\ k \in DOMAIN ent /\ k <= cookie /\ cookie < k + ent[k].rec
  <2>1. cookie \in 0..(DirSize - 1) /\ UNCHANGED <<ent, rc, stable>>
    BY DEF ReadDir, Inv, Layout, TypeOK
  <2>2. \E o \in DOMAIN ent : o <= cookie /\ cookie < o + ent[o].rec
    BY <2>1, Covered DEF Inv
  <2> QED
    BY <2>1, <2>2 DEF Seek
<1> HIDE DEF k
<1>3. \A o \in DOMAIN ent : o \in 0..(DirSize - 1) /\ ent[o] \in Records
  BY DEF Inv, Layout, TypeOK
<1>4. cookie < next
  <2>1. CASE next = DirSize
    BY <1>2, <2>1
  <2>2. CASE next # DirSize
    <3>1. PICK o \in Live : k <= o /\ o < next
      BY <1>1, <2>2 DEF Returned, k
    <3>2. next \in DOMAIN ent /\ k < next
      BY <1>1, <1>2, <1>3, <2>2, <3>1 DEF Live
    <3>3. ~(next < k + ent[k].rec)
      BY <1>2, <3>2 DEF Inv, Layout, Tiling
    <3> QED
      BY <1>2, <1>3, <3>2, <3>3 DEF Records
  <2> QED
    BY <2>1, <2>2
<1>5. TypeOK'
  BY <1>1, <1>2, <1>3 DEF Inv, Layout, TypeOK, Returned, Live, Records
<1>6. ScanMissesNothing'
  <2> SUFFICES ASSUME NEW o \in stable, o < next
               PROVE  ent[o].name \in seen'
    BY <1>1, <1>2 DEF ScanMissesNothing
  <2>1. o \in Live
    BY DEF Inv
  <2>2. CASE o < k
    BY <1>1, <1>2, <1>3, <2>1, <2>2 DEF Inv, ScanMissesNothing, Live
  <2>3. CASE k <= o
    BY <1>1, <2>1, <2>3 DEF Returned, k
  <2> QED
    BY <1>2, <1>3, <2>1, <2>2, <2>3 DEF Live
<1> QED
  BY <1>1, <1>2, <1>4, <1>5, <1>6
     DEF Inv, Layout, Tiling, NamesFit, FreeOnlyFirst, Live

-------------------------------------------------------------------------------
LEMMA InitInv == Init => Inv
<1> SUFFICES ASSUME Init PROVE Inv
  OBVIOUS
<1> USE DirAssumption, Blocks
<1>1. PICK n \in Names :
        ent = [o \in BlockStarts |-> [ino |-> NO_ENTRY, name |-> n, rec |-> BlockSize]]
  BY DEF Init
<1>2. /\ DOMAIN ent = BlockStarts
      /\ \A o \in BlockStarts : /\ ent[o] \in Records
                                /\ ent[o].rec = BlockSize /\ ent[o].name = n
                                /\ ent[o].ino = NO_ENTRY
  BY <1>1 DEF Records
<1>3. ent \in [DOMAIN ent -> Records]
  BY <1>1, <1>2
<1>4. TypeOK
  BY <1>2, <1>3 DEF Init, TypeOK
<1>5. Tiling
  BY <1>2 DEF Tiling
<1>6. Need[n] <= BlockSize
  OBVIOUS
<1>7. NamesFit /\ FreeOnlyFirst
  BY <1>2, <1>6 DEF NamesFit, FreeOnlyFirst
<1> QED
  BY <1>4, <1>5, <1>7 DEF Init, Inv, Layout, ScanMissesNothing

\* The slot and the entry that the two searches stop at.
LEMMA SlotFound ==
  ASSUME Inv, NEW n \in Names, SlotsFor(n) # {}
  PROVE  /\ First(SlotsFor(n)) \in DOMAIN ent
         /\ ReusesFree(First(SlotsFor(n)), n) \/ HasSlack(First(SlotsFor(n)), n)
<1>1. SlotsFor(n) \in SUBSET Nat
  BY Blocks DEF SlotsFor, Inv, Layout, TypeOK
<1>2. First(SlotsFor(n)) \in SlotsFor(n)
  BY <1>1, FirstIn
<1> QED
  BY <1>2 DEF SlotsFor

LEMMA EntryFound ==
  ASSUME Inv, NEW n \in Names, Matches(n) # {}
  PROVE  First(Matches(n)) \in Live /\ ent[First(Matches(n))].name = n
<1>1. Matches(n) \in SUBSET Nat
  BY Blocks DEF Matches, Live, Inv, Layout, TypeOK
<1>2. First(Matches(n)) \in Matches(n)
  BY <1>1, FirstIn
<1> QED
  BY <1>2 DEF Matches

LEMMA NextInv ==
  ASSUME Inv, [Next]_vars
  PROVE  Inv'
<1> USE DirAssumption
<1>1. ASSUME UNCHANGED <<ent, cookie, seen, stable>>, rc' \in {"OK", "ENOENT", "EEXIST"}
      PROVE  Inv'
  BY <1>1 DEF Inv, Layout, TypeOK, Tiling, NamesFit, FreeOnlyFirst, Live, ScanMissesNothing
<1>2. ASSUME NEW n \in Names, NEW i \in Inos, DirentEnter(n, i),
             UNCHANGED <<cookie, seen, stable>>
      PROVE  Inv'
  <2> DEFINE o == First(SlotsFor(n))
  <2>1. CASE SlotsFor(n) = {}
    BY <1>1, <1>2, <2>1 DEF DirentEnter
  <2>2. CASE SlotsFor(n) # {} /\ ReusesFree(o, n)
    <3>1. ent' = Overwrite(o, n, i) /\ rc' = "OK"
      BY <1>2, <2>2 DEF DirentEnter
    <3> QED
      BY <1>2, <2>2, <3>1, SlotFound, OverwriteInv
  <2>3. CASE SlotsFor(n) # {} /\ ~ReusesFree(o, n)
    <3>1. ent' = Split(o, n, i) /\ rc' = "OK"
      BY <1>2, <2>3 DEF DirentEnter
    <3> QED
      BY <1>2, <2>3, <3>1, SlotFound, SplitInv
  <2> QED
    BY <2>1, <2>2, <2>3
<1>3. ASSUME NEW n \in Names, NEW i \in Inos, Create(n, i)
      PROVE  Inv'
  BY <1>1, <1>2, <1>3 DEF Create
<1>4. ASSUME NEW n \in Names, NEW i \in Inos, RenameInto(n, i)
      PROVE  Inv'
  BY <1>2, <1>4 DEF RenameInto
<1>5. ASSUME NEW n \in Names, Delete(n)
      PROVE  Inv'
  <2> DEFINE o == First(Matches(n))
  <2>1. CASE Matches(n) = {}
    BY <1>1, <1>5, <2>1 DEF Delete
  <2>2. CASE Matches(n) # {} /\ o \in BlockStarts
    <3>1. ent' = Clear(o) /\ rc' = "OK" /\ stable' = stable \ {o} /\ UNCHANGED <<cookie, seen>>
      BY <1>5, <2>2 DEF Delete
    <3> QED
      BY <2>2, <3>1, EntryFound, ClearInv
  <2>3. CASE Matches(n) # {} /\ o \notin BlockStarts
    <3>1. ent' = Merge(o) /\ rc' = "OK" /\ stable' = stable \ {o} /\ UNCHANGED <<cookie, seen>>
      BY <1>5, <2>3 DEF Delete
    <3> QED
      BY <2>3, <3>1, EntryFound, MergeInv
  <2> QED
    BY <2>1, <2>2, <2>3
<1>6. CASE ReadDir
  BY <1>6, ReadDirInv
<1>7. CASE OpenScan
  BY <1>7, Blocks DEF OpenScan, Inv, Layout, TypeOK, Tiling, NamesFit, FreeOnlyFirst,
                      Live, ScanMissesNothing
<1>8. CASE UNCHANGED vars
  BY <1>1, <1>8 DEF vars, Inv, Layout, TypeOK
<1> QED
  BY <1>3, <1>4, <1>5, <1>6, <1>7, <1>8 DEF Next

\* Inv is an invariant of the specification.
THEOREM Invariance == Spec => []Inv
<1>1. Inv /\ [Next]_vars => Inv'
  BY NextInv
<1> QED
  BY <1>1, InitInv, PTL DEF Spec

\* Every variable keeps its type, whatever the directory's size and names.
THEOREM TypeCorrect == Spec => []TypeOK
<1>1. Inv => TypeOK
  BY DEF Inv, Layout
<1> QED
  BY <1>1, Invariance, PTL

\* The layout is well formed: no sequence of splits and merges by dirent_enter and
\* dirent_delete breaks the chain of d_rec_len, no record is shorter than its name, so
\* find_dirent_free_space's unsigned subtraction does not wrap, and only a block's first
\* record is ever free, as delete_dir_entry's comment has it.
THEOREM AlwaysWellFormed == Spec => []WellFormed
<1>1. Inv => WellFormed
  BY DEF Inv, Layout, WellFormed
<1> QED
  BY <1>1, Invariance, PTL

\* A scan by cookies returns every entry that stays in the directory,
\* whatever requests run between its readdir calls.
THEOREM ScansAreComplete == Spec => []ScanMissesNothing
<1>1. Inv => ScanMissesNothing
  BY DEF Inv
<1> QED
  BY <1>1, Invariance, PTL

\* Every readdir call moves the client's cookie forward.
THEOREM CookiesAdvance == Spec => CookieAdvances
<1>1. Inv /\ [Next]_vars => [ReadDir => cookie < cookie']_vars
  BY ReadDirInv
<1> QED
  BY <1>1, Invariance, PTL DEF Spec, CookieAdvances

-------------------------------------------------------------------------------
(* Entries, as lookups and scans see them.                                 *)

Entries == {<<o, ent[o].name, ent[o].ino>> : o \in Live}

\* What a successful dirent_enter does to the live entries.
LEMMA EnterAddsEntry ==
  ASSUME Inv, NEW n \in Names, NEW i \in Inos, DirentEnter(n, i), rc' = "OK"
  PROVE  \E s : /\ s \notin Live
                /\ Live' = Live \union {s}
                /\ ent'[s].name = n /\ ent'[s].ino = i
                /\ \A p \in Live : ent'[p].name = ent[p].name /\ ent'[p].ino = ent[p].ino
<1> USE DirAssumption, Blocks
<1> DEFINE o == First(SlotsFor(n))
           k == Need[ent[o].name]
<1>1. SlotsFor(n) # {} /\ o \in DOMAIN ent /\ i # NO_ENTRY
  BY SlotFound DEF DirentEnter
<1>2. \A p \in DOMAIN ent : ent[p] \in Records
  BY DEF Inv, Layout, TypeOK
<1>3. CASE ReusesFree(o, n)
  <2>1. ent' = Overwrite(o, n, i)
    BY <1>1, <1>3 DEF DirentEnter
  <2>2. /\ DOMAIN ent' = DOMAIN ent
        /\ ent'[o].name = n /\ ent'[o].ino = i /\ ent[o].ino = NO_ENTRY
        /\ \A p \in DOMAIN ent : p # o => ent'[p] = ent[p]
    BY <1>1, <1>2, <1>3, <2>1 DEF Overwrite, ReusesFree, Records
  <2> QED
    BY <1>1, <2>2 DEF Live
<1>4. CASE ~ReusesFree(o, n)
  <2> DEFINE s == o + k
  <2>1. ent' = Split(o, n, i) /\ HasSlack(o, n)
    BY <1>1, <1>4, SlotFound DEF DirentEnter
  <2>2. s \notin DOMAIN ent
    BY <1>1, <1>2, <2>1 DEF HasSlack, Inv, Layout, TypeOK, Tiling, Records
  <2>3. /\ DOMAIN ent' = DOMAIN ent \union {s}
        /\ \A p \in DOMAIN ent : ent'[p].name = ent[p].name /\ ent'[p].ino = ent[p].ino
        /\ ent'[s].name = n /\ ent'[s].ino = i
    BY <1>1, <1>2, <2>1, <2>2 DEF Split, Records
  <2> HIDE DEF s
  <2> QED
    BY <1>1, <2>2, <2>3 DEF Live
<1> QED
  BY <1>3, <1>4

\* What a successful dirent_delete does to the live entries.
LEMMA DeleteRemovesEntry ==
  ASSUME Inv, NEW n \in Names, Delete(n), Matches(n) # {}
  PROVE  /\ Live' = Live \ {First(Matches(n))}
         /\ \A p \in Live' : ent'[p].name = ent[p].name /\ ent'[p].ino = ent[p].ino
<1> USE DirAssumption, Blocks
<1> DEFINE o == First(Matches(n))
<1>1. /\ o \in Live /\ o \in DOMAIN ent
      /\ \A p \in DOMAIN ent : ent[p] \in Records
  BY EntryFound DEF Live, Inv, Layout, TypeOK
<1>2. CASE o \in BlockStarts
  <2>1. ent' = Clear(o)
    BY <1>2 DEF Delete
  <2> QED
    BY <1>1, <2>1 DEF Clear, Live, Records
<1>3. CASE o \notin BlockStarts
  <2>1. ent' = Merge(o)
    BY <1>3 DEF Delete
  <2>2. /\ DOMAIN ent' = DOMAIN ent \ {o}
        /\ \A p \in DOMAIN ent' : ent'[p].name = ent[p].name /\ ent'[p].ino = ent[p].ino
    BY <1>1, <1>3, <2>1, PrevRecord DEF Merge, Records, Inv
  <2> QED
    BY <1>1, <2>2 DEF Live
<1> QED
  BY <1>2, <1>3

LEMMA NextUnique ==
  ASSUME UncheckedEnter = FALSE, Inv, UniqueNames, [Next]_vars
  PROVE  UniqueNames'
<1>1. CASE ent' = ent
  BY <1>1 DEF UniqueNames, Live
<1>2. ASSUME NEW n \in Names, NEW i \in Inos, Create(n, i), ent' # ent
      PROVE  UniqueNames'
  <2>1. Matches(n) = {} /\ DirentEnter(n, i) /\ rc' = "OK"
    BY <1>2 DEF Create, DirentEnter
  <2> QED
    BY <2>1, EnterAddsEntry DEF UniqueNames, Matches
<1>3. ASSUME NEW n \in Names, Delete(n), ent' # ent
      PROVE  UniqueNames'
  <2>1. Matches(n) # {}
    BY <1>3 DEF Delete
  <2> QED
    BY <1>3, <2>1, DeleteRemovesEntry DEF UniqueNames
<1> QED
  BY <1>1, <1>2, <1>3 DEF Next, RenameInto, ReadDir, OpenScan, vars

\* Without rename a name has at most one entry.
THEOREM NamesStayUnique ==
  ASSUME UncheckedEnter = FALSE
  PROVE  Spec => []UniqueNames
<1>1. Init => UniqueNames
  BY DEF Init, UniqueNames, Live
<1>2. UniqueNames /\ Inv /\ [Next]_vars => UniqueNames'
  BY NextUnique
<1> QED
  BY <1>1, <1>2, Invariance, PTL DEF Spec

\* Whatever was looked up before, a dirent_enter that succeeds enters one entry.
LEMMA EnterRefines ==
  ASSUME Inv, [Next]_vars, NEW n \in Names, NEW i \in Inos, DirentEnter(n, i), rc' = "OK"
  PROVE  Map!Enter(n, i)
<1>1. PICK s : /\ s \notin Live
               /\ Live' = Live \union {s}
               /\ ent'[s].name = n /\ ent'[s].ino = i
               /\ \A p \in Live : ent'[p].name = ent[p].name /\ ent'[p].ino = ent[p].ino
  BY EnterAddsEntry
<1>2. s \in 0..(DirSize - 1)
  <2>1. Inv'
    BY NextInv
  <2> QED
    BY <1>1, <2>1 DEF Inv, Layout, TypeOK, Live
<1>3. Entries' = Entries \union {<<s, n, i>>}
  BY <1>1 DEF Entries
<1>4. \A d \in Entries : d[1] # s
  BY <1>1 DEF Entries
<1> QED
  BY <1>2, <1>3, <1>4 DEF Map!Enter, Entries

LEMMA StepRefines ==
  ASSUME Inv, [Next]_vars
  PROVE  [Map!Next]_Entries
<1>1. CASE ent' = ent
  BY <1>1 DEF Entries, Live
<1>2. ASSUME NEW n \in Names, NEW i \in Inos, Create(n, i), ent' # ent
      PROVE  Map!Bind(n, i)
  <2>1. Matches(n) = {} /\ DirentEnter(n, i) /\ rc' = "OK"
    BY <1>2 DEF Create, DirentEnter
  <2>2. Map!Bindings(n) = {}
    BY <2>1 DEF Map!Bindings, Matches
  <2> QED
    BY <2>1, <2>2, EnterRefines DEF Map!Bind
<1>3. ASSUME NEW n \in Names, NEW i \in Inos, RenameInto(n, i), ent' # ent
      PROVE  Map!BindAgain(n, i)
  <2>1. UncheckedEnter /\ DirentEnter(n, i) /\ rc' = "OK"
    BY <1>3 DEF RenameInto, DirentEnter
  <2> QED
    BY <2>1, EnterRefines DEF Map!BindAgain
<1>4. ASSUME NEW n \in Names, Delete(n), ent' # ent
      PROVE  Map!Unbind(n)
  <2>1. Matches(n) # {}
    BY <1>4 DEF Delete
  <2> DEFINE o == First(Matches(n))
             d == <<o, ent[o].name, ent[o].ino>>
  <2>2. o \in Live /\ ent[o].name = n /\ \A p \in Matches(n) : o <= p
    <3>1. Matches(n) \in SUBSET Nat
      BY Blocks DEF Matches, Live, Inv, Layout, TypeOK
    <3> QED
      BY <2>1, <3>1, EntryFound, FirstIn
  <2>3. d \in Map!Bindings(n)
    BY <2>2 DEF Map!Bindings
  <2>4. ASSUME NEW e \in Map!Bindings(n)
        PROVE  d[1] <= e[1]
    <3>1. PICK p \in Live : e = <<p, ent[p].name, ent[p].ino>> /\ ent[p].name = n
      BY <2>4 DEF Map!Bindings
    <3>2. o <= p
      BY <2>2, <3>1 DEF Matches
    <3> HIDE DEF o
    <3> QED
      BY <3>1, <3>2
  <2>5. Entries' = Entries \ {d}
    BY <1>4, <2>1, <2>2, DeleteRemovesEntry DEF Entries
  <2> QED
    BY <2>3, <2>4, <2>5 DEF Map!Unbind, Entries
<1> QED
  BY <1>1, <1>2, <1>3, <1>4 DEF Next, ReadDir, OpenScan, vars, Map!Next

\* The directory is a collection of entries that keep their places, and without rename
\* a map from names to inode numbers, for any names, lengths and blocks.
THEOREM DirectoryIsAMap == Spec => ImplementsNameMap
<1>1. Init => Map!Init
  BY DEF Init, Map!Init, Live
<1>2. Inv /\ [Next]_vars => [Map!Next]_Entries
  BY StepRefines
<1> QED
  BY <1>1, <1>2, Invariance, PTL
     DEF Spec, ImplementsNameMap, Map!Spec, Entries
===============================================================================
