------------------------------ MODULE InodeAlloc ------------------------------
(***************************************************************************)
(* inode.c and bitmap.c: the inode bitmaps of the block groups, the counts *)
(* of free inodes in the group descriptors and the superblock, the search  *)
(* for a group that begins an allocation, and the release of an inode.     *)
(* The clients are new_inode, which allocates near the parent directory,   *)
(* and put_inode, which frees an inode whose last link is gone.  The       *)
(* handler may be started again once: the bitmaps are in blocks of the     *)
(* disk, but nothing writes the counts back.                               *)
(***************************************************************************)
EXTENDS Integers, FiniteSets, FiniteSetsExt

CONSTANTS
  Groups,     \* sb_groups_count
  PerGroup,   \* s_inodes_per_group
  FirstIno,   \* sb_first_ino: the inodes below it are reserved
  RootIno,    \* EXT2_ROOT_INO
  BlockBits,  \* bits in a bitmap block
  MaxBlocks   \* bound on a group's count of free blocks

ASSUME AllocAssumption ==
  /\ Groups \in Nat \ {0}
  /\ PerGroup \in Nat \ {0}
  /\ FirstIno \in 1..PerGroup
  /\ RootIno \in 1..(FirstIno - 1)
  /\ BlockBits \in Nat /\ Groups * PerGroup < BlockBits
  /\ MaxBlocks \in Nat \ {0}

NO_GROUP == -1

GroupIds == 0..(Groups - 1)
Inodes   == 1..(Groups * PerGroup)

VARIABLES
  bitmap,      \* group -> bits set in the block at g_inode_bitmap
  free,        \* group -> g_free_inodes_count
  sfree,       \* s_free_inodes_count
  freeBlocks,  \* group -> g_free_blocks_count, which blocks.c changes
  live,        \* history: inodes handed out and not freed since
  dirs,        \* the directories among them
  freed,       \* history: an inode has been freed
  restarted,   \* history: the handler was started a second time
  panicked     \* panic() was called: the handler has stopped

vars == <<bitmap, free, sfree, freeBlocks, live, dirs, freed, restarted, panicked>>

GroupOf(n) == (n - 1) \div PerGroup
BitOf(n)   == (n - 1) % PerGroup
\* Variants: inode numbers from 2 on; the group left out.
InoAtOffByOne(g, b) == g * PerGroup + b + 2
InoAtNoGroup(g, b)  == b + 1
InoAt(g, b) == g * PerGroup + b + 1

Panic ==
  panicked' = TRUE /\ UNCHANGED <<bitmap, free, sfree, freeBlocks, live, dirs, freed, restarted>>

-------------------------------------------------------------------------------
(* The choice of a group. *)

\* find_free_inode_dir_group: of the groups with at least the average of free
\* inodes, the first from start on that has the most free blocks.
\* Variant: strictly more free inodes than the average.
AboveAverage == {g \in GroupIds : free[g] > 0 /\ free[g] > sfree \div Groups}
Candidates == {g \in GroupIds : free[g] > 0 /\ free[g] >= sfree \div Groups}
Best(start) ==
  LET Turn(g) == (g - start) % Groups
  IN CHOOSE g \in Candidates :
       \A h \in Candidates : \/ freeBlocks[h] < freeBlocks[g]
                             \/ freeBlocks[h] = freeBlocks[g] /\ Turn(g) <= Turn(h)

\* The search starts at the parent's group, or anywhere for the root directory.
DirGroups(parent) ==
  LET starts == IF parent = RootIno THEN GroupIds ELSE {GroupOf(parent)}
  IN IF Candidates = {} THEN {NO_GROUP} ELSE {Best(s) : s \in starts}

\* find_free_inode_file_group: the quadratic and the linear search step through
\* the groups but look at the parent group's descriptor each time.
FileGroups(parent) ==
  LET g == GroupOf(parent)
  IN {IF free[g] > 0 /\ freeBlocks[g] > 0 THEN g
      ELSE IF free[g] > 0 THEN (g + 1) % Groups
      ELSE NO_GROUP}

-------------------------------------------------------------------------------
\* alloc_bit, from word 0: the lowest clear bit of the group's inodes.
ClearBits(g) == (0..(PerGroup - 1)) \ bitmap[g]

\* Variant: g_free_inodes_count is not decremented.
AllocUncounted(g, isDir) ==
  IF free[g] = 0 \/ ClearBits(g) = {} \/ InoAt(g, Min(ClearBits(g))) < FirstIno
  THEN Panic
  ELSE LET b == Min(ClearBits(g))
       IN /\ bitmap' = [bitmap EXCEPT ![g] = @ \union {b}]
          /\ sfree' = sfree - 1
          /\ live' = live \union {InoAt(g, b)}
          /\ dirs' = IF isDir THEN dirs \union {InoAt(g, b)} ELSE dirs \ {InoAt(g, b)}
          /\ UNCHANGED <<free, freeBlocks, freed, restarted, panicked>>

\* alloc_inode_bit and the rest of alloc_inode.
AllocInGroup(g, isDir) ==
  IF free[g] = 0 \/ ClearBits(g) = {} \/ InoAt(g, Min(ClearBits(g))) < FirstIno
  THEN Panic
  ELSE LET b == Min(ClearBits(g))
       IN /\ bitmap' = [bitmap EXCEPT ![g] = @ \union {b}]
          /\ free' = [free EXCEPT ![g] = @ - 1]
          /\ sfree' = sfree - 1
          /\ live' = live \union {InoAt(g, b)}
          /\ dirs' = IF isDir THEN dirs \union {InoAt(g, b)} ELSE dirs \ {InoAt(g, b)}
          /\ UNCHANGED <<freeBlocks, freed, restarted, panicked>>

AllocDir(parent) ==
  \E g \in DirGroups(parent) :
    IF g = NO_GROUP THEN UNCHANGED vars ELSE AllocInGroup(g, TRUE)

AllocFile(parent) ==
  \E g \in FileGroups(parent) :
    IF g = NO_GROUP THEN UNCHANGED vars ELSE AllocInGroup(g, FALSE)

\* free_inode and free_inode_bit: the bit cleared is number n, not BitOf(n).
FreeInode(n) ==
  LET g == GroupOf(n)
  IN IF n < FirstIno \/ n \notin bitmap[g]
     THEN Panic
     ELSE /\ bitmap' = [bitmap EXCEPT ![g] = @ \ {n}]
          /\ free' = [free EXCEPT ![g] = @ + 1]
          /\ sfree' = sfree + 1
          /\ live' = live \ {n}
          /\ dirs' = dirs \ {n}
          /\ freed' = TRUE
          /\ UNCHANGED <<freeBlocks, restarted, panicked>>

\* alloc_block and free_block move a group's count of free blocks.
BlockCount(g) ==
  /\ \E d \in {-1, 1} : /\ freeBlocks[g] + d \in 0..MaxBlocks
                        /\ freeBlocks' = [freeBlocks EXCEPT ![g] = @ + d]
  /\ UNCHANGED <<bitmap, free, sfree, live, dirs, freed, restarted, panicked>>

-------------------------------------------------------------------------------
\* As mke2fs leaves it: the reserved inodes and the padding are marked.
Reserved(g) == {b \in 0..(PerGroup - 1) : InoAt(g, b) < FirstIno}

FreeAtMount  == [g \in GroupIds |-> PerGroup - Cardinality(Reserved(g))]
SfreeAtMount == Groups * PerGroup - (FirstIno - 1)

\* The handler exits and is started again, with the counts of the first mount
\* (read_superblock, read_group_descriptors), of which that of blocks may be any.
Restart ==
  /\ ~restarted
  /\ restarted' = TRUE
  /\ free' = FreeAtMount
  /\ sfree' = SfreeAtMount
  /\ freeBlocks' \in [GroupIds -> 0..MaxBlocks]
  /\ UNCHANGED <<bitmap, live, dirs, freed, panicked>>

Init ==
  /\ bitmap = [g \in GroupIds |-> Reserved(g) \union (PerGroup..(BlockBits - 1))]
  /\ free = FreeAtMount
  /\ sfree = SfreeAtMount
  /\ freeBlocks \in [GroupIds -> 0..MaxBlocks]
  /\ live = {} /\ dirs = {} /\ freed = FALSE /\ restarted = FALSE
  /\ panicked = FALSE

Next ==
  /\ ~panicked
  /\ \/ \E p \in dirs \union {RootIno} : AllocDir(p) \/ AllocFile(p)
     \/ \E n \in live : FreeInode(n)
     \/ \E g \in GroupIds : BlockCount(g)
     \/ Restart

Spec == Init /\ [][Next]_vars

-------------------------------------------------------------------------------
(* Properties *)

\* Every variable has its type; until the handler is started again a group never has
\* more free inodes than inodes.
TypeOK ==
  /\ bitmap \in [GroupIds -> SUBSET (0..(BlockBits - 1))]
  /\ free \in [GroupIds -> Nat] /\ sfree \in Nat
  /\ ~restarted => \A g \in GroupIds : free[g] <= PerGroup
  /\ freeBlocks \in [GroupIds -> 0..MaxBlocks]
  /\ live \subseteq Inodes /\ dirs \subseteq live
  /\ {freed, restarted} \subseteq BOOLEAN /\ panicked \in BOOLEAN

\* The count in a descriptor is the number of clear bits in its bitmap, on which
\* alloc_inode_bit relies ("descriptor indicated free inode", inode.c:193).  So it
\* is for as long as no inode is freed, free_inode_bit may clear a bit beyond the
\* group's inodes, and the handler is not started again.
CountsMatchBitmap ==
  ~freed /\ ~restarted => \A g \in GroupIds : free[g] = Cardinality(ClearBits(g))

\* An inode that is handed out is nobody's: new_inode resets every field of it.  So
\* it is for as long as no inode is freed, free_inode_bit may clear the bit of one in
\* use; also after a restart with counts that promise too much.
NeverHandedOutTwice ==
  [][~freed /\ sfree' < sfree => Cardinality(live') = Cardinality(live) + 1]_vars

\* find_free_inode_dir_group (inode.c:274, "Group containing free inodes or
\* NO_GROUP"): mkdir finds a group whenever there is a free inode, although it
\* skips the groups below the average.
DirSearchComplete ==
  ~panicked => \A p \in dirs \union {RootIno} :
                 NO_GROUP \in DirGroups(p) => \A g \in GroupIds : free[g] = 0

\* inode.c:225, of free_inode_bit: it frees the "inode number corresponding to bit
\* in bitmap", so an inode in use stays marked and is not handed out again.
LiveAreMarked == \A n \in live : BitOf(n) \in bitmap[GroupOf(n)]
===============================================================================
