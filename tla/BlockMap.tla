------------------------------- MODULE BlockMap -------------------------------
(***************************************************************************)
(* block.c: the block bitmaps and their counts, and the direct and         *)
(* indirect blocks through which new_block maps a position of a file.  An  *)
(* inode with its i_block array and an indirect block are both nodes with  *)
(* entries; a position is a path of indices that begins at the inode.      *)
(*                                                                         *)
(* Indirect blocks and bitmaps are changed in the block cache, i_block and *)
(* i_blocks in the inode, which a failed write_file does not write back:   *)
(* when its slot is recycled, or the handler exits, they are as last saved.*)
(* The counts of free blocks live in memory: group_descriptors_markdirty   *)
(* only sets a flag, and no code writes them or the superblock back, so a  *)
(* handler that starts again has the counts of the first start.  What the  *)
(* block cache (a library outside this repository) holds is taken to reach *)
(* the disk.                                                               *)
(*                                                                         *)
(* The removal of a file frees none of its blocks: truncate_inode does     *)
(* nothing, put_inode only writes the inode (Flush), and when the inode is *)
(* allocated again alloc_inode forgets the blocks.                         *)
(***************************************************************************)
EXTENDS Integers, FiniteSets

CONSTANTS
  Files,        \* the inodes
  Groups,       \* sb_groups_count
  PerGroup,     \* s_blocks_per_group
  FirstBlock,   \* s_first_data_block
  System,       \* superblock, descriptors, bitmaps, inode tables and padding
  NDir,         \* EXT2_NDIR_BLOCKS
  Addr,         \* sb_addr_in_block
  Positions,    \* positions that writes use, in blocks
  MaxRestarts   \* bound on restarts of the handler

NO_BLOCK == 0

Blocks == FirstBlock..(FirstBlock + Groups * PerGroup - 1)

ASSUME BlockAssumption ==
  /\ Groups \in Nat \ {0} /\ PerGroup \in Nat \ {0}
  /\ FirstBlock \in {0, 1}
  /\ System \subseteq Blocks /\ Blocks \intersect {NO_BLOCK} \subseteq System
  /\ NDir \in Nat \ {0} /\ Addr \in Nat \ {0}
  \* MAX_FILE_POS, which write_file checks, is within the triple indirect blocks.
  /\ Positions \subseteq 0..(NDir + Addr + Addr * Addr + Addr * Addr * Addr - 1)
  /\ MaxRestarts \in Nat
  /\ Files \intersect (Blocks \union {NO_BLOCK}) = {}

GroupIds   == 0..(Groups - 1)
GroupOf(b) == (b - FirstBlock) \div PerGroup
InGroup(g) == {b \in Blocks : GroupOf(b) = g}

VARIABLES
  entry,    \* node -> index -> block: i_block of files, contents of indirect blocks
  iblocks,  \* file -> i_blocks, in blocks
  marked,   \* blocks whose bit is set in the bitmap of their group
  free,     \* group -> g_free_blocks_count
  sfree,    \* s_free_blocks_count
  saved,    \* file -> i_block and i_blocks in the inode table
  dropped,  \* history: unsaved changes of an inode have been dropped
  orphans,  \* history: blocks of files whose inodes have been allocated again
  restarts,
  panicked

vars == <<entry, iblocks, marked, free, sfree, saved, dropped, orphans, restarts, panicked>>

-------------------------------------------------------------------------------
(* calc_block_indirection_offsets.                                         *)

DoubInd == NDir + Addr
TripInd == DoubInd + Addr * Addr

Depth(p) == IF p < NDir THEN 0 ELSE IF p < DoubInd THEN 1 ELSE IF p < TripInd THEN 2 ELSE 3

\* Variant: a triple indirect position starts at the double indirect block.
PathWrongTop(p) ==
  CASE Depth(p) = 0 -> <<p>>
    [] Depth(p) = 1 -> <<NDir, p - NDir>>
    [] Depth(p) = 2 -> <<NDir + 1, (p - DoubInd) \div Addr, (p - DoubInd) % Addr>>
    [] Depth(p) = 3 -> LET q == p - TripInd
                       IN <<NDir + 1, q \div (Addr * Addr),
                            (q % (Addr * Addr)) \div Addr, (q % (Addr * Addr)) % Addr>>

\* The indices on the way from the inode to the block: one more than the depth.
Path(p) ==
  CASE Depth(p) = 0 -> <<p>>
    [] Depth(p) = 1 -> <<NDir, p - NDir>>
    [] Depth(p) = 2 -> <<NDir + 1, (p - DoubInd) \div Addr, (p - DoubInd) % Addr>>
    [] Depth(p) = 3 -> LET q == p - TripInd
                       IN <<NDir + 2, q \div (Addr * Addr),
                            (q % (Addr * Addr)) \div Addr, (q % (Addr * Addr)) % Addr>>

\* read_map_entry: an entry of a node, NO_BLOCK behind a hole.
Follow(ent, node, i) == IF node = NO_BLOCK THEN NO_BLOCK ELSE ent[node][i]
ReadMap(ent, f, p) ==
  LET k  == Path(p)
      b0 == ent[f][k[1]]
      b1 == Follow(ent, b0, k[2])
      b2 == Follow(ent, b1, k[3])
  IN CASE Depth(p) = 0 -> b0
       [] Depth(p) = 1 -> b1
       [] Depth(p) = 2 -> b2
       [] Depth(p) = 3 -> Follow(ent, b2, k[4])

-------------------------------------------------------------------------------
(* The functions of block.c on a state d = [entry, iblocks, marked, free,  *)
(* sfree, panicked].                                                       *)

Disk == [entry |-> entry, iblocks |-> iblocks, marked |-> marked,
         free |-> free, sfree |-> sfree, panicked |-> panicked]

Panic(d) == [d EXCEPT !.panicked = TRUE]

\* alloc_block: the groups are tried from the first on, whatever the goal.
Clear(d, g)   == InGroup(g) \ d.marked
Tried(d)      == {g \in GroupIds : d.free[g] # 0}
First(S)      == CHOOSE x \in S : \A y \in S : x <= y
HasBit(d)     == {g \in Tried(d) : Clear(d, g) # {}}
\* A tried group other than the first without a clear bit, before any that has one.
Inconsistent(d) ==
  \E g \in Tried(d) \ HasBit(d) : g # 0 /\ \A h \in HasBit(d) : g < h

\* Variant: g_free_blocks_count is not decremented.
TakeUncounted(d, b) == [d EXCEPT !.marked = @ \union {b}, !.sfree = @ - 1]

Take(d, b) == [d EXCEPT !.marked = @ \union {b}, !.free[GroupOf(b)] = @ - 1, !.sfree = @ - 1]

\* The outcome [disk, block], NO_BLOCK if there is none.
AllocBlock(d) ==
  IF d.sfree = 0 \/ Tried(d) = {} THEN [disk |-> d, block |-> NO_BLOCK]
  ELSE IF Inconsistent(d) \/ HasBit(d) = {} THEN [disk |-> Panic(d), block |-> NO_BLOCK]
  ELSE LET b == First(Clear(d, First(HasBit(d))))
       IN [disk |-> Take(d, b), block |-> b]

\* Variant: nothing is freed.
FreeNothing(d, b) == d

FreeBlock(d, b) ==
  IF b \notin d.marked \/ b \in System
  THEN Panic(d)
  ELSE [d EXCEPT !.marked = @ \ {b}, !.free[GroupOf(b)] = @ + 1, !.sfree = @ + 1]

SetEntry(d, f, node, i, b) == [d EXCEPT !.entry[node][i] = b, !.iblocks[f] = @ + 1]

\* Variants: a new indirect block keeps what the disk held; it is not counted.
AddUncleared(d, f, node, i, b) == SetEntry(d, f, node, i, b)
AddUncounted(d, f, node, i, b) ==
  [d EXCEPT !.entry[b] = [j \in 0..(Addr - 1) |-> NO_BLOCK], !.entry[node][i] = b]

\* An indirect block is cleared in the cache and entered in the node above it.
AddIndirect(d, f, node, i, b) ==
  SetEntry([d EXCEPT !.entry[b] = [j \in 0..(Addr - 1) |-> NO_BLOCK]], f, node, i, b)

\* enter_map_entry, one level: from a place [disk, node] to the indirect block in
\* entry i, made if it is missing; node NO_BLOCK when there is no space for it.
Enter(at, f, i) ==
  LET there == at.disk.entry[at.node][i]
      new   == AllocBlock(at.disk)
  IN IF at.node = NO_BLOCK THEN at
     ELSE IF there # NO_BLOCK THEN [at EXCEPT !.node = there]
     ELSE IF new.block = NO_BLOCK THEN [disk |-> new.disk, node |-> NO_BLOCK]
     ELSE [disk |-> AddIndirect(new.disk, f, at.node, i, new.block), node |-> new.block]

\* enter_map_entry up to the last node of the path.
Descend(d, f, p) ==
  LET k   == Path(p)
      at0 == [disk |-> d, node |-> f]
      at1 == Enter(at0, f, k[1])
      at2 == Enter(at1, f, k[2])
  IN CASE Depth(p) = 0 -> at0
       [] Depth(p) = 1 -> at1
       [] Depth(p) = 2 -> at2
       [] Depth(p) = 3 -> Enter(at2, f, k[3])

\* new_block for a position that has no block.  When there is no space for an
\* indirect block the ones made before stay, and the data block is freed.
NewBlock(d0, f, p) ==
  LET data == AllocBlock(d0)
      last == Descend(data.disk, f, p)
  IN IF data.block = NO_BLOCK THEN data.disk
     ELSE IF last.disk.panicked THEN last.disk
     ELSE IF last.node = NO_BLOCK THEN FreeBlock(last.disk, data.block)
     ELSE SetEntry(last.disk, f, last.node, Path(p)[Depth(p) + 1], data.block)

-------------------------------------------------------------------------------
\* write_file reaches a position that has no block.  It writes the inode at the end
\* unless this or a later part of the transfer fails.
Write(f, p) ==
  /\ ReadMap(entry, f, p) = NO_BLOCK
  /\ LET d == NewBlock(Disk, f, p)
     IN /\ entry' = d.entry /\ iblocks' = d.iblocks /\ marked' = d.marked
        /\ free' = d.free /\ sfree' = d.sfree /\ panicked' = d.panicked
        /\ \/ saved' = saved
           \/ /\ ReadMap(d.entry, f, p) # NO_BLOCK
              /\ saved' = [saved EXCEPT ![f] = [block |-> d.entry[f], count |-> d.iblocks[f]]]
  /\ UNCHANGED <<dropped, orphans, restarts>>

Unsaved == {f \in Files : saved[f] # [block |-> entry[f], count |-> iblocks[f]]}

\* write_inode on behalf of another request.
Flush(f) ==
  /\ f \in Unsaved
  /\ saved' = [saved EXCEPT ![f] = [block |-> entry[f], count |-> iblocks[f]]]
  /\ UNCHANGED <<entry, iblocks, marked, free, sfree, dropped, orphans, restarts, panicked>>

\* The inodes F are read from the inode table again.
Reread(F) ==
  /\ entry' = [n \in DOMAIN entry |-> IF n \in F THEN saved[n].block ELSE entry[n]]
  /\ iblocks' = [f \in Files |-> IF f \in F THEN saved[f].count ELSE iblocks[f]]
  /\ dropped' = (dropped \/ F \intersect Unsaved # {})
  /\ UNCHANGED <<marked, saved, orphans, panicked>>

\* get_inode recycles the slot of an inode and reads the inode when next it is used.
Recycle(f) ==
  /\ f \in Unsaved
  /\ Reread({f})
  /\ UNCHANGED <<free, sfree, restarts>>

\* The entries in use of a file: of its inode and of its indirect blocks.
Below(n)   == {<<n, i>> : i \in 0..(Addr - 1)}
InUse(S)    == {r \in S : entry[r[1]][r[2]] # NO_BLOCK}
Targets(S) == {entry[r[1]][r[2]] : r \in InUse(S)}
Kids(N)    == Targets(UNION {Below(n) : n \in N})

Single(f)  == Targets({<<f, NDir>>})
Double(f)  == Targets({<<f, NDir + 1>>})
Triple(f)  == Targets({<<f, NDir + 2>>})
Indirect(f) == Single(f) \union Double(f) \union Kids(Double(f)) \union Triple(f)
               \union Kids(Triple(f)) \union Kids(Kids(Triple(f)))
Refs(f) == InUse({<<f, i>> : i \in 0..(NDir + 2)} \union UNION {Below(n) : n \in Indirect(f)})

\* alloc_inode, and write_inode in new_inode: the inode of a removed file is handed out
\* again (or, after free_inode_bit has cleared a wrong bit, one in use) and is empty.
AllocInode(f) ==
  LET none == [i \in 0..(NDir + 2) |-> NO_BLOCK]
  IN /\ entry' = [entry EXCEPT ![f] = none]
     /\ iblocks' = [iblocks EXCEPT ![f] = 0]
     /\ saved' = [saved EXCEPT ![f] = [block |-> none, count |-> 0]]
     /\ orphans' = orphans \union Targets(Refs(f))
     /\ UNCHANGED <<marked, free, sfree, dropped, restarts, panicked>>

FreeAtMount == [g \in GroupIds |-> Cardinality(InGroup(g) \ System)]

\* The handler exits and is started again: read_superblock.
Restart ==
  /\ restarts < MaxRestarts
  /\ restarts' = restarts + 1
  /\ Reread(Files)
  /\ free' = FreeAtMount
  /\ sfree' = Cardinality(Blocks \ System)

\* Empty files; a free block still holds what was once in it, here block numbers.
Init ==
  /\ entry = [n \in Files \union Blocks |->
                IF n \in Files THEN [i \in 0..(NDir + 2) |-> NO_BLOCK]
                ELSE [i \in 0..(Addr - 1) |-> FirstBlock + Groups * PerGroup - 1]]
  /\ iblocks = [f \in Files |-> 0]
  /\ marked = System
  /\ free = FreeAtMount
  /\ sfree = Cardinality(Blocks \ System)
  /\ saved = [f \in Files |-> [block |-> entry[f], count |-> 0]]
  /\ dropped = FALSE
  /\ orphans = {}
  /\ restarts = 0
  /\ panicked = FALSE

Next ==
  /\ ~panicked
  /\ \/ \E f \in Files, p \in Positions : Write(f, p)
     \/ \E f \in Files : Flush(f) \/ Recycle(f) \/ AllocInode(f)
     \/ Restart

Spec == Init /\ [][Next]_vars

-------------------------------------------------------------------------------
(* Properties *)

\* Every variable has its type; a group never has more free blocks than at first.
TypeOK ==
  /\ \A f \in Files : entry[f] \in [0..(NDir + 2) -> Blocks \union {NO_BLOCK}]
  /\ \A b \in Blocks : entry[b] \in [0..(Addr - 1) -> Blocks \union {NO_BLOCK}]
  /\ iblocks \in [Files -> Nat]
  /\ marked \subseteq Blocks
  /\ \A g \in GroupIds : free[g] \in 0..FreeAtMount[g]
  /\ sfree \in 0..Cardinality(Blocks \ System)
  /\ saved \in [Files -> [block : [0..(NDir + 2) -> Blocks \union {NO_BLOCK}], count : Nat]]
  /\ dropped \in BOOLEAN
  /\ orphans \subseteq Blocks
  /\ restarts \in 0..MaxRestarts
  /\ panicked \in BOOLEAN

AllRefs == UNION {Refs(f) : f \in Files}

\* No block, data or indirect, is in two places: of two files, of one, or of a file
\* and the file system itself; not even when the counts alloc_block goes by are
\* those of an earlier mount.
OwnedOnce ==
  /\ \A r, s \in AllRefs : entry[r[1]][r[2]] = entry[s[1]][s[2]] => r = s
  /\ Targets(AllRefs) \intersect System = {}

\* A marked block is in use by some file, or was a block of a file whose inode has been
\* allocated again: an allocation that runs out of space at any of its indirect blocks
\* (block.c:128, 147) gives back what it does not enter.  So it is until an inode that
\* was not saved is dropped; the blocks of removed files are lost for good, which the
\* TODO at ops_link.c:185 admits, but no others are.
NothingLeaks == ~panicked /\ ~dropped => marked \ System = Targets(AllRefs) \union orphans

\* Until the handler is started a second time the counts agree with the bitmaps, so
\* the panics of alloc_block (block.c:559) and free_block (block.c:597) do not happen;
\* and i_blocks counts the data and indirect blocks of a file, after failures as well,
\* until an inode that was not saved is dropped.
CountsMatch ==
  /\ restarts = 0 =>
       /\ ~panicked
       /\ \A g \in GroupIds : free[g] = Cardinality(InGroup(g) \ marked)
       /\ sfree = Cardinality(Blocks \ marked)
  /\ ~dropped => \A f \in Files : iblocks[f] = Cardinality(Refs(f))

\* The block map is a map of positions: new_block maps the position asked for, to a
\* block of its own, and changes the block of no other, whatever indirect blocks
\* they share and whether or not it succeeds.  Only an unsaved inode loses positions, and
\* an inode that is allocated again.
Map == INSTANCE FileMap
         WITH map <- {x \in {<<f, p, ReadMap(entry, f, p)>> : f \in Files, p \in Positions} :
                        x[3] # NO_BLOCK},
              unsaved <- Unsaved
ImplementsFileMap == Map!Spec
===============================================================================
