------------------------------ MODULE InodeCache ------------------------------
(***************************************************************************)
(* inode_cache.c: a fixed table of inode slots, the hash lists that find a *)
(* slot by inode number and the list of slots nobody references, which     *)
(* get_inode recycles from its head.  The handler runs one request to      *)
(* completion before it takes the next: a request first acquires its       *)
(* inodes, then changes and flushes them, then releases them.  Requests    *)
(* for file data instead use find_inode and take no reference.             *)
(*                                                                         *)
(* An inode's fields are its link count and val, everything else of the    *)
(* on-disk inode together with the time updates pending in i_update; val 0 *)
(* is i_mode = 0.  disk is the inode tables as the block cache holds them. *)
(***************************************************************************)
EXTENDS Integers, Sequences

CONSTANTS
  NumSlots,   \* NR_INODES
  Inos,       \* inode numbers
  Vals,       \* values of an inode's other fields
  MaxLinks,   \* bound on link counts
  MaxHeld     \* references one request takes at most (three, by rename)

NO_ENTRY == 0

ASSUME CacheAssumption ==
  /\ NumSlots \in Nat \ {0}
  /\ Inos \subseteq Nat \ {NO_ENTRY}
  /\ Vals \subseteq Nat /\ 0 \in Vals
  /\ MaxLinks \in Nat
  /\ MaxHeld \in Nat

Slots == 1..NumSlots

VARIABLES
  slot,       \* inode_cache: [ino, count, dirty, odi] of each slot
  unused,     \* unused_inode_list, head first
  disk,       \* the inode tables
  held,       \* references the current request holds
  releasing,  \* it has begun to release them
  late        \* history: inodes that read_file or a failed write_file changed
              \* and that write_inode has not written since

vars == <<slot, unused, disk, held, releasing, late>>

Ondisk  == [links : 0..MaxLinks, val : Vals]
Cleared == [links |-> 0, val |-> 0]

\* The hash lists: the slot that holds inode n, if any.
Hashed(n) == {s \in Slots : slot[s].ino = n}

\* LIST_REM_ENTRY from the unused list.
InUnused(s) == \E j \in 1..Len(unused) : unused[j] = s
Position(s) == CHOOSE j \in 1..Len(unused) : unused[j] = s
Without(s)  == [j \in 1..(Len(unused) - 1) |->
                  IF j < Position(s) THEN unused[j] ELSE unused[j + 1]]

-------------------------------------------------------------------------------
\* Variant: the slot stays in the unused list.
GetCachedListed(n) ==
  \E s \in Hashed(n) :
    /\ slot' = [slot EXCEPT ![s].count = @ + 1]
    /\ UNCHANGED <<unused, late>>

\* get_inode, inode in the cache.
GetCached(n) ==
  \E s \in Hashed(n) :
    /\ unused' = IF slot[s].count = 0 THEN Without(s) ELSE unused
    /\ slot' = [slot EXCEPT ![s].count = @ + 1]
    /\ late' = late

\* Variant: get_inode does not look in the hash list first.
GetFromDiskAlways(n) ==
  LET s == Head(unused)
  IN /\ unused # <<>>
     /\ unused' = Tail(unused)
     /\ slot' = [slot EXCEPT ![s] =
                   [ino |-> n, count |-> 1, dirty |-> @.dirty, odi |-> disk[n]]]
     /\ late' = late \ {slot[s].ino}

\* get_inode, inode not in the cache: recycle the head of the unused list.
\* i_dirty is left as the slot's last inode had it.
GetFromDisk(n) ==
  LET s == Head(unused)
  IN /\ Hashed(n) = {}
     /\ unused # <<>>
     /\ unused' = Tail(unused)
     /\ slot' = [slot EXCEPT ![s] =
                   [ino |-> n, count |-> 1, dirty |-> @.dirty, odi |-> disk[n]]]
     /\ late' = late \ {slot[s].ino}

\* get_inode; it fails when every slot is referenced.
Get(n) ==
  /\ ~releasing /\ held < MaxHeld
  /\ \/ (GetCached(n) \/ GetFromDisk(n)) /\ held' = held + 1
     \/ Hashed(n) = {} /\ unused = <<>> /\ UNCHANGED <<slot, unused, held, late>>
  /\ UNCHANGED <<disk, releasing>>

\* Variant: inode_markdirty is forgotten.
ModifyClean(s) ==
  /\ slot[s].count > 0 /\ ~releasing
  /\ \E a \in Ondisk : slot' = [slot EXCEPT ![s].odi = a]
  /\ UNCHANGED <<unused, disk, held, releasing, late>>

\* The request changes fields of an inode it holds and marks it dirty.
Modify(s) ==
  /\ slot[s].count > 0 /\ ~releasing
  /\ \E a \in Ondisk : slot' = [slot EXCEPT ![s].odi = a, ![s].dirty = TRUE]
  /\ UNCHANGED <<unused, disk, held, releasing, late>>

\* write_inode of an inode the request holds.
Flush(s) ==
  /\ slot[s].count > 0 /\ ~releasing
  /\ disk' = [disk EXCEPT ![slot[s].ino] = slot[s].odi]
  /\ slot' = [slot EXCEPT ![s].dirty = FALSE]
  /\ late' = late \ {slot[s].ino}
  /\ UNCHANGED <<unused, held, releasing>>

\* Variant: put_inode does not write the inode.
NoFlush(s) == UNCHANGED <<disk, late>>

\* put_inode's write_inode, when the inode is dirty.
FlushIfDirty(s) ==
  IF slot[s].dirty
  THEN disk' = [disk EXCEPT ![slot[s].ino] = slot[s].odi] /\ late' = late \ {slot[s].ino}
  ELSE UNCHANGED <<disk, late>>

\* Variant: put_inode without its check that i_count is at least 1.
PutUnchecked(s) ==
  /\ slot[s].count # 1
  /\ FlushIfDirty(s)
  /\ slot' = [slot EXCEPT ![s].count = @ - 1, ![s].dirty = FALSE]
  /\ unused' = unused

\* put_inode, other references remain.
PutShared(s) ==
  /\ slot[s].count > 1
  /\ FlushIfDirty(s)
  /\ slot' = [slot EXCEPT ![s].count = @ - 1, ![s].dirty = FALSE]
  /\ unused' = unused

\* Variant: the slot does not go back to the unused list.
PutLastUnlisted(s) ==
  /\ slot[s].count = 1 /\ slot[s].odi.links # 0
  /\ FlushIfDirty(s)
  /\ slot' = [slot EXCEPT ![s].count = 0, ![s].dirty = FALSE]
  /\ unused' = unused

\* put_inode, last reference to a linked inode: it stays cached.
PutLast(s) ==
  /\ slot[s].count = 1 /\ slot[s].odi.links # 0
  /\ FlushIfDirty(s)
  /\ slot' = [slot EXCEPT ![s].count = 0, ![s].dirty = FALSE]
  /\ unused' = Append(unused, s)

\* put_inode, last reference to an inode without links: truncate_inode does
\* nothing, free_inode clears i_mode, the slot is emptied and reused first.
PutFree(s) ==
  /\ slot[s].count = 1 /\ slot[s].odi.links = 0
  /\ disk' = [disk EXCEPT ![slot[s].ino] = Cleared]
  /\ late' = late \ {slot[s].ino}
  /\ slot' = [slot EXCEPT ![s] =
                [ino |-> NO_ENTRY, count |-> 0, dirty |-> FALSE, odi |-> Cleared]]
  /\ unused' = <<s>> \o unused

Put(s) ==
  /\ held > 0
  /\ PutShared(s) \/ PutLast(s) \/ PutFree(s)
  /\ held' = held - 1
  /\ releasing' = (held > 1)

-------------------------------------------------------------------------------
(* read_file and write_file: find_inode, no reference, no put_inode.       *)

\* read_file marks the access time for update and the inode dirty.
ReadFile(n) ==
  /\ held = 0
  /\ \E s \in Hashed(n), v \in Vals :
       slot' = [slot EXCEPT ![s].odi.val = v, ![s].dirty = TRUE]
  /\ late' = late \union {n}
  /\ UNCHANGED <<unused, disk, held, releasing>>

\* write_file that transfers everything writes the inode at the end.
WriteFile(n) ==
  /\ held = 0
  /\ \E s \in Hashed(n), v \in Vals :
       /\ slot' = [slot EXCEPT ![s].odi.val = v, ![s].dirty = FALSE]
       /\ disk' = [disk EXCEPT ![n] = [slot[s].odi EXCEPT !.val = v]]
  /\ late' = late \ {n}
  /\ UNCHANGED <<unused, held, releasing>>

\* write_file that fails half way: blocks entered in the map mark the inode
\* dirty, the new size alone does not, and nothing is written.
FailedWrite(n) ==
  /\ held = 0
  /\ \E s \in Hashed(n), v \in Vals, d \in BOOLEAN :
       slot' = [slot EXCEPT ![s].odi.val = v, ![s].dirty = (slot[s].dirty \/ d)]
  /\ late' = late \union {n}
  /\ UNCHANGED <<unused, disk, held, releasing>>

-------------------------------------------------------------------------------
\* init_inode_cache: every slot is empty and unused, in table order.
Init ==
  /\ slot = [s \in Slots |-> [ino |-> NO_ENTRY, count |-> 0, dirty |-> FALSE, odi |-> Cleared]]
  /\ unused = [j \in Slots |-> j]
  /\ disk \in [Inos -> Ondisk]
  /\ held = 0
  /\ releasing = FALSE
  /\ late = {}

Next ==
  \/ \E n \in Inos : Get(n) \/ ReadFile(n) \/ WriteFile(n) \/ FailedWrite(n)
  \/ \E s \in Slots : Modify(s) \/ Flush(s) \/ Put(s)

Spec == Init /\ [][Next]_vars

-------------------------------------------------------------------------------
(* Properties *)

\* Every variable has its type.
TypeOK ==
  /\ slot \in [Slots -> [ino : Inos \union {NO_ENTRY}, count : Nat,
                         dirty : BOOLEAN, odi : Ondisk]]
  /\ unused \in Seq(Slots)
  /\ disk \in [Inos -> Ondisk]
  /\ held \in 0..MaxHeld
  /\ releasing \in BOOLEAN
  /\ late \subseteq Inos

\* An inode is in at most one slot, so two handlers of one request that get the
\* same inode (rename within a directory) share its fields.
OneSlotPerInode ==
  \A s, t \in Slots : slot[s].ino = slot[t].ino /\ slot[s].ino # NO_ENTRY => s = t

\* The unused list holds exactly the slots without references, each once: a
\* referenced slot is never recycled and no free slot is lost.
UnusedExact ==
  /\ \A s \in Slots : InUnused(s) <=> slot[s].count = 0
  /\ \A j, k \in 1..Len(unused) : unused[j] = unused[k] => j = k

\* The hash lists and the unused list speak of the slots as they are, after any
\* requests: what get_inode finds or recycles is the slot it should be.
TableExact == OneSlotPerInode /\ UnusedExact

\* An inode that is not marked dirty, or not referenced, agrees with the inode
\* table, in its links always and otherwise unless its last change is late: so
\* put_inode may skip write_inode, and get_inode may drop the slot, without losing
\* a link or what a request other than for file data changed.
SavedWhenClean ==
  \A s \in Slots :
    slot[s].ino # NO_ENTRY /\ (~slot[s].dirty \/ slot[s].count = 0) =>
      /\ slot[s].odi.links = disk[slot[s].ino].links
      /\ slot[s].ino \notin late => slot[s].odi = disk[slot[s].ino]

\* get_inode has a slot for a request that holds fewer inodes than there are
\* slots ("..get_inode() failed to find free inode", inode_cache.c:95): slots are
\* not lost, and NR_INODES bounds what a request may hold and nothing else.
SlotsSuffice == held < NumSlots /\ ~releasing => unused # <<>>

\* While a request holds an inode its slot keeps it (get_inode recycles only
\* unreferenced slots).
HeldStaysPut ==
  [][\A s \in Slots : slot[s].count > 0 /\ slot'[s].count > 0 => slot'[s].ino = slot[s].ino]_vars

\* The cache is invisible: handlers see one store of inodes.
CachedOrDisk(n) == IF Hashed(n) # {} THEN slot[CHOOSE s \in Hashed(n) : TRUE].odi ELSE disk[n]
Store == INSTANCE InodeStore
           WITH attr   <- [n \in Inos |-> CachedOrDisk(n)],
                pinned <- {n \in Inos : \E s \in Hashed(n) : slot[s].count > 0},
                late   <- late
ImplementsInodeStore == Store!Spec
===============================================================================
