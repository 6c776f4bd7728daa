-------------------------------- MODULE ExtDir --------------------------------
(***************************************************************************)
(* The records of one ext2 directory, as dir_lookup.c, dir_enter.c,        *)
(* dir_delete.c and dir.c walk, split and merge them, and a client that    *)
(* reads the directory with readdir cookies while other requests change    *)
(* it.  Positions are byte offsets in the directory file divided by        *)
(* DIR_ENTRY_ALIGN; ent maps the position of every record that a walk by   *)
(* d_rec_len reaches to the record.                                        *)
(***************************************************************************)
EXTENDS Integers

CONSTANTS
  Names,          \* file names
  Inos,           \* inode numbers, none of them NO_ENTRY
  Need,           \* Need[n]: aligned size of a record that holds name n
  BlockSize,      \* sb_block_size, in positions
  NumBlocks,      \* blocks of the directory: i_size never changes
  UncheckedEnter  \* whether rename, which enters a name without a lookup, runs

NO_ENTRY == 0

ASSUME DirAssumption ==
  /\ BlockSize \in Nat \ {0}
  /\ NumBlocks \in Nat \ {0}
  /\ Need \in [Names -> 1..BlockSize]
  /\ Inos \subseteq Nat \ {NO_ENTRY}
  /\ UncheckedEnter \in BOOLEAN

VARIABLES
  ent,     \* position -> record [ino, name, rec] (d_ino, d_name, d_rec_len)
  rc,      \* result of the last dirent_enter or dirent_delete
  cookie,  \* the client's readdir position
  seen,    \* history: names returned to the client since its scan began
  stable   \* history: positions of the entries live ever since then

vars == <<ent, rc, cookie, seen, stable>>

DirSize     == NumBlocks * BlockSize
BlockStarts == {b * BlockSize : b \in 0..(NumBlocks - 1)}
Records     == [ino : Inos \union {NO_ENTRY}, name : Names, rec : 1..DirSize]

First(S) == CHOOSE o \in S : \A p \in S : o <= p

Live       == {o \in DOMAIN ent : ent[o].ino # NO_ENTRY}
Matches(n) == {o \in Live : ent[o].name = n}

-------------------------------------------------------------------------------
(* dirent_enter: the first record, in position order, that is free and     *)
(* large enough or that has enough slack behind its own name.              *)

\* Variant: a record is taken for free if it is large enough.
ReusesLive(o, n)     == Need[n] <= ent[o].rec
ReusesFree(o, n) == ent[o].ino = NO_ENTRY /\ Need[n] <= ent[o].rec
\* Variant: the record's own name is not counted.
HasLength(o, n)  == Need[n] <= ent[o].rec
HasSlack(o, n)   == Need[n] <= ent[o].rec - Need[ent[o].name]
SlotsFor(n)      == {o \in DOMAIN ent : ReusesFree(o, n) \/ HasSlack(o, n)}

\* enter_dirent into a free record: the record keeps its length.
Overwrite(o, n, i) == [ent EXCEPT ![o].ino = i, ![o].name = n]

\* shrink_dir_entry followed by enter_dirent into the space it yields.
Split(o, n, i) ==
  LET s == o + Need[ent[o].name]
  IN [p \in DOMAIN ent \union {s} |->
        CASE p = s -> [ino |-> i, name |-> n, rec |-> ent[o].rec - Need[ent[o].name]]
          [] p = o -> [ent[o] EXCEPT !.rec = Need[ent[o].name]]
          [] OTHER -> ent[p]]

DirentEnter(n, i) ==
  \/ /\ SlotsFor(n) # {}
     /\ LET o == First(SlotsFor(n))
        IN ent' = IF ReusesFree(o, n) THEN Overwrite(o, n, i) ELSE Split(o, n, i)
     /\ rc' = "OK"
  \/ /\ SlotsFor(n) = {}
     /\ ent' = ent
     /\ rc' = "ENOENT"

\* new_inode: lookup_dir refuses a name that is there, then dirent_enter.
Create(n, i) ==
  /\ \/ Matches(n) # {} /\ ent' = ent /\ rc' = "EEXIST"
     \/ Matches(n) = {} /\ DirentEnter(n, i)
  /\ UNCHANGED <<cookie, seen, stable>>

\* The destination side of ext2_rename: dirent_enter with no lookup before it.
RenameInto(n, i) ==
  /\ UncheckedEnter
  /\ DirentEnter(n, i)
  /\ UNCHANGED <<cookie, seen, stable>>

-------------------------------------------------------------------------------
(* dirent_delete: the first record of that name becomes free; unless it    *)
(* begins its block, the record before it absorbs its length.              *)

Prev(o) == CHOOSE p \in DOMAIN ent : p + ent[p].rec = o

Clear(o) == [ent EXCEPT ![o].ino = NO_ENTRY]

\* Variant: the record before does not grow.
DropRecord(o) == [p \in DOMAIN ent \ {o} |-> ent[p]]

Merge(o) ==
  [p \in DOMAIN ent \ {o} |->
     IF p = Prev(o) THEN [ent[p] EXCEPT !.rec = @ + ent[o].rec] ELSE ent[p]]

Delete(n) ==
  /\ \/ /\ Matches(n) = {}
        /\ rc' = "ENOENT"
        /\ UNCHANGED <<ent, stable>>
     \/ /\ Matches(n) # {}
        /\ rc' = "OK"
        /\ LET o == First(Matches(n))
           IN /\ ent' = IF o \in BlockStarts THEN Clear(o) ELSE Merge(o)
              /\ stable' = stable \ {o}
  /\ UNCHANGED <<cookie, seen>>

-------------------------------------------------------------------------------
(* readdir.  The reply holds the entries from the record the cookie falls  *)
(* in up to next, the first entry the buffer had no room for; every prefix *)
(* is what some buffer size yields.  A buffer holds at least one dirent.   *)

Seek(c) == CHOOSE o \in DOMAIN ent : o <= c /\ c < o + ent[o].rec

\* Variant: the scan goes on behind the record the cookie falls in.
ReturnedBehind(next) == {o \in Live : Seek(cookie) < o /\ o < next}

Returned(next) == {o \in Live : Seek(cookie) <= o /\ o < next}

ReadDir ==
  /\ cookie < DirSize
  /\ \E next \in Live \union {DirSize} :
       /\ Returned(next) # {} \/ next = DirSize
       /\ cookie' = next
       /\ seen' = seen \union {ent[o].name : o \in Returned(next)}
  /\ UNCHANGED <<ent, rc, stable>>

\* The client rewinds: a scan begins at cookie 0.
OpenScan ==
  /\ cookie' = 0
  /\ seen' = {}
  /\ stable' = Live
  /\ UNCHANGED <<ent, rc>>

-------------------------------------------------------------------------------
\* An empty block is one free record, as mke2fs lays it out; any name bytes.
Init ==
  /\ \E n \in Names :
       ent = [o \in BlockStarts |-> [ino |-> NO_ENTRY, name |-> n, rec |-> BlockSize]]
  /\ rc = "OK"
  /\ cookie = 0
  /\ seen = {}
  /\ stable = {}

Next ==
  \/ \E n \in Names, i \in Inos : Create(n, i)
  \/ \E n \in Names, i \in Inos : RenameInto(n, i)
  \/ \E n \in Names : Delete(n)
  \/ ReadDir
  \/ OpenScan

Spec == Init /\ [][Next]_vars
-------------------------------------------------------------------------------
(* Properties *)

\* Every variable has its type.
TypeOK ==
  /\ DOMAIN ent \subseteq 0..(DirSize - 1)
  /\ ent \in [DOMAIN ent -> Records]
  /\ rc \in {"OK", "ENOENT", "EEXIST"}
  /\ cookie \in 0..DirSize
  /\ seen \subseteq Names
  /\ stable \subseteq DOMAIN ent

\* The records of each block tile it: every walk by d_rec_len starts at the
\* block's first byte, lands on record after record and ends at the block's
\* end, whatever sequence of splits (shrink_dir_entry) and merges
\* (delete_dir_entry) went before.
Tiling ==
  /\ BlockStarts \subseteq DOMAIN ent
  /\ \A o \in DOMAIN ent :
       /\ o + ent[o].rec \in DOMAIN ent \union {DirSize}
       /\ \A p \in DOMAIN ent : ~(o < p /\ p < o + ent[o].rec)

\* A record is never shorter than its own name needs, so the unsigned
\* subtraction in find_dirent_free_space (dir_enter.c:93) cannot wrap and hand
\* out space that belongs to the next record.
NamesFit == \A o \in DOMAIN ent : Need[ent[o].name] <= ent[o].rec

\* delete_dir_entry's comment (dir_delete.c:115): a free record that follows
\* the deleted one would have been merged before, so a free record is only
\* ever the first of its block and free space never fragments.
FreeOnlyFirst == \A o \in DOMAIN ent : ent[o].ino = NO_ENTRY => o \in BlockStarts

\* The layout on which every walk, insertion and merge of dir.c relies, in each of its
\* parts: any sequence of requests keeps it.
WellFormed == Tiling /\ NamesFit /\ FreeOnlyFirst

\* A name has at most one entry, so that lookup, unlink and rmdir, which each
\* search from the start of the directory, speak of the same inode.
UniqueNames == \A o, p \in Live : ent[o].name = ent[p].name => o = p

\* A scan by cookies misses no entry that was there throughout, however
\* entries are created, deleted, merged and reused between two readdir calls
\* (the case seek_to_valid_dirent's comment, dir.c:129, is about).
ScanMissesNothing == \A o \in stable : o < cookie => ent[o].name \in seen

\* A readdir call never moves a client's cookie back, even when the record it
\* pointed to has been merged away, so a scan always ends.
CookieAdvances == [][ReadDir => cookie < cookie']_vars

\* However records are split, merged, cleared and reused, the directory is to its users a
\* collection of entries that stay where they are until they are removed, and as long as
\* rename does not run a map from names to inode numbers.
Map == INSTANCE NameMap WITH Places <- 0..(DirSize - 1), Unchecked <- UncheckedEnter,
                             dir <- {<<o, ent[o].name, ent[o].ino>> : o \in Live}
ImplementsNameMap == Map!Spec
===============================================================================
