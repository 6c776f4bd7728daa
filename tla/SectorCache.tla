----------------------------- MODULE SectorCache -----------------------------
(***************************************************************************)
(* sector.c of fatfs: a fixed number of buffers in front of the block      *)
(* device, the hash lists that find the buffer of a sector, the list of    *)
(* buffers in the order of their use, of which the last is given up, and   *)
(* the list of dirty ones.  A transfer of several sectors is one step per  *)
(* sector.                                                                 *)
(*                                                                         *)
(* BufWriteSector compares the size_t it got from write with 0, so it      *)
(* never sees a failure: here the device may drop a write.  BufReadSector  *)
(* is as blind; device reads always succeed in this model.                 *)
(***************************************************************************)
EXTENDS Integers, Sequences, FiniteSets, SequencesExt

CONSTANTS
  SectorIds,     \* sectors of the device
  Buffers,       \* blk_table
  BUF_HASH_CNT,  \* hash lists
  Offsets,       \* offsets in a sector
  Bytes,         \* what is at an offset; 0 is a cleared byte
  Spans,         \* sets of offsets that one write covers
  Configs        \* the parameters of CreateCache that the cache may have, with the
                 \* modes its clients use and a bound on dropped writes:
                 \* [writeback_delay, writethru_critical, modes, maxDropped]

ASSUME SectorAssumption ==
  /\ SectorIds \subseteq Nat
  /\ BUF_HASH_CNT \in Nat \ {0}
  /\ IsFiniteSet(Buffers) /\ Buffers # {}
  /\ 0 \in Bytes
  /\ Spans \subseteq SUBSET Offsets

\* The device drops one write at most, of a cache without delay whose clients do not ask
\* for BUF_IMMED: init.c:64 creates that one.  A second drop, or that of a buffer that is
\* clean then, would lose data.
ASSUME ConfigAssumption ==
  \A c \in Configs :
    /\ c.maxDropped \in 0..1
    /\ \A mode \in c.modes : "BUF_IMMED" \in mode => c.writethru_critical # 0 /\ c.maxDropped = 0
    /\ c.maxDropped = 1 => c.writeback_delay = 0

VARIABLES
  config,   \* the parameters of the cache, fixed by CreateCache
  cache     \* buffers and lists, and the device behind them: see CacheTypeOK

cacheVars == <<config, cache>>

SectorData == [Offsets -> Bytes]
Hash(s)    == s % BUF_HASH_CNT

-------------------------------------------------------------------------------
(* Lists, for a cache c and a buffer b. *)

\* LIST_REM_ENTRY
Without(list, b) == RemoveFirst(list, b)

\* The buffer of sector s: the first with that number in the hash list of s.
Matches(c, s)  == {j \in 1..Len(c.hash_list[Hash(s)]) : c.blk[c.hash_list[Hash(s)][j]].sector = s}
Buffered(c, s) == Matches(c, s) # {}
BufferOf(c, s) == c.hash_list[Hash(s)][CHOOSE j \in Matches(c, s) : \A k \in Matches(c, s) : j <= k]

Clean(c, b)    == [c EXCEPT !.blk[b].dirty = FALSE, !.dirty_list = Without(@, b)]
MakeDirty(c, b) ==
  IF c.blk[b].dirty THEN c ELSE [c EXCEPT !.blk[b].dirty = TRUE, !.dirty_list = Append(@, b)]

-------------------------------------------------------------------------------
(* Operations, as the set of caches they may leave. *)

\* BufWriteSector: the device has the buffer, or dropped the write.
BufWriteSector(c, b) ==
  {[c EXCEPT !.disk[c.blk[b].sector] = c.blk[b].mem]}
    \union (IF c.dropped < config.maxDropped THEN {[c EXCEPT !.dropped = @ + 1]} ELSE {})

\* Variant: a dirty buffer is given up without being written.
ReclaimUnwritten(c) ==
  LET b == Last(c.lru_list)
  IN {[Clean(c, b) EXCEPT
         !.lru_list = Without(@, b),
         !.hash_list[Hash(c.blk[b].sector)] = Without(@, b),
         !.free_list = <<b>> \o @,
         !.blk[b].in_use = FALSE]}

\* BufGetBlock, no buffer free: give up the one at the tail of the LRU list.
Reclaim(c) ==
  LET b == Last(c.lru_list)
  IN {[w EXCEPT !.lru_list = Without(@, b),
                !.hash_list[Hash(w.blk[b].sector)] = Without(@, b),
                !.free_list = <<b>> \o @,
                !.blk[b].in_use = FALSE] :
        w \in IF c.blk[b].dirty THEN BufWriteSector(Clean(c, b), b) ELSE {c}}

\* Variant: the hash list of the sector the buffer had before.
FillOldBucket(c, s) ==
  LET b == Head(c.free_list)
  IN [c EXCEPT !.free_list = Tail(@),
               !.lru_list = <<b>> \o @,
               !.blk[b] = [sector |-> s, dirty |-> FALSE, in_use |-> TRUE, mem |-> c.disk[s]],
               !.hash_list[Hash(c.blk[b].sector)] = <<b>> \o @]

\* BufGetBlock with BufReadSector: the first free buffer becomes that of sector s.
Fill(c, s) ==
  LET b == Head(c.free_list)
  IN [c EXCEPT !.free_list = Tail(@),
               !.lru_list = <<b>> \o @,
               !.blk[b] = [sector |-> s, dirty |-> FALSE, in_use |-> TRUE, mem |-> c.disk[s]],
               !.hash_list[Hash(s)] = <<b>> \o @]

\* BufGetBlock: afterwards the buffer of s is the first of the LRU list.
BufGetBlock(c, s) ==
  IF Buffered(c, s)
  THEN {[c EXCEPT !.lru_list = <<BufferOf(c, s)>> \o Without(@, BufferOf(c, s))]}
  ELSE {Fill(r, s) : r \in IF c.free_list = <<>> THEN Reclaim(c) ELSE {c}}

\* Variant: a write at once leaves the buffer clean, as a write of BUF_IMMED does.
PutClean(c, b, mode) ==
  IF config.writeback_delay = 0 THEN BufWriteSector(Clean(c, b), b) ELSE {MakeDirty(c, b)}

\* Variant: a buffer goes to the dirty list whether it is on it or not.
PutTwice(c, b, mode) ==
  LET l == [c EXCEPT !.blk[b].dirty = TRUE, !.dirty_list = Append(@, b)]
  IN IF config.writeback_delay = 0 THEN BufWriteSector(l, b) ELSE {l}

\* BufPutBlock.  A buffer written because there is no delay stays dirty and listed.
BufPutBlock(c, b, mode) ==
  LET l == IF "BUF_ONESHOT" \in mode
           THEN [c EXCEPT !.lru_list = Append(Without(@, b), b)] ELSE c
  IN IF "BUF_IMMED" \in mode
     THEN IF config.writethru_critical # 0 THEN BufWriteSector(Clean(l, b), b) ELSE {Clean(l, b)}
     ELSE IF config.writeback_delay = 0 THEN BufWriteSector(MakeDirty(l, b), b)
          ELSE {MakeDirty(l, b)}

-------------------------------------------------------------------------------
(* One sector of readSector and of writeSector. *)

\* The caller is given what is in the buffer: Content, below.
BufReadBlocks(s) == cache' \in BufGetBlock(cache, s) /\ UNCHANGED config

\* bytes covers the offsets written; a write without an address clears them.
BufWriteBlocks(s, bytes, mode) ==
  \E g \in BufGetBlock(cache, s) :
    LET b == Head(g.lru_list)
        m == [g EXCEPT !.blk[b].mem =
                [o \in Offsets |-> IF o \in DOMAIN bytes THEN bytes[o] ELSE @[o]]]
    IN /\ cache' \in BufPutBlock(m, b, mode)
       /\ UNCHANGED config

\* SyncCache: every listed buffer is clean, and written unless the device drops it.  No
\* two are of the same sector, so the order of the writes makes no difference.
SyncCache ==
  LET listed == ToSet(cache.dirty_list)
  IN \E lost \in SUBSET listed :
       LET Written(s) == {b \in listed \ lost : cache.blk[b].sector = s}
       IN /\ cache.dropped + Cardinality(lost) <= config.maxDropped
          /\ cache' = [cache EXCEPT
               !.blk = [b \in Buffers |-> IF b \in listed THEN [@[b] EXCEPT !.dirty = FALSE] ELSE @[b]],
               !.dirty_list = <<>>,
               !.disk = [s \in SectorIds |-> IF Written(s) = {} THEN @[s]
                                             ELSE cache.blk[CHOOSE b \in Written(s) : TRUE].mem],
               !.dropped = @ + Cardinality(lost)]
          /\ UNCHANGED config

\* InvalidateCache leaves the dirty list as it is, so it may only follow SyncCache.
InvalidateCache ==
  /\ cache.dirty_list = <<>>
  /\ cache' = [cache EXCEPT
       !.blk = [b \in Buffers |-> IF @[b].in_use
                                  THEN [@[b] EXCEPT !.in_use = FALSE, !.dirty = FALSE, !.sector = 0]
                                  ELSE @[b]],
       !.lru_list = <<>>,
       !.hash_list = [h \in DOMAIN @ |-> <<>>],
       !.free_list = Reverse(SetToSeq({b \in Buffers : cache.blk[b].in_use})) \o @]
  /\ UNCHANGED config

\* CreateCache, on a device that holds anything.
CacheInit ==
  /\ config \in Configs
  /\ \E d \in [SectorIds -> SectorData] :
       cache = [blk |-> [b \in Buffers |-> [sector |-> -1, dirty |-> FALSE, in_use |-> FALSE,
                                            mem |-> [o \in Offsets |-> 0]]],
                lru_list |-> <<>>, dirty_list |-> <<>>, free_list |-> SetToSeq(Buffers),
                hash_list |-> [h \in 0..(BUF_HASH_CNT - 1) |-> <<>>],
                disk |-> d, dropped |-> 0]

CacheNext ==
  \/ \E s \in SectorIds : BufReadBlocks(s)
  \/ \E s \in SectorIds, mode \in config.modes, span \in Spans :
       \E bytes \in [span -> Bytes] : BufWriteBlocks(s, bytes, mode)
  \/ SyncCache
  \/ InvalidateCache

CacheSpec == CacheInit /\ [][CacheNext]_cacheVars

-------------------------------------------------------------------------------
(* Properties. *)

\* The types of the variables; a list never outgrows the table of buffers.
CacheTypeOK ==
  /\ config \in Configs
  /\ cache.blk \in [Buffers -> [sector : SectorIds \union {-1, 0}, dirty : BOOLEAN,
                                in_use : BOOLEAN, mem : SectorData]]
  /\ {cache.lru_list, cache.dirty_list, cache.free_list} \subseteq SeqOf(Buffers, Cardinality(Buffers))
  /\ cache.hash_list \in [0..(BUF_HASH_CNT - 1) -> SeqOf(Buffers, Cardinality(Buffers))]
  /\ cache.disk \in [SectorIds -> SectorData]
  /\ cache.dropped \in 0..config.maxDropped

Listed(list, B) == IsInjective(list) /\ ToSet(list) = B
InUse           == {b \in Buffers : cache.blk[b].in_use}

\* The four kinds of lists of sector.c agree with the flags of the buffers after any
\* sequence of transfers: every buffer is free or in use and never both, a dirty one is
\* on the dirty list once, and one in use in the hash list of its sector, no two with
\* the same sector.
ListsExact ==
  /\ Listed(cache.lru_list, InUse)
  /\ Listed(cache.free_list, Buffers \ InUse)
  /\ Listed(cache.dirty_list, {b \in Buffers : cache.blk[b].dirty})
  /\ \A h \in DOMAIN cache.hash_list :
       Listed(cache.hash_list[h], {b \in InUse : Hash(cache.blk[b].sector) = h})
  /\ \A b, c \in InUse : cache.blk[b].sector = cache.blk[c].sector => b = c

\* What readers see of a sector.
Content(s) == IF Buffered(cache, s) THEN cache.blk[BufferOf(cache, s)].mem ELSE cache.disk[s]

\* "If writeback_delay == 0 write EVERYTHING IMMEDIATELY" (sector.c:383): the device then
\* lags behind in no more sectors than it dropped writes, and a sector in which it lags
\* is in a buffer that will be written again.  A restart loses nothing else.
DeviceLagsByDropped ==
  config.writeback_delay = 0 =>
    LET behind == {s \in SectorIds : cache.disk[s] # Content(s)}
    IN /\ Cardinality(behind) <= cache.dropped
       /\ \A s \in behind : cache.blk[BufferOf(cache, s)].dirty

\* Whatever is buffered, given up, synced or invalidated, and although the device may
\* drop one write of a cache without delay, a reader sees of every sector what was last
\* written to it.
Abstract == INSTANCE Sectors WITH content <- [s \in SectorIds |-> Content(s)]
ImplementsSectors == Abstract!Spec
==============================================================================
