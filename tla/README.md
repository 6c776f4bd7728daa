# A verification of the Cheviot file systems

TLA+ models of the file system handlers in `src/`, the TLC configurations that check them
on small instances, and TLAPS proofs of what holds for every size.

## The system

CheviotOS runs its file systems as processes. The kernel's VFS sends a handler one message
per request; the handler answers it before it takes the next. Nothing inside a handler runs
concurrently. What is hard is elsewhere: structures that long sequences of requests split,
merge, recycle and refill; requests that fail at one of several steps and undo some of
them; caches that drop what was not written; a client that comes back with a position in
a directory that other clients have changed since; and a restart with counts that were
never saved.

| Component | State | Operations | What makes it correct |
|---|---|---|---|
| extfs directories (`dir*.c`) | records of the directory's blocks | enter, delete, look up, read by cookie | records tile the blocks; names unique; a scan misses nothing |
| extfs inode cache (`inode_cache.c`) | slots, hash lists, unused list, references, dirty flags | get, find, put, mark dirty, write | clients see one store of inodes and lose no saved change |
| extfs inode allocation (`inode.c`, `bitmap.c`) | inode bitmaps, counts of groups and superblock | find a group, take a bit, free a bit | counts match bitmaps; no inode handed out twice |
| extfs requests (`ops_*.c`, `inode.c`) | directories, link counts, inodes | create, mknod, mkdir, lookup, unlink, rmdir, rename, chmod, chown, readdir | links follow entries; failures change nothing; rename loses nothing |
| extfs block map (`block.c`) | block bitmaps and counts, `i_block`, indirect blocks, `i_blocks` | map a position, allocate, free | a block has one owner; nothing leaks when the disk runs full (what removed files had does) |
| extfs transfer (`read.c`, `write.c`) | bytes and size of a file | read, write | the file holds what was written; a read is complete |
| extfs superblock and descriptors (`superblock.c`, `group_descriptors.c`) | counts, geometry | read at mount | never written back: see the block map's restart |
| extfs loop and mount (`main.c`, `init.c`) | port, shutdown flag | one handler per message | handlers are atomic to each other |
| devfs (`src/devfs`) | table of 128 nodes | lookup, readdir, mknod, close | a device keeps its node; a scan misses nothing; a full table refuses |
| ifs (`src/ifs`) | read-only image | lookup, read, readdir, close | a reader gets the whole file and no more |
| fatfs (`src/fatfs`) | FATs, directory entries, reference-counted nodes | lookup, read, write, readdir, mkdir, unlink, rmdir | chains do not cross; nothing leaks; writes of bytes keep sizes within chains |
| fatfs sector cache (`sector.c`) | buffers, hash, LRU, free and dirty lists, the device | read, write, sync, invalidate | readers never notice the buffers; the device keeps up with writes |
| fatfs format, detection of partitions (`format.c`, `init.c`) | - | once at the start | - |
| the kernel's VFS, the block cache library, mke2fs | - | - | outside the repository |

How they interact: a handler of `ops_*.c` gets inodes from the inode cache, looks up,
enters and deletes names with `dir*.c`, allocates and frees inodes with `inode.c`, and puts
the inodes, which frees one without links. Reads and writes go through `block.c`. Everything
above the block cache changes buffers and marks them dirty; `write_inode` copies an inode
into its buffer at once; the counts of free blocks and inodes stay in memory.

The hazards, with the line where each bites, are listed in `PROJECT.json`; those without a
property say why.

## Modules

| Module | Models | Abstract specification |
|---|---|---|
| `ExtDir` | the records of one directory and a client that scans it | `NameMap`: entries that keep their places, a map from names to inode numbers without rename |
| `InodeCache` | the table of cached inodes | `InodeStore`: one store of inodes that may lose what is late |
| `InodeAlloc` | inode bitmaps, counts, the two group searches | - |
| `Extfs` | the request handlers over entries, links and the inode bitmap | - |
| `BlockMap` | block bitmaps, counts, direct to triple indirect blocks | `FileMap`: positions mapped to blocks of their own |
| `FileIO` | read and write, chunk by chunk | - |
| `FatFs` | fatfs: FAT chains, directory entries, nodes and their references | - |
| `SectorCache` | the buffers of fatfs' `sector.c`, their lists, and a device that may drop a write | `Sectors`: bytes that only writes change |
| `TableScan` | the walk over a table by which devfs and ifs answer readdir | - |
| `DevFs` | the table of devfs and its handlers | - |
| `Ifs` | the image of ifs and its handlers | - |
| `TableFs` | processes that use devfs and ifs at once, one message after another | - |
| `ExtDirProofs`, `InodeCacheProofs`, `InodeAllocProofs`, `ExtfsProofs`, `BlockMapProofs`, `FileIOProofs`, `TableFsProofs` | the theorems about the module each is named after | |
| `FatFsProofs` | the theorems about `SectorCache` (part 1) and about `FatFs` (part 2) | |
| `MC...` | the instances for TLC | |

The modules are layers. Each takes the one below by the promise that is shown for it:
`Extfs` has lists of entries where `ExtDir` has records, and one inode store where
`InodeCache` has slots; `FileIO` has a file of blocks where `BlockMap` has indirect blocks;
`FatFs` has a volume where `SectorCache` has buffers. `TableFs` composes `DevFs` and `Ifs`,
which both walk their tables with `TableScan`: it has the processes whose messages, each a
step, interleave.

State and actions correspond to the code as follows.

* `ExtDir`: `ent` maps the position (in units of `DIR_ENTRY_ALIGN`) of each record that a
  walk by `d_rec_len` reaches to `[ino, name, rec]`. `Create` is a lookup and
  `dirent_enter`, as `new_inode` does; `RenameInto` is the `dirent_enter` of rename, which
  looks nothing up (`UncheckedEnter` says whether it takes part); `Delete` is
  `dirent_delete`, with the record cleared if it begins its block and merged with the one
  before otherwise; `ReadDir` is one readdir request that returns any number of entries that
  fit the client's buffer. `seen` and `stable` are history variables for the scan.
* `InodeCache`: `slot` is the table, `unused` the list from head to tail, `disk` the inode
  tables. `Hashed(n)` stands for the hash lists. `held` and `releasing` say how a request
  uses the cache: it gets, changes and writes up to `MaxHeld` inodes (rename holds three),
  then puts them. `ReadFile`, `WriteFile` and `FailedWrite` are the requests that use
  `find_inode` and hold nothing.
* `InodeAlloc`: `bitmap[g]` is the whole bitmap block, with the reserved inodes and the
  padding set. `FreeInode` clears the bit the code clears. `Panic` is `panic()`, after which
  nothing happens.
* `Extfs`: `fs` holds the entries of each directory in order, type and links of each inode,
  the bitmap and count of inodes. Each handler is one action, with every return; `PutInode`
  frees an inode without links. `known` is what the VFS was told: requests name inodes from
  it. `DirentEnter` may put an entry at any place from the third on, or find no room. The
  directory made by mke2fs is not empty of blocks, those made by `mkdir` are.
* `BlockMap`: an inode and an indirect block are both nodes with entries. `Write` is what
  `write_file` does at a position without block: `new_block` with each way it can run out of
  space, and then the inode written or not. `Recycle` is a slot of the inode cache reused,
  `Restart` a handler that exits and starts again. A removal frees none of a file's blocks:
  `truncate_inode` is a stub and `put_inode` only writes the inode (`Flush`); the blocks stay
  in its `i_block` until `alloc_inode` hands the inode out again and resets that
  (`inode.c:124`), which is `AllocInode`. From then on they are marked and of no file:
  `orphans`, a history variable, collects them. The abstract `FileMap` lets a file begin anew
  (`Renew`).
* `FileIO`: `job` is the request in progress and its local variables; each chunk is a step,
  and a chunk may fail (`readmsg` or `writemsg` short of the chunk, no block). `want` is the
  history of what each position should hold.

* `FatFs`: `fat` is the FAT (`SectorCache` shows that readers see what was written) of the
  clusters below `cluster_cnt`, `entry` the
  entries in the slots of the root and of every cluster, `node` the list of nodes with the
  entry each has copied. A request names an inode number that the VFS was told. `FindNode`
  takes a reference that only unlink and rmdir give back, and those only for the entry they
  looked up (`Taken`, `Released`). `is_root` of a new node is what malloc left, so `Lookup`
  chooses it. `mkdir` fails to allocate a node for an entry without clusters and deletes the
  entry again: what stays is the cluster a full parent has got. `IsDirEmpty` says yes to
  every directory. `lost` records that one was removed with its entries; `crashed` that
  clearing ran into the next sector from an address that is no longer NULL. `Write` has writes of
  no bytes as well: `writeFile` skips its loop (`file.c:128`) and raises the size to the offset
  all the same (`file.c:152`), with no cluster found. The history field `extended` of a node says
  that its size is from such a write; it is reset by a lookup, which puts the size of the entry
  back, and by a write of bytes that raises the size.
* `SectorCache`: `cache` holds the buffers (`blk`), the four kinds of lists as sequences, and
  the device (`disk`). The specification is `CacheSpec`, since `FatFsProofs` extends this module
  and `FatFs`. `BufGetBlock` and `BufPutBlock` are operators that give the caches a
  call may leave, and `BufReadBlocks` and `BufWriteBlocks` actions for one sector of a
  transfer. `BufWriteSector` keeps the result of `write` in a `size_t` and compares it with 0,
  so that a failure is never noticed (`sector.c:490`): the model's device may drop one write, of
  a cache without delay whose clients never ask for `BUF_IMMED`, which is the cache that
  `init.c:64` makes and `writeSector` uses. Two drops can lose what was written: the first is
  that of `BufPutBlock`, the second the one that gives the buffer up.
  `BufReadSector` has the same fault (`sector.c:466`); a read that fails would leave the bytes
  of another sector in the buffer, and the model takes reads to succeed. `InvalidateCache`
  leaves the dirty list as it is and is an action only when that is empty; nothing calls it.
  `config` has the parameters of `CreateCache`; a cache with `writethru_critical` 0 would clean
  a `BUF_IMMED` buffer without writing it, but `init.c:64` does not make one.
* `DevFs`: `devfs_inode_table` as in the code; `mknod` takes the first free node or refuses,
  and the two ways to refuse change nothing, so they are steps left out. A request's name
  is taken to end with its terminator: `devfsMknod` does not add one (`main.c:252`), and
  `devfsLookup` does. Names are shorter than `DEVFS_NAME_LEN`.
* `Ifs`: the image is a constant. `ifs_read` does not test that the offset is inside the file;
  a process that reads on to the end never asks beyond it, so the model does not either.
* `TableFs`: `job[p]` is what process `p` reads, with what it got so far; `told` is the history
  of the numbers of devices that `mknod` and `lookup` replied, which the VFS keeps.
* `InodeAlloc`'s `Restart`: the counts become those that the disk has from the first mount, the
  counts of free blocks anything the block allocator may have left; `restarted` says it was.

Not modelled inside these: times, owner and mode of inodes; the byte order conversions; the
wording of the log; the block cache's own buffers, which are taken to reach the disk; the
goal of a block allocation, which the code computes and does not use; `delete_map_entry` and
`get_indirect_blocks`, which have no callers; `truncate_inode`, which returns `-ENOSYS`.

## Runs

Every module has one type invariant. All runs but the violations finish without an error.

| Run | Bounds | Shows |
|---|---|---|
| `ext_dir` | 2 blocks of 6 units, names of 3 lengths, rename allowed | `WellFormed`: the walk by record lengths never breaks; `ScanMissesNothing`: a scan is complete; `ImplementsNameMap`: entries keep their places, lookups and deletes mean the first of a name |
| `inode_cache` | 2 slots, 3 inodes, 3 references | `TableExact`, `HeldStaysPut`, `SlotsSuffice`: the lists are exact; `SavedWhenClean`, `ImplementsInodeStore`: nothing saved is lost |
| `inode_alloc` | 3 groups of 3 inodes, one restart | `CountsMatchBitmap` until the first free or restart; `NeverHandedOutTwice` until the first free, also across a restart with stale counts; `DirSearchComplete` |
| `inode_alloc_free` | 2 groups of 4 | violation: `LiveAreMarked` |
| `extfs` | 2 directories, 2 further inodes, 2 names, directories of 5 entries | `LinksMatchEntries` (with the inodes named allocated) until the first inode is freed; `RenameLosesNothing`, `FailureChangesNoNames` always |
| `extfs_mkdir` | the same | violation: `MkdirMakesDirectory` |
| `block_map` | 2 files, 2 groups of 5 blocks, 1 direct block, 2 entries per indirect block, one restart, inodes allocated again at any time; the files are symmetric | `OwnedOnce` and `ImplementsFileMap` always; `NothingLeaks` (blocks of removed files apart) and `CountsMatch` (with `i_blocks`) until a restart or a dropped inode |
| `file_io` | 2 blocks of 2 bytes, every offset and length | `HoldsWhatWasWritten`, `ReadSendsFile`, `ReadIsComplete`, `EveryRequestEnds` |
| `fatfs` | 6 clusters of 2 bytes, a file, a full directory with a file, 4 references | `ChainsIntact`; `SizesBacked` for files whose size is not from a write of no bytes; `NothingLeaks` until a directory is removed with its entries |
| `sectors` | 3 sectors of 2 bytes, 2 in one hash list; 2 buffers; every mode; with and without delay; 1 dropped write without delay | `ListsExact`; `DeviceLagsByDropped`: without delay the device lags behind only where it dropped a write, in a buffer that stays dirty; `ImplementsSectors` |
| `table_fs` | 2 processes; 2 free nodes for 3 devices of 2 lengths; an image with 2 directories and 2 files; buffers for one record or two | `ToldStaysTrue`, `NothingMissed`, `EveryJobEnds` |
| `file_overread` | the same as `file_io` | violation: `ReadWithinRequest` |

Why the bounds are enough. A directory walk looks at neighbours in one block and goes on in
the next: two blocks, and blocks that hold one to three records, have every case of split,
merge and reuse; what number an entry has plays no part, so one is enough. Two slots for three inodes make every `get_inode` recycle; three
references are more than there are slots, so the table runs out as well. Three groups give
the group searches one before, one after and the parent's own. A file system of ten blocks
runs full inside the allocation of a triple indirect block at each of its four blocks. Two
blocks of two bytes have chunks that begin, end, begin and end, or neither, inside a block.
The FAT volume has two free clusters: writes find enough, too few or none, a full directory
grows, and freed clusters are taken again by another file; four references let a node be
looked up, written, looked up again and written again. Two buffers for three sectors, two
of which share a hash list, give a buffer to a sector of its own list and of another, and
let a sector return whose write was dropped. Two processes and more names than nodes let
devices appear while a scan is under way, and let the table run full. `MaxSize` bounds the positions
written, which are enough to fill the disk.
Bounds in guards are `MaxLinks` (`InodeCache`), `MaxBlocks` (`InodeAlloc`, a group's free
blocks; its `restarted` allows one restart), `MaxLen` and `MaxFrees` (`Extfs`), `MaxRestarts`
(`BlockMap`), `MaxRefs` and `MaxSize` (`FatFs`), `maxDropped` (`SectorCache`).

`Extfs`, `InodeAlloc`, `BlockMap` and `FatFs` run without the check for deadlock: the handler
stops in `panic()` or dies, and a full file system with nothing to save has no step left.

Fairness is used twice. In `FileIO` it is `WF_vars(Handle)`: a handler is a sequential loop
that the kernel schedules and that waits for nobody once it has its message, so while a
request is in progress its next step is always taken. In `TableFs` it is, for each process,
weak fairness of its next readdir or read: the servers take messages in the order of their
port and answer every one, and a process that reads on to the end is the client for which
an end can be promised at all. It may begin and close as it likes. Clients are under no
other obligation.

### What the violations say

* `inode_alloc_free`: `free_inode_bit` clears bit `n` for inode `n`, which is the bit of inode
  `n + 1` (`inode.c:252`). After creating two files and removing the first, the second one's
  inode counts as free. All properties about allocation hold until then.
* `extfs_mkdir`: a new directory has no block and `dirent_enter` never adds one, so `mkdir`
  takes its entry back and reports success (`ops_dir.c:146`).
* `file_overread`: a chunk is limited to the whole request and not to what is left of it
  (`read.c:53`).

## Proofs

Checked with TLAPS, for every value of the constants that satisfies the modules'
assumptions:

* `DirAssumption`: blocks and names have positive sizes, a name fits a block.
* `CacheAssumption`: at least one slot, numbers are natural.
* `AllocAssumption`: at least one group of at least one inode, the reserved inodes are in the
  first group, and a bitmap block has a bit for every inode and one more.
* `BlockAssumption`: at least one group of at least one block, direct entries and entries of an
  indirect block; positions within the triple indirect blocks, since `write_file` refuses to go
  beyond `sb_max_size` (`write.c:44`), which is `MAX_FILE_POS` (`superblock.c:79`), 2 GB, while
  the triple indirect blocks of the smallest block size reach 16 GB (`sb_out_range_s` is
  0xFFFF0000, so the test at `block.c:304` bounds nothing here); block 0, which stands for a hole, belongs to the file system; files are not
  block numbers, which keeps the nodes of the tree apart.
* `ExtfsAssumption`: the first inode that is not reserved is above the root's; `SubName`, the
  directory that is there at mount, has a name, and no name is `.` or `..`; a directory has
  room for three entries; `LinkMax` and the bound on frees are natural.
* `FileAssumption`: blocks of at least one byte.
* `SectorAssumption`: a finite table of buffers that is not empty, at least one hash list.
  `ConfigAssumption`: the device drops one write at most, and only behind a cache that writes
  at once; `BUF_IMMED` is used only where it writes. It is the single fault the cache
  survives, not a promise of the device.
* `FatAssumption`: the FAT has an entry for at least one cluster, a cluster has bytes and room for
  an entry. `VolumeAssumption`: the volume is mounted as its last check left it: chains end and do
  not cross, every cluster that is marked belongs to an entry, no file is longer than its chain,
  and every file has a cluster. No handler relies on more, and nothing is assumed of what the
  handlers then make of it.
* `DevFsAssumption`: at least one node, names are not empty, the record of a name fits the buffer
  of `devfs_readdir`. `IfsAssumption`: the image is a finite table numbered from 0, the parent of
  a node is in it, the names in a directory are unique, a record fits the buffer of `ifs_readdir`.
* `TableFsAssumption`: a client's buffer takes at least a byte, and the record of any name. With
  a shorter one the code replies 0 bytes, which the client takes for the end.

`ExtDirProofs`. The inductive invariant `Inv` is the conjunction of `TypeOK`, the parts of
`WellFormed` (`Tiling`, `NamesFit` and `FreeOnlyFirst`), that stable entries are live, and
`ScanMissesNothing`. None of the parts is inductive alone: a split keeps the tiling only because names fit, a merge
keeps it only because the deleted record has a predecessor in its block, and a scan that
resumes in the middle of a merged record goes back to the record that covers it, which
exists because the blocks are tiled (`Covered`). Each operation has a lemma (`OverwriteInv`,
`SplitInv`, `ClearInv`, `MergeInv`, `ReadDirInv`); `Invariance` combines them. `DirectoryIsAMap`
shows that each step enters an entry at a place of its own, removes the first of a name, or
leaves the entries (`EnterRefines`, `StepRefines`); `NamesStayUnique` assumes that rename does
not run.

`InodeCacheProofs`. `Inv` is `TypeOK` and the parts of `TableExact` (`OneSlotPerInode` and
`UnusedExact`): a slot is recycled only from the unused list, so without the list's
exactness a referenced slot could be given away, and without the references' types the list could not be exact. On top,
`SavedInv` strengthens `SavedWhenClean` for the slots that `get_inode` drops unseen;
`CacheIsInvisible` maps each step to a step of `InodeStore` or a stutter. `SlotsSuffice` is a
counting argument: a reference is a pair of a slot and a number below its count (`Refs`), a
request holds all references there are (`HeldInv`, which every get and put keeps), so as many
referenced slots as the table has would be as many references.

`InodeAllocProofs`. The counts of the groups are related to that of the superblock by a set:
`FreeUnits` has a pair for each inode a group promises, and `SumOfCounts` says the superblock
counts them. With `CountBounded` and `MarkedUntilFreed` (an inode in use is marked until one is
freed) it is inductive, and `CountsMatchBitmap` beside it: none of the counts goes below zero
because a group from which an inode is taken promises one. `DirSearchFinds` is a counting
argument: were every group that promises an inode below the average, the superblock would
count more than all groups together. `HandedOutOnce` rests on the bitmaps alone, which is why
it holds after a restart with stale counts.

`ExtfsProofs`. `IInv` has a part for each thing the handlers keep in step. `BitmapOK`: the count
of free inodes is the number of clear bits, the padding's included, and never exceeds that at
mount although `free_inode_bit` clears a wrong bit, because the bit behind the first inode is
the first to be set and is cleared only when `Sub` is freed, which never happens. `DirsOK`: the
links of the root and of `Sub` are right even after frees. `LinksOK`: until the first free
another inode has as many links as entries, at most one, and is marked and typed if it has one;
`NoMore`: no inode of `mkdir` stays, so nothing else is a directory, unless the handler
panicked. And what the VFS was told of is in use (`InUse`): without it `chmod` or `rmdir` could
be called on an inode that has been handed out again. The central lemma is `CountGrown`: an
entry inserted into a list changes how often its inode is named by one, and no other's, by a
bijection between the places before and after; it serves `dirent_enter` and, read backwards,
`dirent_delete`. `UnlinkOK`, `RmdirOK`, `RenameOK`, `AllocOK`, `BackOK` (what
`new_inode` undoes) and `PutOK` say what each operation does to a file system in the middle of
a request. `rename` and `mkdir` delete by name an entry of theirs: `NameStays` says that rename
still finds the old name after it entered the new one, `NameOfNew` that mkdir finds its own. `Outcome` is what every handler delivers:
the invariant, no change of entries if it fails, and no change of any inode's number of entries
if it is a rename. The two action properties follow from it, and `LinkingCount` relates the
number of entries to the places that `LinksMatchEntries` counts.

`FileIOProofs`. `HoldsWhatWasWritten` speaks of the time between requests; the invariant has to
say what a position holds in the middle of one. `EveryPosition` says so for all positions,
beyond the end of the file as well, and `BeyondEnd` that those are clear or unknown where the
present write has not been: a write beyond the end exposes the space between, and finds it
clear. The lemmas `Position`, `SameBlock` and `ChunkInBlock` are the arithmetic of blocks and
offsets that a chunk stays in; `FilledTyped` and `AfterChunk` say what a chunk changes.

`FatFsProofs`, part 1: `SectorCache`. First the lists: each LIST_ macro has a lemma that says which
buffers are on the list afterwards (`ListPrepend`, `ListAppend`, `ListTail`, `ListRemove`, ...).
`Good` is that the lists agree with the flags and a sector has one buffer; `Backed` that the device
has what clean buffers hold and, while it may still drop a write, what all of them hold; `Prompt`
that at most one buffer differs from the device without delay. `Fine`, their conjunction, is
kept by each step of a call (`GiveUp`, `Evict`, `FillDoes`, `PutDoes`, ...) except between the
write to a buffer's memory and `BufPutBlock`, where it holds of all other buffers (`FineBut`).
`View` is what a reader sees, read off the buffers in use instead of the hash lists (`BufferFound`
shows the search of a hash list finds the same), and each lemma says what it does to `View`:
nothing, or one write. That is the refinement `Implements`.

`FatFsProofs`, part 2: `FatFs`. The clusters of a chain and the entries in reach are computed by
walks of as many steps as there are clusters, or places. `ChainLeast` and `ReachedLeast` say
that a walk finds nothing outside any set closed under its steps; `ChainCloses` and
`ReachedCloses`, by counting, that it has found all there is when it ends: a walk that finds
something new at every step has more steps than there are clusters. With these two the rest of
the proof speaks of closed sets and never of steps. There are two changes to a volume.
`Extends` links free clusters behind the end of a chain: that chain gets exactly these
(`ChainExtended`), a chain beside it stays (`ChainBeside`), and since the clusters of a directory
are cleared no entry comes into reach (`GrownChains`, `GrownSound`). `NthFree` and `AppendExtends`
show that it is what `AppendCluster` does j times over. `Cut` frees a chain and clears its entry:
what stays in reach keeps its chain (`CutTree`, `CutSound`), what is in a directory that stays is
still in reach (`CutKeeps`), and only below a directory that was removed does anything go out of
reach (`CutLeaf`), which is where `NothingLeaks` ends.

The invariant is `IInv`. `ChainsIntact` is not inductive, for three reasons that the code leaves
implicit. `FlushDirent` writes the whole copy of a directory's entry back, so the copy must equal
the entry (`Tied`). `rmdir` removes directories that are not empty, and the VFS may have a node of
a file in one further down; it cannot, because a node's entry is in the root or in a directory
that has a node itself (`HeldIn`: nodes are found by `lookup` in a directory that has one, and a
node that `lookup` made is never freed again), and a directory with a node is not removed. And
`lookup` puts the size of the entry back into the node, so `SizesBacked` needs `EntrySizes` of
every entry in reach; the size that a write of no bytes leaves in a node is never written to
an entry, so these stay backed. `FoundNamed` shows that a directory has a first entry of a name; then each
handler has a lemma (`LookupKeeps`, `WriteKeeps`, `UnlinkKeeps`, `RmdirKeeps`, `MkdirKeeps`).

`TableFsProofs`. `Inv` is that no name is in two nodes (`TableInv`) and that what was told is
in the table (`ToldInv`). Neither is enough alone: a name that is told stays the only one of
its node because `mknod` looks for the name first and overwrites only a node without a name
(`MknodTable`), and `lookup` tells the right node because names are unique. `NothingMissed` needs
what a process has got in the middle of a scan: `GotOK` says that up to its cookie it has every
node that was there when it opened the directory, each once, and nothing that is not a node of
it. `Stops` is that a walk of the table that stops before its end has passed a record, `Ranks`
and `ListingIs` that the reply lists the nodes passed, each once, and `Reply` that it carries
`GotOK` to the next cookie. A reply without records means the end only because a
record always fits the buffers (`DevfsFits`, `IfsFits`). Devices that appear meanwhile only add
nodes (`MknodGrows`, `JobsStay`). A file is got byte by byte up to `pos` (`BytesJoin`).

`BlockMapProofs`. A place is a file, a route (the indices from its inode to a data block) and a
number of steps; `At` is the block there. `IInv` says that no block is at two places and that
every one is marked and not the file system's (`Owned`), that no block is marked in vain
(`Tight`), that `i_blocks` counts the entries in use (`Counted`), that the counts are the
bitmaps' (`FreeExact`), and that a saved inode has a part of what the inode in memory has
(`SavedSound`). The last three clauses of it are conditional on what has been dropped, panicked
or restarted. `Tight` has to name the `orphans`, and `Owned` keeps them apart from the blocks in
use: otherwise a block lost with a removed file could be one of another file. `AllocInode` empties
a tree at its root (`EmptyFile`), which leaves every other route where it was (`AllocInodeKeeps`,
`EmptiedMap`). `new_block` takes blocks before it enters them, so the parts are stated of a disk
in the middle of an allocation, with the blocks `X` that are taken and at no place yet:
`Builds` is what a step of it keeps. The central lemma is `AtAfter`: a block that is at no
place, cleared and entered behind a hole, changes what is at that place and at no other; were
it not cleared, or already in use, it would. From it follow that blocks keep one place
(`OnePlaceAfter`), which ones are reached (`ReachedAfter`) and that one entry comes into use
(`RefSetAfter`). `FreeBuilds` is the path on which the disk runs full. An inode that is read
again has lost entries and gained none (`Pruned`), so what is left of the tree is where it was
(`AtPruned`). `PathIsRoute` and `PathOnce` are the arithmetic of positions: each has one route,
and no two the same. `RefsAre` shows that the entries on routes are those the properties list.
`Implements` follows from `MapsMap` (a write maps its position), `SameLeavesMap` (a failed one
maps none) and `RereadForgets`.

Recursion. No model has a RECURSIVE operator. The walks of `FatFs` and `TableScan` are recursive
functions, and facts about every step of one are inductions, for which the theorems of the
library cannot be used: they take the induction hypothesis as an operator. The proofs state
instead that a set of numbers that has 0 and, with a number, the next has them all
(`AllNumbers`, `EveryNumber`, both from the fact that < is well-founded), and apply it to the set
of the numbers for which the hypothesis holds.

Every invariant, action property and refinement that a passing run checks is a theorem. Only
model-checked is liveness (`EveryRequestEnds`, `EveryJobEnds`), which is out of the prover's
reach, as is ENABLED. The violations are runs.

## Plan

Done, in this order: `ExtDir`, `InodeCache`, their proofs, `InodeAlloc`, `Extfs`, `BlockMap`,
`FileIO`, `FatFs`; then `SectorCache`, `DevFs`, `Ifs` and `TableFs` with its proof, and the
restart of `InodeAlloc`; then the proofs about `FileIO`, `InodeAlloc`, `SectorCache`,
`BlockMap` and `Extfs`; then `SlotsSuffice`, the scans of `TableFs`, and `FatFs`. No proof is
left of those planned. What the models leave out is listed below; of that, FAT32 volumes, whose
entries `WriteFATEntry` puts at the wrong offset (`cluster.c:186`), and empty files would come next.

## Not modelled

* Of fatfs: FAT32 volumes, empty files, lookups of `.` and `..`, failed
  device reads, the handler of truncation (`truncateFile`, `extendFile`), which is not
  dispatched. `FatFormat` returns -1 for every label before it writes anything
  (`format.c:57-65`), so the rest of `format.c` never runs. The detection of partitions parses
  one sector once.
* Of extfs: the parsing and validation of the superblock, byte order, `truncate.c` (a stub that
  returns `-ENOSYS`), `link.c` (empty). `find_free_inode_file_group` looks at the parent's
  descriptor at every step of its search (`inode.c:343`, `355`); `InodeAlloc` has it as it is
  written (`FileGroups`), and states no property of its result.
* Of ifs: an offset beyond the end of a file, where the bytes remaining wrap around; the fork
  and exec of the first process.
* Everything that the kernel and the block cache library do; arguments and mounting. fatfs is
  disabled in the build.

`PROJECT.json` has the reason for each component.
