--------------------------------- MODULE FatFs ---------------------------------
(***************************************************************************)
(* fatfs on a FAT16 volume: the cluster chains (cluster.c), the entries of *)
(* directories (dir.c, lookup.c), the nodes of files that were looked up   *)
(* (node.c) and the requests that change them (file.c, main.c).  The       *)
(* handler takes one request at a time.  Sectors go through sector.c,      *)
(* which writes every sector at once and never reports an error, so both   *)
(* FATs are the same.                                                      *)
(*                                                                         *)
(* Bytes are left out, but for the one case in which clearing the space    *)
(* between the end of a file and a write goes on into the next sector, at  *)
(* a source address that is no longer NULL: the handler dies.              *)
(*                                                                         *)
(* The is_root of a node that AllocNode makes is never set, so it is what  *)
(* malloc left there.  Where it is read as true, fat_dir_read reads the    *)
(* root directory and FindCluster starts at bpb32.root_cluster, bytes of a *)
(* FAT16 volume's label, and fails.                                        *)
(*                                                                         *)
(* Every file of the volume has a cluster: lookup would take the number 0  *)
(* of an empty one for the root's.                                         *)
(***************************************************************************)
EXTENDS Integers, FiniteSets

CONSTANTS
  cluster_cnt,  \* FindFreeCluster considers the clusters below this number
  ClusterSize,  \* size of a cluster, which is one sector
  RootSlots,    \* root_entries_cnt
  DirSlots,     \* entries in a cluster of any other directory
  Volume,       \* as it is mounted: [fat, entry]
  Names,        \* names requests use, never "." or ".."
  MaxSize,      \* bound on positions that writes reach
  MaxRefs       \* bound on references to a node

ROOT     == 0
FREE     == 0
EOC      == -1
Clusters == 2..(cluster_cnt - 1)
Places   == ({ROOT} \X (1..RootSlots)) \union (Clusters \X (1..DirSlots))

ASSUME FatAssumption ==
  /\ cluster_cnt \in Nat /\ cluster_cnt > 2
  /\ ClusterSize \in Nat \ {0}
  /\ RootSlots \in Nat /\ DirSlots \in Nat \ {0}
  /\ MaxSize \in Nat /\ MaxRefs \in Nat \ {0}

VARIABLES
  fat,        \* cluster -> the next one, FREE or EOC
  entry,      \* place of a directory entry -> [kind, name, first, size]
  node,       \* inode number, the first cluster -> [ref, place, dirent, hint, is_root]
              \* and, history, extended: a write of no bytes gave it its size
  start,      \* start_search_cluster
  lost,       \* history: a directory with entries has been removed
  crashed     \* the handler has died

vars == <<fat, entry, node, start, lost, crashed>>

NoName == ""
Live   == {"file", "dir"}
Vacant == [kind |-> "vacant", name |-> NoName, first |-> EOC, size |-> 0]

-------------------------------------------------------------------------------
(* Chains, in a FAT f. *)

\* FindCluster: the k-th value on the way from cluster c through the FAT.
Walk(f, c) ==
  LET w[k \in 0..Cardinality(Clusters)] ==
        IF k = 0 THEN c ELSE LET b == w[k - 1] IN IF b \in Clusters THEN f[b] ELSE b
  IN w
Chain(f, c)    == LET w == Walk(f, c) IN {w[k] : k \in 0..Cardinality(Clusters)} \intersect Clusters
Index(f, c, b) == LET w == Walk(f, c) IN CHOOSE k \in 0..Cardinality(Clusters) : w[k] = b
FindLastCluster(f, c)     == CHOOSE b \in Chain(f, c) : f[b] \notin Clusters
Holds(f, c, o) ==
  LET w == Walk(f, c)
  IN o \div ClusterSize <= Cardinality(Clusters) /\ w[o \div ClusterSize] \in Clusters

\* FindFreeCluster searches from start up and then from the first cluster: the k-th
\* cluster that it finds.
Free    == {c \in Clusters : fat[c] = FREE}
Turn(c) == IF c < start THEN c + cluster_cnt ELSE c
Nth(k)  == CHOOSE c \in Free : Cardinality({b \in Free : Turn(b) < Turn(c)}) = k - 1

Least(x, y) == IF x < y THEN x ELSE y

\* The clusters that j appends take, linked in their order.
New(j)      == {Nth(k) : k \in 1..j}
After(b, j) == LET k == CHOOSE k \in 1..j : Nth(k) = b IN IF k = j THEN EOC ELSE Nth(k + 1)

\* Variant: they are linked from the first cluster.
LinkFirst(c, j) ==
  [b \in Clusters |-> IF b \in New(j) THEN After(b, j)
                      ELSE IF b = c /\ j > 0 THEN Nth(1) ELSE fat[b]]

\* AppendCluster, j times, at the end of the chain from c.
AppendCluster(c, j) ==
  LET tail == FindLastCluster(fat, c)
      new  == New(j)
  IN [b \in Clusters |-> IF b \in new THEN After(b, j)
                         ELSE IF b = tail /\ j > 0 THEN Nth(1) ELSE fat[b]]

FreeClusters(c) == LET chain == Chain(fat, c) IN [b \in Clusters |-> IF b \in chain THEN FREE ELSE fat[b]]

-------------------------------------------------------------------------------
(* Directories. *)

PlacesOf(f, d) == IF d = ROOT THEN {ROOT} \X (1..RootSlots) ELSE Chain(f, d) \X (1..DirSlots)
Below(f, e, d) == {p \in PlacesOf(f, d) : e[p].kind \in Live}

IsRoot(d)      == d = ROOT \/ (d \in DOMAIN node /\ node[d].is_root)
Searched(d)    == PlacesOf(fat, IF IsRoot(d) THEN ROOT ELSE d)
Before(d, p, q) ==
  LET at(x) == IF IsRoot(d) THEN 0 ELSE Index(fat, d, x[1])
  IN at(p) < at(q) \/ (at(p) = at(q) /\ p[2] < q[2])

\* lookup: the first entry of the name; deleted and free ones are passed over alike.
Named(d, nm)  == {p \in Searched(d) : entry[p].kind \in Live /\ entry[p].name = nm}
Found(d, nm)  == CHOOSE p \in Named(d, nm) : \A q \in Named(d, nm) \ {p} : Before(d, p, q)

-------------------------------------------------------------------------------
(* Nodes.  A request names the inode numbers of nodes: the VFS was told them. *)

Dirs  == {ROOT} \union {n \in DOMAIN node : node[n].dirent.kind = "dir"}
Files == {n \in DOMAIN node : node[n].dirent.kind = "file"}

\* FindNode takes a reference, and no handler gives it back.  A request is served while
\* the handler lives, up to the bound on references.
Taken(n)   == IF n = ROOT THEN node ELSE [node EXCEPT ![n].ref = @ + 1]
Serves(n)  == ~crashed /\ (n # ROOT => node[n].ref < MaxRefs)

\* lookup of the entry at p: the node, old or new, is given what the entry says.
Obtained(nodes, p, garbage) ==
  LET c   == entry[p].first
      old == c \in DOMAIN nodes
  IN [n \in DOMAIN nodes \union {c} |->
        IF n # c THEN nodes[n]
        ELSE [ref     |-> IF old THEN nodes[c].ref + 1 ELSE 1,
              place   |-> IF old THEN nodes[c].place ELSE p,
              is_root |-> IF old THEN nodes[c].is_root ELSE garbage,
              dirent  |-> entry[p], hint |-> 0, extended |-> FALSE]]

\* Variant: the node stays when its last reference goes.
ReleasedKept(nodes, c) == [nodes EXCEPT ![c].ref = @ - 1]

Released(nodes, c) ==
  IF nodes[c].ref = 1 THEN [n \in DOMAIN nodes \ {c} |-> nodes[n]]
  ELSE [nodes EXCEPT ![c].ref = @ - 1]

\* FlushDirent of a directory's node.
Flushed(d) == IF d = ROOT THEN entry ELSE [entry EXCEPT ![node[d].place] = node[d].dirent]

-------------------------------------------------------------------------------
(* The handlers. *)

\* fatRead, fatReadDir, fatCreate, which goes on to fatRead, and fatMkDir of a bad name.
Read(n) ==
  /\ Serves(n)
  /\ node' = Taken(n)
  /\ UNCHANGED <<fat, entry, start, lost, crashed>>

Lookup(d, nm) ==
  /\ Serves(d)
  /\ IF Named(d, nm) = {} THEN node' = Taken(d)
     ELSE LET c == entry[Found(d, nm)].first
          IN /\ c \in DOMAIN node => Taken(d)[c].ref < MaxRefs
             /\ \E garbage \in BOOLEAN : node' = Obtained(Taken(d), Found(d, nm), garbage)
  /\ UNCHANGED <<fat, entry, start, lost, crashed>>

\* writeFile clears, at the offset of the write in the cluster of the old end, as much
\* as that cluster has behind the old end.
Overruns(n, o) ==
  LET size == node[n].dirent.size
  IN /\ o > size /\ ~node[n].is_root /\ Holds(fat, n, size)
     /\ o % ClusterSize > size % ClusterSize

\* Clusters a write of k bytes at o asks for, one of no bytes none; if FindCluster never
\* succeeds, one more than there are.
Wanted(n, o, k) ==
  LET needed == (o + k - 1) \div ClusterSize + 1
      has    == Cardinality(Chain(fat, n))
  IN IF k = 0 THEN 0
     ELSE IF node[n].is_root THEN Cardinality(Clusters) + 1
     ELSE IF needed <= has THEN 0 ELSE needed - has

\* FindLastCluster starts at the hint, or the first cluster, and moves the hint to
\* the last one if that is another; so it does for each append, failed ones too.
HintAfter(n, want, got) ==
  LET from == IF node[n].hint = 0 THEN n ELSE node[n].hint
      seen == IF want > got THEN got ELSE got - 1
      tail == IF seen > 0 THEN Nth(seen) ELSE FindLastCluster(fat, n)
  IN IF want = 0 \/ tail = from THEN node[n].hint ELSE tail

\* Variant: the size is set before the clusters are found.
SizeFirst(n, end, full) == IF end > node[n].dirent.size THEN end ELSE node[n].dirent.size

SizeAfter(n, end, full) ==
  IF full /\ end > node[n].dirent.size THEN end ELSE node[n].dirent.size

\* fatWrite of k bytes at o, maybe none.  The new size stays in the node.
Write(n, o, k) ==
  LET want == Wanted(n, o, k)
      got  == Least(want, Cardinality(Free))
      size == SizeAfter(n, o + k, want = got)
      none == IF size > node[n].dirent.size THEN k = 0 ELSE node[n].extended
  IN /\ Serves(n)
     /\ IF Overruns(n, o)
        THEN crashed' = TRUE /\ UNCHANGED <<fat, node, start>>
        ELSE /\ fat' = AppendCluster(n, got)
             /\ start' = IF got = 0 THEN start ELSE Nth(got)
             /\ node' = [Taken(n) EXCEPT ![n].dirent.size = size,
                                         ![n].hint = HintAfter(n, want, got),
                                         ![n].extended = none]
             /\ crashed' = crashed
     /\ UNCHANGED <<entry, lost>>

Removable(d, nm, kind) == Named(d, nm) # {} /\ entry[Found(d, nm)].kind = kind

\* What unlink and rmdir do with an entry that no one else holds.
Removed(d, c, place) ==
  /\ fat'   = FreeClusters(c)
  /\ entry' = [Flushed(d) EXCEPT ![place] = Vacant]

\* unlink and rmdir that find nothing, the other kind (EISDIR, ENOTDIR) or a node
\* that is held (EBUSY): lookup has renewed the node, and its reference is given back.
NotRemoved(d, nm) ==
  /\ node' = IF Named(d, nm) = {} THEN Taken(d)
             ELSE LET p == Found(d, nm)
                  IN Released(Obtained(Taken(d), p, FALSE), entry[p].first)
  /\ UNCHANGED <<fat, entry, lost>>

\* Variant: the references of others are not looked at.
UnlinkBusy(d, nm) ==
  /\ Serves(d)
  /\ IF Removable(d, nm, "file")
     THEN LET p == Found(d, nm)
          IN /\ Removed(d, entry[p].first, p)
             /\ node' = Released(Obtained(Taken(d), p, FALSE), entry[p].first)
             /\ lost' = lost
     ELSE NotRemoved(d, nm)
  /\ UNCHANGED <<start, crashed>>

\* fatUnlink.
Unlink(d, nm) ==
  /\ Serves(d)
  /\ IF Removable(d, nm, "file") /\ entry[Found(d, nm)].first \notin DOMAIN node
     THEN LET p == Found(d, nm)
          IN /\ Removed(d, entry[p].first, p)
             /\ node' = Taken(d)
             /\ lost' = lost
     ELSE NotRemoved(d, nm)
  /\ UNCHANGED <<start, crashed>>

\* fatRmDir.  IsDirEmpty says 0, empty, of every directory whose first entry it can read.
Rmdir(d, nm) ==
  /\ Serves(d)
  /\ IF Removable(d, nm, "dir") /\ entry[Found(d, nm)].first \notin DOMAIN node
     THEN LET p == Found(d, nm)
          IN /\ Removed(d, entry[p].first, p)
             /\ node' = Taken(d)
             /\ lost' = (lost \/ Below(fat, entry, entry[p].first) # {})
     ELSE NotRemoved(d, nm)
  /\ UNCHANGED <<start, crashed>>

\* fatMkDir enters the directory, cannot allocate a node for an entry without clusters
\* and deletes the entry.  What is left is the cluster that a full parent has got.
Mkdir(d) ==
  LET full == d # ROOT /\ (node[d].is_root \/ \A p \in PlacesOf(fat, d) : entry[p].kind # "vacant")
      got  == IF full /\ Free # {} THEN 1 ELSE 0
  IN /\ Serves(d)
     /\ fat' = IF got = 0 THEN fat ELSE AppendCluster(d, got)
     /\ start' = IF got = 0 THEN start ELSE Nth(got)
     /\ entry' = [p \in Places |-> IF got = 1 /\ p[1] = Nth(1) THEN Vacant ELSE entry[p]]
     /\ node' = IF full THEN [Taken(d) EXCEPT ![d].hint = HintAfter(d, 1, got)] ELSE Taken(d)
     /\ UNCHANGED <<lost, crashed>>

Init ==
  /\ fat = Volume.fat /\ entry = Volume.entry
  /\ node = << >> /\ start = 0
  /\ lost = FALSE /\ crashed = FALSE

Next ==
  \/ \E n \in {ROOT} \union DOMAIN node : Read(n)
  \/ \E d \in Dirs, nm \in Names : Lookup(d, nm)
  \/ \E d \in Dirs, nm \in Names : Unlink(d, nm)
  \/ \E d \in Dirs, nm \in Names : Rmdir(d, nm)
  \/ \E d \in Dirs : Mkdir(d)
  \/ \E n \in Files, o \in 0..MaxSize, k \in 0..MaxSize : o + k <= MaxSize /\ Write(n, o, k)

Spec == Init /\ [][Next]_vars

-------------------------------------------------------------------------------
(* Properties. *)

Entries == [kind : {"vacant", "dot", "file", "dir"}, name : Names \union {NoName},
            first : Clusters \union {EOC}, size : 0..MaxSize]
Fats    == [Clusters -> Clusters \union {FREE, EOC}]

\* Types: the FAT links clusters, the places hold entries, nodes have references.
TypeOK ==
  /\ fat \in Fats
  /\ entry \in [Places -> Entries]
  /\ DOMAIN node \subseteq Clusters
  /\ \A n \in DOMAIN node :
       node[n] \in [ref : 1..MaxRefs, place : Places, dirent : Entries,
                    hint : Clusters \union {0}, is_root : BOOLEAN, extended : BOOLEAN]
  /\ start \in Clusters \union {0}
  /\ lost \in BOOLEAN /\ crashed \in BOOLEAN

\* Places of live entries in the directories that can be reached from the root, in a
\* FAT f with entries e.
Reached(f, e) ==
  LET r[k \in 0..Cardinality(Places)] ==
        IF k = 0 THEN Below(f, e, ROOT)
        ELSE LET s == r[k - 1]
             IN s \union UNION {Below(f, e, e[p].first) : p \in {q \in s : e[q].kind = "dir"}}
  IN r[Cardinality(Places)]

\* Files and directories have chains of clusters that end, and no two share a cluster
\* or a chain.
Sound(f, e) ==
  LET reached == Reached(f, e)
      chain   == [p \in reached |-> Chain(f, e[p].first)]
  IN \A p \in reached :
       /\ e[p].first \in Clusters
       /\ \A b \in chain[p] : f[b] # FREE
       /\ \E b \in chain[p] : f[b] = EOC
       /\ \A q \in reached \ {p} : chain[p] \intersect chain[q] = {}

Marked(f)   == {c \in Clusters : f[c] # FREE}
Owned(f, e) == UNION {Chain(f, e[p].first) : p \in Reached(f, e)}

\* The volume is mounted as its last check left it.
ASSUME VolumeAssumption ==
  /\ Volume.fat \in Fats /\ Volume.entry \in [Places -> Entries]
  /\ Sound(Volume.fat, Volume.entry)
  /\ Marked(Volume.fat) = Owned(Volume.fat, Volume.entry)
  /\ \A p \in Reached(Volume.fat, Volume.entry) : Volume.entry[p].kind = "file" =>
       Volume.entry[p].size <= ClusterSize * Cardinality(Chain(Volume.fat, Volume.entry[p].first))

\* AppendCluster (cluster.c:216), FreeClusters (cluster.c:468) and the stale hint: the
\* volume stays sound, and every node is that of an entry which can be reached, with
\* its hint in the entry's chain.
ChainsIntact ==
  /\ Sound(fat, entry)
  /\ LET reached == Reached(fat, entry)
     IN \A n \in DOMAIN node :
          /\ node[n].place \in reached /\ entry[node[n].place].first = n
          /\ node[n].hint \in Chain(fat, n) \union {0}

\* FindFreeCluster marks a cluster before it is linked (cluster.c:418), unlink frees
\* the chain before the entry goes (main.c:482): as long as no directory is removed
\* with its entries, every marked cluster is of a file or directory.
NothingLeaks == ~lost => Marked(fat) = Owned(fat, entry)

\* writeFile (file.c:98) raises the size to the end of what it wrote only when all
\* clusters were found, so no file ends behind its clusters, also after a disk that was
\* full, and after a lookup that has put the old size back.  The exception is a write of
\* no bytes behind the end (file.c:152): it finds no cluster and raises the size all the
\* same, until a lookup or a write of bytes behind that end sets another size.
SizesBacked ==
  \A n \in Files : ~node[n].extended =>
    node[n].dirent.size <= ClusterSize * Cardinality(Chain(fat, n))

===============================================================================
