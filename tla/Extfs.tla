-------------------------------- MODULE Extfs --------------------------------
(***************************************************************************)
(* The request handlers of extfs (ops_dir.c, ops_link.c, ops_file.c,       *)
(* ops_prot.c) over the inode store and the directories.  main.c takes one *)
(* request at a time, so a handler is one action: it gets its inodes,      *)
(* works, and puts them, which frees an inode whose links are gone.        *)
(*                                                                         *)
(* InodeCache shows that handlers may see the inodes as one store, ExtDir  *)
(* that a directory is a list of entries which grows as long as it has     *)
(* room; InodeAlloc treats the inode bitmap in detail, here it is that of  *)
(* one block group.                                                        *)
(***************************************************************************)
EXTENDS Integers, Sequences, FiniteSets, SequencesExt

CONSTANTS
  LastIno,   \* s_inodes_count
  FirstIno,  \* sb_first_ino, the inode of the directory mke2fs made
  Names,     \* names requests use; never "." or ".."
  SubName,   \* the name of that directory in the root directory
  MaxLen,    \* bound on the entries of a directory
  LinkMax,   \* LINK_MAX
  MaxFrees,  \* bound on the inodes freed before the last request
  Commands   \* the commands that requests carry

ASSUME ExtfsAssumption ==
  /\ FirstIno \in Nat /\ FirstIno > 2
  /\ LastIno \in Nat /\ LastIno >= FirstIno
  /\ SubName \in Names /\ Names \intersect {".", ".."} = {}
  /\ MaxLen \in Nat /\ MaxLen >= 3
  /\ LinkMax \in Nat
  /\ MaxFrees \in Nat

ROOT == 2
Sub  == FirstIno
Inos == {ROOT} \union FirstIno..LastIno

VARIABLES
  fs,     \* the file system: see TypeOK
  known,  \* what the VFS was told each inode is
  reply   \* the last reply: [cmd, sc, ino], ino 0 in a reply without inode

vars == <<fs, known, reply>>

Entry(nm, n) == [name |-> nm, ino |-> n]

-------------------------------------------------------------------------------
(* Directories, for a file system f. *)

Found(f, d, nm)  == \E j \in 1..Len(f.entries[d]) : f.entries[d][j].name = nm
FirstAt(f, d, nm) ==
  CHOOSE j \in 1..Len(f.entries[d]) :
    f.entries[d][j].name = nm /\ \A k \in 1..(j - 1) : f.entries[d][k].name # nm
InoOf(f, d, nm)  == f.entries[d][FirstAt(f, d, nm)].ino

\* dirent_enter: whether and where there is room is a matter of the records (see
\* ExtDir), so it may fail in any directory; one without blocks never has room.  No
\* entry goes before "..": the record of "." is never free and has no slack.
DirentEnter(f, d, nm, n) ==
  IF Len(f.entries[d]) \in 1..(MaxLen - 1)
  THEN {[f EXCEPT !.entries[d] = InsertAt(@, j, Entry(nm, n))] : j \in Min({3, Len(f.entries[d]) + 1})..(Len(f.entries[d]) + 1)}
  ELSE {}

\* dirent_delete of a name that is there.
DirentDelete(f, d, nm) == [f EXCEPT !.entries[d] = RemoveAt(@, FirstAt(f, d, nm))]

\* is_dir_empty: nothing but "." and "..".
IsDirEmpty(f, d) == \A j \in 1..Len(f.entries[d]) : f.entries[d][j].name \in {".", ".."}

-------------------------------------------------------------------------------
(* Inodes. *)

Panic(f) == [f EXCEPT !.panicked = TRUE]
\* i_links_count is a uint16_t.
Wrap == 65536
AddLinks(f, n, k) == [f EXCEPT !.inode[n].links = (@ + k) % Wrap]

\* free_inode_bit clears bit n, which belongs to inode n + 1.
FreeInode(f, n) ==
  IF n < FirstIno \/ n + 1 \notin f.marked
  THEN Panic(f)
  ELSE [f EXCEPT !.marked = @ \ {n + 1}, !.free = @ + 1, !.inode[n].type = "none",
                 !.frees = @ + 1]

\* put_inode of the last reference; the blocks of a freed inode are not freed.
PutInode(f, n) == IF f.inode[n].links = 0 /\ ~f.panicked THEN FreeInode(f, n) ELSE f

\* The handler puts every inode it holds.
Put1(f, n)       == PutInode(f, n)
Put2(f, n, m)    == IF n = m THEN Put1(f, n) ELSE PutInode(PutInode(f, n), m)
Put3(f, n, m, k) == IF k \in {n, m} THEN Put2(f, n, m) ELSE PutInode(Put2(f, n, m), k)

\* alloc_inode: find_free_inode_*_group look at the count, alloc_bit at the bitmap.
Unmarked(f) == (FirstIno..LastIno) \ f.marked
Lowest(f)   == CHOOSE n \in Unmarked(f) : \A m \in Unmarked(f) : n <= m
\* Variant: the count of free inodes is not decremented.
AllocUncounted(f, n, type) ==
  [f EXCEPT !.marked = @ \union {n},
            !.inode[n] = [type |-> type, links |-> 0], !.entries[n] = <<>>]
AllocInode(f, n, type) ==
  [f EXCEPT !.marked = @ \union {n}, !.free = @ - 1,
            !.inode[n] = [type |-> type, links |-> 0], !.entries[n] = <<>>]

\* new_inode: the outcomes [fs, sc, ino] of making nm in directory d.
NewInode(f, d, nm, type) ==
  LET fail(sc) == {[fs |-> f, sc |-> sc, ino |-> 0]}
      n        == Lowest(f)
      made     == AddLinks(AllocInode(f, n, type), n, 1)
      undone   == Put1(AddLinks(made, n, -1), n)
  IN IF f.inode[d].links = 0 THEN fail("ENOENT")
     ELSE IF type = "dir" /\ f.inode[d].links >= LinkMax THEN fail("EMLINK")
     ELSE IF Found(f, d, nm) THEN fail("EEXIST")
     ELSE IF f.free = 0 THEN fail("ENOSPC")
     ELSE IF Unmarked(f) = {} THEN {[fs |-> Panic(f), sc |-> "none", ino |-> 0]}
     ELSE {[fs |-> g, sc |-> "OK", ino |-> n] : g \in DirentEnter(made, d, nm, n)}
          \union {[fs |-> undone, sc |-> "ENOENT", ino |-> 0]}

-------------------------------------------------------------------------------
(* The handlers.  The VFS sends inode numbers it was told. *)

KnownDirs == {n \in Inos : known[n] = "dir"}

Reply(cmd, sc, n) == reply' = [cmd |-> cmd, sc |-> sc, ino |-> n]
Tell(n, type)     == known' = [known EXCEPT ![n] = type]

\* ext2_create; ext2_mknod is the same without the inode in the reply.
Create(d, nm) ==
  /\ "create" \in Commands
  /\ \E r \in NewInode(fs, d, nm, "file") :
       IF r.sc = "OK"
       THEN fs' = Put2(r.fs, d, r.ino) /\ Tell(r.ino, "file") /\ Reply("create", "OK", r.ino)
       ELSE fs' = Put1(r.fs, d) /\ known' = known /\ Reply("create", r.sc, 0)

Mknod(d, nm) ==
  /\ "mknod" \in Commands
  /\ \E r \in NewInode(fs, d, nm, "file") :
       /\ fs' = IF r.sc = "OK" THEN Put2(r.fs, d, r.ino) ELSE Put1(r.fs, d)
       /\ Reply("mknod", r.sc, 0)
  /\ known' = known

\* ext2_mkdir: entering "." and ".." in the new directory, which has no blocks,
\* fails; the entry is taken back and the reply is success all the same.
Populate(f, d, nm, n) ==
  LET dots == UNION {DirentEnter(g, n, "..", d) : g \in DirentEnter(f, n, ".", n)}
  IN IF dots # {}
     THEN {AddLinks(AddLinks(g, n, 1), d, 1) : g \in dots}
     ELSE {AddLinks(DirentDelete(f, d, nm), n, -1)}

Mkdir(d, nm) ==
  /\ "mkdir" \in Commands
  /\ \E r \in NewInode(fs, d, nm, "dir") :
       IF r.sc = "OK"
       THEN /\ \E g \in Populate(r.fs, d, nm, r.ino) : fs' = Put2(g, d, r.ino)
            /\ Tell(r.ino, "dir") /\ Reply("mkdir", "OK", r.ino)
       ELSE fs' = Put1(r.fs, d) /\ known' = known /\ Reply("mkdir", r.sc, 0)

Lookup(d, nm) ==
  /\ "lookup" \in Commands
  /\ IF Found(fs, d, nm)
     THEN LET n == InoOf(fs, d, nm)
          IN fs' = Put2(fs, n, d) /\ Tell(n, fs.inode[n].type) /\ Reply("lookup", "OK", n)
     ELSE fs' = Put1(fs, d) /\ known' = known /\ Reply("lookup", "ENOENT", 0)

\* ext2_unlink, which the VFS uses for anything but directories.
Unlink(d, nm) ==
  /\ "unlink" \in Commands
  /\ IF Found(fs, d, nm)
     THEN LET n == InoOf(fs, d, nm)
          IN /\ fs.inode[n].type # "dir"
             /\ fs' = Put2(AddLinks(DirentDelete(fs, d, nm), n, -1), n, d)
             /\ Reply("unlink", "OK", 0)
     ELSE fs' = Put1(fs, d) /\ Reply("unlink", "EIO", 0)
  /\ known' = known

\* ext2_rmdir, which the VFS uses for directories.
Rmdir(d, nm) ==
  /\ "rmdir" \in Commands
  /\ IF Found(fs, d, nm)
     THEN LET n == InoOf(fs, d, nm)
          IN /\ fs.inode[n].type = "dir"
             /\ IF IsDirEmpty(fs, n)
                THEN /\ fs' = Put2(AddLinks(AddLinks(DirentDelete(fs, d, nm), d, -1), n, -1), n, d)
                     /\ Reply("rmdir", "OK", 0)
                ELSE fs' = Put2(fs, n, d) /\ Reply("rmdir", "ENOTEMPTY", 0)
     ELSE fs' = Put1(fs, d) /\ Reply("rmdir", "EIO", 0)
  /\ known' = known

\* Variants: the old entry is deleted first and not put back when there is no room
\* for the new one; the link of the old entry is not taken back; an entry that has
\* the new name is deleted.
RenameDeletesFirst(sd, sn, dd, dn) ==
  /\ "rename" \in Commands
  /\ IF Found(fs, sd, sn)
     THEN LET n == InoOf(fs, sd, sn)
              f == DirentDelete(fs, sd, sn)
          IN \/ /\ \E g \in DirentEnter(f, dd, dn, n) : fs' = Put3(g, n, dd, sd)
                /\ Reply("rename", "OK", 0)
             \/ /\ fs' = Put3(f, n, dd, sd)
                /\ Reply("rename", "ENOENT", 0)
     ELSE fs' = Put2(fs, sd, dd) /\ Reply("rename", "EIO", 0)
  /\ known' = known

RenameKeepsLink(sd, sn, dd, dn) ==
  /\ "rename" \in Commands /\ Found(fs, sd, sn)
  /\ LET n == InoOf(fs, sd, sn)
     IN \E g \in DirentEnter(fs, dd, dn, n) :
          fs' = Put3(DirentDelete(AddLinks(g, n, 1), sd, sn), n, dd, sd)
  /\ Reply("rename", "OK", 0)
  /\ known' = known

RenameReplaces(sd, sn, dd, dn) ==
  /\ "rename" \in Commands /\ Found(fs, sd, sn)
  /\ LET n == InoOf(fs, sd, sn)
         f == IF Found(fs, dd, dn) THEN DirentDelete(fs, dd, dn) ELSE fs
     IN \E g \in DirentEnter(f, dd, dn, n) :
          fs' = Put3(IF Found(g, sd, sn) THEN DirentDelete(g, sd, sn) ELSE g, n, dd, sd)
  /\ Reply("rename", "OK", 0)
  /\ known' = known

\* ext2_rename: the new entry first, whatever else has that name, then the old
\* one is deleted.
Rename(sd, sn, dd, dn) ==
  /\ "rename" \in Commands
  /\ IF Found(fs, sd, sn)
     THEN LET n == InoOf(fs, sd, sn)
          IN \/ /\ \E g \in DirentEnter(fs, dd, dn, n) :
                     fs' = Put3(AddLinks(DirentDelete(AddLinks(g, n, 1), sd, sn), n, -1), n, dd, sd)
                /\ Reply("rename", "OK", 0)
             \/ /\ fs' = Put3(fs, n, dd, sd)
                /\ Reply("rename", "ENOENT", 0)
     ELSE fs' = Put2(fs, sd, dd) /\ Reply("rename", "EIO", 0)
  /\ known' = known

\* ext2_chmod, ext2_chown and ext2_readdir: get, change nothing that is modelled, put.
Touch(n) ==
  /\ "chmod" \in Commands
  /\ fs' = Put1(fs, n)
  /\ Reply("chmod", "OK", 0)
  /\ known' = known

-------------------------------------------------------------------------------
\* As mke2fs leaves it: the root directory and one directory in it; bit
\* LastIno + 1 stands for the padding of the bitmap.
Init ==
  /\ fs = [entries  |-> [n \in Inos |->
                           CASE n = ROOT -> <<Entry(".", ROOT), Entry("..", ROOT), Entry(SubName, Sub)>>
                             [] n = Sub  -> <<Entry(".", Sub), Entry("..", ROOT)>>
                             [] OTHER    -> <<>>],
           inode    |-> [n \in Inos |->
                           CASE n = ROOT -> [type |-> "dir", links |-> 3]
                             [] n = Sub  -> [type |-> "dir", links |-> 2]
                             [] OTHER    -> [type |-> "none", links |-> 0]],
           marked   |-> {ROOT, Sub, LastIno + 1},
           free     |-> LastIno - FirstIno,
           frees    |-> 0,
           panicked |-> FALSE]
  /\ known = [n \in Inos |-> IF n = ROOT THEN "dir" ELSE "none"]
  /\ reply = [cmd |-> "none", sc |-> "OK", ino |-> 0]

Next ==
  /\ ~fs.panicked /\ fs.frees <= MaxFrees
  /\ \/ \E d \in KnownDirs, nm \in Names :
          Create(d, nm) \/ Mknod(d, nm) \/ Mkdir(d, nm) \/ Lookup(d, nm) \/ Unlink(d, nm) \/ Rmdir(d, nm)
     \/ \E sd, dd \in KnownDirs, sn, dn \in Names : Rename(sd, sn, dd, dn)
     \/ \E n \in Inos : known[n] # "none" /\ Touch(n)

Spec == Init /\ [][Next]_vars

-------------------------------------------------------------------------------
(* Properties *)

Types == {"none", "file", "dir"}

\* Every variable has its type; there are never more free inodes than at first.
TypeOK ==
  /\ fs.entries \in [Inos -> Seq([name : Names \union {".", ".."}, ino : Inos])]
  /\ fs.inode \in [Inos -> [type : Types, links : 0..(Wrap - 1)]]
  /\ fs.marked \subseteq Inos \union {LastIno + 1}
  /\ fs.free \in 0..(LastIno - FirstIno)
  /\ fs.frees \in Nat /\ fs.panicked \in BOOLEAN
  /\ known \in [Inos -> Types]
  /\ reply.ino \in Inos \union {0}

Places(n) == {p \in Inos \X (1..MaxLen) :
                p[2] <= Len(fs.entries[p[1]]) /\ fs.entries[p[1]][p[2]].ino = n}
Named     == {n \in Inos : Places(n) # {}}

NameAt(p) == fs.entries[p[1]][p[2]].name
Attached  == {ROOT} \union {n \in Inos : \E p \in Places(n) : NameAt(p) \in Names}

\* An inode's link count is the number of entries that name it, the ".." of removed
\* directories left out, after any creates, renames and rmdirs, within or across
\* directories, onto names in use, of files or of directories: put_inode frees an
\* inode by this count.  And every inode that has an entry is marked in the bitmap and
\* has a type, so it is not handed out again.  So it is until the first inode is freed.
LinksMatchEntries ==
  fs.frees = 0 =>
    /\ \A n \in Inos :
         fs.inode[n].links = Cardinality({p \in Places(n) : NameAt(p) = ".." => p[1] \in Attached})
    /\ \A n \in Named : n \in fs.marked /\ fs.inode[n].type # "none"

\* rename in two steps, enter and delete, never leaves an inode without an entry,
\* even between the same names of one directory or when there is no room.
RenameLosesNothing ==
  [][reply'.cmd = "rename" /\ ~fs'.panicked => Named \subseteq Named']_vars

\* A request that fails, at whichever of its steps, leaves every directory as it
\* was.
FailureChangesNoNames == [][reply'.sc # "OK" => fs'.entries = fs.entries]_vars

\* ops_dir.c:110: "Create a new directory and populate with "." and ".." entries".
MkdirMakesDirectory ==
  reply.cmd = "mkdir" /\ reply.sc = "OK" /\ ~fs.panicked =>
    /\ Found(fs, reply.ino, ".") /\ Found(fs, reply.ino, "..")
    /\ reply.ino \in Named
===============================================================================
