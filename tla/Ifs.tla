--------------------------------- MODULE Ifs ---------------------------------
(***************************************************************************)
(* ifs: the boot image, a table of nodes and the bytes of the files behind *)
(* it, mapped into memory and never changed.  The nodes of the image are   *)
(* numbered by their index; the root is node 0 and has no name.  A byte is *)
(* its position in the image.                                              *)
(***************************************************************************)
EXTENDS Sequences, TableScan

CONSTANTS
  ifs_inode_table,  \* [name, type, parent, offset, size] of nodes 0..node_cnt - 1
  IfsRecordSize,    \* the length of the directory record of a name
  IfsBufSz          \* DIRENTS_BUF_SZ of ifs

IfsNodes == DOMAIN ifs_inode_table
node_cnt == Cardinality(IfsNodes)

IfsOf(type) == {i \in IfsNodes : ifs_inode_table[i].type = type}

IfsEntries(dir) == {i \in IfsNodes : ifs_inode_table[i].name # "" /\ ifs_inode_table[i].parent = dir}

\* init_ifs accepts any image with its magic; these are what its makers put in it.
ASSUME IfsAssumption ==
  /\ IsFiniteSet(IfsNodes) /\ IfsNodes = 0..(node_cnt - 1) /\ 0 \in IfsNodes
  /\ IfsBufSz \in Nat
  /\ \A i \in IfsNodes :
       /\ ifs_inode_table[i].parent \in IfsNodes
       /\ ifs_inode_table[i].offset \in Nat /\ ifs_inode_table[i].size \in Nat
       /\ ifs_inode_table[i].name # "" => IfsRecordSize[ifs_inode_table[i].name] \in 1..IfsBufSz
       /\ \A j \in IfsEntries(ifs_inode_table[i].parent) :
            ifs_inode_table[j].name = ifs_inode_table[i].name => i = j

\* ifs_lookup: the first node with that parent and name.
IfsLookup(dir, nm) ==
  LET found == {i \in IfsNodes : ifs_inode_table[i].parent = dir /\ ifs_inode_table[i].name = nm}
  IN {i \in found : \A j \in found : i <= j}

-------------------------------------------------------------------------------
(* ifs_read of count bytes at an offset that is not beyond the end: there  *)
(* remaining is the rest of the file.  (Beyond it the difference wraps.)   *)

\* Variant: the whole size counts as remaining.
IfsReadSize(ino, offset, count) ==
  IF count < ifs_inode_table[ino].size THEN count ELSE ifs_inode_table[ino].size

IfsReadCount(ino, offset, count) ==
  LET remaining == ifs_inode_table[ino].size - offset
  IN IF count < remaining THEN count ELSE remaining

\* The bytes sent when the message takes n.
IfsReadBytes(ino, offset, n) ==
  [k \in 1..n |-> ifs_inode_table[ino].offset + offset + k - 1]

-------------------------------------------------------------------------------
(* ifs_readdir. *)

IfsNeed(dir) ==
  [i \in IfsNodes |-> IF i \in IfsEntries(dir) THEN IfsRecordSize[ifs_inode_table[i].name] ELSE 0]

IfsRoom(sz) == IF sz < IfsBufSz THEN sz ELSE IfsBufSz

\* The nodes whose records are sent, and the cookie of the reply.
IfsReaddir(dir, cookie, sz) ==
  LET stop == StopsAt(IfsNeed(dir), node_cnt, cookie, IfsRoom(sz))
  IN [nodes |-> Listing(IfsNeed(dir), cookie, stop), cookie |-> stop]
==============================================================================
