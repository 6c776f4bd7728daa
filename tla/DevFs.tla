-------------------------------- MODULE DevFs --------------------------------
(***************************************************************************)
(* devfs: a table of DEVFS_MAX_INODE nodes in memory, whose index is the   *)
(* inode number.  A node with an empty name is free; node 0 is the root    *)
(* directory and has an empty name too.  Nodes are made by mknod and never *)
(* removed.  The handlers take the directory of a request for the root.    *)
(***************************************************************************)
EXTENDS Sequences, TableScan

CONSTANTS
  DEVFS_MAX_INODE,
  DeviceNames,      \* names of devices, shorter than DEVFS_NAME_LEN and not empty
  Modes,            \* modes of devices
  RecordSize,       \* RecordSize[name]: the length of its directory record
  DevfsBufSz        \* DIRENTS_BUF_SZ of devfs

NoName == ""

ASSUME DevFsAssumption ==
  /\ DEVFS_MAX_INODE \in Nat \ {0}
  /\ NoName \notin DeviceNames /\ DevfsBufSz \in Nat
  /\ \A nm \in DeviceNames : RecordSize[nm] \in 1..DevfsBufSz

VARIABLE devfs_inode_table  \* [name, mode] of every node

Nodes == 0..(DEVFS_MAX_INODE - 1)
Free  == [name |-> NoName, mode |-> "none"]

\* init_devfs.
DevfsInit == devfs_inode_table = [i \in Nodes |-> Free]

\* The numbers of the nodes, other than the root, that have name nm.
Named(nm) == {i \in Nodes \ {0} : devfs_inode_table[i].name = nm}
First(I)  == CHOOSE i \in I : \A j \in I : i <= j

\* Variant: the search for a free node begins again at the first when all are taken.
DevfsMknodReusing(nm, mode) ==
  /\ Named(nm) = {}
  /\ devfs_inode_table' =
       [devfs_inode_table EXCEPT ![IF Named(NoName) = {} THEN 1 ELSE First(Named(NoName))] =
          [name |-> nm, mode |-> mode]]

\* devfsMknod of a new name while there is a free node.  It fails with EEXIST when the
\* name is in the table and with ENOSPC when no node is free, and changes nothing then.
DevfsMknod(nm, mode) ==
  /\ Named(nm) = {}
  /\ Named(NoName) # {}
  /\ devfs_inode_table' = [devfs_inode_table EXCEPT ![First(Named(NoName))] =
                             [name |-> nm, mode |-> mode]]

\* devfsLookup: the nodes it may reply, none for ENOENT.
DevfsLookup(nm) == IF Named(nm) = {} THEN {} ELSE {First(Named(nm))}

-------------------------------------------------------------------------------
(* devfsReaddir, for a request with a cookie and room for sz bytes. *)

DevfsNeed == [i \in Nodes |-> IF devfs_inode_table[i].name = NoName THEN 0
                              ELSE RecordSize[devfs_inode_table[i].name]]

DevfsRoom(sz) == IF sz < DevfsBufSz THEN sz ELSE DevfsBufSz

\* Variant: the node whose record does not fit is passed over.
DevfsReaddirSkip(cookie, sz) ==
  LET start == IF cookie = 0 THEN 1 ELSE cookie
      stop  == StopsAt(DevfsNeed, DEVFS_MAX_INODE, start, DevfsRoom(sz))
  IN [nodes |-> Listing(DevfsNeed, start, stop),
      cookie |-> IF stop < DEVFS_MAX_INODE THEN stop + 1 ELSE stop]

\* The nodes whose records are sent, and the cookie of the reply.
DevfsReaddir(cookie, sz) ==
  LET start == IF cookie = 0 THEN 1 ELSE cookie
      stop  == StopsAt(DevfsNeed, DEVFS_MAX_INODE, start, DevfsRoom(sz))
  IN [nodes |-> Listing(DevfsNeed, start, stop), cookie |-> stop]
==============================================================================
