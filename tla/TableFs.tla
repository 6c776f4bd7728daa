------------------------------- MODULE TableFs -------------------------------
(***************************************************************************)
(* The processes that use devfs and ifs at once.  The kernel turns what    *)
(* they do into messages; each server takes one message at a time and      *)
(* answers it whole, so a message is a step.  Between two messages of one  *)
(* process come those of others, mknod among them.  A process reads a      *)
(* directory from cookie 0 until a reply has no records, and a file from   *)
(* its start until a reply has no bytes.                                   *)
(***************************************************************************)
EXTENDS DevFs, Ifs, SequencesExt

CONSTANTS
  Processes,
  Sizes       \* sizes of the buffers processes read with

\* A buffer that holds no record would look like the end of the directory.
ASSUME TableFsAssumption ==
  /\ Sizes \subseteq Nat \ {0}
  /\ \A sz \in Sizes :
       /\ \A nm \in DeviceNames : RecordSize[nm] <= sz
       /\ \A i \in IfsNodes :
            ifs_inode_table[i].name # "" => IfsRecordSize[ifs_inode_table[i].name] <= sz

VARIABLES
  job,   \* what each process is doing: see TypeOK
  told   \* <<name, node>> of the devices that processes were told

vars == <<devfs_inode_table, job, told>>

Idle == [op |-> "none"]

\* The nodes a server lists in a directory.
Present(fs, dir) ==
  IF fs = "devfs" THEN {i \in Nodes : devfs_inode_table[i].name # NoName} ELSE IfsEntries(dir)
NameOf(fs, i) == IF fs = "devfs" THEN devfs_inode_table[i].name ELSE ifs_inode_table[i].name
Lookup(fs, dir, nm) == IF fs = "devfs" THEN DevfsLookup(nm) ELSE IfsLookup(dir, nm)

-------------------------------------------------------------------------------
Mknod(nm, mode) ==
  /\ DevfsMknod(nm, mode)
  /\ told' = told \union {<<nm, i>> : i \in Named(nm)'}
  /\ UNCHANGED job

LookupDevice(nm) ==
  /\ told' = told \union {<<nm, i>> : i \in DevfsLookup(nm)}
  /\ UNCHANGED <<devfs_inode_table, job>>

OpenDir(p, fs, dir, sz) ==
  /\ job[p].op = "none"
  /\ job' = [job EXCEPT ![p] = [op |-> "scan", fs |-> fs, node |-> dir, sz |-> sz, pos |-> 0,
                                got |-> <<>>, there |-> Present(fs, dir), ended |-> FALSE]]
  /\ UNCHANGED <<devfs_inode_table, told>>

\* Variant: a server that has no records to send does not answer.
ReaddirSilent(p) ==
  /\ job[p].op = "scan" /\ ~job[p].ended
  /\ LET j == job[p]
         r == IF j.fs = "devfs" THEN DevfsReaddir(j.pos, j.sz) ELSE IfsReaddir(j.node, j.pos, j.sz)
     IN /\ r.nodes # <<>>
        /\ job' = [job EXCEPT ![p].pos = r.cookie, ![p].got = @ \o r.nodes]
  /\ UNCHANGED <<devfs_inode_table, told>>

\* One readdir; there are no records at the end.
Readdir(p) ==
  /\ job[p].op = "scan" /\ ~job[p].ended
  /\ LET j == job[p]
         r == IF j.fs = "devfs" THEN DevfsReaddir(j.pos, j.sz) ELSE IfsReaddir(j.node, j.pos, j.sz)
     IN job' = [job EXCEPT ![p].pos = r.cookie, ![p].got = @ \o r.nodes,
                           ![p].ended = (r.nodes = <<>>)]
  /\ UNCHANGED <<devfs_inode_table, told>>

OpenFile(p, ino, sz) ==
  /\ job[p].op = "none"
  /\ job' = [job EXCEPT ![p] = [op |-> "read", fs |-> "ifs", node |-> ino, sz |-> sz, pos |-> 0,
                                got |-> <<>>, there |-> {}, ended |-> FALSE]]
  /\ UNCHANGED <<devfs_inode_table, told>>

\* One read; writemsg may take fewer bytes than it is given.
Read(p) ==
  /\ job[p].op = "read" /\ ~job[p].ended
  /\ LET j     == job[p]
         count == IfsReadCount(j.node, j.pos, j.sz)
     IN \E n \in 0..count :
          /\ count >= 1 => n >= 1
          /\ job' = [job EXCEPT ![p].pos = @ + n, ![p].got = @ \o IfsReadBytes(j.node, j.pos, n),
                                ![p].ended = (n = 0)]
  /\ UNCHANGED <<devfs_inode_table, told>>

Close(p) ==
  /\ job[p].op # "none" /\ job[p].ended
  /\ job' = [job EXCEPT ![p] = Idle]
  /\ UNCHANGED <<devfs_inode_table, told>>

Init == DevfsInit /\ job = [p \in Processes |-> Idle] /\ told = {}

Next ==
  \/ \E nm \in DeviceNames, mode \in Modes : Mknod(nm, mode)
  \/ \E nm \in DeviceNames : LookupDevice(nm)
  \/ \E p \in Processes :
       \/ \E sz \in Sizes : OpenDir(p, "devfs", 0, sz)
       \/ \E sz \in Sizes, dir \in IfsOf("dir") : OpenDir(p, "ifs", dir, sz)
       \/ \E sz \in Sizes, ino \in IfsOf("file") : OpenFile(p, ino, sz)
       \/ Readdir(p)
       \/ Read(p)
       \/ Close(p)

\* A server answers every message, and a process that reads goes on to the end.
Fairness == \A p \in Processes : WF_vars(Readdir(p) \/ Read(p))
Spec     == Init /\ [][Next]_vars /\ Fairness

-------------------------------------------------------------------------------
(* Properties. *)

\* Where the table of a directory ends, or a file.
End(j) == IF j.op = "read" THEN ifs_inode_table[j.node].size
          ELSE IF j.fs = "devfs" THEN DEVFS_MAX_INODE ELSE node_cnt

\* The types of the variables; nobody is led beyond the end of what he reads.
TypeOK ==
  /\ devfs_inode_table \in [Nodes -> [name : DeviceNames, mode : Modes] \union {Free}]
  /\ \A p \in Processes :
       \/ job[p] = Idle
       \/ /\ job[p].op \in {"scan", "read"} /\ job[p].fs \in {"devfs", "ifs"}
          /\ job[p].sz \in Sizes /\ job[p].pos \in 0..End(job[p]) /\ job[p].ended \in BOOLEAN
  /\ told \subseteq DeviceNames \X (Nodes \ {0})

\* A device name that a process was told, by mknod or by lookup, goes on to mean that
\* node, and no other name means it: the VFS keeps both without asking again, and devfs
\* has no way to say that a node was given up.
ToldStaysTrue ==
  \A t \in told :
    /\ DevfsLookup(t[1]) = {t[2]}
    /\ \A u \in told : u[2] = t[2] => u = t

\* What a process has got so far: of a directory every node before its cookie that was
\* there when it began, each once, with the number that a lookup of its name in that
\* directory gives, although nodes are made in between; of a file its bytes from the
\* first on, in order.  At the end that is all of them.
NothingMissed ==
  \A p \in Processes :
    LET j == job[p]
    IN /\ j.op = "scan" =>
            /\ IsInjective(j.got)
            /\ \A i \in ToSet(j.got) : Lookup(j.fs, j.node, NameOf(j.fs, i)) = {i}
            /\ \A i \in j.there : i < j.pos \/ j.ended => i \in ToSet(j.got)
       /\ j.op = "read" =>
            LET file == ifs_inode_table[j.node]
            IN /\ j.got = [k \in 1..j.pos |-> file.offset + k - 1]
               /\ j.ended => j.pos = file.size

\* Every directory and file that a process begins to read ends, also a directory in
\* which nodes appear meanwhile.
EveryJobEnds ==
  \A p \in Processes : job[p].op # "none" ~> (job[p].op = "none" \/ job[p].ended)
==============================================================================
