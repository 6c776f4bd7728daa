-------------------------------- MODULE FileIO --------------------------------
(***************************************************************************)
(* read.c and write.c: the transfer of a request's bytes between the       *)
(* message and the blocks of one file, chunk by chunk, none of which spans *)
(* a block.  BlockMap shows that a position has a block of its own, so a   *)
(* file is its blocks and its size here; a position without a block is a   *)
(* hole.  The client's message holds tag + k at its offset k.              *)
(***************************************************************************)
EXTENDS Integers

CONSTANTS
  BlockSize,  \* sb_block_size
  NumBlocks,  \* bound on the file: sb_max_size is that of so many blocks
  Tags        \* what tells the messages of writes apart

ASSUME FileAssumption ==
  /\ BlockSize \in Nat \ {0} /\ NumBlocks \in Nat
  /\ Tags \subseteq Nat \ {0}

MaxSize == NumBlocks * BlockSize
Offsets == 0..(BlockSize - 1)
Any     == -1  \* a failed request or a lost inode leaves whatever bytes there
Hole    == [o \in Offsets |-> -1]
Zeroes  == [o \in Offsets |-> 0]

VARIABLES
  data,   \* block of the file -> its bytes in the block cache, or Hole
  size,   \* i_size in the cached inode
  saved,  \* [size, mapped]: the inode in the inode table
  job,    \* the request being handled: see Idle
  got,    \* message offset -> byte that a read has sent
  want    \* history: the byte a read of each position should return, or Any

vars == <<data, size, saved, job, got, want>>

Idle == [op |-> "none", start |-> 0, n |-> 0, pos |-> 0, done |-> 0, tag |-> 0, sc |-> "OK"]

Nothing    == [k \in {} |-> 0]
Mapped     == {b \in DOMAIN data : data[b] # Hole}
Content(i) == IF data[i \div BlockSize] = Hole THEN 0 ELSE data[i \div BlockSize][i % BlockSize]

Least(x, y) == IF x < y THEN x ELSE y

-------------------------------------------------------------------------------
(* write_file *)

Off(pos) == pos % BlockSize

StartWrite(p, n, tag) ==
  /\ job.op = "none"
  /\ p <= MaxSize - n
  /\ job' = [Idle EXCEPT !.op = "write", !.start = p, !.n = n, !.pos = p, !.tag = tag]
  /\ UNCHANGED <<data, size, saved, got, want>>

\* Variant: the last chunk is a whole one, too.
ToEndOfBlock == BlockSize - Off(job.pos)

\* Variant: the last byte of a block is not counted as part of it.
ShortOfBlock == Least(BlockSize - 1 - Off(job.pos), job.n - job.done)

WriteSize == Least(BlockSize - Off(job.pos), job.n - job.done)

\* Variant: a block in which the write begins is cleared, whatever the file has there.
BufferAlwaysCleared == IF Off(job.pos) = 0 THEN Zeroes ELSE data[job.pos \div BlockSize]

\* The buffer write_chunk gets: of a new block cleared; of an old block cleared when
\* all of it is to be written or the file ends before it.
Buffer ==
  LET old == data[job.pos \div BlockSize]
  IN IF old = Hole \/ WriteSize = BlockSize \/ (Off(job.pos) = 0 /\ job.pos >= size)
     THEN Zeroes
     ELSE old

\* The buffer when readmsg has delivered k bytes of the chunk.
Filled(k) ==
  [o \in Offsets |-> IF o \in Off(job.pos)..(Off(job.pos) + k - 1)
                     THEN job.tag + job.done + o - Off(job.pos) ELSE Buffer[o]]

Chunk(n) == job.pos..(job.pos + n - 1)

WriteChunk ==
  /\ job.op = "write" /\ job.sc = "OK" /\ job.done < job.n
  /\ data' = [data EXCEPT ![job.pos \div BlockSize] = Filled(WriteSize)]
  /\ job' = [job EXCEPT !.pos = @ + WriteSize, !.done = @ + WriteSize]
  /\ want' = [i \in DOMAIN want |-> IF i \in Chunk(WriteSize)
                                    THEN job.tag + job.done + i - job.pos ELSE want[i]]
  /\ UNCHANGED <<size, saved, got>>

\* readmsg delivers less than the chunk, or there is no space for a new block.
FailWriteChunk ==
  /\ job.op = "write" /\ job.sc = "OK" /\ job.done < job.n
  /\ \/ \E k \in 0..(WriteSize - 1) : data' = [data EXCEPT ![job.pos \div BlockSize] = Filled(k)]
     \/ job.pos \div BlockSize \notin Mapped /\ data' = data
  /\ job' = [job EXCEPT !.sc = "EIO"]
  /\ want' = [i \in DOMAIN want |-> IF i \in Chunk(WriteSize) THEN Any ELSE want[i]]
  /\ UNCHANGED <<size, saved, got>>

\* The size covers what was transferred, also when the request fails.
SizeAfter == IF job.pos > size THEN job.pos ELSE size

\* Only a request that succeeds writes the inode.
EndWrite ==
  /\ job.op = "write" /\ (job.sc # "OK" \/ job.done = job.n)
  /\ size' = SizeAfter
  /\ saved' = IF job.sc = "OK" THEN [size |-> SizeAfter, mapped |-> Mapped] ELSE saved
  /\ job' = Idle
  /\ UNCHANGED <<data, got, want>>

-------------------------------------------------------------------------------
(* read_file *)

StartRead(p, n) ==
  /\ job.op = "none"
  /\ job' = [Idle EXCEPT !.op = "read", !.start = p, !.n = n, !.pos = p]
  /\ UNCHANGED <<data, size, saved, got, want>>

\* A chunk is limited to the block, the file, and the whole request, not to what is
\* left of the request.
ReadSize == Least(Least(BlockSize - Off(job.pos), job.n), size - job.pos)

\* Variant: every chunk goes to the beginning of the message.
SendAtStart(k) == [i \in (DOMAIN got) \union (0..(k - 1)) |->
                     IF i < k THEN Content(job.pos + i) ELSE got[i]]

\* writemsg at the offset of what has been sent before.
Send(k) == [i \in (DOMAIN got) \union (job.done..(job.done + k - 1)) |->
              IF i < job.done THEN got[i] ELSE Content(job.start + i)]

ReadChunk ==
  /\ job.op = "read" /\ job.sc = "OK" /\ job.done < job.n /\ job.pos < size
  /\ \/ /\ got' = Send(ReadSize)
        /\ job' = [job EXCEPT !.pos = @ + ReadSize, !.done = @ + ReadSize]
     \/ /\ got' = got
        /\ job' = [job EXCEPT !.sc = "EIO"]
  /\ UNCHANGED <<data, size, saved, want>>

\* Variant: a read ends at a hole as well.
EndReadAtHole ==
  /\ job.op = "read"
  /\ \/ job.sc # "OK" \/ job.done >= job.n \/ job.pos >= size
     \/ job.pos \div BlockSize \notin Mapped
  /\ job' = Idle
  /\ got' = Nothing
  /\ UNCHANGED <<data, size, saved, want>>

EndRead ==
  /\ job.op = "read" /\ (job.sc # "OK" \/ job.done >= job.n \/ job.pos >= size)
  /\ job' = Idle
  /\ got' = Nothing
  /\ UNCHANGED <<data, size, saved, want>>

-------------------------------------------------------------------------------
\* write_inode on behalf of another request.
Flush ==
  /\ job.op = "none"
  /\ saved' = [size |-> size, mapped |-> Mapped]
  /\ UNCHANGED <<data, size, job, got, want>>

\* The inode's slot is recycled and the inode is read again: its size is as it was
\* saved, and the blocks entered since may be lost.
Recycle ==
  /\ job.op = "none" /\ saved # [size |-> size, mapped |-> Mapped]
  /\ \E M \in SUBSET Mapped :
       /\ saved.mapped \subseteq M
       /\ data' = [b \in DOMAIN data |-> IF b \in M THEN data[b] ELSE Hole]
  /\ size' = saved.size
  /\ want' = [i \in DOMAIN want |->
                IF data'[i \div BlockSize] # data[i \div BlockSize] \/ i \in saved.size..(size - 1)
                THEN Any ELSE want[i]]
  /\ UNCHANGED <<saved, job, got>>

Init ==
  /\ data = [b \in 0..(NumBlocks - 1) |-> Hole]
  /\ size = 0
  /\ saved = [size |-> 0, mapped |-> {}]
  /\ job = Idle
  /\ got = Nothing
  /\ want = [i \in 0..(MaxSize - 1) |-> 0]

Handle == WriteChunk \/ FailWriteChunk \/ EndWrite \/ ReadChunk \/ EndRead

Next ==
  \/ \E p \in 0..MaxSize, n \in 0..MaxSize : StartRead(p, n) \/ \E tag \in Tags : StartWrite(p, n, tag)
  \/ Handle
  \/ Flush
  \/ Recycle

Spec == Init /\ [][Next]_vars /\ WF_vars(Handle)

-------------------------------------------------------------------------------
(* Properties *)

\* Types: a request's position is its start plus what it has transferred, and only the
\* read that goes wrong at its end transfers more than it is asked for (read.c, write.c).
TypeOK ==
  /\ DOMAIN data = 0..(NumBlocks - 1)
  /\ \A b \in DOMAIN data : data[b] = Hole \/ data[b] \in [Offsets -> Nat]
  /\ size \in 0..MaxSize /\ saved.size \in 0..MaxSize
  /\ saved.mapped \subseteq Mapped
  /\ job.op \in {"none", "read", "write"} /\ job.sc \in {"OK", "EIO"}
  /\ job.pos = job.start + job.done /\ job.n \in 0..MaxSize
  /\ job.op = "write" => job.done <= job.n
  /\ want \in [0..(MaxSize - 1) -> Nat \union {Any}]

\* Between requests every position of the file holds the byte last written there, and 0
\* if none was: no chunk disturbs its neighbours, no block shows what it held before it
\* was the file's, and a write past the end leaves zeroes in between (write_chunk's
\* choice of BLK_CLEAR or BLK_READ, write.c:112-125).
HoldsWhatWasWritten ==
  job.op = "none" => \A i \in 0..(size - 1) : want[i] \in {Any, Content(i)}

\* What a read has sent is the file's bytes from its start on, each at its offset in the
\* message, holes and chunk boundaries included (read_chunk, read_nonexistent_block),
\* and nothing from beyond the end of the file, where a failed write may have left bytes
\* (read.c:57-65).
ReadSendsFile ==
  job.op = "read" =>
    /\ \A k \in 0..(job.done - 1) : k \in DOMAIN got /\ got[k] = Content(job.start + k)
    /\ job.done > 0 => job.pos <= size

\* A read that ends well has sent everything asked for that the file has: it ends early
\* at the end of the file only, never at a hole or at the end of a block (read.c:50-75).
ReadIsComplete ==
  [][(job.op = "read" /\ job.sc = "OK" /\ job'.op = "none")
       => job.done >= Least(job.n, size - job.start)]_vars

\* Every request ends: each turn of the two loops transfers something or stops them
\* (read.c:50-75, write.c:53-69).
EveryRequestEnds == []<>(job.op = "none")

\* read_file's documentation has nrbytes for the "number of bytes in file to read"
\* (read.c:19).  The code limits a chunk to nrbytes instead of what is left of it.
ReadWithinRequest == job.op = "read" => job.done <= job.n
===============================================================================
