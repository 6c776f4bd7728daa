----------------------------- MODULE FileIOProofs -----------------------------
(***************************************************************************)
(* Theorems about FileIO, for every size of the blocks and of the file:    *)
(* between requests the file holds what was last written to each of its    *)
(* positions, and a read sends exactly that, up to the end of the request  *)
(* or of the file.                                                         *)
(***************************************************************************)
EXTENDS FileIO, TLAPS

Positions == 0..(MaxSize - 1)

-------------------------------------------------------------------------------
(* The inductive invariant *)

Typed ==
  /\ data \in [0..(NumBlocks - 1) -> {Hole} \union [Offsets -> Nat]]
  /\ size \in 0..MaxSize
  /\ saved \in [size : 0..MaxSize, mapped : SUBSET Mapped]
  /\ job \in [op : {"none", "read", "write"}, start : 0..MaxSize, n : 0..MaxSize,
              pos : Nat, done : Nat, tag : Nat, sc : {"OK", "EIO"}]
  /\ want \in [Positions -> Nat \union {Any}]

\* A write keeps to the file's bound, which StartWrite has checked.
InBounds ==
  /\ job.pos = job.start + job.done
  /\ job.op = "write" => job.done <= job.n /\ job.start <= MaxSize - job.n

\* In the middle of a request, too, and beyond the end of the file.
EveryPosition == \A i \in Positions : want[i] \in {Any, Content(i)}

\* Nothing is known of what is beyond the end, but for what the present write left there.
BeyondEnd ==
  \A i \in Positions :
    i >= size /\ ~(job.op = "write" /\ i \in job.start..(job.pos - 1)) => want[i] \in {Any, 0}

IInv == Typed /\ InBounds /\ EveryPosition /\ BeyondEnd /\ ReadSendsFile

-------------------------------------------------------------------------------
(* Positions and blocks *)

\* A position lies in one block of the file, at one offset.
LEMMA Position ==
  ASSUME NEW i \in Positions
  PROVE  /\ i \in Nat /\ i \div BlockSize \in 0..(NumBlocks - 1)
         /\ Off(i) \in Offsets /\ i % BlockSize = Off(i)
         /\ i = BlockSize * (i \div BlockSize) + Off(i)
<1> USE FileAssumption
<1>1. i \in Nat /\ i < NumBlocks * BlockSize
  BY DEF Positions, MaxSize
<1>2. i \div BlockSize \in Nat /\ i % BlockSize \in 0..(BlockSize - 1)
  BY <1>1
<1>3. i = BlockSize * (i \div BlockSize) + (i % BlockSize)
  BY <1>1
<1>4. i \div BlockSize < NumBlocks
  BY <1>1
<1> QED
  BY <1>1, <1>2, <1>3, <1>4 DEF Off, Offsets

\* Within a block offsets tell positions apart.
LEMMA SameBlock ==
  ASSUME NEW i \in Positions, NEW j \in Positions, i \div BlockSize = j \div BlockSize
  PROVE  i - j = Off(i) - Off(j)
<1> DEFINE b == i \div BlockSize
<1>1. i = BlockSize * b + Off(i) /\ Off(i) \in Int
  BY Position DEF Offsets
<1>2. j = BlockSize * b + Off(j) /\ Off(j) \in Int
  BY Position DEF Offsets
<1>3. BlockSize * b \in Int
  BY Position, FileAssumption
<1> HIDE DEF b
<1> QED
  BY <1>1, <1>2, <1>3

\* The positions of a chunk are in the block in which it begins.
LEMMA ChunkInBlock ==
  ASSUME NEW p \in Positions, NEW n \in Nat, n <= BlockSize - Off(p),
         NEW i \in Positions, i \in p..(p + n - 1)
  PROVE  i \div BlockSize = p \div BlockSize /\ Off(i) = Off(p) + i - p
<1> USE FileAssumption
<1> DEFINE q == p \div BlockSize
           r == i \div BlockSize
<1>1. q \in Nat /\ r \in Nat /\ Off(p) \in 0..(BlockSize - 1) /\ Off(i) \in 0..(BlockSize - 1)
  BY Position DEF Offsets
<1>2. p = BlockSize * q + Off(p) /\ i = BlockSize * r + Off(i)
  BY Position
<1>0. i \in Nat /\ p \in Nat
  BY Position
<1>3. i - p >= 0 /\ i - p < BlockSize - Off(p)
  BY <1>0, <1>1
<1> HIDE DEF q, r
<1>4. BlockSize * r + Off(i) = BlockSize * q + (Off(p) + i - p) /\ Off(p) + i - p \in 0..(BlockSize - 1)
  BY <1>0, <1>1, <1>2, <1>3
<1>5. r = q
  BY <1>1, <1>4
<1>6. BlockSize * r = BlockSize * q /\ BlockSize * q \in Nat
  BY <1>5, <1>1
<1>7. Off(i) = Off(p) + i - p
  BY <1>0, <1>1, <1>2, <1>3, <1>6
<1> QED
  BY <1>5, <1>7 DEF q, r

\* A block of the file is never a hole once it has bytes.
LEMMA BlockNotHole == Hole \notin [Offsets -> Nat] /\ Zeroes \in [Offsets -> Nat]
<1>1. 0 \in Offsets
  BY FileAssumption DEF Offsets
<1>2. Hole[0] = -1
  BY <1>1 DEF Hole
<1>3. ASSUME Hole \in [Offsets -> Nat]
      PROVE  FALSE
  BY <1>1, <1>2, <1>3
<1> QED
  BY <1>3 DEF Zeroes

\* A nonempty chunk lies in the block and in the request, and so in the file.
LEMMA WriteSizeBounds ==
  ASSUME Typed, InBounds, job.op = "write", job.done < job.n
  PROVE  /\ job.pos \in Positions /\ job.pos < MaxSize
         /\ WriteSize \in 1..BlockSize
         /\ WriteSize <= BlockSize - Off(job.pos) /\ WriteSize <= job.n - job.done
<1>1. /\ job.pos \in Nat /\ job.n \in Nat /\ job.done \in Nat /\ job.start \in Nat
      /\ MaxSize \in Nat /\ BlockSize \in Nat \ {0}
  BY FileAssumption DEF Typed, MaxSize
<1>2. job.pos < MaxSize
  BY <1>1 DEF InBounds
<1>3. job.pos \in Positions
  BY <1>1, <1>2 DEF Positions
<1>4. Off(job.pos) \in 0..(BlockSize - 1)
  BY <1>3, Position DEF Offsets
<1> QED
  BY <1>1, <1>2, <1>3, <1>4 DEF WriteSize, Least

\* The block of a chunk holds bytes, never a hole, however much of it was delivered.
LEMMA FilledTyped ==
  ASSUME Typed, InBounds, job.op = "write", job.done < job.n, NEW k \in Nat
  PROVE  Buffer \in [Offsets -> Nat] /\ Filled(k) \in [Offsets -> Nat]
<1> DEFINE b == job.pos \div BlockSize
<1>1. b \in 0..(NumBlocks - 1) /\ Off(job.pos) \in Int
  BY WriteSizeBounds, Position DEF Offsets
<1>2. data[b] \in {Hole} \union [Offsets -> Nat]
  BY <1>1 DEF Typed
<1>3. Buffer \in [Offsets -> Nat]
  BY <1>2, BlockNotHole DEF Buffer
<1>4. ASSUME NEW o \in Offsets, o \in Off(job.pos)..(Off(job.pos) + k - 1)
      PROVE  job.tag + job.done + o - Off(job.pos) \in Nat
  <2>1. o \in Int /\ job.tag \in Nat /\ job.done \in Nat
    BY DEF Offsets, Typed
  <2> QED
    BY <2>1, <1>1, <1>4
<1> QED
  BY <1>3, <1>4 DEF Filled

-------------------------------------------------------------------------------
(* Every action preserves the invariant *)

\* What a chunk of which k bytes were delivered leaves: in its block, the bytes of the
\* message, and what was there otherwise, unless that is cleared and beyond the end.
LEMMA AfterChunk ==
  ASSUME Typed, InBounds, job.op = "write", job.done < job.n,
         NEW k \in 0..WriteSize,
         data' = [data EXCEPT ![job.pos \div BlockSize] = Filled(k)],
         NEW i \in Positions
  PROVE  /\ i \in job.pos..(job.pos + k - 1) => Content(i)' = job.tag + job.done + i - job.pos
         /\ i \notin job.pos..(job.pos + k - 1) /\ i \notin Chunk(WriteSize)
              => \/ Content(i)' = Content(i)
                 \/ Content(i)' = 0 /\ i >= size /\ i >= job.pos
<1> DEFINE b == job.pos \div BlockSize
           c == i \div BlockSize
<1>1. /\ b \in 0..(NumBlocks - 1) /\ Off(job.pos) \in Offsets /\ job.pos \in Positions
      /\ WriteSize \in 1..BlockSize /\ WriteSize <= BlockSize - Off(job.pos)
  BY WriteSizeBounds, Position
<1>2. c \in 0..(NumBlocks - 1) /\ Off(i) \in Offsets /\ i % BlockSize = Off(i)
  BY Position
<1>3. k \in Nat /\ k <= WriteSize /\ k <= BlockSize - Off(job.pos)
  BY <1>1, FileAssumption DEF Offsets
<1>4. DOMAIN data = 0..(NumBlocks - 1)
  BY DEF Typed
<1>5. CASE c # b
  <2>1. data'[c] = data[c]
    BY <1>2, <1>4, <1>5
  <2>2. Content(i)' = Content(i)
    BY <2>1 DEF Content
  <2>3. i \notin job.pos..(job.pos + k - 1)
    BY <1>1, <1>3, <1>5, ChunkInBlock
  <2> QED
    BY <2>2, <2>3
<1>6. CASE c = b
  <2>1. data'[c] = Filled(k)
    BY <1>1, <1>4, <1>6
  <2>2. Filled(k) # Hole
    BY <1>3, FilledTyped, BlockNotHole
  <2>3. Content(i)' = Filled(k)[Off(i)]
    BY <2>1, <2>2, <1>2 DEF Content
  <2>4. i - job.pos = Off(i) - Off(job.pos) /\ i \in Int /\ job.pos \in Int
    BY <1>1, <1>6, SameBlock, Position
  <2>5. Off(i) \in Int /\ Off(job.pos) \in Int
    BY <1>1, <1>2 DEF Offsets
  <2>6. ASSUME i \in job.pos..(job.pos + k - 1)
        PROVE  Content(i)' = job.tag + job.done + i - job.pos
    <3>1. Off(i) \in Off(job.pos)..(Off(job.pos) + k - 1)
      BY <2>4, <2>5, <2>6, <1>3
    <3>2. Filled(k)[Off(i)] = job.tag + job.done + Off(i) - Off(job.pos)
      BY <3>1, <1>2 DEF Filled
    <3>3. job.tag \in Nat /\ job.done \in Nat
      BY DEF Typed
    <3> QED
      BY <2>3, <3>2, <2>4, <2>5, <3>3
  <2>7. ASSUME i \notin job.pos..(job.pos + k - 1), i \notin Chunk(WriteSize)
        PROVE  \/ Content(i)' = Content(i)
               \/ Content(i)' = 0 /\ i >= size /\ i >= job.pos
    <3>1. Off(i) \notin Off(job.pos)..(Off(job.pos) + k - 1)
      BY <2>4, <2>5, <2>7, <1>3
    <3>2. Content(i)' = Buffer[Off(i)]
      BY <2>3, <3>1, <1>2 DEF Filled
    <3>3. CASE data[b] = Hole
      <4>1. Content(i) = 0 /\ Buffer[Off(i)] = 0
        BY <3>3, <1>6, <1>2 DEF Content, Buffer, Zeroes
      <4> QED
        BY <4>1, <3>2
    <3>4. CASE WriteSize = BlockSize
      <4>1. Off(job.pos) = 0 /\ Off(i) \in 0..(BlockSize - 1)
        BY <1>1, <1>2, <3>4, <2>5, FileAssumption DEF Offsets
      <4>2. i \in Chunk(WriteSize)
        BY <4>1, <3>4, <2>4, <2>5, FileAssumption DEF Chunk
      <4> QED
        BY <4>2, <2>7
    <3>5. CASE Off(job.pos) = 0 /\ job.pos >= size
      <4>1. Off(i) >= 0 /\ size \in Int
        BY <1>2 DEF Offsets, Typed
      <4>2. i >= job.pos /\ i >= size
        BY <4>1, <3>5, <2>4, <2>5
      <4>3. Buffer[Off(i)] = 0
        BY <3>5, <1>2 DEF Buffer, Zeroes
      <4> QED
        BY <4>2, <4>3, <3>2
    <3>6. CASE data[b] # Hole /\ WriteSize # BlockSize /\ ~(Off(job.pos) = 0 /\ job.pos >= size)
      <4>1. Buffer = data[b]
        BY <3>6 DEF Buffer
      <4>2. Content(i) = data[b][Off(i)]
        BY <3>6, <1>6, <1>2 DEF Content
      <4> QED
        BY <4>1, <4>2, <3>2
    <3> QED
      BY <3>3, <3>4, <3>5, <3>6
  <2> QED
    BY <2>6, <2>7
<1> QED
  BY <1>5, <1>6

LEMMA StartKeeps ==
  ASSUME IInv,
         \E p \in 0..MaxSize, n \in 0..MaxSize :
           StartRead(p, n) \/ \E tag \in Tags : StartWrite(p, n, tag)
  PROVE  IInv'
<1> USE DEF IInv
<1>1. PICK p \in 0..MaxSize, n \in 0..MaxSize :
        StartRead(p, n) \/ \E tag \in Tags : StartWrite(p, n, tag)
  OBVIOUS
<1>2. PICK tag \in Nat :
        /\ \/ job' = [op |-> "read", start |-> p, n |-> n, pos |-> p, done |-> 0, tag |-> tag, sc |-> "OK"]
           \/ /\ job' = [op |-> "write", start |-> p, n |-> n, pos |-> p, done |-> 0, tag |-> tag, sc |-> "OK"]
              /\ p <= MaxSize - n
        /\ job.op = "none"
        /\ UNCHANGED <<data, size, saved, got, want>>
  <2>1. CASE StartRead(p, n)
    BY <2>1 DEF StartRead, Idle
  <2>2. ASSUME NEW t \in Tags, StartWrite(p, n, t)
        PROVE  /\ job' = [op |-> "write", start |-> p, n |-> n, pos |-> p, done |-> 0, tag |-> t, sc |-> "OK"]
               /\ p <= MaxSize - n /\ job.op = "none" /\ t \in Nat
               /\ UNCHANGED <<data, size, saved, got, want>>
    BY <2>2, FileAssumption DEF StartWrite, Idle
  <2> QED
    BY <1>1, <2>1, <2>2
<1>3. MaxSize \in Nat /\ p \in Nat
  BY FileAssumption DEF MaxSize
<1>4. Mapped' = Mapped
  BY <1>2 DEF Mapped
<1>5. Typed'
  BY <1>2, <1>3, <1>4, SMTT(30) DEF Typed
<1>6. InBounds' /\ ReadSendsFile'
  BY <1>2, <1>3 DEF InBounds, ReadSendsFile
<1>7. EveryPosition'
  BY <1>2 DEF EveryPosition, Content
<1>8. BeyondEnd'
  <2> SUFFICES ASSUME NEW i \in Positions, i >= size
               PROVE  want[i] \in {Any, 0}
    BY <1>2 DEF BeyondEnd
  <2> QED
    BY <1>2 DEF BeyondEnd
<1> QED
  BY <1>5, <1>6, <1>7, <1>8

LEMMA WriteChunkKeeps ==
  ASSUME IInv, WriteChunk
  PROVE  IInv'
<1> USE DEF IInv
<1> DEFINE b == job.pos \div BlockSize
<1>1. /\ job.op = "write" /\ job.done < job.n
      /\ data' = [data EXCEPT ![b] = Filled(WriteSize)]
      /\ job' = [job EXCEPT !.pos = @ + WriteSize, !.done = @ + WriteSize]
      /\ want' = [i \in DOMAIN want |-> IF i \in Chunk(WriteSize)
                                        THEN job.tag + job.done + i - job.pos ELSE want[i]]
      /\ UNCHANGED <<size, saved, got>>
  BY DEF WriteChunk
<1>2. /\ job.pos \in Positions /\ WriteSize \in Nat /\ b \in 0..(NumBlocks - 1)
      /\ WriteSize <= job.n - job.done
  BY <1>1, WriteSizeBounds, Position
<1>3. /\ job.pos \in Nat /\ job.done \in Nat /\ job.n \in Nat /\ job.start \in Nat /\ job.tag \in Nat
      /\ size \in Nat /\ MaxSize \in Nat
  BY FileAssumption DEF Typed, MaxSize
<1>4. Filled(WriteSize) \in [Offsets -> Nat] /\ Filled(WriteSize) # Hole
  BY <1>1, <1>2, FilledTyped, BlockNotHole
<1>5. Mapped \subseteq Mapped'
  BY <1>1, <1>4 DEF Mapped, Typed
<1>6. ASSUME NEW i \in Positions
      PROVE  /\ i \in Chunk(WriteSize) => want'[i] = Content(i)' /\ want'[i] \in Nat
             /\ i \notin Chunk(WriteSize)
                  => /\ want'[i] = want[i]
                     /\ \/ Content(i)' = Content(i)
                        \/ Content(i)' = 0 /\ i >= size /\ i >= job.pos
  <2>1. i \in DOMAIN want /\ i \in Nat
    BY Position DEF Typed
  <2>2. WriteSize \in 0..WriteSize
    BY <1>2
  <2>3. i \in Chunk(WriteSize) => Content(i)' = job.tag + job.done + i - job.pos
    BY <1>1, <2>2, AfterChunk DEF Chunk
  <2>4. i \notin Chunk(WriteSize)
          => \/ Content(i)' = Content(i)
             \/ Content(i)' = 0 /\ i >= size /\ i >= job.pos
    BY <1>1, <2>2, AfterChunk DEF Chunk
  <2>5. i \in Chunk(WriteSize) => i - job.pos \in Nat
    BY <1>2, <1>3, <2>1 DEF Chunk
  <2>6. i \in Chunk(WriteSize) => job.tag + job.done + i - job.pos \in Nat
    BY <1>3, <2>1, <2>5
  <2> QED
    BY <1>1, <2>1, <2>3, <2>4, <2>6
<1>8. job' = [op |-> "write", start |-> job.start, n |-> job.n, pos |-> job.pos + WriteSize,
              done |-> job.done + WriteSize, tag |-> job.tag, sc |-> job.sc]
  BY <1>1 DEF Typed
<1>7. Typed'
  <2>1. data' \in [0..(NumBlocks - 1) -> {Hole} \union [Offsets -> Nat]]
    BY <1>1, <1>4 DEF Typed
  <2>2. job' \in [op : {"none", "read", "write"}, start : 0..MaxSize, n : 0..MaxSize,
                  pos : Nat, done : Nat, tag : Nat, sc : {"OK", "EIO"}]
    BY <1>2, <1>3, <1>8 DEF Typed
  <2>3. want' \in [Positions -> Nat \union {Any}]
    BY <1>1, <1>6 DEF Typed
  <2> QED
    BY <1>1, <1>5, <2>1, <2>2, <2>3 DEF Typed
<1>9. InBounds' /\ ReadSendsFile'
  BY <1>1, <1>2, <1>3, <1>8 DEF InBounds, ReadSendsFile
<1>10. EveryPosition'
  <2> SUFFICES ASSUME NEW i \in Positions
               PROVE  want'[i] \in {Any, Content(i)'}
    BY DEF EveryPosition
  <2>1. CASE i \in Chunk(WriteSize)
    BY <2>1, <1>6
  <2>2. CASE i \notin Chunk(WriteSize) /\ Content(i)' = Content(i)
    BY <2>2, <1>6 DEF EveryPosition
  <2>3. CASE i \notin Chunk(WriteSize) /\ Content(i)' = 0 /\ i >= size /\ i >= job.pos
    <3>1. i \notin job.start..(job.pos - 1)
      BY <2>3, <1>3, Position
    <3> QED
      BY <3>1, <2>3, <1>6 DEF BeyondEnd
  <2> QED
    BY <2>1, <2>2, <2>3, <1>6
<1>11. BeyondEnd'
  <2> SUFFICES ASSUME NEW i \in Positions, i >= size',
                      ~(job'.op = "write" /\ i \in job'.start..(job'.pos - 1))
               PROVE  want'[i] \in {Any, 0}
    BY DEF BeyondEnd
  <2>a. job'.op = "write" /\ job'.start = job.start /\ job'.pos = job.pos + WriteSize
    BY <1>8
  <2>b. size' = size
    BY <1>1
  <2>0. i >= size /\ i \notin job.start..(job.pos + WriteSize - 1)
    BY <2>a, <2>b, <1>2, <1>3, Position
  <2>1. i \notin Chunk(WriteSize) /\ i \notin job.start..(job.pos - 1)
    BY <2>0, <1>2, <1>3, Position DEF Chunk, InBounds
  <2> QED
    BY <2>0, <2>1, <1>6 DEF BeyondEnd
<1> QED
  BY <1>7, <1>9, <1>10, <1>11

LEMMA FailWriteChunkKeeps ==
  ASSUME IInv, FailWriteChunk
  PROVE  IInv'
<1> USE DEF IInv
<1> DEFINE b == job.pos \div BlockSize
<1>1. /\ job.op = "write" /\ job.done < job.n
      /\ \/ \E k \in 0..(WriteSize - 1) : data' = [data EXCEPT ![b] = Filled(k)]
         \/ data' = data
      /\ job' = [job EXCEPT !.sc = "EIO"]
      /\ want' = [i \in DOMAIN want |-> IF i \in Chunk(WriteSize) THEN Any ELSE want[i]]
      /\ UNCHANGED <<size, saved, got>>
  BY DEF FailWriteChunk
<1>2. job.pos \in Positions /\ WriteSize \in Nat /\ b \in 0..(NumBlocks - 1)
  BY <1>1, WriteSizeBounds, Position
<1>3. job.pos \in Nat /\ job.start \in Nat /\ size \in Nat
  BY FileAssumption DEF Typed, MaxSize
<1>4. job' = [op |-> "write", start |-> job.start, n |-> job.n, pos |-> job.pos,
              done |-> job.done, tag |-> job.tag, sc |-> "EIO"]
  BY <1>1 DEF Typed
<1>5. /\ data' \in [0..(NumBlocks - 1) -> {Hole} \union [Offsets -> Nat]]
      /\ Mapped \subseteq Mapped'
  <2>1. CASE data' = data
    BY <2>1 DEF Typed, Mapped
  <2>2. ASSUME NEW k \in 0..(WriteSize - 1), data' = [data EXCEPT ![b] = Filled(k)]
        PROVE  <1>5!:
    <3>1. Filled(k) \in [Offsets -> Nat] /\ Filled(k) # Hole
      BY <1>1, <1>2, FilledTyped, BlockNotHole
    <3> QED
      BY <2>2, <3>1 DEF Typed, Mapped
  <2> QED
    BY <1>1, <2>1, <2>2
<1>6. ASSUME NEW i \in Positions
      PROVE  /\ i \in Chunk(WriteSize) => want'[i] = Any
             /\ i \notin Chunk(WriteSize)
                  => /\ want'[i] = want[i]
                     /\ \/ Content(i)' = Content(i)
                        \/ Content(i)' = 0 /\ i >= size /\ i >= job.pos
  <2>1. i \in DOMAIN want /\ i \in Nat
    BY Position DEF Typed
  <2>2. CASE data' = data
    BY <1>1, <2>1, <2>2 DEF Content
  <2>3. ASSUME NEW k \in 0..(WriteSize - 1), data' = [data EXCEPT ![b] = Filled(k)],
               i \notin Chunk(WriteSize)
        PROVE  \/ Content(i)' = Content(i)
               \/ Content(i)' = 0 /\ i >= size /\ i >= job.pos
    <3>1. k \in 0..WriteSize /\ i \notin job.pos..(job.pos + k - 1)
      BY <1>2, <1>3, <2>1, <2>3 DEF Chunk
    <3> QED
      BY <1>1, <2>3, <3>1, AfterChunk
  <2> QED
    BY <1>1, <2>1, <2>2, <2>3
<1>7. Typed'
  <2>1. want' \in [Positions -> Nat \union {Any}]
    BY <1>1 DEF Typed
  <2>2. job' \in [op : {"none", "read", "write"}, start : 0..MaxSize, n : 0..MaxSize,
                  pos : Nat, done : Nat, tag : Nat, sc : {"OK", "EIO"}]
    BY <1>4 DEF Typed
  <2> QED
    BY <1>1, <1>5, <2>1, <2>2 DEF Typed
<1>8. InBounds' /\ ReadSendsFile'
  BY <1>1, <1>4 DEF InBounds, ReadSendsFile
<1>9. EveryPosition'
  <2> SUFFICES ASSUME NEW i \in Positions
               PROVE  want'[i] \in {Any, Content(i)'}
    BY DEF EveryPosition
  <2>1. CASE i \in Chunk(WriteSize)
    BY <2>1, <1>6
  <2>2. CASE i \notin Chunk(WriteSize) /\ Content(i)' = Content(i)
    BY <2>2, <1>6 DEF EveryPosition
  <2>3. CASE i \notin Chunk(WriteSize) /\ Content(i)' = 0 /\ i >= size /\ i >= job.pos
    <3>1. i \notin job.start..(job.pos - 1)
      BY <2>3, <1>3, Position
    <3> QED
      BY <3>1, <2>3, <1>6 DEF BeyondEnd
  <2> QED
    BY <2>1, <2>2, <2>3, <1>6
<1>10. BeyondEnd'
  <2> SUFFICES ASSUME NEW i \in Positions, i >= size',
                      ~(job'.op = "write" /\ i \in job'.start..(job'.pos - 1))
               PROVE  want'[i] \in {Any, 0}
    BY DEF BeyondEnd
  <2>1. size' = size /\ job'.op = "write" /\ job'.start = job.start /\ job'.pos = job.pos
    BY <1>1, <1>4
  <2>2. i >= size /\ i \notin job.start..(job.pos - 1)
    BY <2>1, <1>3, Position
  <2> QED
    BY <2>2, <1>6 DEF BeyondEnd
<1> QED
  BY <1>7, <1>8, <1>9, <1>10

LEMMA EndWriteKeeps ==
  ASSUME IInv, EndWrite
  PROVE  IInv'
<1> USE DEF IInv
<1>1. /\ job.op = "write" /\ job' = Idle /\ size' = SizeAfter
      /\ saved' = saved \/ saved' = [size |-> SizeAfter, mapped |-> Mapped]
      /\ UNCHANGED <<data, got, want>>
  BY DEF EndWrite
<1>2. /\ job.pos \in Nat /\ size \in 0..MaxSize /\ MaxSize \in Nat /\ job.n \in Nat
      /\ job.done \in Nat /\ job.start \in Nat
  BY FileAssumption DEF Typed, MaxSize
<1>3. job.pos <= MaxSize
  BY <1>1, <1>2 DEF InBounds
<1>4. size' \in 0..MaxSize /\ size' >= size /\ size' >= job.pos
  BY <1>1, <1>2, <1>3 DEF SizeAfter
<1>5. Mapped' = Mapped
  BY <1>1 DEF Mapped
<1>6. saved' \in [size : 0..MaxSize, mapped : SUBSET Mapped']
  BY <1>1, <1>4, <1>5 DEF Typed
<1>7. Typed' /\ InBounds' /\ ReadSendsFile'
  BY <1>1, <1>2, <1>4, <1>6 DEF Typed, InBounds, ReadSendsFile, Idle
<1>8. EveryPosition'
  BY <1>1 DEF EveryPosition, Content
<1>9. BeyondEnd'
  <2> SUFFICES ASSUME NEW i \in Positions, i >= size'
               PROVE  want'[i] \in {Any, 0}
    BY DEF BeyondEnd
  <2>1. i >= size /\ i \notin job.start..(job.pos - 1)
    BY <1>2, <1>4, Position
  <2> QED
    BY <1>1, <2>1 DEF BeyondEnd
<1> QED
  BY <1>7, <1>8, <1>9

LEMMA ReadChunkKeeps ==
  ASSUME IInv, ReadChunk
  PROVE  IInv'
<1> USE DEF IInv
<1>1. /\ job.op = "read" /\ job.done < job.n /\ job.pos < size
      /\ \/ /\ got' = Send(ReadSize)
            /\ job' = [job EXCEPT !.pos = @ + ReadSize, !.done = @ + ReadSize]
         \/ got' = got /\ job' = [job EXCEPT !.sc = "EIO"]
      /\ UNCHANGED <<data, size, saved, want>>
  BY DEF ReadChunk
<1>2. /\ job.pos \in Nat /\ size \in Nat /\ size <= MaxSize /\ MaxSize \in Nat /\ job.n \in Nat
      /\ job.done \in Nat /\ job.start \in Nat /\ BlockSize \in Nat
  BY FileAssumption DEF Typed, MaxSize
<1>3. job.pos \in Positions
  BY <1>1, <1>2 DEF Positions
<1>4. ReadSize \in Nat /\ ReadSize <= size - job.pos
  <2>1. Off(job.pos) \in 0..(BlockSize - 1)
    BY <1>3, Position DEF Offsets
  <2> QED
    BY <1>1, <1>2, <2>1 DEF ReadSize, Least
<1>5. Mapped' = Mapped
  BY <1>1 DEF Mapped
<1>6. \A i : Content(i)' = Content(i)
  BY <1>1 DEF Content
<1>7. CASE got' = got /\ job' = [job EXCEPT !.sc = "EIO"]
  <2>1. job' = [op |-> "read", start |-> job.start, n |-> job.n, pos |-> job.pos,
                done |-> job.done, tag |-> job.tag, sc |-> "EIO"]
    BY <1>1, <1>7 DEF Typed
  <2>2. Typed'
    BY <1>1, <1>5, <2>1 DEF Typed
  <2>3. InBounds' /\ EveryPosition'
    BY <1>1, <1>6, <2>1 DEF InBounds, EveryPosition
  <2>4. ReadSendsFile'
    BY <1>1, <1>6, <1>7, <2>1 DEF ReadSendsFile
  <2>5. BeyondEnd'
    BY <1>1, <2>1 DEF BeyondEnd
  <2> QED
    BY <2>2, <2>3, <2>4, <2>5
<1>8. CASE /\ got' = Send(ReadSize)
           /\ job' = [job EXCEPT !.pos = @ + ReadSize, !.done = @ + ReadSize]
  <2>1. job' = [op |-> "read", start |-> job.start, n |-> job.n, pos |-> job.pos + ReadSize,
                done |-> job.done + ReadSize, tag |-> job.tag, sc |-> job.sc]
    BY <1>1, <1>8 DEF Typed
  <2>2. job.pos + ReadSize \in Nat /\ job.done + ReadSize \in Nat
    BY <1>2, <1>4
  <2>3. Typed'
    BY <1>1, <1>5, <2>1, <2>2 DEF Typed
  <2>4. InBounds'
    BY <1>2, <1>4, <2>1 DEF InBounds
  <2>5. EveryPosition'
    BY <1>1, <1>6 DEF EveryPosition
  <2>6. BeyondEnd'
    BY <1>1, <2>1 DEF BeyondEnd
  <2>7. ASSUME NEW k \in 0..(job.done + ReadSize - 1)
        PROVE  k \in DOMAIN got' /\ got'[k] = Content(job.start + k)
    <3>1. k \in Nat /\ (k < job.done \/ k \in job.done..(job.done + ReadSize - 1))
      BY <1>2, <1>4
    <3>2. k < job.done => k \in 0..(job.done - 1)
      BY <1>2, <3>1
    <3>3. k < job.done => k \in DOMAIN got /\ got[k] = Content(job.start + k)
      BY <1>1, <3>2 DEF ReadSendsFile
    <3> DEFINE D == (DOMAIN got) \union (job.done..(job.done + ReadSize - 1))
               V(i) == IF i < job.done THEN got[i] ELSE Content(job.start + i)
    <3>4. got' = [i \in D |-> V(i)]
      BY <1>8 DEF Send
    <3>5. k \in D /\ V(k) = Content(job.start + k)
      BY <3>1, <3>3
    <3> HIDE DEF D, V
    <3> QED
      BY <3>4, <3>5
  <2>8. job.pos + ReadSize <= size
    BY <1>2, <1>4
  <2>9. job'.start = job.start /\ job'.done = job.done + ReadSize /\ job'.pos = job.pos + ReadSize
    BY <2>1
  <2>10. \A k \in 0..(job'.done - 1) : k \in DOMAIN got' /\ got'[k] = Content(job.start + k)
    BY <2>7, <2>9, <1>2, <1>4
  <2>11. data' = data
    BY <1>1
  <2>12. ASSUME NEW k \in 0..(job'.done - 1)
         PROVE  Content(job.start + k)' = Content(job.start + k)
    BY <2>9, <2>11 DEF Content
  <2>13. ReadSendsFile'
    BY <1>1, <2>8, <2>9, <2>10, <2>12 DEF ReadSendsFile
  <2> QED
    BY <2>3, <2>4, <2>5, <2>6, <2>13
<1> QED
  BY <1>1, <1>7, <1>8

LEMMA EndReadKeeps ==
  ASSUME IInv, EndRead
  PROVE  IInv'
<1> USE DEF IInv
<1>1. job.op = "read" /\ job' = Idle /\ UNCHANGED <<data, size, saved, want>>
  BY DEF EndRead
<1>2. MaxSize \in Nat
  BY FileAssumption DEF MaxSize
<1>3. Mapped' = Mapped
  BY <1>1 DEF Mapped
<1>4. Typed' /\ InBounds' /\ ReadSendsFile'
  BY <1>1, <1>2, <1>3 DEF Typed, InBounds, ReadSendsFile, Idle
<1>5. EveryPosition'
  BY <1>1 DEF EveryPosition, Content
<1>6. BeyondEnd'
  BY <1>1 DEF BeyondEnd
<1> QED
  BY <1>4, <1>5, <1>6

LEMMA FlushKeeps ==
  ASSUME IInv, Flush
  PROVE  IInv'
<1> USE DEF IInv
<1>1. /\ job.op = "none" /\ saved' = [size |-> size, mapped |-> Mapped]
      /\ UNCHANGED <<data, size, job, got, want>>
  BY DEF Flush
<1>2. Mapped' = Mapped
  BY <1>1 DEF Mapped
<1>3. Typed'
  BY <1>1, <1>2 DEF Typed
<1>4. InBounds' /\ ReadSendsFile' /\ BeyondEnd'
  BY <1>1 DEF InBounds, ReadSendsFile, BeyondEnd
<1>5. EveryPosition'
  BY <1>1 DEF EveryPosition, Content
<1> QED
  BY <1>3, <1>4, <1>5

LEMMA RecycleKeeps ==
  ASSUME IInv, Recycle
  PROVE  IInv'
<1> USE DEF IInv
<1>1. PICK M \in SUBSET Mapped :
        /\ saved.mapped \subseteq M
        /\ data' = [b \in DOMAIN data |-> IF b \in M THEN data[b] ELSE Hole]
  BY DEF Recycle
<1>2. /\ job.op = "none" /\ size' = saved.size
      /\ want' = [i \in DOMAIN want |->
                    IF data'[i \div BlockSize] # data[i \div BlockSize] \/ i \in saved.size..(size - 1)
                    THEN Any ELSE want[i]]
      /\ UNCHANGED <<saved, job, got>>
  BY DEF Recycle
<1>3. Mapped' = M
  BY <1>1 DEF Mapped, Typed
<1>4. Typed'
  <2>1. data' \in [0..(NumBlocks - 1) -> {Hole} \union [Offsets -> Nat]]
    BY <1>1 DEF Typed
  <2>2. saved' \in [size : 0..MaxSize, mapped : SUBSET Mapped'] /\ size' \in 0..MaxSize
    BY <1>1, <1>2, <1>3 DEF Typed
  <2>3. want' \in [Positions -> Nat \union {Any}]
    BY <1>2 DEF Typed
  <2> QED
    BY <1>2, <2>1, <2>2, <2>3 DEF Typed
<1>5. InBounds' /\ ReadSendsFile'
  BY <1>2 DEF InBounds, ReadSendsFile
<1>6. ASSUME NEW i \in Positions
      PROVE  \/ want'[i] = Any
             \/ want'[i] = want[i] /\ Content(i)' = Content(i) /\ i \notin saved.size..(size - 1)
  <2>1. i \in DOMAIN want
    BY DEF Typed
  <2>2. CASE data'[i \div BlockSize] = data[i \div BlockSize]
    BY <1>2, <2>1, <2>2 DEF Content
  <2>3. CASE data'[i \div BlockSize] # data[i \div BlockSize]
    BY <1>2, <2>1, <2>3
  <2> QED
    BY <2>2, <2>3
<1>7. EveryPosition'
  BY <1>6 DEF EveryPosition
<1>8. BeyondEnd'
  <2> SUFFICES ASSUME NEW i \in Positions, i >= size'
               PROVE  want'[i] \in {Any, 0}
    BY DEF BeyondEnd
  <2>1. i \in Nat /\ size \in Nat /\ saved.size \in Nat /\ size' = saved.size
    BY <1>2, Position, FileAssumption DEF Typed, MaxSize
  <2>2. i \notin saved.size..(size - 1) => i >= size
    BY <2>1
  <2> QED
    BY <1>2, <1>6, <2>2 DEF BeyondEnd
<1> QED
  BY <1>4, <1>5, <1>7, <1>8

LEMMA InitIInv == Init => IInv
<1> SUFFICES ASSUME Init
             PROVE  IInv
  OBVIOUS
<1> USE DEF Init
<1>1. MaxSize \in Nat
  BY FileAssumption DEF MaxSize
<1>2. Mapped = {}
  BY DEF Mapped
<1>3. Typed
  BY <1>1, <1>2 DEF Typed, Idle, Positions, MaxSize
<1>4. InBounds /\ ReadSendsFile
  BY <1>1 DEF InBounds, ReadSendsFile, Idle
<1>5. ASSUME NEW i \in Positions
      PROVE  want[i] = 0 /\ Content(i) = 0
  BY Position DEF Content, Positions
<1> QED
  BY <1>3, <1>4, <1>5 DEF IInv, EveryPosition, BeyondEnd

LEMMA NextIInv == IInv /\ [Next]_vars => IInv'
<1> SUFFICES ASSUME IInv, [Next]_vars
             PROVE  IInv'
  OBVIOUS
<1>1. CASE UNCHANGED vars
  <2>1. Mapped' = Mapped /\ \A i : Content(i)' = Content(i)
    BY <1>1 DEF vars, Mapped, Content
  <2>2. Typed' /\ InBounds' /\ BeyondEnd'
    BY <1>1, <2>1 DEF vars, IInv, Typed, InBounds, BeyondEnd
  <2>3. EveryPosition' /\ ReadSendsFile'
    BY <1>1, <2>1 DEF vars, IInv, EveryPosition, ReadSendsFile
  <2> QED
    BY <2>2, <2>3 DEF IInv
<1>2. CASE Handle
  BY <1>2, WriteChunkKeeps, FailWriteChunkKeeps, EndWriteKeeps, ReadChunkKeeps, EndReadKeeps
     DEF Handle
<1> QED
  BY <1>1, <1>2, StartKeeps, FlushKeeps, RecycleKeeps DEF Next

LEMMA Invariant == Spec => []IInv
  BY InitIInv, NextIInv, PTL DEF Spec

-------------------------------------------------------------------------------
(* Theorems *)

\* A request's position is its start plus what it has transferred, a write never
\* transfers more than it is asked for, and what the inode in the table maps is mapped in
\* the cached one (read.c, write.c).
THEOREM TypeCorrect == Spec => []TypeOK
<1>1. IInv => TypeOK
  <2> SUFFICES ASSUME IInv
               PROVE  TypeOK
    OBVIOUS
  <2>1. DOMAIN data = 0..(NumBlocks - 1) /\ \A b \in DOMAIN data : data[b] = Hole \/ data[b] \in [Offsets -> Nat]
    BY DEF IInv, Typed
  <2> QED
    BY <2>1 DEF IInv, Typed, InBounds, TypeOK, Positions
<1> QED
  BY <1>1, Invariant, PTL

\* Between requests each position of a file holds the byte last written there, and 0 if
\* none was, whichever of its blocks are holes and however the writes before overlapped
\* or failed: write_chunk clears a buffer only where nothing of the file is lost
\* (write.c:112-125).
THEOREM WritesKept == Spec => []HoldsWhatWasWritten
<1>1. IInv => HoldsWhatWasWritten
  <2> SUFFICES ASSUME IInv, NEW i \in 0..(size - 1)
               PROVE  want[i] \in {Any, Content(i)}
    BY DEF HoldsWhatWasWritten
  <2>1. size \in Nat /\ size <= MaxSize /\ MaxSize \in Nat
    BY FileAssumption DEF IInv, Typed, MaxSize
  <2>2. i \in Positions
    BY <2>1 DEF Positions
  <2> QED
    BY <2>2 DEF IInv, EveryPosition
<1> QED
  BY <1>1, Invariant, PTL

\* A read sends the bytes of the file from its start on, each at its offset in the
\* message and none from beyond the end, in chunks that respect blocks and holes
\* (read_chunk, read_nonexistent_block, read.c:57-65).
THEOREM ReadsSent == Spec => []ReadSendsFile
<1>1. IInv => ReadSendsFile
  BY DEF IInv
<1> QED
  BY <1>1, Invariant, PTL

\* A read that ends well ends because it has sent what was asked for, or all there is
\* (read.c:50-75).
THEOREM ReadsComplete == Spec => ReadIsComplete
<1>1. IInv /\ [Next]_vars
        => [(job.op = "read" /\ job.sc = "OK" /\ job'.op = "none")
              => job.done >= Least(job.n, size - job.start)]_vars
  <2> SUFFICES ASSUME IInv, Next, job.op = "read", job.sc = "OK", job'.op = "none"
               PROVE  job.done >= Least(job.n, size - job.start)
    BY DEF vars
  <2>1. job.done >= job.n \/ job.pos >= size
    <3>1. CASE ReadChunk
      <4>1. job'.op = "read"
        BY <3>1 DEF ReadChunk, IInv, Typed
      <4> QED
        BY <4>1
    <3>2. CASE EndRead
      BY <3>2 DEF EndRead
    <3> QED
      BY <3>1, <3>2 DEF Next, Handle, WriteChunk, FailWriteChunk, EndWrite, Flush, Recycle,
                        StartRead, StartWrite
  <2>2. /\ job.done \in Nat /\ job.n \in Nat /\ size \in Nat /\ job.start \in Nat
        /\ job.pos = job.start + job.done
    BY FileAssumption DEF IInv, Typed, InBounds, MaxSize
  <2> QED
    BY <2>1, <2>2 DEF Least
<1> QED
  BY <1>1, Invariant, PTL DEF Spec, ReadIsComplete
===============================================================================
