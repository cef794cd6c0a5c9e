------------------------------- MODULE BlockLog -------------------------------
(***************************************************************************)
(* The block log, chain_stream (blockchain/chain/chain_stream.cpp): the    *)
(* files blocks.log and blocks.index and the process that appends to them, *)
(* is killed in between, opens them again and reads them.                  *)
(*                                                                         *)
(* append_block makes four writes.  A write that a kill cuts short leaves  *)
(* bytes the code cannot tell from a missing write, except for those of a  *)
(* block: "data" is any part of them.  Positions count the writes, not the *)
(* bytes.                                                                  *)
(***************************************************************************)
EXTENDS Integers, Sequences

CONSTANTS Bodies,      \* what a block may hold beside its number
          Queries,     \* the numbers that read_by_num is called with
          MaxBlocks,   \* bound: blocks in the log
          MaxRestarts  \* bound: kills and shutdowns

ASSUME BlockLogAssumption ==
  Queries \subseteq Nat /\ MaxBlocks \in Nat /\ MaxRestarts \in Nat

VARIABLES block_stream,  \* blocks.log: [block][desc][eof] for each block
          index_stream,  \* blocks.index: an index for each block
          bad,           \* a seek failed: the fail bit of the index stream is set
          head_block,
          pc,            \* "idle", the next write of append_block, or "down"
          job,           \* the index of the block append_block writes
          restarts

files == <<block_stream, index_stream>>
vars == <<files, bad, head_block, pc, job, restarts>>

Block == [num : Nat \ {0}, body : Bodies]
NoBlock == [num |-> 0]

\* What is written to blocks.log for the block with index i.
Data(i) == [kind |-> "data", blk |-> i.blk, pos |-> 0]
Desc(i) == [kind |-> "desc", blk |-> NoBlock, pos |-> i.pos]
Eof == [kind |-> "eof", blk |-> NoBlock, pos |-> 0]

\* block_index, with the block for its id.
Index(b, p) == [num |-> b.num, pos |-> p, blk |-> b]
NoIndex == Index(NoBlock, 0)

Init ==
  /\ block_stream = <<>> /\ index_stream = <<>>
  /\ bad = FALSE
  /\ head_block = NoBlock
  /\ pc = "idle" /\ job = NoIndex
  /\ restarts = 0

-----------------------------------------------------------------------------
\* tellp of the index stream, in entries; it is -1 once the fail bit is set.
IdxPos == IF bad THEN -1 ELSE Len(index_stream)

\* The index of block b, which is written at the end of blocks.log.
NewEntry(b) == Index(b, Len(block_stream))

\* The assert of write_block.
AtRightPosition(b) == IdxPos = b.num - 1

\* append_block as first_initialize and on_irreversible call it, with the block
\* that follows the head, up to the assert and the first write.
AppendBlock(body) ==
  LET b == [num |-> head_block.num + 1, body |-> body]
  IN /\ pc = "idle"
     /\ b.num <= MaxBlocks
     /\ AtRightPosition(b)
     /\ pc' = "data"
     /\ job' = NewEntry(b)
     /\ UNCHANGED <<files, bad, head_block, restarts>>

\* One write to blocks.log, and what is next.
WriteLog(item, next) ==
  /\ block_stream' = Append(block_stream, item)
  /\ pc' = next
  /\ UNCHANGED <<index_stream, bad, head_block, job, restarts>>

\* Mutant: the index is written before the end marker.
IndexBeforeEof ==
  /\ pc = "eof" /\ pc' = "index"
  /\ index_stream' = Append(index_stream, job)
  /\ UNCHANGED <<block_stream, bad, head_block, job, restarts>>

WriteData == pc = "data" /\ WriteLog(Data(job), "desc")
WriteDesc == pc = "desc" /\ WriteLog(Desc(job), "eof")
WriteEof == pc = "eof" /\ WriteLog(Eof, "index")

\* The last write, and the end of append_block.
WriteIndex ==
  /\ pc = "index"
  /\ index_stream' = Append(index_stream, job)
  /\ head_block' = job.blk
  /\ pc' = "idle" /\ job' = NoIndex
  /\ UNCHANGED <<block_stream, bad, restarts>>

-----------------------------------------------------------------------------
\* The process is killed, or ends.
End ==
  /\ pc # "down" /\ restarts < MaxRestarts
  /\ pc' = "down" /\ job' = NoIndex
  /\ head_block' = NoBlock /\ bad' = FALSE
  /\ restarts' = restarts + 1
  /\ UNCHANGED files

LastOf(s) == s[Len(s)]

\* The last desc of blocks.log.
LastDesc == block_stream[Len(block_stream) - 1]

\* Mutant: the end marker is not looked at.
PositionsAgree ==
  \E n \in 1..Len(block_stream) :
    /\ block_stream[n].kind = "desc" /\ block_stream[n].pos = LastOf(index_stream).pos
    /\ \A m \in (n + 1)..Len(block_stream) : block_stream[m].kind # "desc"

\* The two asserts of open.
Intact == LastOf(block_stream) = Eof /\ LastDesc.pos = LastOf(index_stream).pos

\* read_head
ReadHead == block_stream[LastDesc.pos + 1].blk

\* Mutant: files that do not match are cleared, as an empty one is.
OpenOrClear ==
  /\ pc = "down" /\ pc' = "idle"
  /\ IF block_stream # <<>> /\ index_stream # <<>> /\ Intact
     THEN head_block' = ReadHead /\ UNCHANGED files
     ELSE block_stream' = <<>> /\ index_stream' = <<>> /\ UNCHANGED head_block
  /\ UNCHANGED <<bad, job, restarts>>

\* chain_stream_impl::open; when an assert fails the node does not start.
Open ==
  /\ pc = "down"
  /\ \/ /\ block_stream = <<>>
        /\ index_stream' = <<>> /\ UNCHANGED <<block_stream, head_block>>
     \/ /\ block_stream # <<>> /\ index_stream = <<>>
        /\ block_stream' = <<>> /\ UNCHANGED <<index_stream, head_block>>
     \/ /\ block_stream # <<>> /\ index_stream # <<>> /\ Intact
        /\ head_block' = ReadHead /\ UNCHANGED files
  /\ pc' = "idle"
  /\ UNCHANGED <<bad, job, restarts>>

-----------------------------------------------------------------------------
LastNum == LastOf(index_stream).num

\* Where read_by_num finds the index of block n, counted from the last index.
IndexOf(n) == Len(index_stream) - (LastNum - n)

\* Mutant: the first entry is out of reach.
SeekFailsEarly(n) == IndexOf(n) <= 1

\* A seek of read_by_num goes before the start of blocks.index.
SeekFails(n) == IndexOf(n) < 1

\* Mutant: blocks below the last are read one entry too late.
ReadLater(n) ==
  IF LastNum >= n
  THEN block_stream[index_stream[IndexOf(IF n < LastNum THEN n + 1 ELSE n)].pos + 1].blk
  ELSE NoBlock

\* What read_by_num returns when no seek fails.
ReadBlock(n) ==
  IF LastNum >= n THEN block_stream[index_stream[IndexOf(n)].pos + 1].blk
  ELSE NoBlock

\* read_by_num: a seek that fails throws, and the stream stays failed.  A node
\* answers queries after the first append.
ReadByNum(n) ==
  /\ pc = "idle" /\ head_block # NoBlock
  /\ bad' = (bad \/ SeekFails(n))
  /\ UNCHANGED <<files, head_block, pc, job, restarts>>

\* last_block_num: at the start of blocks.index tellg is 0 and taken for none.
LastBlockNum == IF Len(index_stream) <= 1 THEN 0 ELSE LastNum

\* The entries read_indices returns.
ReadIndices(first, count) ==
  IF Len(index_stream) <= 1 \/ LastNum - first + 1 < 1 THEN <<>>
  ELSE LET cc == LastNum - first + 1
           n == IF cc < count THEN cc ELSE count
       IN SubSeq(index_stream, IndexOf(first), IndexOf(first) + n - 1)

-----------------------------------------------------------------------------
Next ==
  \/ \E body \in Bodies : AppendBlock(body)
  \/ WriteData \/ WriteDesc \/ WriteEof \/ WriteIndex
  \/ End \/ Open
  \/ \E n \in Queries : ReadByNum(n)

Spec == Init /\ [][Next]_vars

-----------------------------------------------------------------------------
Item == [kind : {"data", "desc", "eof"}, blk : Block \cup {NoBlock}, pos : Nat]

\* The types of the variables.
TypeOK ==
  /\ block_stream \in Seq(Item)
  /\ index_stream \in Seq([num : Nat \ {0}, pos : Nat, blk : Block])
  /\ bad \in BOOLEAN
  /\ head_block \in Block \cup {NoBlock}
  /\ pc \in {"idle", "data", "desc", "eof", "index", "down"}
  /\ job \in [num : Nat \ {0}, pos : Nat, blk : Block] \cup {NoIndex}
  /\ restarts \in 0..MaxRestarts

\* Wherever a kill falls, each entry of blocks.index points at a whole block of
\* blocks.log that has the number of the entry.
IndexMatchesLog ==
  \A i \in 1..Len(index_stream) :
    LET idx == index_stream[i]
    IN /\ idx.num = i /\ idx.blk.num = i /\ idx.pos = 3 * (i - 1)
       /\ 3 * i <= Len(block_stream)
       /\ block_stream[3 * i - 2] = Data(idx)
       /\ block_stream[3 * i - 1] = Desc(idx)
       /\ block_stream[3 * i] = Eof

\* The blocks that are in the log for good.
Chain == [i \in 1..Len(index_stream) |-> index_stream[i].blk]

Log == INSTANCE BlockLogAbs WITH chain <- Chain

\* The two files and the process implement a log that only grows: no kill and
\* no open takes a block back whose index was written.
ImplementsLog == Log!Spec

\* Between two appends the head is the last block of the log, also after open.
HeadIsLogged ==
  pc = "idle" =>
    head_block = IF index_stream = <<>> THEN NoBlock ELSE LastOf(index_stream).blk

\* An append was cut off after the first block.
Torn == index_stream # <<>> /\ Len(block_stream) # 3 * Len(index_stream)

\* open refuses a log whose last append was cut off, and no other.
OpenDetectsTorn ==
  pc = "down" /\ block_stream # <<>> /\ index_stream # <<>> => (Intact <=> ~Torn)

\* read_by_num finds each block under its number and nothing above the last;
\* read_indices lists what blocks.index holds from a number on, in a log of
\* more than one block, and last_block_num is the number of the last.
ReadsRight ==
  pc = "idle" /\ index_stream # <<>> =>
    /\ \A n \in 1..(Len(Chain) + 1) :
         ReadBlock(n) = IF n <= Len(Chain) THEN Chain[n] ELSE NoBlock
    /\ Len(Chain) > 1 =>
         /\ LastBlockNum = Len(Chain)
         /\ \A n, k \in 1..Len(Chain) :
              ReadIndices(n, k) =
                SubSeq(index_stream, n, IF n + k - 1 < Len(Chain) THEN n + k - 1
                                        ELSE Len(Chain))

\* The assert of write_block holds whenever a block is appended.
AppendsAtRightPosition == pc = "idle" => IdxPos = head_block.num

=============================================================================
