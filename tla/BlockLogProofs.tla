--------------------------- MODULE BlockLogProofs ---------------------------
(***************************************************************************)
(* Proofs about the block log, for every number of blocks and restarts.    *)
(***************************************************************************)
EXTENDS BlockLog, TLAPS

Entry == [num : Nat \ {0}, pos : Nat, blk : Block]

Writing == {"data", "desc", "eof", "index"}

\* The writes of the append under way, or of one that a kill cut off.
Rest == Len(block_stream) - 3 * Len(index_stream)

\* What lies behind the blocks that have an index: the first writes of one
\* append, in their order, made from job while the append is running.
RestInOrder ==
  LET n == Len(index_stream)
  IN /\ Rest \in 0..3
     /\ Rest >= 1 => block_stream[3 * n + 1].kind = "data"
     /\ Rest >= 2 => block_stream[3 * n + 2].kind = "desc" /\ block_stream[3 * n + 2].pos = 3 * n
     /\ Rest = 3 => block_stream[3 * n + 3] = Eof

JobInOrder ==
  LET n == Len(index_stream)
  IN /\ pc = "idle" => Rest = 0
     /\ pc = "data" => Rest = 0
     /\ pc = "desc" => Rest = 1
     /\ pc = "eof" => Rest = 2
     /\ pc = "index" => Rest = 3
     /\ pc \in Writing => /\ job \in Entry
                          /\ job.num = n + 1 /\ job.blk.num = n + 1 /\ job.pos = 3 * n
     /\ pc \in Writing /\ Rest >= 1 => block_stream[3 * n + 1] = Data(job)
     /\ pc \in Writing /\ Rest >= 2 => block_stream[3 * n + 2] = Desc(job)
     /\ pc = "down" => head_block = NoBlock

\* The inductive invariant.
Inv == TypeOK /\ IndexMatchesLog /\ HeadIsLogged /\ RestInOrder /\ JobInOrder

-----------------------------------------------------------------------------
LEMMA AppendSeq ==
  ASSUME NEW S, NEW s \in Seq(S), NEW e \in S
  PROVE  /\ Append(s, e) \in Seq(S)
         /\ Len(s) \in Nat
         /\ Len(Append(s, e)) = Len(s) + 1
         /\ \A i \in 1..Len(s) : Append(s, e)[i] = s[i]
         /\ Append(s, e)[Len(s) + 1] = e
OBVIOUS

\* What is written has the type of the file.
LEMMA WrittenType ==
  ASSUME NEW i \in Entry
  PROVE  Data(i) \in Item /\ Desc(i) \in Item /\ Eof \in Item
BY DEF Entry, Data, Desc, Eof, Item, NoBlock, Block

LEMMA InvInit == Init => Inv
<1>. SUFFICES ASSUME Init PROVE Inv
  OBVIOUS
<1>1. TypeOK
  <2>1. block_stream = <<>> /\ index_stream = <<>> /\ pc = "idle" /\ restarts = 0
    BY DEF Init
  <2>2. <<>> \in Seq(Item) /\ <<>> \in Seq([num : Nat \ {0}, pos : Nat, blk : Block])
    OBVIOUS
  <2>3. bad \in BOOLEAN /\ head_block \in Block \cup {NoBlock}
        /\ job \in [num : Nat \ {0}, pos : Nat, blk : Block] \cup {NoIndex}
    BY Zenon DEF Init
  <2>4. 0 \in 0..MaxRestarts
    BY BlockLogAssumption
  <2>. QED
    BY <2>1, <2>2, <2>3, <2>4 DEF TypeOK
<1>2. Len(index_stream) = 0 /\ Len(block_stream) = 0 /\ pc = "idle"
  BY DEF Init
<1>. QED
  BY <1>1, <1>2 DEF Init, Inv, IndexMatchesLog, HeadIsLogged, RestInOrder, JobInOrder, Rest,
                    Writing

-----------------------------------------------------------------------------
(* The writes of append_block.                                             *)

LEMMA AppendBlockKeepsInv ==
  ASSUME Inv, NEW body \in Bodies, AppendBlock(body)
  PROVE  Inv'
<1>. DEFINE b == [num |-> head_block.num + 1, body |-> body]
            n == Len(index_stream)
<1>. USE DEF Inv
<1>1. /\ pc = "idle" /\ pc' = "data"
      /\ UNCHANGED <<block_stream, index_stream, bad, head_block, restarts>>
      /\ job' = [num |-> b.num, pos |-> Len(block_stream), blk |-> b]
  BY DEF AppendBlock, NewEntry, Index, files
<1>2. n \in Nat /\ Len(block_stream) = 3 * n
  BY <1>1 DEF TypeOK, JobInOrder, RestInOrder, Rest
<1>3. head_block.num = n
  <2>1. CASE index_stream = <<>>
    BY <1>1, <2>1 DEF HeadIsLogged, NoBlock
  <2>2. CASE index_stream # <<>>
    <3>1. n \in 1..n
      BY <1>2, <2>2 DEF TypeOK
    <3>2. head_block = index_stream[n].blk
      BY <1>1, <2>2 DEF HeadIsLogged, LastOf
    <3>. QED
      BY <3>1, <3>2 DEF IndexMatchesLog
  <2>. QED
    BY <2>1, <2>2
<1>4. b \in Block /\ b.num = n + 1
  BY <1>2, <1>3 DEF Block
<1>5. job' \in Entry /\ job'.num = n + 1 /\ job'.blk.num = n + 1 /\ job'.pos = 3 * n
  BY <1>1, <1>2, <1>4 DEF Entry
<1>6. TypeOK'
  BY <1>1, <1>5 DEF TypeOK, Entry
<1>7. IndexMatchesLog'
  BY <1>1 DEF IndexMatchesLog, Data, Desc, Eof
<1>8. HeadIsLogged'
  BY <1>1 DEF HeadIsLogged
<1>9. RestInOrder'
  BY <1>1 DEF RestInOrder, Rest, Eof
<1>10. JobInOrder'
  BY <1>1, <1>2, <1>5 DEF JobInOrder, Rest, Writing
<1>. QED
  BY <1>6, <1>7, <1>8, <1>9, <1>10

\* A write to blocks.log leaves what lies before it.
LEMMA WriteLogKeeps ==
  ASSUME Inv, NEW item \in Item, NEW next, WriteLog(item, next), pc \in Writing
  PROVE  /\ block_stream' \in Seq(Item)
         /\ Len(index_stream) \in Nat /\ Len(block_stream) \in Nat
         /\ Len(block_stream') = Len(block_stream) + 1
         /\ \A i \in 1..Len(block_stream) : block_stream'[i] = block_stream[i]
         /\ block_stream'[Len(block_stream) + 1] = item
         /\ IndexMatchesLog'
<1>1. /\ block_stream' = Append(block_stream, item)
      /\ index_stream' = index_stream
  BY DEF WriteLog
<1>2. block_stream \in Seq(Item) /\ Len(index_stream) \in Nat
  BY DEF Inv, TypeOK
<1>3. /\ block_stream' \in Seq(Item) /\ Len(block_stream) \in Nat
      /\ Len(block_stream') = Len(block_stream) + 1
      /\ \A i \in 1..Len(block_stream) : block_stream'[i] = block_stream[i]
      /\ block_stream'[Len(block_stream) + 1] = item
  BY <1>1, <1>2, AppendSeq
<1>4. IndexMatchesLog'
  <2>1. SUFFICES ASSUME NEW i \in 1..Len(index_stream)
                 PROVE  /\ index_stream[i].num = i /\ index_stream[i].blk.num = i
                        /\ index_stream[i].pos = 3 * (i - 1)
                        /\ 3 * i <= Len(block_stream')
                        /\ block_stream'[3 * i - 2] = Data(index_stream[i])
                        /\ block_stream'[3 * i - 1] = Desc(index_stream[i])
                        /\ block_stream'[3 * i] = Eof
    BY <1>1 DEF IndexMatchesLog, Data, Desc, Eof
  <2>2. /\ index_stream[i].num = i /\ index_stream[i].blk.num = i
        /\ index_stream[i].pos = 3 * (i - 1)
        /\ 3 * i <= Len(block_stream)
        /\ block_stream[3 * i - 2] = Data(index_stream[i])
        /\ block_stream[3 * i - 1] = Desc(index_stream[i])
        /\ block_stream[3 * i] = Eof
    BY DEF Inv, IndexMatchesLog
  <2>3. 3 * i <= Len(block_stream) /\ Len(block_stream) \in Nat /\ i \in Nat /\ i >= 1
    BY <2>2, <1>2, <1>3
  <2>4. /\ 3 * i - 2 \in 1..Len(block_stream)
        /\ 3 * i - 1 \in 1..Len(block_stream)
        /\ 3 * i \in 1..Len(block_stream)
    BY <2>3
  <2>. QED
    BY <2>2, <2>4, <1>3, SMTT(60)
<1>. QED
  BY <1>2, <1>3, <1>4

LEMMA WriteDataKeepsInv ==
  ASSUME Inv, WriteData
  PROVE  Inv'
<1>. DEFINE n == Len(index_stream)
<1>1. /\ pc = "data" /\ pc' = "desc" /\ pc \in Writing
      /\ WriteLog(Data(job), "desc")
      /\ UNCHANGED <<index_stream, bad, head_block, job, restarts>>
  BY DEF WriteData, WriteLog, Writing
<1>2. job \in Entry /\ job.num = n + 1 /\ job.blk.num = n + 1 /\ job.pos = 3 * n
  BY <1>1 DEF Inv, JobInOrder
<1>3. Data(job) \in Item
  BY <1>2, WrittenType
<1>4. /\ block_stream' \in Seq(Item)
      /\ n \in Nat /\ Len(block_stream) \in Nat
      /\ Len(block_stream') = Len(block_stream) + 1
      /\ \A i \in 1..Len(block_stream) : block_stream'[i] = block_stream[i]
      /\ block_stream'[Len(block_stream) + 1] = Data(job)
      /\ IndexMatchesLog'
  BY <1>1, <1>3, WriteLogKeeps
<1>5. Len(block_stream) = 3 * n + 0 /\ Len(block_stream') = 3 * n + 1 /\ Rest' = 1
  <2>1. Rest = 0
    BY <1>1 DEF Inv, JobInOrder
  <2>. QED
    BY <2>1, <1>1, <1>4 DEF Rest
<1>6. TypeOK'
  BY <1>1, <1>4 DEF Inv, TypeOK
<1>7. HeadIsLogged'
  BY <1>1 DEF HeadIsLogged
<1>8. block_stream'[3 * n + 1] = Data(job)
  BY <1>4, <1>5
<1>9. RestInOrder'
  BY <1>1, <1>4, <1>5, <1>8 DEF RestInOrder, Data
<1>10. JobInOrder'
  BY <1>1, <1>2, <1>4, <1>5, <1>8 DEF JobInOrder, Data
<1>. QED
  BY <1>4, <1>6, <1>7, <1>9, <1>10 DEF Inv

LEMMA WriteDescKeepsInv ==
  ASSUME Inv, WriteDesc
  PROVE  Inv'
<1>. DEFINE n == Len(index_stream)
<1>1. /\ pc = "desc" /\ pc' = "eof" /\ pc \in Writing
      /\ WriteLog(Desc(job), "eof")
      /\ UNCHANGED <<index_stream, bad, head_block, job, restarts>>
  BY DEF WriteDesc, WriteLog, Writing
<1>2. job \in Entry /\ job.num = n + 1 /\ job.blk.num = n + 1 /\ job.pos = 3 * n
  BY <1>1 DEF Inv, JobInOrder
<1>3. Desc(job) \in Item
  BY <1>2, WrittenType
<1>4. /\ block_stream' \in Seq(Item)
      /\ n \in Nat /\ Len(block_stream) \in Nat
      /\ Len(block_stream') = Len(block_stream) + 1
      /\ \A i \in 1..Len(block_stream) : block_stream'[i] = block_stream[i]
      /\ block_stream'[Len(block_stream) + 1] = Desc(job)
      /\ IndexMatchesLog'
  BY <1>1, <1>3, WriteLogKeeps
<1>5. Len(block_stream) = 3 * n + 1 /\ Len(block_stream') = 3 * n + 2 /\ Rest' = 2
  <2>1. Rest = 1
    BY <1>1 DEF Inv, JobInOrder
  <2>. QED
    BY <2>1, <1>1, <1>4 DEF Rest
<1>6. TypeOK'
  BY <1>1, <1>4 DEF Inv, TypeOK
<1>7. HeadIsLogged'
  BY <1>1 DEF HeadIsLogged
<1>8. block_stream'[3 * n + 1] = Data(job) /\ block_stream'[3 * n + 2] = Desc(job)
  <2>1. block_stream[3 * n + 1] = Data(job)
    BY <1>1, <1>4, <1>5 DEF Inv, JobInOrder, Rest
  <2>2. 3 * n + 1 \in 1..Len(block_stream)
    BY <1>4, <1>5
  <2>. QED
    BY <2>1, <2>2, <1>4, <1>5
<1>9. RestInOrder'
  BY <1>1, <1>2, <1>4, <1>5, <1>8 DEF RestInOrder, Data, Desc
<1>10. JobInOrder'
  BY <1>1, <1>2, <1>4, <1>5, <1>8 DEF JobInOrder, Data, Desc
<1>. QED
  BY <1>4, <1>6, <1>7, <1>9, <1>10 DEF Inv

LEMMA WriteEofKeepsInv ==
  ASSUME Inv, WriteEof
  PROVE  Inv'
<1>. DEFINE n == Len(index_stream)
<1>1. /\ pc = "eof" /\ pc' = "index" /\ pc \in Writing
      /\ WriteLog(Eof, "index")
      /\ UNCHANGED <<index_stream, bad, head_block, job, restarts>>
  BY DEF WriteEof, WriteLog, Writing
<1>2. job \in Entry /\ job.num = n + 1 /\ job.blk.num = n + 1 /\ job.pos = 3 * n
  BY <1>1 DEF Inv, JobInOrder
<1>3. Eof \in Item
  BY <1>2, WrittenType
<1>4. /\ block_stream' \in Seq(Item)
      /\ n \in Nat /\ Len(block_stream) \in Nat
      /\ Len(block_stream') = Len(block_stream) + 1
      /\ \A i \in 1..Len(block_stream) : block_stream'[i] = block_stream[i]
      /\ block_stream'[Len(block_stream) + 1] = Eof
      /\ IndexMatchesLog'
  BY <1>1, <1>3, WriteLogKeeps
<1>5. Len(block_stream) = 3 * n + 2 /\ Len(block_stream') = 3 * n + 3 /\ Rest' = 3
  <2>1. Rest = 2
    BY <1>1 DEF Inv, JobInOrder
  <2>. QED
    BY <2>1, <1>1, <1>4 DEF Rest
<1>6. TypeOK'
  BY <1>1, <1>4 DEF Inv, TypeOK
<1>7. HeadIsLogged'
  BY <1>1 DEF HeadIsLogged
<1>8. /\ block_stream'[3 * n + 1] = Data(job) /\ block_stream'[3 * n + 2] = Desc(job)
      /\ block_stream'[3 * n + 3] = Eof
  <2>1. block_stream[3 * n + 1] = Data(job) /\ block_stream[3 * n + 2] = Desc(job)
    BY <1>1, <1>4, <1>5 DEF Inv, JobInOrder, Rest
  <2>2. 3 * n + 1 \in 1..Len(block_stream) /\ 3 * n + 2 \in 1..Len(block_stream)
    BY <1>4, <1>5
  <2>. QED
    BY <2>1, <2>2, <1>4, <1>5
<1>9. RestInOrder'
  BY <1>1, <1>2, <1>4, <1>5, <1>8 DEF RestInOrder, Data, Desc, Eof
<1>10. JobInOrder'
  BY <1>1, <1>2, <1>4, <1>5, <1>8 DEF JobInOrder, Data, Desc
<1>. QED
  BY <1>4, <1>6, <1>7, <1>9, <1>10 DEF Inv

LEMMA WriteIndexKeepsInv ==
  ASSUME Inv, WriteIndex
  PROVE  Inv'
<1>. DEFINE n == Len(index_stream)
<1>1. /\ pc = "index" /\ pc' = "idle" /\ pc \in Writing
      /\ index_stream' = Append(index_stream, job)
      /\ head_block' = job.blk /\ job' = NoIndex
      /\ UNCHANGED <<block_stream, bad, restarts>>
  BY DEF WriteIndex, Writing
<1>2. /\ job \in Entry /\ job.num = n + 1 /\ job.blk.num = n + 1 /\ job.pos = 3 * n
      /\ Rest = 3
  BY <1>1 DEF Inv, JobInOrder
<1>3. /\ index_stream \in Seq(Entry) /\ n \in Nat /\ block_stream \in Seq(Item)
      /\ Len(block_stream) = 3 * n + 3
  BY <1>2 DEF Inv, TypeOK, Entry, Rest
<1>4. /\ index_stream' \in Seq(Entry) /\ Len(index_stream') = n + 1
      /\ \A i \in 1..n : index_stream'[i] = index_stream[i]
      /\ index_stream'[n + 1] = job
  BY <1>1, <1>2, <1>3, AppendSeq
<1>5. /\ block_stream[3 * n + 1] = Data(job) /\ block_stream[3 * n + 2] = Desc(job)
      /\ block_stream[3 * n + 3] = Eof
  BY <1>1, <1>2 DEF Inv, JobInOrder, RestInOrder
<1>6. TypeOK'
  BY <1>1, <1>2, <1>4 DEF Inv, TypeOK, Entry
<1>7. IndexMatchesLog'
  <2>1. SUFFICES ASSUME NEW i \in 1..(n + 1)
                 PROVE  /\ index_stream'[i].num = i /\ index_stream'[i].blk.num = i
                        /\ index_stream'[i].pos = 3 * (i - 1)
                        /\ 3 * i <= Len(block_stream)
                        /\ block_stream[3 * i - 2] = Data(index_stream'[i])
                        /\ block_stream[3 * i - 1] = Desc(index_stream'[i])
                        /\ block_stream[3 * i] = Eof
    BY <1>1, <1>4 DEF IndexMatchesLog, Data, Desc, Eof
  <2>2. CASE i \in 1..n
    BY <2>2, <1>4 DEF Inv, IndexMatchesLog
  <2>3. CASE i = n + 1
    <3>1. 3 * i - 2 = 3 * n + 1 /\ 3 * i - 1 = 3 * n + 2 /\ 3 * i = 3 * n + 3
          /\ 3 * (i - 1) = 3 * n
      BY <2>3, <1>3
    <3>. QED
      BY <3>1, <2>3, <1>2, <1>3, <1>4, <1>5
  <2>. QED
    BY <2>2, <2>3, <1>3
<1>8. HeadIsLogged'
  <2>1. index_stream' # <<>>
    BY <1>4, <1>3
  <2>. QED
    BY <2>1, <1>1, <1>4 DEF HeadIsLogged, LastOf
<1>9. Rest' = 0
  BY <1>1, <1>3, <1>4 DEF Rest
<1>10. RestInOrder' /\ JobInOrder'
  BY <1>1, <1>9 DEF RestInOrder, JobInOrder, Writing
<1>. QED
  BY <1>6, <1>7, <1>8, <1>10 DEF Inv

-----------------------------------------------------------------------------
(* The end of the process, open and read_by_num.                           *)

LEMMA EndKeepsInv ==
  ASSUME Inv, End
  PROVE  Inv'
<1>1. /\ pc' = "down" /\ job' = NoIndex /\ head_block' = NoBlock
      /\ restarts < MaxRestarts /\ restarts' = restarts + 1
      /\ block_stream' = block_stream /\ index_stream' = index_stream
  BY DEF End, files
<1>2. bad' \in BOOLEAN
  BY Zenon DEF End
<1>3. TypeOK'
  BY <1>1, <1>2, BlockLogAssumption DEF Inv, TypeOK
<1>4. IndexMatchesLog'
  BY <1>1 DEF Inv, IndexMatchesLog, Data, Desc, Eof
<1>5. RestInOrder' /\ HeadIsLogged' /\ JobInOrder'
  BY <1>1 DEF Inv, RestInOrder, Rest, Eof, HeadIsLogged, JobInOrder, Writing
<1>. QED
  BY <1>3, <1>4, <1>5 DEF Inv

\* The asserts of open hold only for a log without a torn append, and what
\* read_head then returns is the last block.
LEMMA IntactLog ==
  ASSUME Inv, block_stream # <<>>, index_stream # <<>>
  PROVE  /\ Intact <=> Rest = 0
         /\ Intact => ReadHead = LastOf(index_stream).blk
<1>. DEFINE n == Len(index_stream)
            m == Len(block_stream)
<1>1. n \in Nat \ {0} /\ m \in Nat /\ Rest \in 0..3 /\ Rest = m - 3 * n
  BY DEF Inv, TypeOK, RestInOrder, Rest
<1>2. /\ LastOf(index_stream).pos = 3 * (n - 1)
      /\ block_stream[3 * n - 2] = Data(LastOf(index_stream))
      /\ block_stream[3 * n - 1] = Desc(LastOf(index_stream))
      /\ block_stream[3 * n] = Eof
  BY <1>1 DEF Inv, IndexMatchesLog, LastOf
<1>3. CASE Rest = 0
  <2>1. m = 3 * n /\ m - 1 = 3 * n - 1
    BY <1>1, <1>3
  <2>2. LastOf(block_stream) = Eof /\ LastDesc = Desc(LastOf(index_stream))
    BY <1>2, <2>1 DEF LastOf, LastDesc
  <2>3. LastDesc.pos = 3 * (n - 1)
    BY <1>2, <2>2 DEF Desc
  <2>4. ReadHead = block_stream[3 * n - 2].blk
    BY <1>1, <2>3 DEF ReadHead
  <2>5. ReadHead = LastOf(index_stream).blk
    BY <2>4, <1>2 DEF Data
  <2>. QED
    BY <2>2, <2>3, <2>5, <1>2, <1>3 DEF Intact
<1>4. CASE Rest # 0
  <2>1. SUFFICES ~Intact
    BY <1>4
  <2>2. CASE Rest = 1
    <3>1. LastOf(block_stream).kind = "data"
      BY <1>1, <2>2 DEF Inv, RestInOrder, LastOf
    <3>. QED
      BY <3>1 DEF Intact, Eof
  <2>3. CASE Rest = 2
    <3>1. LastOf(block_stream).kind = "desc"
      BY <1>1, <2>3 DEF Inv, RestInOrder, LastOf
    <3>. QED
      BY <3>1 DEF Intact, Eof
  <2>4. CASE Rest = 3
    <3>1. m - 1 = 3 * n + 2
      BY <1>1, <2>4
    <3>2. LastDesc.pos = 3 * n
      BY <3>1, <2>4 DEF Inv, RestInOrder, LastDesc
    <3>. QED
      BY <3>2, <1>1, <1>2 DEF Intact
  <2>. QED
    BY <1>1, <1>4, <2>2, <2>3, <2>4
<1>. QED
  BY <1>3, <1>4

LEMMA OpenKeepsInv ==
  ASSUME Inv, Open
  PROVE  Inv' /\ index_stream' = index_stream
<1>1. /\ pc = "down" /\ pc' = "idle" /\ head_block = NoBlock
      /\ UNCHANGED <<bad, job, restarts>>
  BY DEF Open, Inv, JobInOrder
<1>2. CASE block_stream = <<>> /\ index_stream' = <<>> /\ UNCHANGED <<block_stream, head_block>>
  <2>1. index_stream = <<>>
    <3>1. SUFFICES ASSUME index_stream # <<>> PROVE FALSE
      OBVIOUS
    <3>2. 1 \in 1..Len(index_stream)
      BY <3>1 DEF Inv, TypeOK
    <3>3. 3 * 1 <= Len(block_stream)
      BY <3>2 DEF Inv, IndexMatchesLog
    <3>. QED
      BY <3>3, <1>2
  <2>2. Len(block_stream') = 0 /\ Len(index_stream') = 0
    BY <1>2
  <2>3. TypeOK'
    BY <1>1, <1>2, <2>1 DEF Inv, TypeOK
  <2>4. IndexMatchesLog' /\ HeadIsLogged' /\ RestInOrder' /\ JobInOrder'
    BY <1>1, <1>2, <2>1, <2>2
       DEF IndexMatchesLog, HeadIsLogged, RestInOrder, JobInOrder, Rest, Writing
  <2>. QED
    BY <1>2, <2>1, <2>3, <2>4 DEF Inv
<1>3. CASE /\ block_stream # <<>> /\ index_stream = <<>>
           /\ block_stream' = <<>> /\ UNCHANGED <<index_stream, head_block>>
  <2>2. Len(block_stream') = 0 /\ Len(index_stream') = 0
    BY <1>3
  <2>3. TypeOK'
    BY <1>1, <1>3 DEF Inv, TypeOK
  <2>4. IndexMatchesLog' /\ HeadIsLogged' /\ RestInOrder' /\ JobInOrder'
    BY <1>1, <1>3, <2>2
       DEF IndexMatchesLog, HeadIsLogged, RestInOrder, JobInOrder, Rest, Writing
  <2>. QED
    BY <1>3, <2>3, <2>4 DEF Inv
<1>4. CASE /\ block_stream # <<>> /\ index_stream # <<>> /\ Intact
           /\ head_block' = ReadHead /\ UNCHANGED files
  <2>1. Rest = 0 /\ head_block' = LastOf(index_stream).blk
    BY <1>4, IntactLog
  <2>2. block_stream' = block_stream /\ index_stream' = index_stream
    BY <1>4 DEF files
  <2>3. head_block' \in Block
    <3>1. Len(index_stream) \in 1..Len(index_stream)
      BY <1>4 DEF Inv, TypeOK
    <3>2. index_stream \in Seq(Entry)
      BY DEF Inv, TypeOK, Entry
    <3>3. index_stream[Len(index_stream)] \in Entry
      BY <3>1, <3>2
    <3>. QED
      BY <3>3, <2>1 DEF LastOf, Entry
  <2>4. TypeOK'
    BY <1>1, <2>2, <2>3 DEF Inv, TypeOK
  <2>5. IndexMatchesLog'
    BY <2>2 DEF Inv, IndexMatchesLog, Data, Desc, Eof
  <2>6. HeadIsLogged'
    BY <1>4, <2>1, <2>2 DEF HeadIsLogged, LastOf
  <2>7. RestInOrder' /\ JobInOrder'
    BY <1>1, <2>1, <2>2 DEF Inv, RestInOrder, JobInOrder, Rest, Writing, Eof
  <2>. QED
    BY <2>2, <2>4, <2>5, <2>6, <2>7 DEF Inv
<1>. QED
  BY <1>1, <1>2, <1>3, <1>4 DEF Open

LEMMA ReadKeepsInv ==
  ASSUME Inv, NEW n \in Queries, ReadByNum(n)
  PROVE  Inv'
<1>1. UNCHANGED <<block_stream, index_stream, head_block, pc, job, restarts>>
  BY DEF ReadByNum, files
<1>2. bad' \in BOOLEAN
  BY Zenon DEF ReadByNum
<1>3. TypeOK'
  BY <1>1, <1>2 DEF Inv, TypeOK
<1>4. IndexMatchesLog'
  BY <1>1 DEF Inv, IndexMatchesLog, Data, Desc, Eof
<1>5. HeadIsLogged' /\ RestInOrder' /\ JobInOrder'
  BY <1>1 DEF Inv, HeadIsLogged, LastOf, RestInOrder, JobInOrder, Rest, Eof, Data, Desc
<1>. QED
  BY <1>3, <1>4, <1>5 DEF Inv

LEMMA StutterKeepsInv ==
  ASSUME Inv, UNCHANGED vars
  PROVE  Inv'
<1>1. UNCHANGED <<block_stream, index_stream, bad, head_block, pc, job, restarts>>
  BY DEF vars, files
<1>2. TypeOK'
  BY <1>1 DEF Inv, TypeOK
<1>3. IndexMatchesLog'
  BY <1>1 DEF Inv, IndexMatchesLog, Data, Desc, Eof
<1>4. HeadIsLogged' /\ RestInOrder' /\ JobInOrder'
  BY <1>1 DEF Inv, HeadIsLogged, LastOf, RestInOrder, JobInOrder, Rest, Eof, Data, Desc
<1>. QED
  BY <1>2, <1>3, <1>4 DEF Inv

LEMMA InvNext ==
  ASSUME Inv, [Next]_vars
  PROVE  Inv'
<1>1. ASSUME NEW body \in Bodies, AppendBlock(body) PROVE Inv'
  BY <1>1, AppendBlockKeepsInv
<1>2. ASSUME NEW n \in Queries, ReadByNum(n) PROVE Inv'
  BY <1>2, ReadKeepsInv
<1>. QED
  BY <1>1, <1>2, WriteDataKeepsInv, WriteDescKeepsInv, WriteEofKeepsInv, WriteIndexKeepsInv,
     EndKeepsInv, OpenKeepsInv, StutterKeepsInv DEF Next

-----------------------------------------------------------------------------
(* The theorems.                                                           *)

\* Every state of the block log has the types of its variables.
THEOREM TypeCorrect == Spec => []TypeOK
<1>1. Inv => TypeOK
  BY DEF Inv
<1>. QED
  BY <1>1, InvInit, InvNext, PTL DEF Spec

\* Wherever kills fall in append_block and however often the log is opened
\* again, every entry of blocks.index points at the block with its number.
THEOREM IndexIsSound == Spec => []IndexMatchesLog
<1>1. Inv => IndexMatchesLog
  BY DEF Inv
<1>. QED
  BY <1>1, InvInit, InvNext, PTL DEF Spec

\* Between two appends get_head returns the last block that has an index.
THEOREM HeadIsSound == Spec => []HeadIsLogged
<1>1. Inv => HeadIsLogged
  BY DEF Inv
<1>. QED
  BY <1>1, InvInit, InvNext, PTL DEF Spec

\* The asserts of open refuse exactly the logs whose last append was cut off.
THEOREM OpenIsExact == Spec => []OpenDetectsTorn
<1>1. Inv => OpenDetectsTorn
  <2>1. SUFFICES ASSUME Inv, block_stream # <<>>, index_stream # <<>> PROVE Intact <=> ~Torn
    BY DEF OpenDetectsTorn
  <2>2. Intact <=> Rest = 0
    BY <2>1, IntactLog
  <2>3. Len(block_stream) \in Nat /\ Len(index_stream) \in Nat
    BY <2>1 DEF Inv, TypeOK
  <2>. QED
    BY <2>1, <2>2, <2>3 DEF Rest, Torn
<1>. QED
  BY <1>1, InvInit, InvNext, PTL DEF Spec

-----------------------------------------------------------------------------
\* As long as nobody asks for block 0 the index stream stays usable and the
\* assert of write_block holds for every block that is appended.
UsableInv == Inv /\ ~bad

LEMMA UsableNext ==
  ASSUME 0 \notin Queries, UsableInv, [Next]_vars
  PROVE  UsableInv'
<1>1. Inv'
  BY InvNext DEF UsableInv
<1>2. ASSUME NEW n \in Queries, ReadByNum(n) PROVE ~bad'
  <2>. DEFINE k == Len(index_stream)
  <2>1. pc = "idle" /\ head_block # NoBlock
    BY <1>2 DEF ReadByNum
  <2>2. k \in Nat /\ index_stream # <<>> /\ k \in 1..k
    BY <2>1 DEF UsableInv, Inv, TypeOK, HeadIsLogged
  <2>3. LastNum = k
    BY <2>2 DEF UsableInv, Inv, IndexMatchesLog, LastNum, LastOf
  <2>4. n \in Nat /\ n # 0
    BY BlockLogAssumption
  <2>5. ~SeekFails(n)
    BY <2>2, <2>3, <2>4 DEF SeekFails, IndexOf
  <2>. QED
    BY <2>5, <1>2 DEF ReadByNum, UsableInv
<1>3. CASE ~\E n \in Queries : ReadByNum(n)
  <2>1. bad' = bad \/ bad' = FALSE
    <3>1. ASSUME NEW body \in Bodies, AppendBlock(body) PROVE bad' = bad
      BY <3>1 DEF AppendBlock
    <3>2. WriteData \/ WriteDesc \/ WriteEof \/ WriteIndex \/ Open \/ UNCHANGED vars => bad' = bad
      BY DEF WriteData, WriteDesc, WriteEof, WriteLog, WriteIndex, Open, vars
    <3>3. End => bad' = FALSE
      BY Zenon DEF End
    <3>. QED
      BY <1>3, <3>1, <3>2, <3>3, Zenon DEF Next
  <2>2. ~bad
    BY DEF UsableInv
  <2>3. ~bad'
    BY <2>1, <2>2
  <2>. QED
    BY <1>1, <2>3 DEF UsableInv
<1>. QED
  BY <1>1, <1>2, <1>3 DEF UsableInv

THEOREM AppendsAccepted ==
  0 \notin Queries => (Spec => []AppendsAtRightPosition)
<1>. SUFFICES ASSUME 0 \notin Queries PROVE Spec => []AppendsAtRightPosition
  OBVIOUS
<1>1. Init => UsableInv
  BY InvInit DEF Init, UsableInv
<1>2. UsableInv /\ [Next]_vars => UsableInv'
  BY UsableNext
<1>3. UsableInv => AppendsAtRightPosition
  <2>1. SUFFICES ASSUME Inv, ~bad, pc = "idle" PROVE Len(index_stream) = head_block.num
    BY DEF AppendsAtRightPosition, UsableInv, IdxPos
  <2>2. CASE index_stream = <<>>
    BY <2>1, <2>2 DEF Inv, HeadIsLogged, NoBlock
  <2>3. CASE index_stream # <<>>
    <3>1. Len(index_stream) \in 1..Len(index_stream)
      BY <2>1, <2>3 DEF Inv, TypeOK
    <3>. QED
      BY <3>1, <2>1, <2>3 DEF Inv, HeadIsLogged, IndexMatchesLog, LastOf
  <2>. QED
    BY <2>2, <2>3
<1>. QED
  BY <1>1, <1>2, <1>3, PTL DEF Spec

-----------------------------------------------------------------------------
(* What the readers of the two files return.                               *)

LEMMA ReadersRight ==
  ASSUME Inv, pc = "idle", index_stream # <<>>
  PROVE  ReadsRight
<1>. DEFINE N == Len(index_stream)
<1>1. /\ index_stream \in Seq(Entry) /\ N \in Nat /\ N >= 1
      /\ \A i \in 1..N : index_stream[i] \in Entry
  <2>1. index_stream \in Seq(Entry)
    BY DEF Inv, TypeOK, Entry
  <2>. QED
    BY <2>1
<1>2. ASSUME NEW i \in 1..N
      PROVE  /\ index_stream[i].num = i /\ index_stream[i].pos = 3 * (i - 1)
             /\ block_stream[3 * i - 2].blk = index_stream[i].blk
  <2>1. /\ index_stream[i].num = i /\ index_stream[i].pos = 3 * (i - 1)
        /\ block_stream[3 * i - 2] = Data(index_stream[i])
    BY <1>1 DEF Inv, IndexMatchesLog
  <2>. QED
    BY <2>1 DEF Data
<1>3. LastNum = N
  <2>1. N \in 1..N
    BY <1>1
  <2>. QED
    BY <1>2, <2>1 DEF LastNum, LastOf
<1>4. Len(Chain) = N /\ \A i \in 1..N : Chain[i] = index_stream[i].blk
  BY <1>1 DEF Chain
<1>5. ASSUME NEW n \in Int
      PROVE  IndexOf(n) = n
  BY <1>1, <1>3 DEF IndexOf
<1>. HIDE DEF N
<1>6. ASSUME NEW n \in 1..(N + 1)
      PROVE  ReadBlock(n) = IF n <= N THEN Chain[n] ELSE NoBlock
  <2>0. n \in Int
    OBVIOUS
  <2>1. CASE n <= N
    <3>1. n \in 1..N /\ N >= n
      BY <1>1, <2>1
    <3>2. ReadBlock(n) = block_stream[index_stream[n].pos + 1].blk
      BY <1>3, <1>5, <2>0, <3>1 DEF ReadBlock
    <3>3. index_stream[n].pos + 1 = 3 * n - 2
      BY <1>2, <3>1
    <3>4. ReadBlock(n) = index_stream[n].blk
      BY <1>2, <3>1, <3>2, <3>3
    <3>. QED
      BY <1>4, <2>1, <3>1, <3>4
  <2>2. CASE ~(n <= N)
    BY <1>1, <1>3, <2>0, <2>2 DEF ReadBlock
  <2>. QED
    BY <2>1, <2>2
<1>7. ASSUME N > 1, NEW n \in 1..N, NEW k \in 1..N
      PROVE  ReadIndices(n, k) =
               SubSeq(index_stream, n, IF n + k - 1 < N THEN n + k - 1 ELSE N)
  <2>. DEFINE cc == N - n + 1
              c == IF cc < k THEN cc ELSE k
  <2>1. ~(N <= 1 \/ cc < 1)
    BY <1>1, <1>7
  <2>2. ReadIndices(n, k) = SubSeq(index_stream, IndexOf(n), IndexOf(n) + c - 1)
    <3>1. ~(Len(index_stream) <= 1 \/ LastNum - n + 1 < 1) /\ cc = LastNum - n + 1
      BY <1>3, <2>1 DEF N
    <3>. HIDE DEF cc
    <3>. QED
      BY <3>1, Zenon DEF ReadIndices
  <2>3. n + c - 1 = IF n + k - 1 < N THEN n + k - 1 ELSE N
    BY <1>1
  <2>. QED
    <3>1. IndexOf(n) = n
      BY <1>5
    <3>. HIDE DEF c
    <3>. QED
      BY <2>2, <2>3, <3>1
<1>8. N > 1 => LastBlockNum = N
  BY <1>1, <1>3 DEF LastBlockNum, N
<1>. QED
  BY <1>4, <1>6, <1>7, <1>8 DEF ReadsRight

\* read_by_num, read_indices and last_block_num return what the log holds, after
\* every pattern of kills, openings and failed seeks.
THEOREM ReadersAreRight == Spec => []ReadsRight
<1>1. Inv => ReadsRight
  BY ReadersRight DEF ReadsRight
<1>. QED
  BY <1>1, InvInit, InvNext, PTL DEF Spec

-----------------------------------------------------------------------------
LEMMA RefinesInit == Init => Log!Init
BY DEF Init, Log!Init, Chain

LEMMA RefinesNext ==
  ASSUME Inv, [Next]_vars
  PROVE  [Log!Next]_Chain
<1>1. CASE index_stream' = index_stream
  BY <1>1 DEF Chain
<1>2. CASE WriteIndex
  <2>. DEFINE n == Len(index_stream)
  <2>1. /\ index_stream' = Append(index_stream, job) /\ pc \in Writing
    BY <1>2 DEF WriteIndex, Writing
  <2>2. job \in Entry /\ job.blk.num = n + 1
    BY <2>1 DEF Inv, JobInOrder
  <2>3. index_stream \in Seq(Entry) /\ n \in Nat
    BY DEF Inv, TypeOK, Entry
  <2>4. /\ Len(index_stream') = n + 1
        /\ \A i \in 1..n : index_stream'[i] = index_stream[i]
        /\ index_stream'[n + 1] = job
    BY <2>1, <2>2, <2>3, AppendSeq
  <2>5. job.blk.body \in Bodies /\ job.blk = [num |-> n + 1, body |-> job.blk.body]
    BY <2>2 DEF Entry, Block
  <2>6. Chain \in Seq(Block) /\ Len(Chain) = n
    <3>1. \A i \in 1..n : index_stream[i].blk \in Block
      <4>1. \A i \in 1..n : index_stream[i] \in Entry
        BY <2>3
      <4>. QED
        BY <4>1 DEF Entry
    <3>. QED
      BY <3>1, <2>3 DEF Chain
  <2>7. Chain' = Append(Chain, job.blk)
    <3>1. Chain' = [i \in 1..(n + 1) |-> index_stream'[i].blk]
      BY <2>4 DEF Chain
    <3>2. Append(Chain, job.blk) = [i \in 1..(n + 1) |-> IF i = n + 1 THEN job.blk ELSE Chain[i]]
      BY <2>6, <2>3
    <3>3. \A i \in 1..(n + 1) :
            index_stream'[i].blk = IF i = n + 1 THEN job.blk ELSE Chain[i]
      BY <2>3, <2>4 DEF Chain
    <3>. QED
      BY <3>1, <3>2, <3>3
  <2>. QED
    BY <2>5, <2>6, <2>7 DEF Log!Next, Log!AppendBlock
<1>3. CASE Open
  BY <1>3, <1>1, OpenKeepsInv
<1>. QED
  BY <1>1, <1>2, <1>3 DEF Next, AppendBlock, WriteData, WriteDesc, WriteEof, WriteLog, End,
                          ReadByNum, vars, files

\* blocks.log and blocks.index, written one after the other, implement the log
\* that only grows, for every pattern of kills.
THEOREM BlockLogImplementsLog == Spec => ImplementsLog
<1>. QED
  BY RefinesInit, RefinesNext, InvInit, InvNext, PTL DEF Spec, ImplementsLog, Log!Spec

=============================================================================
