------------------------------- MODULE BlockSync -------------------------------
(***************************************************************************)
(* How the blocks of one node, the source, reach a peer, the follower, over *)
(* connections that break: the handshake, the lists of blocks and the       *)
(* broadcasts of chainnet_plugin.cpp, and recieve_block of                  *)
(* blockbuilder_plugin.cpp, which ignores a block whose previous block it   *)
(* does not know.  Both have one branch; a block is its number.             *)
(*                                                                         *)
(* Module Connection has the write queue of a connection.  Of it remains    *)
(* that a connection which lost several queued messages writes no more.     *)
(***************************************************************************)
EXTENDS Integers, Sequences

CONSTANTS Dialers,      \* who may open the connections, "source" and "follower"
          Batch,        \* max_sending_num of send_pending_block
          MaxHead,      \* bound: blocks
          MaxSessions   \* bound: sessions

ASSUME BlockSyncAssumption ==
  /\ Dialers \subseteq {"source", "follower"}
  /\ Batch \in Nat \ {0} /\ MaxHead \in Nat \ {0} /\ MaxSessions \in Nat

VARIABLES src, fol,     \* head and last irreversible block of the two nodes
          dialer,       \* who opens the connections
          sock,         \* "closed", "dialing" or "open"
          pending,      \* pending_block_list of the source
          wire,         \* messages from the source: blocks, and 0 for a handshake
          hello,        \* the follower's handshake on its way: its block, or none
          greeted,      \* the source has it: its connection is not connecting
          owed,         \* history: the source sent a list in this session,
                        \*   and with its broadcasts the blocks up to owed
          stuck,        \* the connection writes no more
          sessions

chains == <<src, fol>>
vars == <<chains, dialer, sock, pending, wire, hello, greeted, owed, stuck, sessions>>

Handshake == 0
NoHello == -1
GenesisChain == [head |-> 1, lib |-> 0]

Init ==
  /\ src = GenesisChain /\ fol = GenesisChain
  /\ dialer \in Dialers
  /\ sock = "closed" /\ pending = <<>> /\ wire = <<>>
  /\ hello = NoHello /\ greeted = FALSE /\ owed = 0 /\ stuck = FALSE
  /\ sessions = 0

-----------------------------------------------------------------------------
\* setup: the last irreversible block that the follower's handshake names.
HelloLib == IF fol.lib = 0 THEN 1 ELSE fol.lib

\* A message the source writes.
Sent(msgs) == IF stuck THEN wire ELSE wire \o msgs

\* A session begins.  A source that dials keeps its connection, with what is
\* pending; a follower that dials is a new connection.
Dial ==
  /\ sock = "closed" /\ sessions < MaxSessions
  /\ sessions' = sessions + 1
  /\ \/ /\ dialer = "source"
        /\ sock' = "dialing"
        /\ UNCHANGED <<pending, hello, stuck>>
     \/ /\ dialer = "follower"
        /\ sock' = "open"
        /\ pending' = <<>> /\ stuck' = FALSE
        /\ hello' = HelloLib
  /\ UNCHANGED <<chains, dialer, wire, greeted, owed>>

\* The source has dialled and sends its handshake.
DialOk ==
  /\ sock = "dialing"
  /\ sock' = "open"
  /\ wire' = Sent(<<Handshake>>)
  /\ UNCHANGED <<chains, dialer, pending, hello, greeted, owed, stuck, sessions>>

\* The connection breaks, or the dial fails; with several messages in its queue,
\* a connection that stays writes no more.
Break ==
  /\ sock # "closed"
  /\ sock' = "closed"
  /\ wire' = <<>> /\ hello' = NoHello /\ greeted' = FALSE /\ owed' = 0
  /\ \/ UNCHANGED stuck
     \/ Len(wire) > 1 /\ stuck' = TRUE
  /\ UNCHANGED <<chains, dialer, pending, sessions>>

\* Mutant: the list begins after the last irreversible block of the source.
ListFromOwn(last) == [i \in 1..(src.head - src.lib) |-> src.lib + i]

\* get_syncblock_from_lastnum
SyncList(last) == [i \in 1..(src.head - last) |-> last + i]

\* handle_message for the follower's handshake, _send_blocklist_impl; the
\* handshake a source that accepted sends back does not matter here.
SourceHandshake ==
  /\ hello # NoHello
  /\ greeted' = TRUE
  /\ hello' = NoHello
  /\ owed' = IF hello < src.lib THEN src.head ELSE 0
  /\ pending' = IF hello < src.lib THEN SyncList(hello) ELSE pending
  /\ UNCHANGED <<chains, dialer, sock, wire, stuck, sessions>>

\* broadcast_block_impl of the next block.
Broadcast == IF sock = "open" /\ greeted THEN Append(pending, src.head + 1) ELSE pending

\* The source builds a block; it closes up with the blocks sent before unless
\* the source has taken one from another node since.
Build ==
  /\ src.head < MaxHead
  /\ src' = [src EXCEPT !.head = @ + 1]
  /\ pending' = Broadcast
  /\ owed' = IF owed = src.head THEN owed + 1 ELSE owed
  /\ UNCHANGED <<fol, dialer, sock, wire, hello, greeted, stuck, sessions>>

\* The source takes a block that another node built (recieve_block), which it
\* does not send on: only next_block_impl broadcasts.
Hear ==
  /\ src.head < MaxHead
  /\ src' = [src EXCEPT !.head = @ + 1]
  /\ UNCHANGED <<fol, dialer, sock, pending, wire, hello, greeted, owed, stuck, sessions>>

\* Mutant: only full batches are sent.
FullBatch == IF Len(pending) < Batch THEN 0 ELSE Batch

\* The blocks that go with one call of send_pending_block.
Sending == IF Len(pending) < Batch THEN Len(pending) ELSE Batch

\* send_pending_block, by the timer: also without a connection, where the write
\* fails.
SendPending ==
  /\ pending # <<>>
  /\ pending' = SubSeq(pending, Sending + 1, Len(pending))
  /\ wire' = IF sock = "closed" THEN wire ELSE Sent(SubSeq(pending, 1, Sending))
  /\ stuck' = (stuck \/ (sock = "closed" /\ Sending > 1))
  /\ UNCHANGED <<chains, dialer, sock, hello, greeted, owed, sessions>>

\* The follower takes the next message: a handshake is answered, a block that
\* follows its head is pushed and any other ignored.
Receive ==
  /\ sock = "open" /\ wire # <<>>
  /\ wire' = Tail(wire)
  /\ \/ /\ Head(wire) = Handshake
        /\ hello' = HelloLib
        /\ UNCHANGED fol
     \/ /\ Head(wire) = fol.head + 1
        /\ fol' = [fol EXCEPT !.head = @ + 1]
        /\ UNCHANGED hello
     \/ /\ Head(wire) \notin {Handshake, fol.head + 1}
        /\ UNCHANGED <<fol, hello>>
  /\ UNCHANGED <<src, dialer, sock, pending, greeted, owed, stuck, sessions>>

\* The follower has the next block from another peer (not before the source).
Learn ==
  /\ fol.head < src.head
  /\ fol' = [fol EXCEPT !.head = @ + 1]
  /\ UNCHANGED <<src, dialer, sock, pending, wire, hello, greeted, owed, stuck, sessions>>

\* A block becomes irreversible at one of the nodes.
Finalize ==
  /\ \/ src.lib < src.head /\ src' = [src EXCEPT !.lib = @ + 1] /\ UNCHANGED fol
     \/ fol.lib < fol.head /\ fol' = [fol EXCEPT !.lib = @ + 1] /\ UNCHANGED src
  /\ UNCHANGED <<dialer, sock, pending, wire, hello, greeted, owed, stuck, sessions>>

Next ==
  \/ Dial \/ DialOk \/ Break
  \/ SourceHandshake \/ Build \/ Hear \/ SendPending
  \/ Receive \/ Learn \/ Finalize

Spec == Init /\ [][Next]_vars

\* The timer of the pending blocks fires, and what was written arrives or the
\* connection breaks.
FairSpec == Spec /\ WF_vars(SendPending) /\ WF_vars(Receive) /\ WF_vars(SourceHandshake)

-----------------------------------------------------------------------------
\* The types of the variables.
TypeOK ==
  /\ src \in [head : 1..MaxHead, lib : 0..MaxHead]
  /\ fol \in [head : 1..MaxHead, lib : 0..MaxHead]
  /\ dialer \in Dialers
  /\ sock \in {"closed", "dialing", "open"}
  /\ pending \in Seq(1..MaxHead) /\ wire \in Seq(0..MaxHead)
  /\ hello \in Nat \cup {NoHello}
  /\ greeted \in BOOLEAN /\ owed \in 0..MaxHead /\ stuck \in BOOLEAN
  /\ sessions \in 0..MaxSessions

Missing == (fol.head + 1)..owed

Way == wire \o pending

\* After a list was sent, each block of the list and of the broadcasts that
\* close up with it which the follower misses is on its way, behind the missing
\* ones before it: no broadcast gets in between, no batch leaves one out, and the
\* follower ignores none that it needs.
NoGapAfterList ==
  ~stuck =>
    \A n \in Missing :
      \E i \in 1..Len(Way) :
        /\ Way[i] = n
        /\ \A m \in (fol.head + 1)..(n - 1) : \E j \in 1..(i - 1) : Way[j] = m

\* A follower that was sent a list gets, while the connection lasts, every block
\* up to the first one that the source takes from another node after the list.
CatchesUpAfterList ==
  \A n \in 1..MaxHead :
    ~stuck /\ owed >= n ~> fol.head >= n \/ owed = 0

\* A follower whose handshake was received gets every block of the source while
\* the connection lasts.
CatchesUp ==
  \A n \in 1..MaxHead :
    greeted /\ ~stuck /\ src.head >= n ~> fol.head >= n \/ ~greeted

=============================================================================
