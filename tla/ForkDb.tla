------------------------------- MODULE ForkDb -------------------------------
(***************************************************************************)
(* The fork database (blockchain/chain/forkchain.cpp) and the fields of a  *)
(* block_pack it works on (blockchain/chain/block_pack.cpp): which blocks  *)
(* from the last irreversible one upwards are known, which is the head,    *)
(* and what confirmations and the DPoS window make irreversible.           *)
(*                                                                         *)
(* A block is a number, its index in blocks.  Its id in the code is the    *)
(* block number followed by a hash; of the hash only the order matters     *)
(* (to remove_chain), so a block has a rank.  path[n] is the ancestor of   *)
(* the block with number n; the last one is the block itself.              *)
(***************************************************************************)
EXTENDS Integers, Sequences, FiniteSets, TLC, SequencesExt

CONSTANTS Builders,  \* the builders of the current round
          DposNeed,  \* Config::dpos_irreversible_need
          Ranks      \* how the hashes of two blocks may compare

ASSUME ForkDbAssumption ==
  /\ Builders # {} /\ IsFiniteSet(Builders)
  /\ DposNeed \in Nat \ {0}
  /\ Ranks \subseteq Nat /\ Ranks # {}

VARIABLES blocks,    \* the blocks that exist, genesis first
          known,     \* packs: the blocks in the fork database
          pack,      \* the block_pack of each block that ever had one
          fork_head  \* head

forkVars == <<known, pack, fork_head>>

NoBlock == 0  \* the empty id, whose block number is 0
Genesis == 1

BlockIds == 1..Len(blocks)

Num(b) == IF b = NoBlock THEN 0 ELSE blocks[b].num
Prev(b) == blocks[b].prev
Path(b) == blocks[b].path

\* A block built on p: who built it, how its hash ranks, and whether running
\* its transactions again gives the same id.
NewBlock(p, bld, rank, good) ==
  [prev |-> p, num |-> Num(p) + 1, bld |-> bld, rank |-> rank, good |-> good,
   path |-> Append(Path(p), Len(blocks) + 1)]

GenesisBlock(bld) ==
  [prev |-> NoBlock, num |-> 1, bld |-> bld, rank |-> 0, good |-> TRUE,
   path |-> <<Genesis>>]

-----------------------------------------------------------------------------
(* The block_pack.  main is main_chain, lc is last_confirmed_id, dpos is    *)
(* dpos_irreversible_id, win is last_block_of_builders, irr is              *)
(* irreversible_confirmed and conf says that confirmations is not empty.    *)

\* Mutant: a builder that builds twice in a row counts twice.
NeverSame(w, p) == FALSE

\* generate_dpos: the last block of each builder in turn, and the block that
\* leaves the window, which becomes irreversible.
SameBuilder(w, p) == w # <<>> /\ blocks[Last(w)].bld = blocks[p].bld

NextWindow(w, p) ==
  IF SameBuilder(w, p) THEN Append(Front(w), p)
  ELSE IF Len(w) < DposNeed THEN Append(w, p)
  ELSE Append(Tail(w), p)

NextDpos(q, p) ==
  IF ~SameBuilder(q.win, p) /\ Len(q.win) >= DposNeed THEN Head(q.win) ELSE q.dpos

\* Mutant: the mainchain parameter is not used.
PackNeverMain(p, q, isMain) ==
  [main |-> FALSE, lc |-> q.lc, dpos |-> NextDpos(q, p),
   win |-> NextWindow(q.win, p), irr |-> FALSE, conf |-> FALSE]

\* Mutant: the last confirmed block is not handed on.
PackUnconfirmed(p, q, isMain) ==
  [main |-> isMain, lc |-> NoBlock, dpos |-> NextDpos(q, p),
   win |-> NextWindow(q.win, p), irr |-> FALSE, conf |-> FALSE]

\* init_by_pre_pack: the pack of a block built on block p, whose pack is q.
PackOn(p, q, isMain) ==
  [main |-> isMain, lc |-> q.lc, dpos |-> NextDpos(q, p),
   win |-> NextWindow(q.win, p), irr |-> FALSE, conf |-> FALSE]

\* The genesis pack after first_initialize, and the pack refresh makes of the
\* last block of the log: the block itself is confirmed and irreversible.
RootPack(b, isMain) ==
  [main |-> isMain, lc |-> b, dpos |-> NoBlock, win |-> <<>>,
   irr |-> TRUE, conf |-> FALSE]

\* Insert block b with pack q.
Inserted(b, q, P) == [c \in DOMAIN P \cup {b} |-> IF c = b THEN q ELSE P[c]]

-----------------------------------------------------------------------------
\* Mutant: the index is not ordered by the last confirmed block first.
RatingByLength(b, P) == <<0, Num(P[b].dpos), Num(b), IF P[b].main THEN 1 ELSE 0>>

\* The order of by_longest_num.  Where two packs are equal in an index, the
\* first one depends on when the fields of each were last modified (the index
\* puts a pack it moves behind its equals); any of them may be first here.
Rating(b, P) ==
  <<Num(P[b].lc), Num(P[b].dpos), Num(b), IF P[b].main THEN 1 ELSE 0>>

Above(r, s) == \E i \in 1..4 : r[i] > s[i] /\ \A j \in 1..(i - 1) : r[j] = s[j]

\* update_head: the blocks that may be the first of by_longest_num.
Longest(K, P) == {b \in K : \A c \in K : ~Above(Rating(c, P), Rating(b, P))}

\* Block d is a or built on a, and the database knows every block from a to d.
Linked(a, d, K) ==
  /\ Num(a) <= Num(d)
  /\ Path(d)[Num(a)] = a
  /\ \A n \in Num(a)..Num(d) : Path(d)[n] \in K

\* Mutant: only the block itself is flashed.
ConfirmOnly(l, K, P) == [P EXCEPT ![l].lc = l]

\* set_last_confirmed(l): l, the blocks it is built on and the blocks built on it.
Confirming(l, K, P) ==
  [b \in DOMAIN P |->
     IF b \in K /\ (Linked(b, l, K) \/ Linked(l, b, K))
     THEN [P[b] EXCEPT !.lc = l] ELSE P[b]]

\* on_last_confirmed_grow(l): the blocks up to the number of l that get the
\* irreversible event, ...
ToConfirm(l, K, P) == {b \in K : Num(b) <= Num(l) /\ P[b].lc = l /\ ~P[b].irr}

\* ... in the order of by_number_less, ...
NumberLess(a, b, P) ==
  \/ Num(a) < Num(b)
  \/ Num(a) = Num(b) /\ P[a].main /\ ~P[b].main

\* Mutant: the last confirmed block is erased too.
EraseAll(l, K, P) == {b \in K : Num(b) <= Num(l)}

\* ... and the blocks that are erased after that: all but l.
ToErase(l, K, P) == {b \in K : Num(b) <= Num(l) /\ ~(b = l /\ P[b].lc = l)}

\* add_block, last part: the head h makes a block above the first one of
\* by_number_less irreversible, by confirmation or by the DPoS window.
GrowsByConfirmation(h, K, P) == \E b \in K : Num(b) < Num(P[h].lc)
\* Mutant: off by one.
GrowsLate(h, K, P) ==
  ~GrowsByConfirmation(h, K, P) /\ \E b \in K : Num(b) + 1 < Num(P[h].dpos)

GrowsByDpos(h, K, P) ==
  ~GrowsByConfirmation(h, K, P) /\ \E b \in K : Num(b) < Num(P[h].dpos)

\* remove_chain(b): b, and every block whose previous block does not come
\* before b in the order of ids (the scan of by_pre_id has no upper bound).
IdBefore(a, b) ==
  \/ Num(a) < Num(b)
  \/ /\ Num(a) = Num(b)
     /\ \/ blocks[a].rank < blocks[b].rank
        \/ blocks[a].rank = blocks[b].rank /\ a < b

RemovedWith(b, K) == {b} \cup {c \in K : ~IdBefore(Prev(c), b)}

-----------------------------------------------------------------------------
\* block_raw::enough_confirmation
EnoughConfirmations(q) ==
  (IF q.conf THEN 1 ELSE 0) >= (Cardinality(Builders) * 2) \div 3

\* forkdatabase::add_confirmation, for a block b it knows and a signature that
\* is right: of the confirmations of a block only the first is stored.
Confirmed(b, K, P) ==
  LET Q == [P EXCEPT ![b].conf = TRUE]
  IN IF EnoughConfirmations(Q[b]) /\ Num(Q[b].lc) < Num(b)
       THEN Confirming(b, K, Q) ELSE Q

-----------------------------------------------------------------------------
\* fetch_branch_from_fork(a, b): the number of the block where the branches
\* meet ...
MeetNum(a, b) ==
  CHOOSE n \in 1..Num(a) :
    /\ n <= Num(b) /\ Path(a)[n] = Path(b)[n]
    /\ (n < Num(a) /\ n < Num(b)) => Path(a)[n + 1] # Path(b)[n + 1]

\* ... and whether the walk there finds every block of both, the common one
\* included.
BranchesKnown(a, b, K) ==
  LET n == MeetNum(a, b)
  IN /\ \A m \in n..Num(a) : Path(a)[m] \in K
     /\ \A m \in n..Num(b) : Path(b)[m] \in K

=============================================================================
