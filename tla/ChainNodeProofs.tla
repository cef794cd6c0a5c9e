-------------------------- MODULE ChainNodeProofs --------------------------
(***************************************************************************)
(* For any builders, forks, blocks that fail, confirmations and kills: the *)
(* block log is a chain (LogIsChain).  With three builders or more, so     *)
(* that one confirmation is never enough, a fork switch never takes back a *)
(* block of the log (NeverPopsIrreversible).  Where forks also are not too *)
(* deep, no kill falls between log and undo database and a block that      *)
(* fails does so by an fc::exception (Calm), all the places that keep the  *)
(* chain agree after every handler (StoresAlwaysAgree) and what the        *)
(* handlers assert holds.                                                  *)
(*                                                                         *)
(* Base      types, the tree of blocks, where a handler is                 *)
(* Final     what the fork database knows about the end of the log.  A     *)
(*           switch pops down to a block that it knows, so it must know    *)
(*           no block below the end of the log when it switches.  It may   *)
(*           do so in between: when the irreversible event throws, nothing *)
(*           is erased.  There is then a block l, at or above the end of   *)
(*           the log, that is the largest last_confirmed_id of all; the    *)
(*           head of the fork database, which is ordered by that first,    *)
(*           has it too, so every add_block tries the growth to l again    *)
(*           before it comes to a switch.                                  *)
(* Agreed    the last irreversible block l is on the branch of block_head, *)
(*           all that is known is settled with respect to it, the head is  *)
(*           the best of what is known, and the undo sessions reach from   *)
(*           block_head down to the log                                    *)
(* Straight, Unbroken    more about runs without blocks that fail          *)
(***************************************************************************)
EXTENDS ChainNode, FiniteSetTheorems, WellFoundedInduction, TLAPS

(***************************************************************************)
(* The tree of blocks.                                                     *)
(***************************************************************************)
\* The number of block b, given the blocks B.
N(B, b) == IF b = NoBlock THEN 0 ELSE B[b].num

IsBlock(B, b) ==
  /\ B[b].num \in Nat /\ B[b].num >= 1
  /\ B[b].path \in Seq(Nat) /\ Len(B[b].path) = B[b].num
  /\ B[b].path[1] = Genesis
  /\ B[b].path[B[b].num] = b
  /\ B[b].num = 1 => B[b].prev = NoBlock
  /\ B[b].num > 1 => B[b].prev = B[b].path[B[b].num - 1]

\* The n-th block a on the way to block b has number n, and the way to a is
\* the beginning of the way to b.
OnTheWay(B, b, n) ==
  LET a == B[b].path[n]
  IN  /\ a \in 1..Len(B) /\ B[a].num = n
      /\ \A k \in 1..n : B[a].path[k] = B[b].path[k]

BlockType ==
  [prev : Nat, num : Nat, bld : Builders, rank : Nat, good : BOOLEAN, path : Seq(Nat)]

Tree(B) ==
  /\ B \in Seq(BlockType)
  /\ Len(B) >= 1
  /\ \A b \in 1..Len(B) : IsBlock(B, b)
  /\ \A b \in 1..Len(B) : \A n \in 1..B[b].num : OnTheWay(B, b, n)

\* The previous block exists unless the block is the first.
LEMMA PrevOnTree ==
    ASSUME NEW B, Tree(B), NEW b \in 1..Len(B), B[b].prev # NoBlock
    PROVE  /\ B[b].prev \in 1..Len(B)
           /\ B[B[b].prev].num = B[b].num - 1
           /\ B[b].num > 1
           /\ \A k \in 1..B[b].num - 1 : B[B[b].prev].path[k] = B[b].path[k]
<1>1. IsBlock(B, b)
  BY DEF Tree
<1>2. B[b].num \in Nat /\ B[b].num > 1 /\ B[b].prev = B[b].path[B[b].num - 1]
  BY <1>1 DEF IsBlock
<1>3. B[b].num - 1 \in 1..B[b].num
  BY <1>2
<1>4. OnTheWay(B, b, B[b].num - 1)
  BY <1>3 DEF Tree
<1>5. QED
  BY <1>2, <1>4 DEF OnTheWay

\* A block built on block p keeps the tree a tree.
LEMMA TreeGrows ==
    ASSUME NEW B, Tree(B), NEW p \in 1..Len(B), NEW new \in BlockType,
           new.prev = p, new.num = B[p].num + 1,
           new.path = Append(B[p].path, Len(B) + 1)
    PROVE  /\ Tree(Append(B, new))
           /\ Len(Append(B, new)) = Len(B) + 1
           /\ \A b \in 1..Len(B) : Append(B, new)[b] = B[b]
           /\ Append(B, new)[Len(B) + 1] = new
<1> DEFINE C == Append(B, new)
           m == Len(B) + 1
<1>1. B \in Seq(BlockType)
  BY DEF Tree
<1>2. C \in Seq(BlockType) /\ Len(C) = m /\ Len(B) \in Nat
      /\ (\A b \in 1..Len(B) : C[b] = B[b]) /\ C[m] = new
  BY <1>1
<1>3. /\ IsBlock(B, p)
      /\ \A b \in 1..Len(B) : IsBlock(B, b)
      /\ \A b \in 1..Len(B) : \A n \in 1..B[b].num : OnTheWay(B, b, n)
  BY DEF Tree
<1> DEFINE q == B[p].num
           w == B[p].path
<1>4. q \in Nat /\ q >= 1 /\ w \in Seq(Nat) /\ Len(w) = q /\ w[1] = Genesis /\ w[q] = p
  BY <1>3 DEF IsBlock
<1>5. /\ new.path \in Seq(Nat) /\ Len(new.path) = q + 1
      /\ (\A k \in 1..q : new.path[k] = w[k]) /\ new.path[q + 1] = m
  BY <1>2, <1>4, SMTT(60)
<1> HIDE DEF C, m, q, w
<1>6. \A b \in 1..m : b = m \/ b \in 1..Len(B)
  BY <1>2 DEF m
<1>7. IsBlock(C, m)
  <2>1. C[m].num = q + 1 /\ C[m].prev = p /\ C[m].path = new.path
    BY <1>2 DEF q
  <2>2. new.path[1] = Genesis /\ new.path[q] = p
    BY <1>4, <1>5, SMTT(60)
  <2>3. (q + 1) - 1 = q /\ q + 1 > 1 /\ q + 1 \in Nat /\ q + 1 >= 1 /\ q + 1 # 1
    BY <1>4
  <2>4. new.path[(q + 1) - 1] = p
    BY <2>2, <2>3
  <2>5. C[m].num = 1 => C[m].prev = NoBlock
    BY <2>1, <2>3
  <2>6. C[m].num > 1 => C[m].prev = C[m].path[C[m].num - 1]
    BY <2>1, <2>4
  <2>7. QED
    BY <1>5, <2>1, <2>2, <2>3, <2>5, <2>6 DEF IsBlock
<1>8. ASSUME NEW b \in 1..Len(B) PROVE IsBlock(C, b)
  <2>1. C[b] = B[b] /\ IsBlock(B, b)
    BY <1>2, <1>3
  <2>2. QED
    BY <2>1, Zenon DEF IsBlock
<1>9. ASSUME NEW b \in 1..Len(B), NEW n \in 1..C[b].num PROVE OnTheWay(C, b, n)
  <2>1. OnTheWay(B, b, n)
    BY <1>2, <1>3, <1>9
  <2>2. B[b].path[n] \in 1..Len(B) /\ B[b].path[n] \in 1..m
    BY <2>1, <1>2 DEF OnTheWay, m
  <2>3. QED
    BY <2>1, <2>2, <1>2, SMTT(60) DEF OnTheWay
<1>10. ASSUME NEW n \in 1..C[m].num PROVE OnTheWay(C, m, n)
  <2>1. C[m].num = q + 1 /\ C[m].path = new.path
    BY <1>2 DEF q
  <2>2. CASE n = q + 1
    <3>1. C[m].path[n] = m
      BY <2>1, <2>2, <1>5
    <3>2. m \in 1..Len(C)
      BY <1>2 DEF m
    <3>3. QED
      BY <2>1, <2>2, <3>1, <3>2 DEF OnTheWay
  <2>3. CASE n \in 1..q
    <3> DEFINE a == w[n]
    <3>1. OnTheWay(B, p, n)
      BY <2>3, <1>3 DEF q
    <3>2. a \in 1..Len(B) /\ B[a].num = n /\ \A k \in 1..n : B[a].path[k] = w[k]
      BY <3>1 DEF OnTheWay, w
    <3>3. C[m].path[n] = a /\ \A k \in 1..n : C[m].path[k] = w[k]
      <4>1. \A k \in 1..n : k \in 1..q
        BY <2>3, <1>4
      <4>2. n \in 1..n
        BY <2>3, <1>4
      <4>3. QED
        BY <2>1, <4>1, <4>2, <1>5
    <3> HIDE DEF a
    <3>4. a \in 1..Len(C) /\ C[a] = B[a]
      BY <3>2, <1>2 DEF m
    <3>5. QED
      BY <3>2, <3>3, <3>4 DEF OnTheWay
  <2>4. QED
    BY <2>1, <2>2, <2>3, <1>4, <1>10
<1>11. Tree(C)
  <2>1. Len(C) = m /\ m >= 1
    BY <1>2 DEF m
  <2>2. \A b \in 1..m : IsBlock(C, b)
    BY <1>6, <1>7, <1>8
  <2>3. \A b \in 1..m : \A n \in 1..C[b].num : OnTheWay(C, b, n)
    BY <1>6, <1>9, <1>10
  <2>4. QED
    BY <1>2, <2>1, <2>2, <2>3 DEF Tree
<1>12. QED
  BY <1>2, <1>11 DEF C, m

(***************************************************************************)
(* The first invariant: the types, and what ties the variables together.   *)
(* Each part names the variables it is about as parameters:                *)
(*   B blocks, K known, P pack, fh fork_head, bh block_head, lg log,       *)
(*   c pc, j job, f file                                                   *)
(***************************************************************************)
PackTypeOf(n) ==
  [main : BOOLEAN, lc : 0..n, dpos : 0..n, win : Seq(1..n), irr : BOOLEAN, conf : BOOLEAN]

Packs(B, P) ==
  /\ P = [b \in DOMAIN P |-> P[b]]
  /\ DOMAIN P \subseteq 1..Len(B)
  /\ \A b \in DOMAIN P : P[b] \in PackTypeOf(Len(B)) /\ Len(P[b].win) <= DposNeed

\* Every block that is known, in the log or a head has a pack.
Placed(K, P, fh, bh, lg) ==
  /\ K \subseteq DOMAIN P
  /\ bh \in DOMAIN P
  /\ fh \in DOMAIN P \cup {NoBlock}
  /\ K # {} => fh # NoBlock
  /\ \A i \in 1..Len(lg) : lg[i] \in DOMAIN P

\* The log is the way to its last block.
LogOK(B, lg) ==
  /\ lg \in Seq(1..Len(B)) /\ Len(lg) >= 1
  /\ \A i \in 1..Len(lg) : B[lg[i]].num = i /\ (i > 1 => B[lg[i]].prev = lg[i - 1])

Labels == {"idle", "recv", "build", "grow", "commit", "pushed", "check", "pop",
           "apply", "down"}

JobType(B) ==
  [blk : 0..Len(B), by : SUBSET Own, then : {"pushed", "check"},
   todo : SUBSET (1..Len(B)), erase : SUBSET (1..Len(B)), meet : Nat]

\* Where the running handler is.  A fork switch pops down to a block of both
\* branches, and applies the way to fork_head from there; it knows the blocks
\* of both.
Running(B, K, fh, bh, c, j) ==
  /\ c \in Labels /\ j \in JobType(B)
  /\ c \in {"recv", "build"} => j.blk # NoBlock
  /\ c = "build" => B[j.blk].prev = bh
  /\ c \notin {"idle", "recv", "build", "down"} => fh # NoBlock
  /\ c = "pop" => /\ 1 <= j.meet /\ j.meet < B[bh].num /\ j.meet <= B[fh].num
                  /\ B[bh].path[j.meet] = B[fh].path[j.meet]
                  /\ \A k \in j.meet..B[bh].num : B[bh].path[k] \in K
  /\ c = "apply" => /\ 1 <= j.meet /\ j.meet <= B[bh].num /\ B[bh].num < B[fh].num
                    /\ B[fh].path[B[bh].num] = bh
  /\ c \in {"pop", "apply"} => \A k \in j.meet..B[fh].num : B[fh].path[k] \in K

\* The blocks left to confirm have packs.
Queued(P, j) == j.todo \subseteq DOMAIN P

Saved(K, c, f) == f \in BOOLEAN /\ (f => c = "down" /\ K # {})

Base ==
  /\ Tree(blocks)
  /\ Packs(blocks, pack)
  /\ Placed(known, pack, fork_head, block_head, log)
  /\ LogOK(blocks, log)
  /\ Running(blocks, known, fork_head, block_head, pc, job)
  /\ Queued(pack, job)
  /\ Saved(known, pc, file)

(***************************************************************************)
(* The second invariant: l is the largest last_confirmed_id, at or above   *)
(* the end of the log (m is its length).  Either l is known, or every      *)
(* known block is above it.                                                *)
(***************************************************************************)
Largest(B, l, y, P) ==
  /\ N(B, P[y].lc) <= N(B, l)
  /\ N(B, P[y].lc) = N(B, l) => P[y].lc = l

Below(B, l, K, P, bh, fh) ==
  /\ \A y \in K : N(B, y) > N(B, l) /\ P[y].lc = l
  /\ N(B, bh) >= N(B, l) /\ P[bh].lc = l
  /\ fh # NoBlock => N(B, fh) >= N(B, l) /\ P[fh].lc = l

Top(B, l, K, P, bh, fh, m) ==
  /\ l \in 1..Len(B) /\ N(B, l) >= m
  /\ \A y \in K : Largest(B, l, y, P)
  /\ Largest(B, l, bh, P)
  /\ fh # NoBlock => Largest(B, l, fh, P)
  /\ \/ l \in K /\ P[l].lc = l
     \/ Below(B, l, K, P, bh, fh)

\* No known block is below l: so it is when a fork switch may begin.
Floor(B, l, K) == \A y \in K : N(B, y) >= N(B, l)

\* The growth to l that is under way, or the fork switch.
Stage(B, l, K, P, c, j) ==
  /\ c \in {"grow", "commit"} =>
       /\ l \in K /\ P[l].lc = l
       /\ j.erase = {b \in K : N(B, b) <= N(B, l) /\ b # l}
       /\ \A b \in j.todo : b \in K /\ N(B, b) <= N(B, l)
  /\ c \in {"pushed", "check", "pop", "apply"} => Floor(B, l, K)

Final ==
  (pc = "down" => file) =>
    \E l \in 1..Len(blocks) :
      /\ Top(blocks, l, known, pack, block_head, fork_head, Len(log))
      /\ Stage(blocks, l, known, pack, pc, job)

(***************************************************************************)
(* The way to a block, and where two ways part.                            *)
(***************************************************************************)
LEMMA Way ==
    ASSUME NEW B, Tree(B), NEW b \in 1..Len(B)
    PROVE  /\ B[b].num \in Nat /\ B[b].num >= 1
           /\ B[b].path[1] = Genesis /\ B[b].path[B[b].num] = b
           /\ N(B, b) = B[b].num
           /\ \A n \in 1..B[b].num :
                B[b].path[n] \in 1..Len(B) /\ B[B[b].path[n]].num = n
           /\ \A n \in 1..B[b].num : n > 1 => B[B[b].path[n]].prev = B[b].path[n - 1]
<1>1. IsBlock(B, b) /\ \A n \in 1..B[b].num : OnTheWay(B, b, n)
  BY DEF Tree
<1>2. B[b].num \in Nat /\ B[b].num >= 1 /\ B[b].path[1] = Genesis /\ B[b].path[B[b].num] = b
  BY <1>1 DEF IsBlock
<1>3. N(B, b) = B[b].num
  BY DEF N, NoBlock
<1>4. \A n \in 1..B[b].num : B[b].path[n] \in 1..Len(B) /\ B[B[b].path[n]].num = n
  BY <1>1 DEF OnTheWay
<1>5. ASSUME NEW n \in 1..B[b].num, n > 1
      PROVE  B[B[b].path[n]].prev = B[b].path[n - 1]
  <2> DEFINE a == B[b].path[n]
  <2>1. a \in 1..Len(B) /\ B[a].num = n /\ \A k \in 1..n : B[a].path[k] = B[b].path[k]
    BY <1>1 DEF OnTheWay
  <2>2. IsBlock(B, a)
    BY <2>1 DEF Tree
  <2>3. B[a].prev = B[a].path[n - 1]
    BY <2>1, <2>2, <1>5 DEF IsBlock
  <2>4. n - 1 \in 1..n
    BY <1>2, <1>5
  <2>5. QED
    BY <2>1, <2>3, <2>4
<1>6. QED
  BY <1>2, <1>3, <1>4, <1>5

\* The number of the empty id is 0.
LEMMA NumIsNat ==
    ASSUME NEW B, Tree(B), NEW b \in 0..Len(B)
    PROVE  N(B, b) \in Nat
<1>1. CASE b = NoBlock
  BY <1>1 DEF N
<1>2. CASE b # NoBlock
  <2>1. b \in 1..Len(B)
    BY <1>2 DEF NoBlock
  <2>2. QED
    BY <2>1, Way
<1>3. QED
  BY <1>1, <1>2

\* A set of numbers that is not empty has a least one.
LEMMA LeastNumber ==
    ASSUME NEW S \in SUBSET Nat, S # {}
    PROVE  \E x \in S : \A y \in S : x <= y
<1> DEFINE R == OpToRel(<, Nat)
<1>1. IsWellFoundedOn(R, Nat)
  BY NatLessThanWellFounded
<1>2. \A x, y \in Nat : x < y => <<x, y>> \in R
  BY DEF OpToRel
<1> HIDE DEF R
<1>3. PICK x \in S : \A y \in S : ~(<<y, x>> \in R)
  BY <1>1, WFMin
<1>4. ASSUME NEW y \in S PROVE x <= y
  <2>1. ~(y < x)
    BY <1>2, <1>3
  <2>2. x \in Nat /\ y \in Nat
    OBVIOUS
  <2>3. QED
    BY <2>1, <2>2
<1>5. QED
  BY <1>4

\* fetch_branch_from_fork finds a block on both branches: they both begin
\* with the genesis block, and MeetNum is where they part.
LEMMA BranchesMeet ==
    ASSUME Tree(blocks), NEW a \in 1..Len(blocks), NEW d \in 1..Len(blocks)
    PROVE  /\ MeetNum(a, d) \in 1..blocks[a].num
           /\ MeetNum(a, d) <= blocks[d].num
           /\ blocks[a].path[MeetNum(a, d)] = blocks[d].path[MeetNum(a, d)]
           /\ MeetNum(a, d) < blocks[a].num /\ MeetNum(a, d) < blocks[d].num =>
                blocks[a].path[MeetNum(a, d) + 1] # blocks[d].path[MeetNum(a, d) + 1]
<1> DEFINE p == blocks[a].path
           q == blocks[d].path
           x == blocks[a].num
           y == blocks[d].num
           S == {n \in Nat : n >= 1 /\ (n >= x \/ n >= y \/ p[n + 1] # q[n + 1])}
           Meet(n) == /\ n <= y /\ p[n] = q[n]
                      /\ (n < x /\ n < y) => p[n + 1] # q[n + 1]
<1>1. /\ x \in Nat /\ x >= 1 /\ p[1] = Genesis
      /\ y \in Nat /\ y >= 1 /\ q[1] = Genesis
  BY Way
<1>2. Num(a) = x /\ Num(d) = y /\ Path(a) = p /\ Path(d) = q
  BY DEF Num, Path, NoBlock
<1>3. MeetNum(a, d) = CHOOSE n \in 1..x : Meet(n)
  BY <1>2, Zenon DEF MeetNum
<1> HIDE DEF p, q, x, y
<1>4. x \in S
  BY <1>1
<1>5. PICK n \in S : \A k \in S : n <= k
  <2>1. S \in SUBSET Nat /\ S # {}
    BY <1>4
  <2> HIDE DEF S
  <2>2. QED
    BY <2>1, LeastNumber, Zenon
<1>6. n \in 1..x /\ n <= y
  <2>1. y \in S
    BY <1>1
  <2>2. QED
    BY <1>1, <1>4, <1>5, <2>1
<1>7. p[n] = q[n]
  <2>1. CASE n = 1
    BY <2>1, <1>1
  <2>2. CASE n > 1
    <3>1. n - 1 \in Nat /\ n - 1 >= 1 /\ n - 1 < n /\ n - 1 < x /\ n - 1 < y /\ (n - 1) + 1 = n
      BY <2>2, <1>1, <1>6
    <3>2. n - 1 \notin S
      BY <3>1, <1>5, <1>6
    <3>3. p[(n - 1) + 1] = q[(n - 1) + 1]
      BY <3>1, <3>2, <1>1
    <3>4. QED
      BY <3>1, <3>3
  <2>3. QED
    BY <2>1, <2>2, <1>6
<1>8. Meet(n)
  BY <1>1, <1>5, <1>6, <1>7
<1> HIDE DEF Meet, S
<1>9. \E k \in 1..x : Meet(k)
  BY <1>6, <1>8
<1>10. MeetNum(a, d) \in 1..x /\ Meet(MeetNum(a, d))
  BY <1>3, <1>9, Zenon
<1>11. QED
  BY <1>10 DEF Meet, p, q, x, y

(***************************************************************************)
(* What the operations of the fork database do to the packs.               *)
(***************************************************************************)
\* The packs P became Q, and no last_confirmed_id changed.
SameLc(P, Q) == DOMAIN Q = DOMAIN P /\ \A b \in DOMAIN P : Q[b].lc = P[b].lc

LEMMA Prefix ==
    ASSUME NEW S, NEW s \in Seq(S), NEW n \in Nat, n <= Len(s)
    PROVE  /\ SubSeq(s, 1, n) \in Seq(S)
           /\ Len(SubSeq(s, 1, n)) = n
           /\ \A i \in 1..n : SubSeq(s, 1, n)[i] = s[i]
<1>1. SubSeq(s, 1, n) \in Seq(S)
  OBVIOUS
<1>2. QED
  BY <1>1

LEMMA WindowType ==
    ASSUME NEW n \in Nat, NEW w \in Seq(1..n), Len(w) <= DposNeed, NEW p \in 1..n
    PROVE  NextWindow(w, p) \in Seq(1..n) /\ Len(NextWindow(w, p)) <= DposNeed
<1>1. DposNeed \in Nat /\ DposNeed >= 1
  BY ForkDbAssumption
<1>2. CASE SameBuilder(w, p)
  <2>1. w # <<>>
    BY <1>2 DEF SameBuilder
  <2>2. Len(w) \in Nat /\ Len(w) >= 1
    BY <2>1
  <2>3. Front(w) = SubSeq(w, 1, Len(w) - 1)
    BY DEF Front
  <2>4. Len(w) - 1 \in Nat /\ Len(w) - 1 <= Len(w)
    BY <2>2
  <2>5. Front(w) \in Seq(1..n) /\ Len(Front(w)) = Len(w) - 1
    BY <2>3, <2>4, Prefix, ZenonT(60)
  <2>6. Append(Front(w), p) \in Seq(1..n) /\ Len(Append(Front(w), p)) = Len(w)
    BY <2>2, <2>5
  <2>7. QED
    BY <1>2, <2>6 DEF NextWindow
<1>3. CASE ~SameBuilder(w, p) /\ Len(w) < DposNeed
  <2>1. Append(w, p) \in Seq(1..n) /\ Len(Append(w, p)) = Len(w) + 1
    OBVIOUS
  <2>2. NextWindow(w, p) = Append(w, p)
    BY <1>3 DEF NextWindow
  <2>3. QED
    BY <1>1, <1>3, <2>1, <2>2
<1>4. CASE ~SameBuilder(w, p) /\ ~(Len(w) < DposNeed)
  <2>1. w # <<>>
    BY <1>1, <1>4
  <2>2. Tail(w) \in Seq(1..n) /\ Len(Tail(w)) = Len(w) - 1
    BY <2>1
  <2>3. Append(Tail(w), p) \in Seq(1..n) /\ Len(Append(Tail(w), p)) = Len(w)
    BY <2>2
  <2>4. NextWindow(w, p) = Append(Tail(w), p)
    BY <1>4 DEF NextWindow
  <2>5. QED
    BY <2>3, <2>4
<1>5. QED
  BY <1>2, <1>3, <1>4

LEMMA PackOnType ==
    ASSUME NEW n \in Nat, NEW q \in PackTypeOf(n), Len(q.win) <= DposNeed,
           NEW p \in 1..n, NEW isMain \in BOOLEAN
    PROVE  /\ PackOn(p, q, isMain) \in PackTypeOf(n)
           /\ Len(PackOn(p, q, isMain).win) <= DposNeed
           /\ PackOn(p, q, isMain).lc = q.lc
<1>1. /\ q.lc \in 0..n /\ q.dpos \in 0..n /\ q.win \in Seq(1..n)
  BY DEF PackTypeOf
<1>2. NextWindow(q.win, p) \in Seq(1..n) /\ Len(NextWindow(q.win, p)) <= DposNeed
  BY <1>1, WindowType
<1>3. NextDpos(q, p) \in 0..n
  <2>1. DposNeed \in Nat /\ DposNeed >= 1
    BY ForkDbAssumption
  <2>2. CASE ~SameBuilder(q.win, p) /\ Len(q.win) >= DposNeed
    <3>1. q.win # <<>>
      BY <2>1, <2>2, <1>1
    <3>2. Head(q.win) \in 1..n
      BY <3>1, <1>1
    <3>3. QED
      BY <2>2, <3>2 DEF NextDpos
  <2>3. CASE ~(~SameBuilder(q.win, p) /\ Len(q.win) >= DposNeed)
    BY <2>3, <1>1 DEF NextDpos
  <2>4. QED
    BY <2>2, <2>3
<1>4. QED
  BY <1>1, <1>2, <1>3 DEF PackOn, PackTypeOf

LEMMA InsertedPacks ==
    ASSUME NEW B, NEW P, Packs(B, P), NEW b \in 1..Len(B),
           NEW q \in PackTypeOf(Len(B)), Len(q.win) <= DposNeed
    PROVE  /\ Packs(B, Inserted(b, q, P))
           /\ DOMAIN Inserted(b, q, P) = DOMAIN P \cup {b}
           /\ Inserted(b, q, P)[b] = q
           /\ \A c \in DOMAIN P : c # b => Inserted(b, q, P)[c] = P[c]
<1> DEFINE Q == Inserted(b, q, P)
<1>1. /\ DOMAIN Q = DOMAIN P \cup {b}
      /\ \A c \in DOMAIN Q : Q[c] = IF c = b THEN q ELSE P[c]
      /\ Q = [c \in DOMAIN Q |-> Q[c]]
  BY DEF Inserted
<1> HIDE DEF Q
<1>2. Packs(B, Q)
  BY <1>1 DEF Packs
<1>3. QED
  BY <1>1, <1>2 DEF Q

\* A flag of one block.
LEMMA FlagPacks ==
    ASSUME NEW B, NEW P, Packs(B, P), NEW b, NEW v \in BOOLEAN
    PROVE  /\ Packs(B, [P EXCEPT ![b].main = v]) /\ SameLc(P, [P EXCEPT ![b].main = v])
           /\ Packs(B, [P EXCEPT ![b].irr = v]) /\ SameLc(P, [P EXCEPT ![b].irr = v])
           /\ Packs(B, [P EXCEPT ![b].conf = v]) /\ SameLc(P, [P EXCEPT ![b].conf = v])
<1> DEFINE T == PackTypeOf(Len(B))
<1>1. ASSUME NEW q \in T
      PROVE  /\ [q EXCEPT !.main = v] \in T /\ [q EXCEPT !.main = v].lc = q.lc
             /\ [q EXCEPT !.main = v].win = q.win
             /\ [q EXCEPT !.irr = v] \in T /\ [q EXCEPT !.irr = v].lc = q.lc
             /\ [q EXCEPT !.irr = v].win = q.win
             /\ [q EXCEPT !.conf = v] \in T /\ [q EXCEPT !.conf = v].lc = q.lc
             /\ [q EXCEPT !.conf = v].win = q.win
  BY DEF PackTypeOf
<1>2. /\ P = [c \in DOMAIN P |-> P[c]] /\ DOMAIN P \subseteq 1..Len(B)
      /\ \A c \in DOMAIN P : P[c] \in T /\ Len(P[c].win) <= DposNeed
  BY DEF Packs
<1> HIDE DEF T
<1>3. ASSUME NEW Q, Q = [c \in DOMAIN P |-> Q[c]],
             \A c \in DOMAIN P : Q[c] \in T /\ Q[c].lc = P[c].lc /\ Q[c].win = P[c].win
      PROVE  Packs(B, Q) /\ SameLc(P, Q)
  <2>1. DOMAIN Q = DOMAIN P
    BY <1>3
  <2>2. QED
    BY <2>1, <1>2, <1>3 DEF Packs, SameLc, T
<1>4. Packs(B, [P EXCEPT ![b].main = v]) /\ SameLc(P, [P EXCEPT ![b].main = v])
  <2> DEFINE Q == [P EXCEPT ![b].main = v]
  <2>1. \A c \in DOMAIN P : Q[c] = IF c = b THEN [P[c] EXCEPT !.main = v] ELSE P[c]
    BY <1>2
  <2>2. Q = [c \in DOMAIN P |-> Q[c]]
    BY <1>2
  <2> HIDE DEF Q
  <2>3. \A c \in DOMAIN P : Q[c] \in T /\ Q[c].lc = P[c].lc /\ Q[c].win = P[c].win
    BY <1>1, <1>2, <2>1
  <2>4. Packs(B, Q) /\ SameLc(P, Q)
    BY <1>3, <2>2, <2>3
  <2>5. QED
    BY <2>4 DEF Q
<1>5. Packs(B, [P EXCEPT ![b].irr = v]) /\ SameLc(P, [P EXCEPT ![b].irr = v])
  <2> DEFINE Q == [P EXCEPT ![b].irr = v]
  <2>1. \A c \in DOMAIN P : Q[c] = IF c = b THEN [P[c] EXCEPT !.irr = v] ELSE P[c]
    BY <1>2
  <2>2. Q = [c \in DOMAIN P |-> Q[c]]
    BY <1>2
  <2> HIDE DEF Q
  <2>3. \A c \in DOMAIN P : Q[c] \in T /\ Q[c].lc = P[c].lc /\ Q[c].win = P[c].win
    BY <1>1, <1>2, <2>1
  <2>4. Packs(B, Q) /\ SameLc(P, Q)
    BY <1>3, <2>2, <2>3
  <2>5. QED
    BY <2>4 DEF Q
<1>6. Packs(B, [P EXCEPT ![b].conf = v]) /\ SameLc(P, [P EXCEPT ![b].conf = v])
  <2> DEFINE Q == [P EXCEPT ![b].conf = v]
  <2>1. \A c \in DOMAIN P : Q[c] = IF c = b THEN [P[c] EXCEPT !.conf = v] ELSE P[c]
    BY <1>2
  <2>2. Q = [c \in DOMAIN P |-> Q[c]]
    BY <1>2
  <2> HIDE DEF Q
  <2>3. \A c \in DOMAIN P : Q[c] \in T /\ Q[c].lc = P[c].lc /\ Q[c].win = P[c].win
    BY <1>1, <1>2, <2>1
  <2>4. Packs(B, Q) /\ SameLc(P, Q)
    BY <1>3, <2>2, <2>3
  <2>5. QED
    BY <2>4 DEF Q
<1>7. QED
  BY <1>4, <1>5, <1>6

\* set_last_confirmed(l)
LEMMA ConfirmingPacks ==
    ASSUME NEW P, Packs(blocks, P), Tree(blocks), NEW K, NEW l \in 1..Len(blocks)
    PROVE  /\ Packs(blocks, Confirming(l, K, P))
           /\ DOMAIN Confirming(l, K, P) = DOMAIN P
           /\ \A b \in DOMAIN P : Confirming(l, K, P)[b].lc \in {P[b].lc, l}
           /\ l \in K /\ l \in DOMAIN P => Confirming(l, K, P)[l].lc = l
<1> DEFINE T == PackTypeOf(Len(blocks))
           Q == Confirming(l, K, P)
           S(b) == b \in K /\ (Linked(b, l, K) \/ Linked(l, b, K))
<1>1. ASSUME NEW q \in T
      PROVE  /\ [q EXCEPT !.lc = l] \in T /\ [q EXCEPT !.lc = l].lc = l
             /\ [q EXCEPT !.lc = l].win = q.win
  <2>1. l \in 0..Len(blocks)
    OBVIOUS
  <2>2. QED
    BY <2>1 DEF PackTypeOf
<1>2. /\ DOMAIN P \subseteq 1..Len(blocks)
      /\ \A c \in DOMAIN P : P[c] \in T /\ Len(P[c].win) <= DposNeed
  BY DEF Packs
<1>3. /\ DOMAIN Q = DOMAIN P /\ Q = [b \in DOMAIN P |-> Q[b]]
      /\ \A b \in DOMAIN P : Q[b] = IF S(b) THEN [P[b] EXCEPT !.lc = l] ELSE P[b]
  BY DEF Confirming
<1>4. l \in K => S(l)
  <2>1. Num(l) = blocks[l].num /\ Path(l)[Num(l)] = l /\ Num(l) \in Nat
    BY Way DEF Num, Path, NoBlock
  <2>2. \A n \in Num(l)..Num(l) : n = Num(l)
    BY <2>1
  <2>3. QED
    BY <2>1, <2>2 DEF Linked
<1> HIDE DEF T, Q, S
<1>5. \A b \in DOMAIN P : Q[b] \in T /\ Q[b].win = P[b].win /\ Q[b].lc \in {P[b].lc, l}
  BY <1>1, <1>2, <1>3
<1>6. Packs(blocks, Q)
  BY <1>2, <1>3, <1>5 DEF Packs, T
<1>7. l \in K /\ l \in DOMAIN P => Q[l].lc = l
  BY <1>1, <1>2, <1>3, <1>4, ZenonT(60)
<1>8. QED
  BY <1>3, <1>5, <1>6, <1>7 DEF Q

\* add_confirmation.  Of the confirmations one is stored: with three builders
\* or more it is never enough, and no last_confirmed_id changes.
LEMMA ConfirmedPacks ==
    ASSUME NEW P, Packs(blocks, P), Tree(blocks), NEW K, NEW b \in 1..Len(blocks)
    PROVE  /\ Packs(blocks, Confirmed(b, K, P))
           /\ DOMAIN Confirmed(b, K, P) = DOMAIN P
           /\ Cardinality(Builders) >= 3 => SameLc(P, Confirmed(b, K, P))
<1> DEFINE Q == [P EXCEPT ![b].conf = TRUE]
           R == Confirmed(b, K, P)
<1>1. Packs(blocks, Q) /\ SameLc(P, Q) /\ DOMAIN Q = DOMAIN P
  BY FlagPacks, ZenonT(60) DEF SameLc
<1>2. R = IF EnoughConfirmations(Q[b]) /\ Num(Q[b].lc) < Num(b) THEN Confirming(b, K, Q) ELSE Q
  BY Zenon DEF Confirmed
<1>3. Cardinality(Builders) >= 3 => ~EnoughConfirmations(Q[b])
  <2>1. Cardinality(Builders) \in Nat
    BY ForkDbAssumption, FS_CardinalityType
  <2>2. \A c \in Nat : c >= 3 => ~(1 >= (c * 2) \div 3) /\ ~(0 >= (c * 2) \div 3)
    OBVIOUS
  <2> HIDE DEF Q
  <2>3. QED
    BY <2>1, <2>2 DEF EnoughConfirmations
<1> HIDE DEF Q, R
<1>4. Packs(blocks, Confirming(b, K, Q)) /\ DOMAIN Confirming(b, K, Q) = DOMAIN Q
  BY <1>1, ConfirmingPacks
<1>5. QED
  BY <1>1, <1>2, <1>3, <1>4 DEF R

(***************************************************************************)
(* Every step keeps the first invariant.                                   *)
(***************************************************************************)
\* A handler that is at none of the steps that expect something.
LEMMA RunningAt ==
    ASSUME NEW B, NEW K, NEW fh, NEW bh,
           NEW c \in {"idle", "grow", "commit", "pushed", "check", "down"},
           NEW j \in JobType(B), c \in {"idle", "down"} \/ fh # NoBlock
    PROVE  Running(B, K, fh, bh, c, j)
BY DEF Running, Labels

LEMMA NoJobType ==
    ASSUME NEW B, Len(B) \in Nat
    PROVE  NoJob \in JobType(B) /\ NoJob.todo = {}
BY DEF NoJob, JobType, NoBlock

LEMMA TreeLen ==
    ASSUME NEW B, Tree(B)
    PROVE  Len(B) \in Nat /\ Len(B) >= 1
BY DEF Tree

\* add_block
LEMMA AddBlockBase ==
    ASSUME Base, NEW b \in BlockIds, NEW q \in PackTypeOf(Len(blocks)),
           Len(q.win) <= DposNeed, NEW then \in {"pushed", "check"},
           AddBlock(b, q, then), pc \in {"recv", "build"},
           UNCHANGED <<blocks, block_head, log, file>>
    PROVE  Base'
<1>1. /\ Tree(blocks) /\ Packs(blocks, pack)
      /\ Placed(known, pack, fork_head, block_head, log)
      /\ LogOK(blocks, log) /\ Running(blocks, known, fork_head, block_head, pc, job)
      /\ Queued(pack, job) /\ Saved(known, pc, file)
  BY DEF Base
<1>2. file' = FALSE /\ Saved(known', pc', file')
  BY <1>1 DEF Saved
<1>3. job \in JobType(blocks)
  BY <1>1 DEF Running
<1>4. CASE b \in known
  <2>1. pc' = "idle" /\ job' = NoJob /\ known' = known /\ pack' = pack /\ fork_head' = fork_head
    BY <1>4 DEF AddBlock, Done, forkVars
  <2>2. NoJob \in JobType(blocks) /\ NoJob.todo = {}
    BY <1>1, TreeLen, NoJobType
  <2>3. Running(blocks', known', fork_head', block_head', pc', job')
    BY <2>1, <2>2, RunningAt
  <2>4. QED
    BY <1>1, <1>2, <2>1, <2>2, <2>3, SMTT(60) DEF Base, Queued
<1>5. CASE b \notin known
  <2> DEFINE P == Inserted(b, q, pack)
             d(h) == P[h].dpos
             next == [job EXCEPT !.then = then]
             Grow(l, Q) == /\ pack' = Q
                           /\ pc' = "grow"
                           /\ job' = [next EXCEPT !.todo = ToConfirm(l, known', Q),
                                                  !.erase = ToErase(l, known', Q)]
  <2>1. known' = known \cup {b}
    BY <1>5 DEF AddBlock
  <2>2. PICK h \in Longest(known', P) :
          /\ fork_head' = h
          /\ \/ Grow(P[h].lc, P)
             \/ d(h) \in known' /\ Grow(d(h), Confirming(d(h), known', P))
             \/ pack' = P /\ pc' = "idle" /\ job' = NoJob
             \/ pack' = P /\ pc' = then /\ job' = next
    BY <1>5, Zenon DEF AddBlock, Done
  <2>3. h \in known'
    BY <2>2 DEF Longest
  <2>4. b \in 1..Len(blocks)
    BY DEF BlockIds
  <2>5. /\ Packs(blocks, P) /\ DOMAIN P = DOMAIN pack \cup {b}
    <3>1. Packs(blocks, P)
      BY <1>1, <2>4, InsertedPacks
    <3>2. DOMAIN P = DOMAIN pack \cup {b}
      BY DEF Inserted
    <3>3. QED
      BY <3>1, <3>2
  <2>6. known' \subseteq DOMAIN P /\ DOMAIN P \subseteq 1..Len(blocks)
    BY <1>1, <2>1, <2>5 DEF Placed, Packs
  <2>7. d(h) \in known' => /\ Packs(blocks, Confirming(d(h), known', P))
                           /\ DOMAIN Confirming(d(h), known', P) = DOMAIN P
    <3> HIDE DEF P
    <3>1. SUFFICES ASSUME d(h) \in known'
                   PROVE  /\ Packs(blocks, Confirming(d(h), known', P))
                          /\ DOMAIN Confirming(d(h), known', P) = DOMAIN P
      OBVIOUS
    <3>2. d(h) \in 1..Len(blocks)
      BY <2>6, <3>1
    <3> HIDE DEF d
    <3>3. QED
      BY <1>1, <2>5, <3>2, ConfirmingPacks
  <2> HIDE DEF P
  <2>8. Packs(blocks, pack') /\ DOMAIN pack' = DOMAIN P
    BY <2>2, <2>5, <2>7
  <2>9. Placed(known', pack', fork_head', block_head', log')
    <3>1. h # NoBlock
      BY <2>3, <2>6 DEF NoBlock
    <3>2. QED
      BY <1>1, <2>2, <2>3, <2>5, <2>6, <2>8, <3>1 DEF Placed
  <2>10. /\ pc' \in {"idle", "grow", "pushed", "check"} /\ job' \in JobType(blocks)
         /\ job'.todo \subseteq DOMAIN pack'
    <3>1. next \in JobType(blocks)
      BY <1>3, Zenon DEF JobType
    <3>2. next.todo = job.todo
      BY <1>3 DEF JobType
    <3>3. next.todo \subseteq DOMAIN pack'
      BY <1>1, <2>5, <2>8, <3>2 DEF Queued
    <3>4. NoJob \in JobType(blocks) /\ NoJob.todo = {}
      BY <1>1, TreeLen, NoJobType
    <3>5. ASSUME NEW t \in SUBSET known', NEW e \in SUBSET known'
          PROVE  /\ [next EXCEPT !.todo = t, !.erase = e] \in JobType(blocks)
                 /\ [next EXCEPT !.todo = t, !.erase = e].todo \subseteq DOMAIN pack'
      <4>1. t \in SUBSET (1..Len(blocks)) /\ e \in SUBSET (1..Len(blocks))
        BY <2>6
      <4> HIDE DEF next
      <4>2. QED
        BY <2>6, <2>8, <3>1, <4>1 DEF JobType
    <3>6. \A l, Q : /\ ToConfirm(l, known', Q) \in SUBSET known'
                    /\ ToErase(l, known', Q) \in SUBSET known'
      BY DEF ToConfirm, ToErase
    <3> HIDE DEF next, d
    <3>7. CASE Grow(P[h].lc, P)
      BY <3>5, <3>6, <3>7
    <3>8. CASE Grow(d(h), Confirming(d(h), known', P))
      BY <3>5, <3>6, <3>8
    <3> HIDE DEF Grow
    <3>9. QED
      BY <2>2, <3>1, <3>4, <3>7, <3>8, <3>3
  <2>11. fork_head' # NoBlock
    BY <2>2, <2>3, <2>6 DEF NoBlock
  <2>12. Running(blocks, known', fork_head', block_head', pc', job')
    BY <2>10, <2>11, RunningAt
  <2>13. QED
    BY <1>1, <1>2, <2>8, <2>9, <2>10, <2>12 DEF Base, Queued
<1>6. QED
  BY <1>4, <1>5

\* A new block changes nothing for the others.
LEMMA PacksGrow ==
    ASSUME NEW B, NEW C, NEW P, Len(B) \in Nat, Len(C) = Len(B) + 1, Packs(B, P)
    PROVE  Packs(C, P)
<1>1. 1..Len(B) \subseteq 1..Len(C) /\ 0..Len(B) \subseteq 0..Len(C)
  OBVIOUS
<1>2. \A s \in Seq(1..Len(B)) : s \in Seq(1..Len(C))
  BY <1>1
<1>3. \A q \in PackTypeOf(Len(B)) : q \in PackTypeOf(Len(C))
  BY <1>1, <1>2 DEF PackTypeOf
<1>4. QED
  BY <1>1, <1>3 DEF Packs

LEMMA LogGrows ==
    ASSUME NEW B, NEW C, NEW lg, Len(B) \in Nat, Len(C) = Len(B) + 1,
           \A b \in 1..Len(B) : C[b] = B[b], LogOK(B, lg)
    PROVE  LogOK(C, lg)
<1>1. lg \in Seq(1..Len(B)) /\ Len(lg) >= 1
  BY DEF LogOK
<1>2. lg \in Seq(1..Len(C))
  BY <1>1
<1>3. \A i \in 1..Len(lg) : lg[i] \in 1..Len(B)
  BY <1>1
<1>4. QED
  BY <1>1, <1>2, <1>3 DEF LogOK

LEMMA JobGrows ==
    ASSUME NEW B, Len(B) \in Nat, NEW b \in 1..Len(B), NEW keys \in SUBSET Own,
           NEW j, j = [NoJob EXCEPT !.blk = b, !.by = keys]
    PROVE  j \in JobType(B) /\ j.blk = b /\ j.todo = {}
<1>1. NoJob \in JobType(B) /\ NoJob.todo = {}
  BY NoJobType
<1>2. ASSUME NEW k \in JobType(B)
      PROVE  /\ [k EXCEPT !.blk = b, !.by = keys] \in JobType(B)
             /\ [k EXCEPT !.blk = b, !.by = keys].blk = b
             /\ [k EXCEPT !.blk = b, !.by = keys].todo = k.todo
  <2>1. b \in 0..Len(B)
    OBVIOUS
  <2>2. QED
    BY <2>1 DEF JobType
<1>3. QED
  BY <1>1, <1>2

\* A block of this kind is a block.
LEMMA NewBlockType ==
    ASSUME Tree(blocks), NEW p \in 1..Len(blocks), NEW bld \in Builders,
           NEW rank \in Ranks, NEW good \in BOOLEAN
    PROVE  /\ NewBlock(p, bld, rank, good) \in BlockType
           /\ NewBlock(p, bld, rank, good).prev = p
           /\ NewBlock(p, bld, rank, good).num = blocks[p].num + 1
           /\ NewBlock(p, bld, rank, good).path = Append(blocks[p].path, Len(blocks) + 1)
<1>1. Num(p) = blocks[p].num /\ Path(p) = blocks[p].path
  BY DEF Num, Path, NoBlock
<1>2. blocks[p].num \in Nat /\ blocks[p].path \in Seq(Nat) /\ Len(blocks) \in Nat
  BY DEF Tree, IsBlock
<1>3. rank \in Nat
  BY ForkDbAssumption
<1>4. Append(blocks[p].path, Len(blocks) + 1) \in Seq(Nat)
  BY <1>2
<1>5. p \in Nat /\ blocks[p].num + 1 \in Nat
  BY <1>2
<1>6. QED
  BY <1>1, <1>3, <1>4, <1>5 DEF NewBlock, BlockType

\* Receive and Build: block_head stays, the handler gets the new block.
LEMMA DeliverNew ==
    ASSUME Base, NEW p \in 1..Len(blocks), NEW bld \in Builders, NEW rank \in Ranks,
           NEW good \in BOOLEAN, NEW h \in {"recv", "build"}, NEW keys \in SUBSET Own,
           h = "build" => p = block_head,
           blocks' = Append(blocks, NewBlock(p, bld, rank, good)),
           Deliver(Len(blocks) + 1, h, keys)
    PROVE  Base'
<1>1. /\ Tree(blocks) /\ Packs(blocks, pack)
      /\ Placed(known, pack, fork_head, block_head, log)
      /\ LogOK(blocks, log) /\ Running(blocks, known, fork_head, block_head, pc, job)
      /\ Queued(pack, job) /\ Saved(known, pc, file)
  BY DEF Base
<1> DEFINE m == Len(blocks) + 1
           new == NewBlock(p, bld, rank, good)
<1>2. /\ new \in BlockType /\ new.prev = p /\ new.num = blocks[p].num + 1
      /\ new.path = Append(blocks[p].path, Len(blocks) + 1)
  BY <1>1, NewBlockType
<1> HIDE DEF new
<1>3. /\ Tree(blocks') /\ Len(blocks') = Len(blocks) + 1
      /\ \A b \in 1..Len(blocks) : blocks'[b] = blocks[b]
      /\ blocks'[m] = new
  BY <1>1, <1>2, TreeGrows DEF new
<1>4. Len(blocks) \in Nat
  BY <1>1, TreeLen
<1>5. /\ pc = "idle" /\ pc' = h
      /\ job' = [NoJob EXCEPT !.blk = m, !.by = keys]
      /\ known' = known /\ pack' = pack /\ fork_head' = fork_head
      /\ block_head' = block_head /\ log' = log /\ file' = file
  BY DEF Deliver, forkVars
<1>6. Packs(blocks', pack') /\ LogOK(blocks', log')
  BY <1>1, <1>3, <1>4, <1>5, PacksGrow, LogGrows
<1>7. job' \in JobType(blocks') /\ job'.blk = m /\ job'.todo = {}
  <2>1. m \in 1..Len(blocks') /\ Len(blocks') \in Nat
    BY <1>3, <1>4
  <2> HIDE DEF m
  <2>2. QED
    BY <2>1, <1>5, JobGrows
<1>8. Running(blocks', known', fork_head', block_head', pc', job')
  <2>1. m # NoBlock /\ (h = "build" => blocks'[m].prev = block_head')
    BY <1>2, <1>3, <1>4, <1>5 DEF NoBlock
  <2> HIDE DEF m
  <2>2. QED
    BY <2>1, <1>5, <1>7 DEF Running, Labels
<1>9. Saved(known', pc', file')
  BY <1>1, <1>5 DEF Saved
<1>10. QED
  BY <1>1, <1>3, <1>5, <1>6, <1>7, <1>8, <1>9 DEF Base, Queued

LEMMA EventBase ==
    ASSUME Base
    PROVE  /\ \A p \in BlockIds, bld \in Builders \ Own, rank \in Ranks, good \in BOOLEAN :
                Receive(p, bld, rank, good) => Base'
           /\ \A b \in BlockIds : ReceiveAgain(b) => Base'
           /\ \A bld \in Own, rank \in Ranks : Build(bld, rank) => Base'
           /\ \A b \in BlockIds : Confirm(b) => Base'
<1>1. /\ Tree(blocks) /\ Packs(blocks, pack)
      /\ Placed(known, pack, fork_head, block_head, log)
      /\ LogOK(blocks, log) /\ Running(blocks, known, fork_head, block_head, pc, job)
      /\ Queued(pack, job) /\ Saved(known, pc, file)
  BY DEF Base
<1>2. ASSUME NEW p \in BlockIds, NEW bld \in Builders \ Own, NEW rank \in Ranks,
             NEW good \in BOOLEAN, Receive(p, bld, rank, good)
      PROVE  Base'
  <2>1. blocks' = Append(blocks, NewBlock(p, bld, rank, good))
        /\ Deliver(Len(blocks) + 1, "recv", Own)
    BY <1>2 DEF Receive
  <2>2. p \in 1..Len(blocks) /\ bld \in Builders /\ Own \in SUBSET Own
    BY DEF BlockIds
  <2>3. QED
    BY <2>1, <2>2, DeliverNew
<1>3. ASSUME NEW b \in BlockIds, ReceiveAgain(b) PROVE Base'
  <2>1. /\ pc' = "recv" /\ job' = [NoJob EXCEPT !.blk = b, !.by = Own]
        /\ known' = known /\ pack' = pack /\ fork_head' = fork_head /\ blocks' = blocks
        /\ block_head' = block_head /\ log' = log /\ file' = file /\ pc = "idle"
    BY <1>3 DEF ReceiveAgain, Deliver, forkVars
  <2>2. Len(blocks) \in Nat /\ b \in 1..Len(blocks)
    BY <1>1, TreeLen DEF BlockIds
  <2>3. job' \in JobType(blocks) /\ job'.blk = b /\ job'.todo = {}
    BY <2>1, <2>2, JobGrows
  <2>4. Running(blocks', known', fork_head', block_head', pc', job')
    BY <2>1, <2>2, <2>3 DEF Running, Labels, NoBlock
  <2>5. Saved(known', pc', file')
    BY <1>1, <2>1 DEF Saved
  <2>6. QED
    BY <1>1, <2>1, <2>3, <2>4, <2>5 DEF Base, Queued
<1>4. ASSUME NEW bld \in Own, NEW rank \in Ranks, Build(bld, rank) PROVE Base'
  <2>1. blocks' = Append(blocks, NewBlock(block_head, bld, rank, TRUE))
        /\ Deliver(Len(blocks) + 1, "build", Own \ {bld})
    BY <1>4 DEF Build
  <2>2. block_head \in 1..Len(blocks)
    BY <1>1 DEF Placed, Packs
  <2>3. bld \in Builders /\ Own \ {bld} \in SUBSET Own
    BY ChainNodeAssumption
  <2>4. QED
    BY <2>1, <2>2, <2>3, DeliverNew
<1>5. ASSUME NEW b \in BlockIds, Confirm(b) PROVE Base'
  <2>1. /\ pack' = Confirmed(b, known, pack) /\ known' = known /\ fork_head' = fork_head
        /\ blocks' = blocks /\ block_head' = block_head /\ log' = log /\ file' = file
        /\ pc' = pc /\ job' = job
    BY <1>5 DEF Confirm, nodeVars
  <2>2. Packs(blocks, pack') /\ DOMAIN pack' = DOMAIN pack
    BY <1>1, <2>1, ConfirmedPacks DEF BlockIds
  <2>3. Placed(known', pack', fork_head', block_head', log')
    BY <1>1, <2>1, <2>2 DEF Placed
  <2>4. QED
    BY <1>1, <2>1, <2>2, <2>3 DEF Base, Queued
<1>6. QED
  BY <1>2, <1>3, <1>4, <1>5

\* A handler that ends and leaves the chain as it is.
LEMMA DoneBase ==
    ASSUME Base, pc # "down", Done, UNCHANGED <<blocks, forkVars, block_head, log, file>>
    PROVE  Base'
<1>1. /\ Tree(blocks) /\ Packs(blocks, pack)
      /\ Placed(known, pack, fork_head, block_head, log)
      /\ LogOK(blocks, log) /\ Saved(known, pc, file)
  BY DEF Base
<1>2. /\ pc' = "idle" /\ job' = NoJob
      /\ known' = known /\ pack' = pack /\ fork_head' = fork_head /\ blocks' = blocks
      /\ block_head' = block_head /\ log' = log /\ file' = file
  BY DEF Done, forkVars
<1>3. NoJob \in JobType(blocks) /\ NoJob.todo = {}
  BY <1>1, TreeLen, NoJobType
<1>4. Running(blocks', known', fork_head', block_head', pc', job')
  BY <1>2, <1>3, RunningAt
<1>5. Saved(known', pc', file')
  BY <1>1, <1>2 DEF Saved
<1>6. QED
  BY <1>1, <1>2, <1>3, <1>4, <1>5 DEF Base, Queued

\* The block a handler works on, and the pack it is given.
LEMMA WorkingOn ==
    ASSUME Base, pc \in {"recv", "build"}
    PROVE  /\ job.blk \in BlockIds
           /\ \A p \in DOMAIN pack, isMain \in BOOLEAN :
                /\ PackOn(p, pack[p], isMain) \in PackTypeOf(Len(blocks))
                /\ Len(PackOn(p, pack[p], isMain).win) <= DposNeed
                /\ PackOn(p, pack[p], isMain).lc = pack[p].lc
<1>1. Tree(blocks) /\ Packs(blocks, pack) /\ Running(blocks, known, fork_head, block_head, pc, job)
  BY DEF Base
<1>2. job \in JobType(blocks) /\ job.blk # NoBlock
  BY <1>1 DEF Running
<1>3. job.blk \in BlockIds
  BY <1>2 DEF JobType, NoBlock, BlockIds
<1>4. ASSUME NEW p \in DOMAIN pack, NEW isMain \in BOOLEAN
      PROVE  /\ PackOn(p, pack[p], isMain) \in PackTypeOf(Len(blocks))
             /\ Len(PackOn(p, pack[p], isMain).win) <= DposNeed
             /\ PackOn(p, pack[p], isMain).lc = pack[p].lc
  <2>1. /\ p \in 1..Len(blocks) /\ pack[p] \in PackTypeOf(Len(blocks))
        /\ Len(pack[p].win) <= DposNeed
    BY <1>1 DEF Packs
  <2>2. Len(blocks) \in Nat
    BY <1>1, TreeLen
  <2>3. QED
    BY <2>1, <2>2, PackOnType
<1>5. QED
  BY <1>3, <1>4

LEMMA PushNextBase ==
    ASSUME Base, pc \in {"recv", "build"}, NEW good, PushNext(job.blk, good),
           UNCHANGED <<blocks, file>>
    PROVE  Base'
<1>1. block_head \in DOMAIN pack
  BY DEF Base, Placed
<1>2. block_head' = block_head /\ log' = log /\ blocks' = blocks /\ file' = file
  BY DEF PushNext
<1>3. CASE AddBlock(job.blk, PackOn(block_head, pack[block_head], TRUE), "pushed")
  <2> DEFINE q == PackOn(block_head, pack[block_head], TRUE)
  <2>1. job.blk \in BlockIds /\ q \in PackTypeOf(Len(blocks)) /\ Len(q.win) <= DposNeed
    BY <1>1, WorkingOn
  <2> HIDE DEF q
  <2>2. AddBlock(job.blk, q, "pushed")
    BY <1>3 DEF q
  <2>3. QED
    BY <1>2, <2>1, <2>2, AddBlockBase
<1>4. CASE Done /\ UNCHANGED forkVars
  BY <1>2, <1>4, DoneBase
<1>5. QED
  BY <1>3, <1>4 DEF PushNext

LEMMA PushFromBase ==
    ASSUME Base
    PROVE  (RecieveBlock \/ BuildBlock) => Base'
<1>1. ASSUME RecieveBlock PROVE Base'
  <2> DEFINE b == job.blk
  <2>1. pc = "recv" /\ blocks' = blocks /\ file' = file
    BY <1>1 DEF RecieveBlock
  <2>2. CASE PushNext(b, blocks[b].good)
    BY <2>1, <2>2, PushNextBase
  <2>3. CASE PushFork(b)
    <3>1. block_head' = block_head /\ log' = log
      BY <2>3 DEF PushFork
    <3>2. CASE Prev(b) \in known /\ AddBlock(b, PackOn(Prev(b), pack[Prev(b)], FALSE), "check")
      <4> DEFINE q == PackOn(Prev(b), pack[Prev(b)], FALSE)
      <4>1. Prev(b) \in DOMAIN pack
        BY <3>2 DEF Base, Placed
      <4>2. b \in BlockIds /\ q \in PackTypeOf(Len(blocks)) /\ Len(q.win) <= DposNeed
        BY <2>1, <4>1, WorkingOn
      <4> HIDE DEF q
      <4>3. AddBlock(b, q, "check")
        BY <3>2 DEF q
      <4>4. QED
        BY <2>1, <3>1, <4>2, <4>3, AddBlockBase
    <3>3. CASE Done /\ UNCHANGED forkVars
      BY <2>1, <3>1, <3>3, DoneBase
    <3>4. QED
      BY <2>3, <3>2, <3>3 DEF PushFork
  <2>4. CASE Done /\ UNCHANGED <<forkVars, block_head, db, building, log, lib>>
    BY <2>1, <2>4, DoneBase
  <2>5. QED
    BY <1>1, <2>2, <2>3, <2>4 DEF RecieveBlock
<1>2. ASSUME BuildBlock PROVE Base'
  <2>1. pc = "build" /\ PushNext(job.blk, TRUE) /\ UNCHANGED <<blocks, file>>
    BY <1>2 DEF BuildBlock
  <2>2. QED
    BY <2>1, PushNextBase
<1>3. QED
  BY <1>1, <1>2

\* on_last_confirmed_grow
LEMMA GrowBase ==
    ASSUME Base
    PROVE  (Commit \/ Erase \/ \E b \in BlockIds : Irreversible(b)) => Base'
<1>1. /\ Tree(blocks) /\ Packs(blocks, pack)
      /\ Placed(known, pack, fork_head, block_head, log)
      /\ LogOK(blocks, log) /\ Running(blocks, known, fork_head, block_head, pc, job)
      /\ Queued(pack, job) /\ Saved(known, pc, file)
  BY DEF Base
<1>2. job \in JobType(blocks)
  BY <1>1 DEF Running
<1>3. ASSUME NEW b \in BlockIds, Irreversible(b) PROVE Base'
  <2>1. /\ pc = "grow" /\ known' = known /\ pack' = pack /\ fork_head' = fork_head
        /\ blocks' = blocks /\ block_head' = block_head /\ file' = file
        /\ UNCHANGED forkVars /\ b \in job.todo
    BY <1>3 DEF Irreversible, forkVars, NextConfirmed
  <2>2. CASE Done /\ UNCHANGED <<lib, log>>
    BY <2>1, <2>2, DoneBase
  <2>3. CASE LinksToLog(b) /\ log' = Append(log, b) /\ pc' = "commit" /\ UNCHANGED job
    <3> DEFINE n == Len(log)
    <3>1. /\ log \in Seq(1..Len(blocks)) /\ n \in Nat /\ n >= 1
          /\ \A i \in 1..n : blocks[log[i]].num = i /\ (i > 1 => blocks[log[i]].prev = log[i - 1])
      BY <1>1 DEF LogOK
    <3>2. b \in 1..Len(blocks) /\ log[n] \in 1..Len(blocks) /\ n \in 1..n
      BY <3>1 DEF BlockIds
    <3>3. blocks[b].num - 1 = n /\ blocks[b].prev = log[n]
      <4>1. Last(log) = log[n]
        BY DEF Last
      <4>2. Num(log[n]) = blocks[log[n]].num /\ Num(b) = blocks[b].num
        BY <3>2 DEF Num, NoBlock
      <4>3. QED
        BY <2>3, <3>1, <3>2, <4>1, <4>2 DEF LinksToLog, Prev
    <3>4. blocks[b].num = n + 1
      <4>1. blocks[b].num \in Nat
        BY <1>1, <3>2, Way
      <4>2. QED
        BY <3>1, <3>3, <4>1, SMTT(60)
    <3>5. /\ log' \in Seq(1..Len(blocks)) /\ Len(log') = n + 1 /\ log'[n + 1] = b
          /\ \A i \in 1..n : log'[i] = log[i]
      BY <2>3, <3>1, <3>2
    <3>6. \A i \in 1..(n + 1) : i = n + 1 \/ i \in 1..n
      BY <3>1
    <3>7. LogOK(blocks, log')
      <4>1. Len(log') >= 1 /\ n + 1 > 1 /\ (n + 1) - 1 = n
        BY <3>1, <3>5
      <4> HIDE DEF n
      <4>2. ASSUME NEW i \in 1..n
            PROVE  blocks[log'[i]].num = i /\ (i > 1 => blocks[log'[i]].prev = log'[i - 1])
        <5>1. log'[i] = log[i]
          BY <3>5
        <5>2. i > 1 => i - 1 \in 1..n
          BY <3>1
        <5>3. i > 1 => log'[i - 1] = log[i - 1]
          BY <3>5, <5>2
        <5>4. QED
          BY <3>1, <5>1, <5>3
      <4>3. blocks[log'[n + 1]].num = n + 1 /\ blocks[log'[n + 1]].prev = log'[(n + 1) - 1]
        BY <3>2, <3>3, <3>4, <3>5, <4>1
      <4>4. QED
        BY <3>5, <3>6, <4>1, <4>2, <4>3 DEF LogOK
    <3>8. Placed(known', pack', fork_head', block_head', log')
      <4>1. b \in DOMAIN pack
        BY <1>1, <2>1 DEF Queued
      <4> HIDE DEF n
      <4>2. ASSUME NEW i \in 1..Len(log') PROVE log'[i] \in DOMAIN pack
        <5>1. CASE i = n + 1
          BY <3>5, <4>1, <5>1
        <5>2. CASE i \in 1..n
          BY <1>1, <3>5, <5>2 DEF Placed, n
        <5>3. QED
          BY <3>5, <3>6, <5>1, <5>2
      <4>3. QED
        BY <1>1, <2>1, <4>2 DEF Placed
    <3>9. Running(blocks', known', fork_head', block_head', pc', job')
      BY <1>1, <1>2, <2>1, <2>3, RunningAt, ZenonT(60) DEF Running
    <3>10. QED
      BY <1>1, <2>1, <2>3, <3>7, <3>8, <3>9 DEF Base, Saved, Queued
  <2>4. QED
    BY <1>3, <2>2, <2>3 DEF Irreversible
<1>4. ASSUME Commit PROVE Base'
  <2>1. /\ pc = "commit" /\ pack' = [pack EXCEPT ![Last(log)].irr = TRUE] /\ pc' = "grow"
        /\ job' = [job EXCEPT !.todo = @ \ {Last(log)}]
        /\ known' = known /\ fork_head' = fork_head /\ log' = log
        /\ blocks' = blocks /\ block_head' = block_head /\ file' = file
    BY <1>4 DEF Commit
  <2>2. Packs(blocks, pack') /\ DOMAIN pack' = DOMAIN pack
    BY <1>1, <2>1, FlagPacks DEF SameLc
  <2>3. job' \in JobType(blocks) /\ job'.todo \subseteq job.todo
    BY <1>2, <2>1 DEF JobType
  <2>4. Running(blocks', known', fork_head', block_head', pc', job')
    BY <1>1, <2>1, <2>3, RunningAt DEF Running
  <2>5. QED
    BY <1>1, <2>1, <2>2, <2>3, <2>4 DEF Base, Saved, Placed, Queued
<1>5. ASSUME Erase PROVE Base'
  <2>1. /\ pc = "grow" /\ pack' = pack /\ pc' = job.then
        /\ job' = [job EXCEPT !.erase = {}]
        /\ known' = known \ job.erase /\ fork_head' = fork_head /\ log' = log
        /\ blocks' = blocks /\ block_head' = block_head /\ file' = file
    BY <1>5 DEF Erase
  <2>2. job' \in JobType(blocks) /\ pc' \in {"pushed", "check"} /\ job'.todo = job.todo
    BY <1>2, <2>1 DEF JobType
  <2>3. Running(blocks', known', fork_head', block_head', pc', job')
    BY <1>1, <2>1, <2>2, RunningAt, SMTT(60) DEF Running
  <2>4. QED
    BY <1>1, <2>1, <2>2, <2>3 DEF Base, Saved, Placed, Queued
<1>6. QED
  BY <1>3, <1>4, <1>5

\* A head is a block.
LEMMA HeadsAreBlocks ==
    ASSUME Base
    PROVE  /\ block_head \in 1..Len(blocks)
           /\ fork_head # NoBlock => fork_head \in 1..Len(blocks) /\ fork_head \in DOMAIN pack
BY DEF Base, Placed, Packs

LEMMA PushedBase ==
    ASSUME Base, Pushed
    PROVE  Base'
<1>1. /\ Tree(blocks) /\ Packs(blocks, pack)
      /\ Placed(known, pack, fork_head, block_head, log)
      /\ LogOK(blocks, log) /\ Running(blocks, known, fork_head, block_head, pc, job)
      /\ Queued(pack, job) /\ Saved(known, pc, file)
  BY DEF Base
<1>2. /\ pc = "pushed" /\ block_head' = fork_head /\ pc' = "idle" /\ job' = NoJob
      /\ blocks' = blocks /\ known' = known /\ fork_head' = fork_head
      /\ log' = log /\ file' = file
      /\ \/ pack' = pack
         \/ pack' = OwnConfirmed(job.blk) /\ fork_head = job.blk
  BY Zenon DEF Pushed, Done
<1>3. fork_head # NoBlock /\ fork_head \in 1..Len(blocks) /\ fork_head \in DOMAIN pack
  BY <1>1, <1>2, HeadsAreBlocks DEF Running
<1>4. Packs(blocks, pack') /\ DOMAIN pack' = DOMAIN pack
  <2>1. Packs(blocks, Confirmed(fork_head, known, pack))
        /\ DOMAIN Confirmed(fork_head, known, pack) = DOMAIN pack
    BY <1>1, <1>3, ConfirmedPacks
  <2>2. QED
    BY <1>1, <1>2, <2>1 DEF OwnConfirmed
<1>5. Placed(known', pack', fork_head', block_head', log')
  BY <1>1, <1>2, <1>3, <1>4 DEF Placed
<1>6. NoJob \in JobType(blocks) /\ NoJob.todo = {}
  BY <1>1, TreeLen, NoJobType
<1>7. Running(blocks', known', fork_head', block_head', pc', job')
  BY <1>2, <1>6, RunningAt
<1>8. QED
  BY <1>1, <1>2, <1>4, <1>5, <1>6, <1>7 DEF Base, Saved, Queued

LEMMA CheckForkBase ==
    ASSUME Base, CheckFork
    PROVE  Base'
<1>1. /\ Tree(blocks) /\ Packs(blocks, pack)
      /\ Placed(known, pack, fork_head, block_head, log)
      /\ LogOK(blocks, log) /\ Running(blocks, known, fork_head, block_head, pc, job)
      /\ Queued(pack, job) /\ Saved(known, pc, file)
  BY DEF Base
<1> DEFINE n == MeetNum(block_head, fork_head)
<1>2. /\ pc = "check" /\ blocks' = blocks /\ known' = known /\ pack' = pack
      /\ fork_head' = fork_head /\ block_head' = block_head /\ log' = log /\ file' = file
      /\ UNCHANGED forkVars
  BY DEF CheckFork, forkVars
<1>3. \/ Done
      \/ /\ BranchesKnown(block_head, fork_head, known)
         /\ n < Num(block_head) /\ pc' = "pop" /\ job' = [job EXCEPT !.meet = n]
      \/ pc' = "down" /\ job' = NoJob
  BY Zenon DEF CheckFork
<1>4. CASE Done
  BY <1>2, <1>4, DoneBase
<1>5. CASE /\ BranchesKnown(block_head, fork_head, known)
           /\ n < Num(block_head) /\ pc' = "pop" /\ job' = [job EXCEPT !.meet = n]
  <2>1. fork_head # NoBlock /\ fork_head \in 1..Len(blocks) /\ block_head \in 1..Len(blocks)
    BY <1>1, <1>2, HeadsAreBlocks DEF Running
  <2>2. /\ n \in 1..blocks[block_head].num /\ n <= blocks[fork_head].num
        /\ blocks[block_head].path[n] = blocks[fork_head].path[n]
    BY <1>1, <2>1, BranchesMeet
  <2>3. /\ Num(block_head) = blocks[block_head].num /\ blocks[block_head].num \in Nat
        /\ Num(fork_head) = blocks[fork_head].num
    BY <1>1, <2>1, Way DEF Num, NoBlock
  <2>4. /\ \A k \in n..blocks[block_head].num : blocks[block_head].path[k] \in known
        /\ \A k \in n..blocks[fork_head].num : blocks[fork_head].path[k] \in known
    BY <1>5, <2>3 DEF BranchesKnown, Path
  <2> HIDE DEF n
  <2>5. n \in Nat /\ 1 <= n /\ n < blocks[block_head].num
    BY <1>5, <2>2, <2>3
  <2>6. job' \in JobType(blocks) /\ job'.meet = n /\ job'.todo = job.todo
    <3>1. job \in JobType(blocks)
      BY <1>1 DEF Running
    <3>2. QED
      BY <1>5, <2>5, <3>1 DEF JobType
  <2>7. Running(blocks', known', fork_head', block_head', pc', job')
    BY <1>2, <1>5, <2>1, <2>2, <2>5, <2>6, <2>4 DEF Running, Labels
  <2>8. QED
    BY <1>1, <1>2, <1>5, <2>6, <2>7 DEF Base, Saved, Queued
<1>6. CASE pc' = "down" /\ job' = NoJob
  <2>1. NoJob \in JobType(blocks) /\ NoJob.todo = {}
    BY <1>1, TreeLen, NoJobType
  <2>2. Running(blocks', known', fork_head', block_head', pc', job')
    BY <1>2, <1>6, <2>1, RunningAt, SMTT(60)
  <2>3. QED
    BY <1>1, <1>2, <1>6, <2>1, <2>2 DEF Base, Saved, Queued
<1>7. QED
  BY <1>3, <1>4, <1>5, <1>6

\* The block below block_head, while there is one to pop.
LEMMA Popped ==
    ASSUME Base, pc = "pop"
    PROVE  /\ fork_head \in 1..Len(blocks) /\ block_head \in 1..Len(blocks)
           /\ blocks[block_head].num \in Nat /\ job.meet \in Nat
           /\ 1 <= job.meet /\ job.meet < blocks[block_head].num
           /\ job.meet <= blocks[fork_head].num
           /\ blocks[block_head].path[job.meet] = blocks[fork_head].path[job.meet]
           /\ Prev(block_head) \in 1..Len(blocks)
           /\ Num(Prev(block_head)) = blocks[block_head].num - 1
           /\ Prev(block_head) = blocks[block_head].path[blocks[block_head].num - 1]
           /\ blocks[Prev(block_head)].num = blocks[block_head].num - 1
           /\ \A k \in job.meet..(blocks[block_head].num - 1) :
                 /\ blocks[Prev(block_head)].path[k] = blocks[block_head].path[k]
                 /\ blocks[block_head].path[k] \in known
           /\ \A k \in job.meet..blocks[fork_head].num : blocks[fork_head].path[k] \in known
<1>1. Tree(blocks) /\ Running(blocks, known, fork_head, block_head, pc, job)
  BY DEF Base
<1>2. fork_head \in 1..Len(blocks) /\ block_head \in 1..Len(blocks)
  BY <1>1, HeadsAreBlocks DEF Running
<1>3. /\ \A k \in job.meet..blocks[block_head].num : blocks[block_head].path[k] \in known
      /\ \A k \in job.meet..blocks[fork_head].num : blocks[fork_head].path[k] \in known
  BY <1>1 DEF Running
<1>4. /\ 1 <= job.meet /\ job.meet < blocks[block_head].num
      /\ job.meet <= blocks[fork_head].num /\ job.meet \in Nat
      /\ blocks[block_head].path[job.meet] = blocks[fork_head].path[job.meet]
  BY <1>1 DEF Running, JobType
<1> DEFINE b == block_head
           x == blocks[b].num
<1>5. x \in Nat /\ x >= 1 /\ x > 1 /\ b \in 1..Len(blocks)
  BY <1>1, <1>2, <1>4, Way
<1>6. IsBlock(blocks, b)
  BY <1>1, <1>2 DEF Tree
<1>7. Prev(b) = blocks[b].path[x - 1]
  BY <1>5, <1>6 DEF IsBlock, Prev
<1>8. /\ x - 1 \in 1..x
      /\ \A k \in job.meet..(x - 1) : k \in 1..(x - 1) /\ k \in job.meet..x
  BY <1>4, <1>5
<1>9. OnTheWay(blocks, b, x - 1)
  BY <1>1, <1>5, <1>8 DEF Tree
<1> HIDE DEF x, b
<1>10. /\ Prev(b) \in 1..Len(blocks) /\ blocks[Prev(b)].num = x - 1
      /\ \A k \in 1..(x - 1) : blocks[Prev(b)].path[k] = blocks[b].path[k]
  BY <1>7, <1>8, <1>9 DEF OnTheWay
<1>11. Num(Prev(b)) = x - 1
  BY <1>10 DEF Num, NoBlock
<1>12. \A k \in job.meet..(x - 1) :
         blocks[Prev(b)].path[k] = blocks[b].path[k] /\ blocks[b].path[k] \in known
  BY <1>8, <1>10, <1>3 DEF x, b
<1>13. QED
  BY <1>2, <1>4, <1>5, <1>7, <1>10, <1>11, <1>3, <1>12 DEF x, b

LEMMA PopBase ==
    ASSUME Base, Pop
    PROVE  Base'
<1>1. /\ Tree(blocks) /\ Packs(blocks, pack)
      /\ Placed(known, pack, fork_head, block_head, log)
      /\ LogOK(blocks, log) /\ Running(blocks, known, fork_head, block_head, pc, job)
      /\ Queued(pack, job) /\ Saved(known, pc, file)
  BY DEF Base
<1> DEFINE b == Prev(block_head)
           x == blocks[b].num
           f == fork_head
           n == job.meet
<1>2. /\ pc = "pop" /\ block_head' = b /\ pack' = [pack EXCEPT ![block_head].main = FALSE]
      /\ blocks' = blocks /\ known' = known
      /\ fork_head' = fork_head /\ log' = log /\ file' = file /\ job' = job
      /\ pc' = IF Num(b) # n THEN "pop" ELSE IF b = f THEN "check" ELSE "apply"
  BY DEF Pop, Num
<1>3. Packs(blocks, pack') /\ DOMAIN pack' = DOMAIN pack
  BY <1>1, <1>2, FlagPacks DEF SameLc
<1>4. /\ b \in 1..Len(blocks) /\ f \in 1..Len(blocks)
      /\ x \in Nat /\ n \in Nat /\ Num(b) = x /\ 1 <= n /\ n <= x /\ n <= blocks[f].num
      /\ \A k \in n..x : blocks[b].path[k] \in known
      /\ \A k \in n..blocks[f].num : blocks[f].path[k] \in known
      /\ blocks[b].path[n] = blocks[f].path[n]
  <2> DEFINE y == blocks[block_head].num
  <2>1. /\ y \in Nat /\ n \in Nat /\ 1 <= n /\ n < y /\ x = y - 1 /\ n <= blocks[f].num
        /\ Num(b) = y - 1 /\ b \in 1..Len(blocks) /\ f \in 1..Len(blocks)
        /\ \A k \in n..(y - 1) : /\ blocks[b].path[k] = blocks[block_head].path[k]
                                 /\ blocks[block_head].path[k] \in known
        /\ \A k \in n..blocks[f].num : blocks[f].path[k] \in known
        /\ blocks[block_head].path[n] = blocks[f].path[n]
    BY <1>2, Popped
  <2> HIDE DEF y, b, x, f, n
  <2>2. x \in Nat /\ n <= x /\ n \in n..(y - 1)
    BY <2>1
  <2>3. \A k \in n..x : blocks[b].path[k] \in known
    BY <2>1
  <2>4. QED
    BY <2>1, <2>2, <2>3
<1>5. blocks[b].path[x] = b /\ blocks[f].path[blocks[f].num] = f
      /\ blocks[f].num \in Nat
  BY <1>1, <1>4, Way
<1>6. job \in JobType(blocks)
  BY <1>1 DEF Running
<1>7. b \in known
  <2> HIDE DEF b, x, f, n
  <2>1. x \in n..x
    BY <1>4
  <2>2. QED
    BY <1>4, <1>5, <2>1
<1>8. Running(blocks, known, f, b, pc', job)
  <2> HIDE DEF b, x, f, n
  <2>1. f # NoBlock
    BY <1>4 DEF NoBlock
  <2>2. CASE pc' = "pop" /\ x # n
    <3>1. n < x
      BY <1>4, <2>2
    <3>2. QED
      BY <1>4, <1>6, <2>1, <2>2, <3>1 DEF Running, Labels, n, x
  <2>3. CASE pc' = "check"
    BY <1>6, <2>1, <2>3, RunningAt
  <2>4. CASE pc' = "apply" /\ x = n /\ b # f
    <3>1. blocks[f].path[x] = b
      BY <1>4, <1>5, <2>4
    <3>2. x < blocks[f].num
      <4>1. x # blocks[f].num
        BY <1>5, <2>4, <3>1
      <4>2. QED
        BY <1>4, <1>5, <2>4, <4>1
    <3>3. QED
      BY <1>4, <1>6, <2>1, <2>4, <3>1, <3>2 DEF Running, Labels, n, x
  <2>5. QED
    BY <1>2, <1>4, <2>2, <2>3, <2>4
<1>9. QED
  BY <1>1, <1>2, <1>3, <1>7, <1>8 DEF Base, Saved, Queued, Placed

\* The block to apply next is the one above block_head on the way to fork_head.
LEMMA Applied ==
    ASSUME Base, pc = "apply"
    PROVE  LET b == Path(fork_head)[Num(block_head) + 1]
           IN  /\ fork_head \in 1..Len(blocks) /\ block_head \in 1..Len(blocks)
               /\ b \in known /\ b \in 1..Len(blocks)
               /\ blocks[block_head].num \in Nat /\ job.meet \in Nat
               /\ blocks[fork_head].num \in Nat
               /\ 1 <= job.meet /\ job.meet <= blocks[block_head].num
               /\ blocks[b].num = blocks[block_head].num + 1
               /\ blocks[b].num <= blocks[fork_head].num
               /\ blocks[fork_head].path[blocks[b].num] = b
               /\ \A k \in job.meet..blocks[fork_head].num : blocks[fork_head].path[k] \in known
<1>1. Tree(blocks) /\ Running(blocks, known, fork_head, block_head, pc, job)
  BY DEF Base
<1>2. fork_head \in 1..Len(blocks) /\ block_head \in 1..Len(blocks)
  BY <1>1, HeadsAreBlocks DEF Running
<1> DEFINE x == blocks[block_head].num
           y == blocks[fork_head].num
           n == job.meet
           b == blocks[fork_head].path[x + 1]
<1>3. /\ 1 <= n /\ n <= x /\ x < y /\ n \in Nat
      /\ \A k \in n..y : blocks[fork_head].path[k] \in known
  BY <1>1 DEF Running, JobType
<1>4. /\ x \in Nat /\ y \in Nat /\ Num(block_head) = x /\ Path(fork_head) = blocks[fork_head].path
      /\ \A k \in 1..y : /\ blocks[fork_head].path[k] \in 1..Len(blocks)
                         /\ blocks[blocks[fork_head].path[k]].num = k
  BY <1>1, <1>2, Way DEF Num, Path, NoBlock
<1> HIDE DEF x, y, n
<1>5. x + 1 \in n..y /\ x + 1 \in 1..y /\ x + 1 <= y
  BY <1>3, <1>4
<1>6. b \in known /\ b \in 1..Len(blocks) /\ blocks[b].num = x + 1
  BY <1>3, <1>4, <1>5
<1>7. Path(fork_head)[Num(block_head) + 1] = b
  BY <1>4
<1> HIDE DEF b
<1>8. blocks[fork_head].path[blocks[b].num] = b
  BY <1>6 DEF b
<1>9. QED
  BY <1>2, <1>3, <1>4, <1>5, <1>6, <1>7, <1>8 DEF x, y, n

LEMMA ApplyBase ==
    ASSUME Base, Apply
    PROVE  Base'
<1>1. /\ Tree(blocks) /\ Packs(blocks, pack)
      /\ Placed(known, pack, fork_head, block_head, log)
      /\ LogOK(blocks, log) /\ Running(blocks, known, fork_head, block_head, pc, job)
      /\ Queued(pack, job) /\ Saved(known, pc, file)
  BY DEF Base
<1> DEFINE b == Path(fork_head)[Num(block_head) + 1]
           f == fork_head
           n == job.meet
<1>2. pc = "apply" /\ blocks' = blocks /\ log' = log /\ file' = file
  BY DEF Apply
<1>3. /\ b \in known /\ b \in 1..Len(blocks) /\ f \in 1..Len(blocks)
      /\ blocks[block_head].num \in Nat /\ n \in Nat /\ 1 <= n /\ blocks[f].num \in Nat
      /\ n <= blocks[block_head].num
      /\ blocks[b].num = blocks[block_head].num + 1
      /\ blocks[b].num <= blocks[f].num
      /\ blocks[f].path[blocks[b].num] = b
      /\ \A k \in n..blocks[f].num : blocks[f].path[k] \in known
  BY <1>2, Applied
<1>4. job \in JobType(blocks)
  BY <1>1 DEF Running
<1>5. \/ /\ block_head' = b /\ pack' = [pack EXCEPT ![b].main = TRUE]
         /\ pc' = IF b = fork_head THEN "check" ELSE "apply"
         /\ known' = known /\ fork_head' = fork_head /\ job' = job
      \/ /\ known' = known \ RemovedWith(b, known)
         /\ fork_head' \in Longest(known', pack)
         /\ pc' = "check" /\ block_head' = block_head /\ pack' = pack /\ job' = job
      \/ /\ pc' = "idle" /\ job' = NoJob /\ known' = known /\ pack' = pack
         /\ fork_head' = fork_head /\ block_head' = block_head
  <2>1. ASSUME blocks[b].good
        PROVE  \/ ~blocks[b].good
               \/ /\ block_head' = b /\ pack' = [pack EXCEPT ![b].main = TRUE]
                  /\ pc' = IF b = fork_head THEN "check" ELSE "apply"
                  /\ known' = known /\ fork_head' = fork_head /\ job' = job
    BY <2>1 DEF Apply
  <2>2. QED
    BY <2>1 DEF Apply, Done, forkVars
<1> HIDE DEF b, f, n
<1>6. CASE /\ block_head' = b /\ pack' = [pack EXCEPT ![b].main = TRUE]
           /\ pc' = IF b = fork_head THEN "check" ELSE "apply"
           /\ known' = known /\ fork_head' = fork_head /\ job' = job
  <2>1. Packs(blocks, pack') /\ DOMAIN pack' = DOMAIN pack
    BY <1>1, <1>6, FlagPacks DEF SameLc
  <2>2. Placed(known', pack', fork_head', block_head', log')
    BY <1>1, <1>2, <1>3, <1>6, <2>1 DEF Placed
  <2>3. f # NoBlock
    BY <1>3 DEF NoBlock
  <2>4. Running(blocks, known, f, b, pc', job)
    <3>1. CASE pc' = "check"
      BY <1>4, <2>3, <3>1, RunningAt
    <3>2. CASE pc' = "apply" /\ b # f
      <4>1. blocks[f].path[blocks[f].num] = f
        BY <1>1, <1>3, Way
      <4>2. blocks[b].num # blocks[f].num
        BY <1>3, <3>2, <4>1
      <4>3. blocks[b].num < blocks[f].num /\ n <= blocks[b].num
        BY <1>3, <4>2, SMTT(60)
      <4>4. QED
        BY <1>3, <1>4, <2>3, <3>2, <4>3 DEF Running, Labels, n
    <3>3. QED
      BY <1>6, <3>1, <3>2 DEF f
  <2>5. Running(blocks', known', fork_head', block_head', pc', job')
    BY <1>2, <1>6, <2>4 DEF f
  <2>6. QED
    BY <1>1, <1>2, <1>6, <2>1, <2>2, <2>5 DEF Base, Saved, Queued
<1>7. CASE /\ known' = known \ RemovedWith(b, known)
           /\ fork_head' \in Longest(known', pack)
           /\ pc' = "check" /\ block_head' = block_head /\ pack' = pack /\ job' = job
  <2>1. fork_head' \in known' /\ known' \subseteq known
    BY <1>7 DEF Longest
  <2>2. fork_head' \in DOMAIN pack /\ fork_head' # NoBlock
    BY <1>1, <2>1 DEF Placed, Packs, NoBlock
  <2>3. Placed(known', pack', fork_head', block_head', log')
    BY <1>1, <1>2, <1>7, <2>1, <2>2 DEF Placed
  <2>4. Running(blocks', known', fork_head', block_head', pc', job')
    BY <1>2, <1>4, <1>7, <2>2, RunningAt
  <2>5. QED
    BY <1>1, <1>2, <1>7, <2>3, <2>4 DEF Base, Saved, Queued
<1>8. CASE /\ pc' = "idle" /\ job' = NoJob /\ known' = known /\ pack' = pack
           /\ fork_head' = fork_head /\ block_head' = block_head
  <2>1. NoJob \in JobType(blocks) /\ NoJob.todo = {}
    BY <1>1, TreeLen, NoJobType
  <2>2. Running(blocks', known', fork_head', block_head', pc', job')
    BY <1>2, <1>8, <2>1, RunningAt
  <2>3. QED
    BY <1>1, <1>2, <1>8, <2>1, <2>2 DEF Base, Saved, Queued
<1>9. QED
  BY <1>5, <1>6, <1>7, <1>8

LEMMA EndBase ==
    ASSUME Base
    PROVE  (Kill \/ Shutdown) => Base'
<1>1. /\ Tree(blocks) /\ Packs(blocks, pack)
      /\ Placed(known, pack, fork_head, block_head, log)
      /\ LogOK(blocks, log) /\ Running(blocks, known, fork_head, block_head, pc, job)
      /\ Queued(pack, job) /\ Saved(known, pc, file)
  BY DEF Base
<1>2. NoJob \in JobType(blocks) /\ NoJob.todo = {} /\ job \in JobType(blocks)
  BY <1>1, TreeLen, NoJobType DEF Running
<1>3. ASSUME Kill PROVE Base'
  <2>1. /\ pc' = "down" /\ job' = NoJob /\ file' = FALSE /\ blocks' = blocks /\ known' = known
        /\ pack' = pack /\ fork_head' = fork_head /\ block_head' = block_head /\ log' = log
    BY <1>3 DEF Kill, forkVars
  <2>2. Running(blocks', known', fork_head', block_head', pc', job')
    BY <1>2, <2>1, RunningAt
  <2>3. QED
    BY <1>1, <1>2, <2>1, <2>2 DEF Base, Saved, Queued
<1>4. ASSUME Shutdown PROVE Base'
  <2>1. /\ pc' = "down" /\ job' = job /\ blocks' = blocks /\ known' = known
        /\ pack' = pack /\ fork_head' = fork_head /\ block_head' = block_head /\ log' = log
    BY <1>4 DEF Shutdown, forkVars
  <2>2. file' = ForkDbSaved
    BY <1>4 DEF Shutdown
  <2>3. file' \in BOOLEAN /\ (file' => known' # {})
    BY <2>1, <2>2, Zenon DEF ForkDbSaved
  <2>4. Running(blocks', known', fork_head', block_head', pc', job')
    BY <1>2, <2>1, RunningAt
  <2>5. QED
    BY <1>1, <2>1, <2>3, <2>4 DEF Base, Saved, Queued
<1>5. QED
  BY <1>3, <1>4

LEMMA StartBase ==
    ASSUME Base, Start
    PROVE  Base'
<1>1. /\ Tree(blocks) /\ Packs(blocks, pack)
      /\ Placed(known, pack, fork_head, block_head, log)
      /\ LogOK(blocks, log) /\ Saved(known, pc, file)
  BY DEF Base
<1>2. /\ block_head' = RestartHead /\ ForkDbLoaded(RestartHead)
      /\ pc' = "idle" /\ job' = NoJob /\ file' = FALSE /\ blocks' = blocks /\ log' = log
  BY DEF Start, Done
<1>3. NoJob \in JobType(blocks) /\ NoJob.todo = {}
  BY <1>1, TreeLen, NoJobType
<1>4. Running(blocks', known', fork_head', block_head', pc', job')
  BY <1>2, <1>3, RunningAt
<1>5. CASE file
  <2>1. known' = known /\ pack' = pack /\ fork_head' = fork_head /\ block_head' = fork_head
    BY <1>2, <1>5 DEF ForkDbLoaded, RestartHead, forkVars
  <2>2. fork_head \in DOMAIN pack
    BY <1>1, <1>5 DEF Saved, Placed
  <2>3. Placed(known', pack', fork_head', block_head', log')
    BY <1>1, <1>2, <2>1, <2>2 DEF Placed
  <2>4. QED
    BY <1>1, <1>2, <1>3, <1>4, <2>1, <2>3 DEF Base, Saved, Queued
<1>6. CASE ~file
  <2> DEFINE h == Last(log)
             q == RootPack(h, FALSE)
  <2>1. /\ known' = {} /\ fork_head' = NoBlock /\ block_head' = h
        /\ pack' = [pack EXCEPT ![h] = q]
    BY <1>2, <1>6 DEF ForkDbLoaded, RestartHead
  <2>2. h \in DOMAIN pack /\ h \in 1..Len(blocks)
    <3>1. Len(log) \in Nat /\ Len(log) >= 1
      BY <1>1 DEF LogOK
    <3>2. h = log[Len(log)] /\ Len(log) \in 1..Len(log)
      BY <3>1 DEF Last
    <3>3. QED
      BY <1>1, <3>2 DEF Placed, Packs
  <2> HIDE DEF h
  <2>3. q \in PackTypeOf(Len(blocks)) /\ Len(q.win) <= DposNeed
    <3>1. h \in 0..Len(blocks) /\ NoBlock \in 0..Len(blocks)
      BY <1>1, <2>2, TreeLen DEF NoBlock
    <3>2. <<>> \in Seq(1..Len(blocks)) /\ Len(<<>>) = 0 /\ 0 <= DposNeed
      BY ForkDbAssumption
    <3>3. q.win = <<>>
      BY DEF RootPack
    <3>4. q \in PackTypeOf(Len(blocks))
      BY <3>1, <3>2 DEF RootPack, PackTypeOf
    <3>5. QED
      BY <3>2, <3>3, <3>4
  <2> HIDE DEF q
  <2>4. /\ DOMAIN pack' = DOMAIN pack /\ pack' = [c \in DOMAIN pack' |-> pack'[c]]
        /\ \A c \in DOMAIN pack : pack'[c] = IF c = h THEN q ELSE pack[c]
    BY <1>1, <2>1 DEF Packs
  <2>5. Packs(blocks, pack')
    BY <1>1, <2>3, <2>4 DEF Packs
  <2>6. Placed(known', pack', fork_head', block_head', log')
    BY <1>1, <1>2, <2>1, <2>2, <2>4 DEF Placed
  <2>7. QED
    BY <1>1, <1>2, <1>3, <1>4, <2>5, <2>6 DEF Base, Saved, Queued
<1>7. QED
  BY <1>1, <1>5, <1>6 DEF Saved

LEMMA InitBase ==
    ASSUME Init
    PROVE  Base
<1>1. PICK bld \in Builders : blocks = <<GenesisBlock(bld)>>
  BY DEF Init
<1>2. /\ known = {Genesis} /\ pack = [b \in {Genesis} |-> RootPack(b, TRUE)]
      /\ fork_head = Genesis /\ block_head = Genesis /\ log = <<Genesis>>
      /\ pc = "idle" /\ job = NoJob /\ file = FALSE
  BY DEF Init
<1> DEFINE g == GenesisBlock(bld)
<1>3. /\ g.prev = NoBlock /\ g.num = 1 /\ g.path = <<Genesis>> /\ g \in BlockType
  BY DEF GenesisBlock, BlockType, NoBlock, Genesis
<1> HIDE DEF g
<1>4. /\ blocks \in Seq(BlockType) /\ Len(blocks) = 1 /\ blocks[1] = g
  BY <1>1, <1>3 DEF g
<1>5. \A b \in 1..Len(blocks) : b = 1 /\ blocks[b] = g
  BY <1>4
<1>6. <<Genesis>> \in Seq(Nat) /\ Len(<<Genesis>>) = 1 /\ <<Genesis>>[1] = 1 /\ Genesis = 1
  BY DEF Genesis
<1>7. Tree(blocks)
  <2>1. ASSUME NEW b \in 1..Len(blocks) PROVE IsBlock(blocks, b)
    <3>1. b = 1 /\ blocks[b].num = 1 /\ blocks[b].prev = NoBlock /\ blocks[b].path = <<Genesis>>
      BY <1>3, <1>5
    <3>2. 1 \in Nat /\ 1 >= 1 /\ ~(1 > 1)
      OBVIOUS
    <3>3. QED
      BY <1>6, <3>1, <3>2, Zenon DEF IsBlock
  <2>2. ASSUME NEW b \in 1..Len(blocks), NEW n \in 1..blocks[b].num PROVE OnTheWay(blocks, b, n)
    <3>1. b = 1 /\ blocks[b] = g /\ n = 1 /\ blocks[1] = g
      BY <1>3, <1>5, <2>2, <1>4
    <3>2. blocks[b].path[n] = 1 /\ 1 \in 1..Len(blocks)
      BY <1>3, <1>4, <1>6, <3>1
    <3>3. QED
      BY <1>3, <3>1, <3>2 DEF OnTheWay
  <2>3. QED
    BY <1>4, <2>1, <2>2 DEF Tree
<1>8. Packs(blocks, pack)
  <2>1. /\ DOMAIN pack = {1} /\ pack[1] = RootPack(1, TRUE) /\ pack = [b \in DOMAIN pack |-> pack[b]]
    BY <1>2, <1>6
  <2>2. 1 \in 0..1 /\ 0 \in 0..1 /\ <<>> \in Seq(1..1) /\ Len(<<>>) = 0 /\ 0 <= DposNeed
    BY ForkDbAssumption
  <2>3. RootPack(1, TRUE) \in PackTypeOf(1) /\ RootPack(1, TRUE).win = <<>>
    BY <2>2 DEF RootPack, PackTypeOf, NoBlock
  <2>4. {1} \subseteq 1..1
    OBVIOUS
  <2>5. QED
    BY <1>4, <2>1, <2>2, <2>3, <2>4 DEF Packs
<1>9. log \in Seq(1..Len(blocks)) /\ Len(log) = 1 /\ log[1] = 1
  BY <1>2, <1>4, <1>6
<1>10. LogOK(blocks, log)
  BY <1>3, <1>4, <1>9 DEF LogOK
<1>11. Placed(known, pack, fork_head, block_head, log)
  BY <1>2, <1>6, <1>9 DEF Placed, NoBlock
<1>12. NoJob \in JobType(blocks) /\ NoJob.todo = {}
  BY <1>7, TreeLen, NoJobType
<1>13. Running(blocks, known, fork_head, block_head, pc, job)
  BY <1>2, <1>12, RunningAt
<1>14. QED
  BY <1>2, <1>7, <1>8, <1>10, <1>11, <1>12, <1>13 DEF Base, Saved, Queued

LEMMA StepBase ==
    ASSUME Base, [Next]_vars
    PROVE  Base'
<1>1. ASSUME UNCHANGED vars PROVE Base'
  <2>1. /\ blocks' = blocks /\ known' = known /\ pack' = pack /\ fork_head' = fork_head
        /\ block_head' = block_head /\ log' = log /\ pc' = pc /\ job' = job /\ file' = file
    BY <1>1 DEF vars, forkVars, nodeVars
  <2>2. QED
    BY <2>1 DEF Base
<1>2. ASSUME Step PROVE Base'
  BY <1>2, PushFromBase, GrowBase, PushedBase, CheckForkBase, PopBase, ApplyBase DEF Step
<1>3. ASSUME Kill \/ Shutdown \/ Start PROVE Base'
  BY <1>3, EndBase, StartBase
<1>4. QED
  BY <1>1, <1>2, <1>3, EventBase DEF Next

\* For any builders, blocks and forks, blocks that fail, confirmations and
\* ends of the process: the block log, to which on_irreversible appends,
\* is a chain; each block of it is built on the one before it.
THEOREM LogIsChain == Spec => []LogLinked
<1>1. Init => Base
  BY InitBase
<1>2. Base /\ [Next]_vars => Base'
  BY StepBase
<1>3. Base => LogLinked
  <2>1. SUFFICES ASSUME Base, NEW i \in 1..(Len(log) - 1)
                 PROVE  Prev(log[i + 1]) = log[i] /\ Num(log[i + 1]) = Num(log[i]) + 1
    BY DEF LogLinked
  <2>2. /\ log \in Seq(1..Len(blocks)) /\ Len(log) \in Nat
        /\ \A k \in 1..Len(log) : blocks[log[k]].num = k /\ (k > 1 => blocks[log[k]].prev = log[k - 1])
    <3>1. LogOK(blocks, log)
      BY <2>1 DEF Base
    <3>2. QED
      BY <3>1 DEF LogOK
  <2>3. i \in 1..Len(log) /\ i + 1 \in 1..Len(log) /\ i + 1 > 1 /\ (i + 1) - 1 = i
    BY <2>2
  <2>4. log[i] \in 1..Len(blocks) /\ log[i + 1] \in 1..Len(blocks)
    BY <2>2, <2>3
  <2>5. Num(log[i]) = i /\ Num(log[i + 1]) = i + 1
    BY <2>2, <2>3, <2>4 DEF Num, NoBlock
  <2>6. blocks[log[i + 1]].prev = log[(i + 1) - 1]
    BY <2>2, <2>3
  <2>7. QED
    BY <2>3, <2>5, <2>6 DEF Prev
<1>4. QED
  BY <1>1, <1>2, <1>3, PTL DEF Spec

(***************************************************************************)
(* The second invariant.  What Top depends on.                             *)
(***************************************************************************)
\* Everything the fork database and the heads hold has a number.
LEMMA Numbers ==
    ASSUME NEW B, Tree(B), NEW P, Packs(B, P), NEW K, NEW bh, NEW fh, NEW lg,
           Placed(K, P, fh, bh, lg)
    PROVE  /\ \A y \in DOMAIN P : /\ y # NoBlock /\ N(B, y) \in Nat
                                  /\ N(B, y) = B[y].num
                                  /\ N(B, P[y].lc) \in Nat /\ N(B, P[y].dpos) \in Nat
           /\ \A y \in 1..Len(B) : N(B, y) \in Nat
           /\ K \subseteq DOMAIN P /\ bh \in DOMAIN P
           /\ fh # NoBlock => fh \in DOMAIN P
<1>1. /\ DOMAIN P \subseteq 1..Len(B)
      /\ \A y \in DOMAIN P : P[y] \in PackTypeOf(Len(B))
  BY DEF Packs
<1>2. \A y \in 1..Len(B) : y \in 0..Len(B)
  OBVIOUS
<1>3. ASSUME NEW y \in DOMAIN P
      PROVE  /\ y # NoBlock /\ N(B, y) \in Nat /\ N(B, y) = B[y].num
             /\ N(B, P[y].lc) \in Nat /\ N(B, P[y].dpos) \in Nat
  <2>1. y \in 1..Len(B) /\ y # NoBlock
    BY <1>1 DEF NoBlock
  <2>2. P[y].lc \in 0..Len(B) /\ P[y].dpos \in 0..Len(B)
    BY <1>1 DEF PackTypeOf
  <2>3. N(B, P[y].lc) \in Nat
    BY <2>2, NumIsNat
  <2>4. N(B, P[y].dpos) \in Nat
    BY <2>2, NumIsNat
  <2>5. N(B, y) \in Nat /\ N(B, y) = B[y].num
    BY <2>1, <1>2, Way
  <2>6. QED
    BY <2>1, <2>3, <2>4, <2>5
<1>4. \A y \in 1..Len(B) : N(B, y) \in Nat
  BY <1>2, NumIsNat
<1>5. QED
  BY <1>3, <1>4 DEF Placed

\* Only last_confirmed_id counts.
LEMMA TopSameLc ==
    ASSUME NEW B, NEW P, NEW Q, NEW K, NEW bh, NEW fh, NEW lg, NEW l, NEW m,
           Placed(K, P, fh, bh, lg), SameLc(P, Q), Top(B, l, K, P, bh, fh, m)
    PROVE  Top(B, l, K, Q, bh, fh, m)
<1>1. /\ K \subseteq DOMAIN P /\ bh \in DOMAIN P /\ (fh # NoBlock => fh \in DOMAIN P)
  BY DEF Placed
<1>2. \A y \in DOMAIN P : Largest(B, l, y, P) => Largest(B, l, y, Q)
  BY DEF Largest, SameLc
<1>3. Below(B, l, K, P, bh, fh) => Below(B, l, K, Q, bh, fh)
  BY <1>1 DEF Below, SameLc
<1>4. l \in K /\ P[l].lc = l => Q[l].lc = l
  BY <1>1 DEF SameLc
<1>5. QED
  BY <1>1, <1>2, <1>3, <1>4 DEF Top

\* Another block that is known, or a head, becomes a head.
LEMMA TopHeads ==
    ASSUME NEW B, NEW P, NEW K, NEW bh, NEW fh, NEW l, NEW m,
           Top(B, l, K, P, bh, fh, m),
           \A y \in K : N(B, y) \in Nat, N(B, l) \in Nat,
           NEW b, b \in K \/ b = bh \/ (fh # NoBlock /\ b = fh),
           NEW f, f \in K \/ f = bh \/ f = fh
    PROVE  Top(B, l, K, P, b, f, m)
<1>1. Largest(B, l, b, P)
  BY DEF Top
<1>2. f # NoBlock => Largest(B, l, f, P)
  BY DEF Top
<1>3. Below(B, l, K, P, bh, fh) => Below(B, l, K, P, b, f)
  BY DEF Below
<1>4. QED
  BY <1>1, <1>2, <1>3 DEF Top

\* Blocks are erased, but not l.
LEMMA TopErased ==
    ASSUME NEW B, NEW P, NEW K, NEW bh, NEW fh, NEW l, NEW m,
           Top(B, l, K, P, bh, fh, m),
           NEW J \in SUBSET K, l \in K => l \in J
    PROVE  Top(B, l, J, P, bh, fh, m)
<1>1. Below(B, l, K, P, bh, fh) => Below(B, l, J, P, bh, fh)
  BY DEF Below
<1>2. QED
  BY <1>1 DEF Top

\* A new block arrives.
LEMMA TopGrows ==
    ASSUME NEW B, NEW C, NEW P, NEW K, NEW bh, NEW fh, NEW lg, NEW l, NEW m,
           Len(B) \in Nat, Len(C) = Len(B) + 1, \A b \in 1..Len(B) : C[b] = B[b],
           Packs(B, P), Placed(K, P, fh, bh, lg), Top(B, l, K, P, bh, fh, m)
    PROVE  Top(C, l, K, P, bh, fh, m)
<1>1. \A y \in 0..Len(B) : N(C, y) = N(B, y)
  <2>1. \A y \in 0..Len(B) : y # NoBlock => y \in 1..Len(B)
    BY DEF NoBlock
  <2>2. QED
    BY <2>1 DEF N
<1>2. /\ DOMAIN P \subseteq 1..Len(B) /\ 1..Len(B) \subseteq 0..Len(B)
      /\ \A y \in DOMAIN P : P[y].lc \in 0..Len(B)
  BY DEF Packs, PackTypeOf
<1>3. \A y \in DOMAIN P : N(C, y) = N(B, y) /\ N(C, P[y].lc) = N(B, P[y].lc)
  BY <1>1, <1>2
<1>4. /\ K \subseteq DOMAIN P /\ bh \in DOMAIN P /\ (fh # NoBlock => fh \in DOMAIN P)
  BY DEF Placed
<1>5. l \in 1..Len(B) /\ N(C, l) = N(B, l) /\ l \in 1..Len(C)
  BY <1>1, <1>2 DEF Top
<1>6. \A y \in DOMAIN P : Largest(B, l, y, P) => Largest(C, l, y, P)
  BY <1>3, <1>5 DEF Largest
<1>7. Below(B, l, K, P, bh, fh) => Below(C, l, K, P, bh, fh)
  BY <1>3, <1>4, <1>5 DEF Below
<1>8. QED
  BY <1>4, <1>5, <1>6, <1>7 DEF Top

\* add_block inserts block b with a pack made from that of block p, which is
\* known or block_head.
LEMMA TopInserted ==
    ASSUME NEW B, NEW P, NEW Q, NEW K, NEW bh, NEW fh, NEW lg, NEW l, NEW m,
           Tree(B), Packs(B, P), Placed(K, P, fh, bh, lg), Top(B, l, K, P, bh, fh, m),
           NEW b \in 1..Len(B), b \notin K,
           NEW p, p \in K \/ p = bh, N(B, b) = N(B, p) + 1,
           Q[b].lc = P[p].lc,
           \A c \in DOMAIN P : c # b => Q[c] = P[c],
           NEW J, K \subseteq J, b \in J, \A y \in J : y \in K \/ y = b
    PROVE  Top(B, l, J, Q, bh, fh, m)
<1>1. /\ \A y \in DOMAIN P : y # NoBlock /\ N(B, y) \in Nat
      /\ K \subseteq DOMAIN P /\ bh \in DOMAIN P /\ (fh # NoBlock => fh \in DOMAIN P)
  BY Numbers
<1>2. p \in DOMAIN P /\ N(B, p) \in Nat
  BY <1>1
<1>3. l \in 1..Len(B) /\ N(B, l) \in Nat /\ N(B, l) >= m
  <2>1. l \in 1..Len(B) /\ N(B, l) >= m
    BY DEF Top
  <2>2. QED
    BY <2>1, Way
<1>4. Largest(B, l, b, Q)
  <2>1. Largest(B, l, p, P)
    BY DEF Top
  <2>2. QED
    BY <2>1 DEF Largest
<1>5. \A y \in DOMAIN P : y # b /\ Largest(B, l, y, P) => Largest(B, l, y, Q)
  BY DEF Largest
<1>6. /\ \A y \in K : Largest(B, l, y, P)
      /\ Largest(B, l, bh, P) /\ (fh # NoBlock => Largest(B, l, fh, P))
  BY DEF Top
<1>7. /\ \A y \in J : Largest(B, l, y, Q)
      /\ Largest(B, l, bh, Q) /\ (fh # NoBlock => Largest(B, l, fh, Q))
  BY <1>1, <1>4, <1>5, <1>6
<1>8. CASE l \in K /\ P[l].lc = l
  <2>1. Q[l].lc = l
    BY <1>1, <1>8
  <2>2. QED
    BY <1>3, <1>7, <1>8, <2>1 DEF Top
<1>9. CASE Below(B, l, K, P, bh, fh)
  <2>1. P[p].lc = l /\ N(B, p) >= N(B, l)
    BY <1>1, <1>3, <1>9 DEF Below
  <2>2. N(B, b) > N(B, l) /\ Q[b].lc = l
    BY <1>2, <1>3, <2>1
  <2>3. N(B, b) >= N(B, l) /\ b # l
    BY <1>2, <1>3, <2>1, <2>2
  <2>4. Below(B, l, J, Q, bh, fh)
    BY <1>1, <1>9, <2>2, <2>3 DEF Below
  <2>5. l \notin K
    BY <1>1, <1>3, <1>9 DEF Below
  <2>6. QED
    BY <1>3, <1>7, <2>3, <2>4, <2>5 DEF Top
<1>10. QED
  BY <1>8, <1>9 DEF Top

(***************************************************************************)
(* Every step keeps the second invariant.                                  *)
(***************************************************************************)
LEMMA NumIsN ==
    ASSUME NEW b
    PROVE  Num(b) = N(blocks, b)
BY DEF Num, N

\* The head of the fork database has the largest last_confirmed_id.
LEMMA LongestLc ==
    ASSUME Tree(blocks), NEW P, Packs(blocks, P), NEW K, K \subseteq DOMAIN P,
           NEW bh, NEW fh, NEW l, NEW m,
           Top(blocks, l, K, P, bh, fh, m), NEW h \in Longest(K, P)
    PROVE  P[h].lc = l
<1>1. h \in K /\ \A c \in K : ~Above(Rating(c, P), Rating(h, P))
  BY DEF Longest
<1>2. \A c \in K : P[c].lc \in 0..Len(blocks)
  BY DEF Packs, PackTypeOf
<1>3. \A c \in K : N(blocks, P[c].lc) \in Nat
  BY <1>2, NumIsNat
<1>4. \A c \in K : ~(N(blocks, P[c].lc) > N(blocks, P[h].lc))
  <2>1. SUFFICES ASSUME NEW c \in K, N(blocks, P[c].lc) > N(blocks, P[h].lc)
                 PROVE  Above(Rating(c, P), Rating(h, P))
    BY <1>1
  <2>2. Rating(c, P)[1] = N(blocks, P[c].lc) /\ Rating(h, P)[1] = N(blocks, P[h].lc)
    BY NumIsN DEF Rating
  <2>3. 1 \in 1..4 /\ \A j \in 1..(1 - 1) : FALSE
    OBVIOUS
  <2> HIDE DEF Rating
  <2>4. QED
    BY <2>1, <2>2, <2>3 DEF Above
<1>5. CASE l \in K /\ P[l].lc = l
  <2>1. Largest(blocks, l, h, P)
    BY <1>1 DEF Top
  <2>2. ~(N(blocks, l) > N(blocks, P[h].lc)) /\ N(blocks, l) \in Nat /\ N(blocks, P[h].lc) \in Nat
    BY <1>1, <1>3, <1>4, <1>5
  <2>3. QED
    BY <2>1, <2>2 DEF Largest
<1>6. CASE Below(blocks, l, K, P, bh, fh)
  BY <1>1, <1>6 DEF Below
<1>7. QED
  BY <1>5, <1>6 DEF Top

\* A handler that has not begun to grow or switch, or has ended.
LEMMA StageIdle ==
    ASSUME NEW B, NEW l, NEW K, NEW P, NEW j, NEW c \in {"idle", "recv", "build", "down"}
    PROVE  Stage(B, l, K, P, c, j)
BY DEF Stage

LEMMA AddBlockFinal ==
    ASSUME Base, Final, pc \in {"recv", "build"}, NEW b \in BlockIds,
           NEW p, p \in known \/ p = block_head, Prev(b) = p, NEW isMain \in BOOLEAN,
           NEW then \in {"pushed", "check"},
           AddBlock(b, PackOn(p, pack[p], isMain), then),
           UNCHANGED <<blocks, block_head, log, file>>
    PROVE  Final'
<1>1. /\ Tree(blocks) /\ Packs(blocks, pack)
      /\ Placed(known, pack, fork_head, block_head, log)
      /\ Running(blocks, known, fork_head, block_head, pc, job)
  BY DEF Base
<1>2. PICK l \in 1..Len(blocks) :
        Top(blocks, l, known, pack, block_head, fork_head, Len(log))
  BY DEF Final
<1>3. blocks' = blocks /\ block_head' = block_head /\ log' = log
  OBVIOUS
<1>4. CASE b \in known
  <2>1. pc' = "idle" /\ known' = known /\ pack' = pack /\ fork_head' = fork_head
    BY <1>4 DEF AddBlock, Done, forkVars
  <2>2. Stage(blocks', l, known', pack', pc', job')
    BY <2>1, StageIdle
  <2>3. QED
    BY <1>2, <1>3, <2>1, <2>2, SMTT(60) DEF Final
<1>5. CASE b \notin known
  <2> DEFINE q == PackOn(p, pack[p], isMain)
             P == Inserted(b, q, pack)
             J == known \cup {b}
             next == [job EXCEPT !.then = then]
             Grow(l2, Q) == /\ pack' = Q
                            /\ pc' = "grow"
                            /\ job' = [next EXCEPT !.todo = ToConfirm(l2, known', Q),
                                                   !.erase = ToErase(l2, known', Q)]
  <2>1. known' = J
    BY <1>5 DEF AddBlock
  <2>2. PICK h \in Longest(known', P) :
          /\ fork_head' = h
          /\ \/ GrowsByConfirmation(h, known', P) /\ Grow(P[h].lc, P)
             \/ /\ GrowsByDpos(h, known', P) /\ P[h].dpos \in known'
                /\ Grow(P[h].dpos, Confirming(P[h].dpos, known', P))
             \/ pack' = P /\ pc' = "idle"
             \/ ~GrowsByConfirmation(h, known', P) /\ pack' = P /\ pc' = then
    BY <1>5, ZenonT(60) DEF AddBlock, Done
  <2>3. b \in 1..Len(blocks) /\ p \in DOMAIN pack
    BY <1>1 DEF BlockIds, Placed
  <2>4. q \in PackTypeOf(Len(blocks)) /\ Len(q.win) <= DposNeed /\ q.lc = pack[p].lc
    BY <2>3, WorkingOn
  <2> HIDE DEF q
  <2>5. /\ Packs(blocks, P) /\ P[b] = q
        /\ \A c \in DOMAIN pack : c # b => P[c] = pack[c]
    <3>1. Packs(blocks, P)
      BY <1>1, <2>3, <2>4, InsertedPacks
    <3>2. P[b] = q /\ \A c \in DOMAIN pack : c # b => P[c] = pack[c]
      BY DEF Inserted
    <3>3. QED
      BY <3>1, <3>2
  <2>6. DOMAIN P = DOMAIN pack \cup {b}
    BY DEF Inserted
  <2> HIDE DEF P
  <2>7. p \in 1..Len(blocks) /\ N(blocks, b) = N(blocks, p) + 1
    <3>1. p \in 1..Len(blocks) /\ p # NoBlock
      BY <1>1, <2>3 DEF Packs, NoBlock
    <3>2. blocks[p].num = blocks[b].num - 1 /\ blocks[b].num \in Nat
      BY <1>1, <2>3, <3>1, PrevOnTree, Way DEF Prev
    <3>3. N(blocks, b) = blocks[b].num /\ N(blocks, p) = blocks[p].num
      BY <1>1, <2>3, <3>1, Way
    <3>4. QED
      BY <3>1, <3>2, <3>3
  <2>8. J \subseteq DOMAIN P /\ DOMAIN P \subseteq 1..Len(blocks)
    BY <1>1, <2>5, <2>6 DEF Placed, Packs
  <2>9. known \subseteq J /\ b \in J /\ \A y \in J : y \in known \/ y = b
    OBVIOUS
  <2> HIDE DEF J
  <2>10. Top(blocks, l, J, P, block_head, fork_head, Len(log))
    <3>1. P[b].lc = pack[p].lc /\ (p \in known \/ p = block_head)
      BY <2>4, <2>5
    <3>2. QED
      BY ONLY <1>1, <1>2, <1>5, <2>3, <2>5, <2>7, <2>9, <3>1, TopInserted, Zenon
  <2>11. /\ \A y \in 1..Len(blocks) : N(blocks, y) \in Nat
         /\ \A y \in J : N(blocks, y) \in Nat
    BY <1>1, <2>8, Way, SMTT(60)
  <2>12. h \in J
    BY <2>1, <2>2 DEF Longest
  <2>13. P[h].lc = l
    BY <1>1, <2>1, <2>2, <2>5, <2>10, <2>8, LongestLc
  <2>14. Top(blocks, l, J, P, block_head, h, Len(log))
    BY <2>10, <2>11, <2>12, TopHeads
  <2>15. job \in JobType(blocks)
    BY <1>1 DEF Running
  <2>16. ASSUME NEW d, NEW Q, Grow(d, Q)
         PROVE  /\ pack' = Q /\ pc' = "grow"
                /\ job'.todo = ToConfirm(d, J, Q) /\ job'.erase = ToErase(d, J, Q)
    BY <2>1, <2>15, <2>16 DEF JobType
  <2> HIDE DEF Grow
  <2>17. ASSUME NEW d, NEW Q, Grow(d, Q), d \in J, Q[d].lc = d
         PROVE  Stage(blocks, d, J, Q, pc', job')
    <3>1. /\ pc' = "grow" /\ job'.todo = ToConfirm(d, J, Q) /\ job'.erase = ToErase(d, J, Q)
      BY <2>16, <2>17
    <3>2. job'.erase = {y \in J : N(blocks, y) <= N(blocks, d) /\ y # d}
      BY <2>17, <3>1, NumIsN DEF ToErase
    <3>3. \A y \in job'.todo : y \in J /\ N(blocks, y) <= N(blocks, d)
      BY <3>1, NumIsN DEF ToConfirm
    <3>4. QED
      BY <2>17, <3>1, <3>2, <3>3 DEF Stage
  <2>18. CASE GrowsByConfirmation(h, known', P) /\ Grow(P[h].lc, P)
    <3>1. PICK y \in J : N(blocks, y) < N(blocks, l)
      BY <2>1, <2>13, <2>18, NumIsN DEF GrowsByConfirmation
    <3>2. ~Below(blocks, l, J, P, block_head, h)
      BY <2>11, <3>1 DEF Below
    <3>3. l \in J /\ P[l].lc = l
      BY <2>14, <3>2 DEF Top
    <3>4. Stage(blocks, l, J, P, pc', job') /\ pack' = P
      BY <2>13, <2>16, <2>17, <2>18, <3>3
    <3>5. QED
      BY <1>3, <2>1, <2>2, <2>14, <3>4 DEF Final
  <2>19. CASE /\ GrowsByDpos(h, known', P) /\ P[h].dpos \in known'
              /\ Grow(P[h].dpos, Confirming(P[h].dpos, known', P))
    <3> DEFINE d == P[h].dpos
               Q == Confirming(d, J, P)
    <3>1. /\ d \in J /\ Grow(d, Q)
          /\ \A y \in J : ~(N(blocks, y) < N(blocks, l))
          /\ \E y \in J : N(blocks, y) < N(blocks, d)
      BY <2>1, <2>13, <2>19, NumIsN DEF GrowsByDpos, GrowsByConfirmation
    <3>2. d \in 1..Len(blocks) /\ d \in DOMAIN P
      BY <2>8, <3>1
    <3> HIDE DEF d
    <3>3. /\ Packs(blocks, Q) /\ DOMAIN Q = DOMAIN P /\ Q[d].lc = d
          /\ \A y \in DOMAIN P : Q[y].lc \in {P[y].lc, d}
      BY <1>1, <2>5, <3>1, <3>2, ConfirmingPacks
    <3> HIDE DEF Q
    <3>4. N(blocks, l) < N(blocks, d)
      BY <2>11, <3>1, <3>2
    <3>5. \A y \in DOMAIN P : Largest(blocks, l, y, P) => Largest(blocks, d, y, Q)
      <4>1. SUFFICES ASSUME NEW y \in DOMAIN P, Largest(blocks, l, y, P)
                     PROVE  Largest(blocks, d, y, Q)
        OBVIOUS
      <4>2. P[y].lc \in 0..Len(blocks)
        BY <2>5 DEF Packs, PackTypeOf
      <4>3. N(blocks, P[y].lc) \in Nat /\ N(blocks, l) \in Nat /\ N(blocks, d) \in Nat
        BY <1>1, <2>11, <3>2, <4>2, NumIsNat
      <4>4. N(blocks, P[y].lc) < N(blocks, d)
        BY <3>4, <4>1, <4>3 DEF Largest
      <4>5. CASE Q[y].lc = d
        BY <4>3, <4>5 DEF Largest
      <4>6. CASE Q[y].lc = P[y].lc
        BY <4>3, <4>4, <4>6 DEF Largest
      <4>7. QED
        BY <3>3, <4>5, <4>6
    <3>6. Top(blocks, d, J, Q, block_head, h, Len(log))
      <4>1. N(blocks, d) >= Len(log)
        <5>1. N(blocks, l) >= Len(log) /\ Len(log) \in Nat
          BY <2>14 DEF Top, Base, LogOK
        <5>2. QED
          BY <2>11, <3>2, <3>4, <5>1
      <4>2. block_head \in DOMAIN P /\ h \in DOMAIN P
        BY <1>1, <2>6, <2>8, <2>12 DEF Placed
      <4>3. QED
        BY <2>8, <2>14, <3>1, <3>2, <3>3, <3>5, <4>1, <4>2 DEF Top
    <3>7. Stage(blocks, d, J, Q, pc', job') /\ pack' = Q
      BY <2>16, <2>17, <3>1, <3>3
    <3>8. QED
      BY <1>3, <2>1, <2>2, <3>2, <3>6, <3>7 DEF Final
  <2>20. CASE pack' = P /\ pc' = "idle"
    <3>1. Stage(blocks, l, J, P, pc', job')
      BY <2>20, StageIdle
    <3>2. QED
      BY <1>3, <2>1, <2>2, <2>14, <2>20, <3>1 DEF Final
  <2>21. CASE ~GrowsByConfirmation(h, known', P) /\ pack' = P /\ pc' = then
    <3>1. Floor(blocks, l, J)
      BY <2>1, <2>11, <2>13, <2>21, NumIsN DEF GrowsByConfirmation, Floor
    <3>2. Stage(blocks, l, J, P, pc', job')
      BY <2>21, <3>1 DEF Stage
    <3>3. QED
      BY <1>3, <2>1, <2>2, <2>14, <2>21, <3>2 DEF Final
  <2>22. QED
    BY <2>2, <2>18, <2>19, <2>20, <2>21, SMTT(60)
<1>6. QED
  BY <1>4, <1>5

\* A handler that ends and leaves the chain as it is.
LEMMA DoneFinal ==
    ASSUME Final, pc # "down", Done, UNCHANGED <<blocks, forkVars, block_head, log>>
    PROVE  Final'
<1>1. PICK l \in 1..Len(blocks) :
        Top(blocks, l, known, pack, block_head, fork_head, Len(log))
  BY DEF Final
<1>2. /\ pc' = "idle" /\ known' = known /\ pack' = pack /\ fork_head' = fork_head
      /\ blocks' = blocks /\ block_head' = block_head /\ log' = log
  BY DEF Done, forkVars
<1>3. Stage(blocks', l, known', pack', pc', job')
  BY <1>2, StageIdle
<1>4. QED
  BY <1>1, <1>2, <1>3 DEF Final

\* Receive and Build
LEMMA DeliverNewFinal ==
    ASSUME Base, Final, NEW p \in 1..Len(blocks), NEW bld \in Builders, NEW rank \in Ranks,
           NEW good \in BOOLEAN, NEW h \in {"recv", "build"}, NEW keys,
           blocks' = Append(blocks, NewBlock(p, bld, rank, good)),
           Deliver(Len(blocks) + 1, h, keys)
    PROVE  Final'
<1>1. /\ Tree(blocks) /\ Packs(blocks, pack)
      /\ Placed(known, pack, fork_head, block_head, log)
  BY DEF Base
<1> DEFINE new == NewBlock(p, bld, rank, good)
<1>2. /\ new \in BlockType /\ new.prev = p /\ new.num = blocks[p].num + 1
      /\ new.path = Append(blocks[p].path, Len(blocks) + 1)
  BY <1>1, NewBlockType
<1> HIDE DEF new
<1>3. /\ Len(blocks') = Len(blocks) + 1 /\ \A b \in 1..Len(blocks) : blocks'[b] = blocks[b]
  BY <1>1, <1>2, TreeGrows DEF new
<1>4. Len(blocks) \in Nat
  BY <1>1, TreeLen
<1>5. /\ pc = "idle" /\ pc' = h /\ known' = known /\ pack' = pack /\ fork_head' = fork_head
      /\ block_head' = block_head /\ log' = log
  BY DEF Deliver, forkVars
<1>6. PICK l \in 1..Len(blocks) :
        Top(blocks, l, known, pack, block_head, fork_head, Len(log))
  BY <1>5 DEF Final
<1>7. Top(blocks', l, known, pack, block_head, fork_head, Len(log))
  BY <1>1, <1>3, <1>4, <1>6, TopGrows
<1>8. Stage(blocks', l, known', pack', pc', job')
  BY <1>5, StageIdle
<1>9. l \in 1..Len(blocks')
  BY <1>3, <1>4
<1>10. QED
  BY <1>5, <1>7, <1>8, <1>9 DEF Final

LEMMA EventFinal ==
    ASSUME Cardinality(Builders) >= 3, Base, Final
    PROVE  /\ \A p \in BlockIds, bld \in Builders \ Own, rank \in Ranks, good \in BOOLEAN :
                Receive(p, bld, rank, good) => Final'
           /\ \A b \in BlockIds : ReceiveAgain(b) => Final'
           /\ \A bld \in Own, rank \in Ranks : Build(bld, rank) => Final'
           /\ \A b \in BlockIds : Confirm(b) => Final'
<1>1. /\ Tree(blocks) /\ Packs(blocks, pack)
      /\ Placed(known, pack, fork_head, block_head, log)
  BY DEF Base
<1>2. ASSUME NEW p \in BlockIds, NEW bld \in Builders \ Own, NEW rank \in Ranks,
             NEW good \in BOOLEAN, Receive(p, bld, rank, good)
      PROVE  Final'
  <2>1. blocks' = Append(blocks, NewBlock(p, bld, rank, good))
        /\ Deliver(Len(blocks) + 1, "recv", Own)
    BY <1>2 DEF Receive
  <2>2. p \in 1..Len(blocks) /\ bld \in Builders
    BY DEF BlockIds
  <2>3. QED
    BY <2>1, <2>2, DeliverNewFinal
<1>3. ASSUME NEW b \in BlockIds, ReceiveAgain(b) PROVE Final'
  <2>1. /\ pc' = "recv" /\ known' = known /\ pack' = pack /\ fork_head' = fork_head
        /\ blocks' = blocks /\ block_head' = block_head /\ log' = log /\ pc = "idle"
    BY <1>3 DEF ReceiveAgain, Deliver, forkVars
  <2>2. PICK l \in 1..Len(blocks) :
          Top(blocks, l, known, pack, block_head, fork_head, Len(log))
    BY <2>1 DEF Final
  <2>3. Stage(blocks', l, known', pack', pc', job')
    BY <2>1, StageIdle
  <2>4. QED
    BY <2>1, <2>2, <2>3 DEF Final
<1>4. ASSUME NEW bld \in Own, NEW rank \in Ranks, Build(bld, rank) PROVE Final'
  <2>1. blocks' = Append(blocks, NewBlock(block_head, bld, rank, TRUE))
        /\ Deliver(Len(blocks) + 1, "build", Own \ {bld})
    BY <1>4 DEF Build
  <2>2. block_head \in 1..Len(blocks) /\ bld \in Builders
    BY HeadsAreBlocks, ChainNodeAssumption
  <2>3. QED
    BY <2>1, <2>2, DeliverNewFinal
<1>5. ASSUME NEW b \in BlockIds, Confirm(b) PROVE Final'
  <2>1. /\ pack' = Confirmed(b, known, pack) /\ known' = known /\ fork_head' = fork_head
        /\ blocks' = blocks /\ block_head' = block_head /\ log' = log
        /\ pc = "idle" /\ pc' = "idle"
    BY <1>5 DEF Confirm, nodeVars
  <2>2. SameLc(pack, pack')
    BY <1>1, <2>1, ConfirmedPacks DEF BlockIds
  <2>3. PICK l \in 1..Len(blocks) :
          Top(blocks, l, known, pack, block_head, fork_head, Len(log))
    BY <2>1 DEF Final
  <2>4. Top(blocks, l, known, pack', block_head, fork_head, Len(log))
    BY <1>1, <2>2, <2>3, TopSameLc
  <2>5. Stage(blocks', l, known', pack', pc', job')
    BY <2>1, StageIdle
  <2>6. QED
    BY <2>1, <2>3, <2>4, <2>5 DEF Final
<1>6. QED
  BY <1>2, <1>3, <1>4, <1>5

LEMMA PushFinal ==
    ASSUME Base, Final
    PROVE  (RecieveBlock \/ BuildBlock) => Final'
<1> DEFINE b == job.blk
<1>1. ASSUME pc \in {"recv", "build"}, NEW good, PushNext(b, good), Prev(b) = block_head,
             UNCHANGED <<blocks, file>>
      PROVE  Final'
  <2>1. b \in BlockIds
    BY <1>1, WorkingOn
  <2>2. block_head' = block_head /\ log' = log
    BY <1>1 DEF PushNext
  <2>3. CASE AddBlock(b, PackOn(block_head, pack[block_head], TRUE), "pushed")
    BY <1>1, <2>1, <2>2, <2>3, AddBlockFinal
  <2>4. CASE Done /\ UNCHANGED forkVars
    BY <1>1, <2>2, <2>4, DoneFinal
  <2>5. QED
    BY <1>1, <2>3, <2>4 DEF PushNext
<1>2. ASSUME RecieveBlock PROVE Final'
  <2>1. pc = "recv" /\ blocks' = blocks /\ file' = file
    BY <1>2 DEF RecieveBlock
  <2>2. CASE Prev(b) = block_head /\ PushNext(b, blocks[b].good)
    BY <2>1, <2>2, <1>1
  <2>3. CASE PushFork(b)
    <3>1. block_head' = block_head /\ log' = log
      BY <2>3 DEF PushFork
    <3>2. CASE Prev(b) \in known /\ AddBlock(b, PackOn(Prev(b), pack[Prev(b)], FALSE), "check")
      <4>1. b \in BlockIds
        BY <2>1, WorkingOn
      <4>2. QED
        BY <2>1, <3>1, <3>2, <4>1, AddBlockFinal
    <3>3. CASE Done /\ UNCHANGED forkVars
      BY <2>1, <3>1, <3>3, DoneFinal
    <3>4. QED
      BY <2>3, <3>2, <3>3 DEF PushFork
  <2>4. CASE Done /\ UNCHANGED <<forkVars, block_head, db, building, log, lib>>
    BY <2>1, <2>4, DoneFinal
  <2>5. QED
    BY <1>2, <2>2, <2>3, <2>4 DEF RecieveBlock
<1>3. ASSUME BuildBlock PROVE Final'
  <2>1. pc = "build" /\ PushNext(b, TRUE) /\ UNCHANGED <<blocks, file>>
    BY <1>3 DEF BuildBlock
  <2>2. Prev(b) = block_head
    BY <2>1 DEF Base, Running, Prev
  <2>3. QED
    BY <1>1, <2>1, <2>2
<1>4. QED
  BY <1>2, <1>3

LEMMA GrowFinal ==
    ASSUME Base, Final
    PROVE  (Commit \/ Erase \/ \E b \in BlockIds : Irreversible(b)) => Final'
<1>1. /\ Tree(blocks) /\ Packs(blocks, pack)
      /\ Placed(known, pack, fork_head, block_head, log)
      /\ LogOK(blocks, log) /\ Running(blocks, known, fork_head, block_head, pc, job)
  BY DEF Base
<1>2. job \in JobType(blocks)
  BY <1>1 DEF Running
<1>3. ASSUME NEW b \in BlockIds, Irreversible(b) PROVE Final'
  <2>1. /\ pc = "grow" /\ known' = known /\ pack' = pack /\ fork_head' = fork_head
        /\ blocks' = blocks /\ block_head' = block_head
        /\ UNCHANGED forkVars /\ b \in job.todo
    BY <1>3 DEF Irreversible, forkVars, NextConfirmed
  <2>2. CASE Done /\ UNCHANGED <<lib, log>>
    BY <2>1, <2>2, DoneFinal
  <2>3. CASE LinksToLog(b) /\ log' = Append(log, b) /\ pc' = "commit" /\ UNCHANGED job
    <3>1. PICK l \in 1..Len(blocks) :
            /\ Top(blocks, l, known, pack, block_head, fork_head, Len(log))
            /\ Stage(blocks, l, known, pack, pc, job)
      BY <2>1 DEF Final
    <3>2. N(blocks, b) <= N(blocks, l) /\ N(blocks, b) \in Nat /\ N(blocks, l) \in Nat
      BY <1>1, <2>1, <3>1, Way DEF Stage, BlockIds
    <3>3. log \in Seq(1..Len(blocks)) /\ Len(log) \in Nat /\ Len(log) \in 1..Len(log)
      BY <1>1 DEF LogOK
    <3>4. N(blocks, b) - 1 = Len(log)
      <4>1. Last(log) = log[Len(log)] /\ log[Len(log)] \in 1..Len(blocks)
        BY <3>3 DEF Last
      <4>2. Num(Last(log)) = Len(log)
        BY <1>1, <3>3, <4>1 DEF LogOK, Num, NoBlock
      <4>3. QED
        BY <2>3, <4>2, NumIsN DEF LinksToLog
    <3>5. Len(log') = Len(log) + 1
      BY <2>3, <3>3
    <3>6. N(blocks, l) >= Len(log')
      BY <3>2, <3>3, <3>4, <3>5
    <3>7. Top(blocks, l, known, pack, block_head, fork_head, Len(log'))
      BY <3>1, <3>6 DEF Top
    <3>8. Stage(blocks, l, known, pack, pc', job')
      BY <2>1, <2>3, <3>1 DEF Stage
    <3>9. QED
      BY <2>1, <2>3, <3>7, <3>8 DEF Final
  <2>4. QED
    BY <1>3, <2>2, <2>3 DEF Irreversible
<1>4. ASSUME Commit PROVE Final'
  <2>1. /\ pc = "commit" /\ pack' = [pack EXCEPT ![Last(log)].irr = TRUE] /\ pc' = "grow"
        /\ job' = [job EXCEPT !.todo = @ \ {Last(log)}]
        /\ known' = known /\ fork_head' = fork_head /\ log' = log
        /\ blocks' = blocks /\ block_head' = block_head
    BY <1>4 DEF Commit
  <2>2. PICK l \in 1..Len(blocks) :
          /\ Top(blocks, l, known, pack, block_head, fork_head, Len(log))
          /\ Stage(blocks, l, known, pack, pc, job)
    BY <2>1 DEF Final
  <2>3. SameLc(pack, pack')
    BY <1>1, <2>1, FlagPacks
  <2>4. Top(blocks, l, known, pack', block_head, fork_head, Len(log))
    BY <1>1, <2>2, <2>3, TopSameLc
  <2>5. job'.todo \subseteq job.todo /\ job'.erase = job.erase
    BY <1>2, <2>1 DEF JobType
  <2>6. l \in known /\ pack'[l].lc = l
    BY <1>1, <2>1, <2>2, <2>3 DEF Stage, Placed, SameLc
  <2>7. Stage(blocks, l, known, pack', pc', job')
    BY <2>1, <2>2, <2>5, <2>6 DEF Stage
  <2>8. QED
    BY <2>1, <2>4, <2>7 DEF Final
<1>5. ASSUME Erase PROVE Final'
  <2>1. /\ pc = "grow" /\ pack' = pack /\ pc' = job.then
        /\ known' = known \ job.erase /\ fork_head' = fork_head /\ log' = log
        /\ blocks' = blocks /\ block_head' = block_head
    BY <1>5 DEF Erase
  <2>2. PICK l \in 1..Len(blocks) :
          /\ Top(blocks, l, known, pack, block_head, fork_head, Len(log))
          /\ Stage(blocks, l, known, pack, pc, job)
    BY <2>1 DEF Final
  <2>3. l \in known /\ job.erase = {b \in known : N(blocks, b) <= N(blocks, l) /\ b # l}
    BY <2>1, <2>2 DEF Stage
  <2>4. l \in known' /\ known' \in SUBSET known
    BY <2>1, <2>3
  <2>5. Top(blocks, l, known', pack, block_head, fork_head, Len(log))
    BY <2>2, <2>4, TopErased
  <2>6. \A y \in known : N(blocks, y) \in Nat /\ N(blocks, l) \in Nat
    BY <1>1, Numbers
  <2>7. Floor(blocks, l, known')
    BY <2>1, <2>3, <2>6 DEF Floor
  <2>8. job.then \in {"pushed", "check"}
    BY <1>2 DEF JobType
  <2>9. Stage(blocks, l, known', pack', pc', job')
    BY <2>1, <2>7, <2>8 DEF Stage
  <2>10. QED
    BY <2>1, <2>5, <2>9 DEF Final
<1>6. QED
  BY <1>3, <1>4, <1>5

LEMMA PushedFinal ==
    ASSUME Cardinality(Builders) >= 3, Base, Final, Pushed
    PROVE  Final'
<1>1. /\ Tree(blocks) /\ Packs(blocks, pack)
      /\ Placed(known, pack, fork_head, block_head, log)
      /\ Running(blocks, known, fork_head, block_head, pc, job)
  BY DEF Base
<1>2. /\ pc = "pushed" /\ block_head' = fork_head /\ pc' = "idle"
      /\ blocks' = blocks /\ known' = known /\ fork_head' = fork_head /\ log' = log
      /\ \/ pack' = pack
         \/ pack' = OwnConfirmed(job.blk) /\ fork_head = job.blk
  BY Zenon DEF Pushed, Done
<1>3. fork_head # NoBlock /\ fork_head \in 1..Len(blocks)
  BY <1>1, <1>2, HeadsAreBlocks DEF Running
<1>4. SameLc(pack, pack')
  <2>1. SameLc(pack, Confirmed(fork_head, known, pack)) /\ SameLc(pack, pack)
    BY <1>1, <1>3, ConfirmedPacks DEF SameLc
  <2>2. QED
    BY <1>2, <2>1 DEF OwnConfirmed
<1>5. PICK l \in 1..Len(blocks) :
        Top(blocks, l, known, pack, block_head, fork_head, Len(log))
  BY <1>2 DEF Final
<1>6. Top(blocks, l, known, pack', block_head, fork_head, Len(log))
  BY <1>1, <1>4, <1>5, TopSameLc
<1>7. N(blocks, l) \in Nat /\ \A y \in known : N(blocks, y) \in Nat
  BY <1>1, Numbers
<1>8. Top(blocks, l, known, pack', fork_head, fork_head, Len(log))
  BY <1>3, <1>6, <1>7, TopHeads
<1>9. Stage(blocks, l, known, pack', pc', job')
  BY <1>2, StageIdle
<1>10. QED
  BY <1>2, <1>8, <1>9 DEF Final

LEMMA CheckForkFinal ==
    ASSUME Base, Final, CheckFork
    PROVE  Final'
<1>1. /\ pc = "check" /\ blocks' = blocks /\ known' = known /\ pack' = pack
      /\ fork_head' = fork_head /\ block_head' = block_head /\ log' = log /\ file' = file
      /\ UNCHANGED forkVars
  BY DEF CheckFork, forkVars
<1>2. file = FALSE
  BY <1>1 DEF Base, Saved
<1>3. Done \/ pc' = "pop" \/ pc' = "down"
  BY DEF CheckFork
<1>4. CASE Done
  BY <1>1, <1>4, DoneFinal
<1>5. CASE pc' = "pop"
  <2>1. PICK l \in 1..Len(blocks) :
          /\ Top(blocks, l, known, pack, block_head, fork_head, Len(log))
          /\ Stage(blocks, l, known, pack, pc, job)
    BY <1>1 DEF Final
  <2>2. Stage(blocks, l, known, pack, pc', job')
    BY <1>1, <1>5, <2>1 DEF Stage
  <2>3. QED
    BY <1>1, <2>1, <2>2 DEF Final
<1>6. CASE pc' = "down"
  BY <1>1, <1>2, <1>6 DEF Final
<1>7. QED
  BY <1>3, <1>4, <1>5, <1>6

LEMMA PopFinal ==
    ASSUME Base, Final, Pop
    PROVE  Final'
<1>1. /\ Tree(blocks) /\ Packs(blocks, pack)
      /\ Placed(known, pack, fork_head, block_head, log)
  BY DEF Base
<1> DEFINE b == Prev(block_head)
<1>2. /\ pc = "pop" /\ block_head' = b /\ pack' = [pack EXCEPT ![block_head].main = FALSE]
      /\ blocks' = blocks /\ known' = known /\ fork_head' = fork_head /\ log' = log
      /\ pc' \in {"pop", "check", "apply"}
  BY DEF Pop
<1>3. b \in known
  <2> DEFINE y == blocks[block_head].num
  <2>1. /\ y \in Nat /\ job.meet \in Nat /\ job.meet < y /\ b = blocks[block_head].path[y - 1]
        /\ \A k \in job.meet..(y - 1) : blocks[block_head].path[k] \in known
    BY <1>2, Popped
  <2> HIDE DEF y
  <2>2. y - 1 \in job.meet..(y - 1)
    BY <2>1
  <2>3. QED
    BY <2>1, <2>2
<1> HIDE DEF b
<1>4. PICK l \in 1..Len(blocks) :
        /\ Top(blocks, l, known, pack, block_head, fork_head, Len(log))
        /\ Stage(blocks, l, known, pack, pc, job)
  BY <1>2 DEF Final
<1>5. SameLc(pack, pack')
  BY <1>1, <1>2, FlagPacks
<1>6. Top(blocks, l, known, pack', block_head, fork_head, Len(log))
  BY <1>1, <1>4, <1>5, TopSameLc
<1>7. N(blocks, l) \in Nat /\ \A y \in known : N(blocks, y) \in Nat
  BY <1>1, Numbers
<1>8. Top(blocks, l, known, pack', b, fork_head, Len(log))
  BY <1>3, <1>6, <1>7, TopHeads
<1>9. Stage(blocks, l, known, pack', pc', job')
  BY <1>2, <1>4 DEF Stage
<1>10. QED
  BY <1>2, <1>8, <1>9 DEF Final

LEMMA ApplyFinal ==
    ASSUME Base, Final, Apply
    PROVE  Final'
<1>1. /\ Tree(blocks) /\ Packs(blocks, pack)
      /\ Placed(known, pack, fork_head, block_head, log)
  BY DEF Base
<1> DEFINE b == Path(fork_head)[Num(block_head) + 1]
<1>2. pc = "apply" /\ blocks' = blocks /\ log' = log
  BY DEF Apply
<1>3. \/ /\ block_head' = b /\ pack' = [pack EXCEPT ![b].main = TRUE]
         /\ pc' \in {"check", "apply"} /\ known' = known /\ fork_head' = fork_head
      \/ /\ known' = known \ RemovedWith(b, known)
         /\ fork_head' \in Longest(known', pack)
         /\ pc' = "check" /\ block_head' = block_head /\ pack' = pack
      \/ /\ pc' = "idle" /\ known' = known /\ pack' = pack
         /\ fork_head' = fork_head /\ block_head' = block_head
  BY DEF Apply, Done, forkVars
<1>4. /\ b \in known /\ b \in 1..Len(blocks) /\ fork_head \in 1..Len(blocks)
      /\ job.meet \in Nat /\ blocks[block_head].num \in Nat /\ blocks[fork_head].num \in Nat
      /\ 1 <= job.meet /\ job.meet <= blocks[block_head].num
      /\ blocks[b].num = blocks[block_head].num + 1
      /\ blocks[b].num <= blocks[fork_head].num
      /\ \A k \in job.meet..blocks[fork_head].num : blocks[fork_head].path[k] \in known
  BY <1>2, Applied
<1> HIDE DEF b
<1>5. PICK l \in 1..Len(blocks) :
        /\ Top(blocks, l, known, pack, block_head, fork_head, Len(log))
        /\ Stage(blocks, l, known, pack, pc, job)
  BY <1>2 DEF Final
<1>6. N(blocks, l) \in Nat /\ N(blocks, l) = blocks[l].num
      /\ \A y \in known : N(blocks, y) \in Nat
  BY <1>1, Numbers, Way
<1>7. Floor(blocks, l, known)
  BY <1>2, <1>5 DEF Stage
<1>8. CASE /\ block_head' = b /\ pack' = [pack EXCEPT ![b].main = TRUE]
           /\ pc' \in {"check", "apply"} /\ known' = known /\ fork_head' = fork_head
  <2>1. SameLc(pack, pack')
    BY <1>1, <1>8, FlagPacks
  <2>2. Top(blocks, l, known, pack', block_head, fork_head, Len(log))
    BY <1>1, <1>5, <2>1, TopSameLc
  <2>3. Top(blocks, l, known, pack', b, fork_head, Len(log))
    BY <1>4, <1>6, <2>2, TopHeads
  <2>4. Stage(blocks, l, known, pack', pc', job')
    BY <1>7, <1>8 DEF Stage
  <2>5. QED
    BY <1>2, <1>8, <2>3, <2>4 DEF Final
<1>9. CASE /\ known' = known \ RemovedWith(b, known)
           /\ fork_head' \in Longest(known', pack)
           /\ pc' = "check" /\ block_head' = block_head /\ pack' = pack
  <2>1. fork_head' \in known' /\ known' \in SUBSET known
    BY <1>9 DEF Longest
  \* The block that is removed is above l.
  <2>2. N(blocks, l) < blocks[b].num
    <3> DEFINE a == blocks[fork_head].path[job.meet]
    <3>1. job.meet \in job.meet..blocks[fork_head].num /\ job.meet \in 1..blocks[fork_head].num
      BY <1>4, SMTT(60)
    <3>2. a \in known /\ a \in 1..Len(blocks) /\ blocks[a].num = job.meet
      BY <1>1, <1>4, <3>1, Way, SMTT(60)
    <3> HIDE DEF a
    <3>3. N(blocks, a) = job.meet
      BY <1>1, <3>2, Way
    <3>4. N(blocks, l) <= job.meet
      BY <1>4, <1>6, <1>7, <3>2, <3>3 DEF Floor
    <3>5. QED
      BY <1>4, <1>6, <3>4, SMTT(60)
  <2>3. l \notin RemovedWith(b, known)
    <3>1. l # b /\ Num(b) = blocks[b].num
      BY <1>1, <1>4, <1>6, <2>2, Way, NumIsN
    <3>2. Num(Prev(l)) < blocks[b].num
      <4>1. CASE Prev(l) = NoBlock
        BY <1>4, <4>1 DEF Num
      <4>2. CASE Prev(l) # NoBlock
        <5>1. /\ blocks[l].prev \in 1..Len(blocks)
              /\ blocks[blocks[l].prev].num = blocks[l].num - 1
          BY <1>1, <4>2, PrevOnTree DEF Prev
        <5>2. Num(Prev(l)) = blocks[l].num - 1
          BY <4>2, <5>1 DEF Num, Prev
        <5>3. QED
          BY <1>4, <1>6, <2>2, <5>2, SMTT(60)
      <4>3. QED
        BY <4>1, <4>2
    <3>3. QED
      BY <3>1, <3>2 DEF RemovedWith, IdBefore
  <2>4. l \in known => l \in known'
    BY <1>9, <2>3
  <2>5. Top(blocks, l, known', pack, block_head, fork_head, Len(log))
    BY <1>5, <2>1, <2>4, TopErased
  <2>6. \A y \in known' : N(blocks, y) \in Nat
    BY <1>6, <2>1
  <2>7. Top(blocks, l, known', pack, block_head, fork_head', Len(log))
    BY <1>6, <2>1, <2>5, <2>6, TopHeads
  <2>8. Floor(blocks, l, known')
    BY <1>7, <2>1 DEF Floor
  <2>9. Stage(blocks, l, known', pack, pc', job')
    BY <1>9, <2>8 DEF Stage
  <2>10. QED
    BY <1>2, <1>9, <2>7, <2>9 DEF Final
<1>10. CASE /\ pc' = "idle" /\ known' = known /\ pack' = pack
            /\ fork_head' = fork_head /\ block_head' = block_head
  <2>1. Stage(blocks, l, known', pack', pc', job')
    BY <1>10, StageIdle
  <2>2. QED
    BY <1>2, <1>5, <1>10, <2>1 DEF Final
<1>11. QED
  BY <1>3, <1>8, <1>9, <1>10

LEMMA EndFinal ==
    ASSUME Final
    PROVE  (Kill \/ Shutdown) => Final'
<1>1. ASSUME Kill PROVE Final'
  BY <1>1 DEF Kill, Final
<1>2. ASSUME Shutdown PROVE Final'
  <2>1. /\ pc = "idle" /\ pc' = "down" /\ job' = job /\ blocks' = blocks /\ known' = known
        /\ pack' = pack /\ fork_head' = fork_head /\ block_head' = block_head /\ log' = log
    BY <1>2 DEF Shutdown, forkVars
  <2>2. PICK l \in 1..Len(blocks) :
          Top(blocks, l, known, pack, block_head, fork_head, Len(log))
    BY <2>1 DEF Final
  <2>3. Stage(blocks', l, known', pack', pc', job')
    BY <2>1, StageIdle
  <2>4. QED
    BY <2>1, <2>2, <2>3 DEF Final
<1>3. QED
  BY <1>1, <1>2

LEMMA StartFinal ==
    ASSUME Base, Final, Start
    PROVE  Final'
<1>1. /\ Tree(blocks) /\ Packs(blocks, pack)
      /\ Placed(known, pack, fork_head, block_head, log)
      /\ LogOK(blocks, log) /\ Saved(known, pc, file)
  BY DEF Base
<1>2. /\ block_head' = RestartHead /\ ForkDbLoaded(RestartHead)
      /\ pc = "down" /\ pc' = "idle" /\ blocks' = blocks /\ log' = log
  BY DEF Start, Done
<1>3. CASE file
  <2>1. known' = known /\ pack' = pack /\ fork_head' = fork_head /\ block_head' = fork_head
    BY <1>2, <1>3 DEF ForkDbLoaded, RestartHead, forkVars
  <2>2. fork_head # NoBlock
    BY <1>1, <1>3 DEF Saved, Placed
  <2>3. PICK l \in 1..Len(blocks) :
          Top(blocks, l, known, pack, block_head, fork_head, Len(log))
    BY <1>3 DEF Final
  <2>4. N(blocks, l) \in Nat /\ \A y \in known : N(blocks, y) \in Nat
    BY <1>1, Numbers
  <2>5. Top(blocks, l, known, pack, fork_head, fork_head, Len(log))
    BY <2>2, <2>3, <2>4, TopHeads
  <2>6. Stage(blocks', l, known', pack', pc', job')
    BY <1>2, StageIdle
  <2>7. QED
    BY <1>2, <2>1, <2>5, <2>6 DEF Final
<1>4. CASE ~file
  <2> DEFINE h == Last(log)
  <2>1. /\ known' = {} /\ fork_head' = NoBlock /\ block_head' = h
        /\ pack' = [pack EXCEPT ![h] = RootPack(h, FALSE)]
    BY <1>2, <1>4 DEF ForkDbLoaded, RestartHead
  <2>2. h \in DOMAIN pack /\ h \in 1..Len(blocks) /\ blocks[h].num = Len(log)
        /\ Len(log) \in Nat
    <3>1. Len(log) \in Nat /\ Len(log) >= 1
      BY <1>1 DEF LogOK
    <3>2. h = log[Len(log)] /\ Len(log) \in 1..Len(log)
      BY <3>1 DEF Last
    <3>3. QED
      BY <1>1, <3>1, <3>2 DEF Placed, Packs, LogOK
  <2> HIDE DEF h
  <2>3. pack'[h].lc = h
    BY <2>1, <2>2 DEF RootPack
  <2>4. N(blocks, h) = Len(log)
    BY <1>1, <2>2, Way
  <2>5. Largest(blocks, h, h, pack')
    BY <2>2, <2>3, <2>4 DEF Largest
  <2>6. Below(blocks, h, {}, pack', h, NoBlock)
    BY <2>2, <2>3, <2>4 DEF Below
  <2>7. Top(blocks, h, {}, pack', h, NoBlock, Len(log))
    BY <2>2, <2>4, <2>5, <2>6 DEF Top
  <2>8. Stage(blocks', h, known', pack', pc', job')
    BY <1>2, StageIdle
  <2>9. QED
    BY <1>2, <2>1, <2>2, <2>7, <2>8 DEF Final
<1>5. QED
  BY <1>1, <1>3, <1>4 DEF Saved

LEMMA InitFinal ==
    ASSUME Init
    PROVE  Final
<1>1. Base
  BY InitBase
<1>2. /\ known = {1} /\ fork_head = 1 /\ block_head = 1 /\ pc = "idle"
      /\ pack = [b \in {1} |-> RootPack(b, TRUE)] /\ log = <<1>>
  BY DEF Init, Genesis
<1>3. pack[1].lc = 1 /\ Len(log) = 1
  BY <1>2 DEF RootPack
<1>4. 1 \in 1..Len(blocks) /\ N(blocks, 1) \in Nat /\ N(blocks, 1) >= 1
  <2>1. Tree(blocks)
    BY <1>1 DEF Base
  <2>2. 1 \in 1..Len(blocks)
    BY <2>1, TreeLen
  <2>3. QED
    BY <2>1, <2>2, Way
<1>5. Largest(blocks, 1, 1, pack)
  BY <1>3, <1>4 DEF Largest
<1>6. Top(blocks, 1, known, pack, block_head, fork_head, Len(log))
  BY <1>2, <1>3, <1>4, <1>5 DEF Top
<1>7. Stage(blocks, 1, known, pack, pc, job)
  BY <1>2, StageIdle
<1>8. QED
  BY <1>4, <1>6, <1>7 DEF Final

LEMMA StepFinal ==
    ASSUME Cardinality(Builders) >= 3, Base, Final, [Next]_vars
    PROVE  Final'
<1>1. ASSUME UNCHANGED vars PROVE Final'
  <2>1. /\ blocks' = blocks /\ known' = known /\ pack' = pack /\ fork_head' = fork_head
        /\ block_head' = block_head /\ log' = log /\ pc' = pc /\ job' = job /\ file' = file
    BY <1>1 DEF vars, forkVars, nodeVars
  <2>2. QED
    BY <2>1 DEF Final
<1>2. ASSUME Step PROVE Final'
  BY <1>2, PushFinal, GrowFinal, PushedFinal, CheckForkFinal, PopFinal, ApplyFinal DEF Step
<1>3. ASSUME Kill \/ Shutdown \/ Start PROVE Final'
  BY <1>3, EndFinal, StartFinal
<1>4. QED
  BY <1>1, <1>2, <1>3, EventFinal DEF Next

\* With three builders or more, and any blocks and forks, blocks that fail,
\* confirmations and ends of the process: _pop_block never takes back a block
\* that _irreversible_block wrote to the block log.
THEOREM NeverPopsIrreversible ==
    ASSUME Cardinality(Builders) >= 3
    PROVE  Spec => NeverPopIrreversible
<1>1. Init => Base /\ Final
  BY InitBase, InitFinal
<1>2. Base /\ Final /\ [Next]_vars => (Base /\ Final)'
  BY StepBase, StepFinal
<1>3. Base /\ Final /\ [Next]_vars => [Pop => block_head \notin Range(log)]_vars
  <2>1. SUFFICES ASSUME Base, Final, Pop
                 PROVE  block_head \notin Range(log)
    OBVIOUS
  <2>2. pc = "pop"
    BY <2>1 DEF Pop
  <2> DEFINE y == blocks[block_head].num
             n == job.meet
             a == blocks[fork_head].path[n]
  <2>3. /\ fork_head \in 1..Len(blocks) /\ y \in Nat /\ n \in Nat /\ 1 <= n /\ n < y
        /\ n <= blocks[fork_head].num
        /\ \A k \in n..blocks[fork_head].num : blocks[fork_head].path[k] \in known
    BY <2>1, <2>2, Popped
  <2>4. Tree(blocks) /\ LogOK(blocks, log)
    BY <2>1 DEF Base
  <2>5. blocks[fork_head].num \in Nat
        /\ \A k \in 1..blocks[fork_head].num :
             blocks[fork_head].path[k] \in 1..Len(blocks) /\ blocks[blocks[fork_head].path[k]].num = k
    BY <2>3, <2>4, Way
  <2>6. n \in n..blocks[fork_head].num /\ n \in 1..blocks[fork_head].num
    BY <2>3, <2>5
  <2>7. a \in known /\ a \in 1..Len(blocks) /\ blocks[a].num = n
    BY <2>3, <2>5, <2>6
  <2> HIDE DEF a, n, y
  <2>8. PICK l \in 1..Len(blocks) :
          /\ Top(blocks, l, known, pack, block_head, fork_head, Len(log))
          /\ Stage(blocks, l, known, pack, pc, job)
    BY <2>1, <2>2 DEF Final
  <2>9. N(blocks, a) = n /\ N(blocks, l) \in Nat
    BY <2>4, <2>7, Way
  <2>10. N(blocks, l) <= n /\ Len(log) <= N(blocks, l) /\ Len(log) \in Nat
    BY <2>2, <2>4, <2>7, <2>8, <2>9 DEF Stage, Floor, Top, LogOK
  <2>11. Len(log) < y
    BY <2>3, <2>9, <2>10
  <2>12. \A i \in 1..Len(log) : blocks[log[i]].num = i /\ i # y
    BY <2>3, <2>4, <2>10, <2>11 DEF LogOK
  <2>13. \A i \in DOMAIN log : i \in 1..Len(log)
    BY <2>4 DEF LogOK
  <2>14. QED
    BY <2>12, <2>13 DEF y, Range
<1>4. QED
  BY <1>1, <1>2, <1>3, PTL DEF Spec, NeverPopIrreversible

(***************************************************************************)
(* Block y is l or built on it.                                            *)
(***************************************************************************)
On(B, l, y) == N(B, l) <= N(B, y) /\ B[y].path[N(B, l)] = l

LEMMA OnWay ==
    ASSUME NEW B, Tree(B), NEW y \in 1..Len(B)
    PROVE  /\ N(B, y) \in Nat /\ N(B, y) >= 1 /\ N(B, y) = B[y].num
           /\ B[y].path \in Seq(Nat) /\ Len(B[y].path) = N(B, y)
           /\ On(B, y, y)
           /\ \A n \in 1..N(B, y) : /\ B[y].path[n] \in 1..Len(B)
                                    /\ N(B, B[y].path[n]) = n
                                    /\ On(B, B[y].path[n], y)
           /\ \A a \in 1..Len(B) : On(B, a, y) =>
                /\ N(B, a) \in 1..N(B, y) /\ B[y].path[N(B, a)] = a
                /\ \A k \in 1..N(B, a) : B[a].path[k] = B[y].path[k]
<1>1. IsBlock(B, y) /\ \A n \in 1..B[y].num : OnTheWay(B, y, n)
  BY DEF Tree
<1>2. \A a \in 1..Len(B) : N(B, a) \in Nat /\ N(B, a) >= 1 /\ N(B, a) = B[a].num
  BY Way
<1>3. B[y].path \in Seq(Nat) /\ Len(B[y].path) = N(B, y) /\ B[y].path[N(B, y)] = y
  BY <1>1, <1>2 DEF IsBlock
<1>4. On(B, y, y)
  BY <1>2, <1>3 DEF On
<1>5. ASSUME NEW n \in 1..N(B, y)
      PROVE  /\ B[y].path[n] \in 1..Len(B) /\ N(B, B[y].path[n]) = n
             /\ On(B, B[y].path[n], y)
  <2>1. OnTheWay(B, y, n)
    BY <1>1, <1>2
  <2>2. B[y].path[n] \in 1..Len(B) /\ N(B, B[y].path[n]) = n
    BY <1>2, <2>1 DEF OnTheWay
  <2>3. QED
    BY <1>2, <2>2 DEF On
<1>6. ASSUME NEW a \in 1..Len(B), On(B, a, y)
      PROVE  /\ N(B, a) \in 1..N(B, y) /\ B[y].path[N(B, a)] = a
             /\ \A k \in 1..N(B, a) : B[a].path[k] = B[y].path[k]
  <2>1. N(B, a) \in 1..N(B, y) /\ B[y].path[N(B, a)] = a
    BY <1>2, <1>6 DEF On
  <2>2. OnTheWay(B, y, N(B, a))
    BY <1>1, <1>2, <2>1
  <2>3. QED
    BY <2>1, <2>2 DEF OnTheWay
<1>7. QED
  BY <1>2, <1>3, <1>4, <1>5, <1>6

LEMMA OnTrans ==
    ASSUME NEW B, Tree(B), NEW a \in 1..Len(B), NEW b \in 1..Len(B), NEW c \in 1..Len(B),
           On(B, a, b), On(B, b, c)
    PROVE  On(B, a, c)
<1>1. N(B, a) \in 1..N(B, b) /\ B[b].path[N(B, a)] = a
  BY OnWay
<1>2. N(B, b) \in 1..N(B, c) /\ \A k \in 1..N(B, b) : B[b].path[k] = B[c].path[k]
  BY OnWay, SMTT(60)
<1>3. N(B, a) \in Nat /\ N(B, b) \in Nat /\ N(B, c) \in Nat
  BY OnWay
<1>4. QED
  BY <1>1, <1>2, <1>3 DEF On

LEMMA OnChain ==
    ASSUME NEW B, Tree(B), NEW a \in 1..Len(B), NEW b \in 1..Len(B), NEW c \in 1..Len(B),
           On(B, a, c), On(B, b, c), N(B, a) <= N(B, b)
    PROVE  On(B, a, b)
<1>1. N(B, a) \in 1..N(B, c) /\ B[c].path[N(B, a)] = a
  BY OnWay
<1>2. N(B, b) \in 1..N(B, c) /\ \A k \in 1..N(B, b) : B[b].path[k] = B[c].path[k]
  BY OnWay, SMTT(60)
<1>3. N(B, a) \in Nat /\ N(B, b) \in Nat /\ N(B, c) \in Nat /\ N(B, a) >= 1
  BY OnWay
<1>4. QED
  BY <1>1, <1>2, <1>3 DEF On

LEMMA OnSame ==
    ASSUME NEW B, Tree(B), NEW a \in 1..Len(B), NEW c \in 1..Len(B),
           On(B, a, c), N(B, a) = N(B, c)
    PROVE  a = c
<1>1. B[c].path[N(B, a)] = a /\ On(B, c, c)
  BY OnWay
<1>2. B[c].path[N(B, c)] = c
  BY <1>1, OnWay
<1>3. QED
  BY <1>1, <1>2

LEMMA OnPrev ==
    ASSUME NEW B, Tree(B), NEW b \in 1..Len(B), NEW p \in 1..Len(B), B[b].prev = p
    PROVE  /\ N(B, b) = N(B, p) + 1 /\ On(B, p, b) /\ N(B, p) \in Nat /\ N(B, p) >= 1
           /\ p # b
           /\ B[b].path = Append(B[p].path, b)
           /\ \A a \in 1..Len(B) : On(B, a, b) <=> a = b \/ On(B, a, p)
           /\ \A k \in 1..N(B, p) : B[b].path[k] = B[p].path[k]
<1>1. B[p].num = B[b].num - 1 /\ B[b].num > 1 /\ B[b].num \in Nat
      /\ \A k \in 1..B[b].num - 1 : B[p].path[k] = B[b].path[k]
  BY PrevOnTree, Way DEF NoBlock
<1>2. N(B, b) = N(B, p) + 1 /\ N(B, p) \in Nat /\ N(B, p) >= 1 /\ N(B, b) = B[b].num
      /\ \A k \in 1..N(B, p) : B[b].path[k] = B[p].path[k]
  BY <1>1, OnWay
<1>3. B[p].path[N(B, p)] = p /\ B[b].path[N(B, b)] = b
  <2>1. On(B, p, p) /\ On(B, b, b)
    BY OnWay
  <2>2. QED
    BY <2>1, OnWay
<1>4. B[b].path[N(B, p)] = p
  BY <1>2, <1>3
<1>5. On(B, p, b)
  BY <1>2, <1>4 DEF On
<1>6. B[b].path = Append(B[p].path, b)
  <2> DEFINE s == B[b].path
             t == B[p].path
  <2>1. s \in Seq(Nat) /\ t \in Seq(Nat) /\ Len(s) = Len(t) + 1 /\ b \in Nat
        /\ Len(t) = N(B, p) /\ Len(t) \in Nat
    BY <1>2, OnWay
  <2>2. \A k \in 1..Len(t) : s[k] = t[k]
    BY <1>2, <2>1
  <2>3. s[Len(t) + 1] = b
    BY <1>2, <1>3, <2>1
  <2> HIDE DEF s, t
  <2>4. s = Append(t, b)
    BY <2>1, <2>2, <2>3
  <2>5. QED
    BY <2>4 DEF s, t
<1>7. ASSUME NEW a \in 1..Len(B) PROVE On(B, a, b) <=> a = b \/ On(B, a, p)
  <2>1. CASE On(B, a, b)
    <3>1. N(B, a) \in 1..N(B, b)
      BY <2>1, OnWay
    <3>2. CASE N(B, a) = N(B, b)
      BY <2>1, <3>2, OnSame
    <3>3. CASE N(B, a) # N(B, b)
      <4>1. N(B, a) <= N(B, p)
        BY <1>2, <3>1, <3>3
      <4>2. QED
        BY <2>1, <1>5, <4>1, OnChain
    <3>4. QED
      BY <2>1, <3>2, <3>3
  <2>2. CASE On(B, a, p)
    BY <1>5, <2>2, OnTrans
  <2>3. CASE a = b
    BY <2>3, OnWay
  <2>4. QED
    BY <2>1, <2>2, <2>3
<1>8. p # b
  BY <1>2
<1>9. QED
  BY <1>2, <1>5, <1>6, <1>7, <1>8

\* More blocks change nothing for those there are.
LEMMA OnGrows ==
    ASSUME NEW B, NEW C, Len(B) \in Nat, \A b \in 1..Len(B) : C[b] = B[b]
    PROVE  /\ \A b \in 0..Len(B) : N(C, b) = N(B, b)
           /\ \A a \in 0..Len(B), b \in 1..Len(B) : On(C, a, b) <=> On(B, a, b)
<1>1. \A b \in 0..Len(B) : N(C, b) = N(B, b)
  BY DEF N, NoBlock
<1>2. QED
  BY <1>1 DEF On

(***************************************************************************)
(* Turns of builders, counted in the blocks B.                             *)
(***************************************************************************)
TurnsOf(B, q, n) == Cardinality({m \in n..(Len(q) - 2) : B[q[m]].bld # B[q[m + 1]].bld})

LEMMA TurnsIsTurnsOf ==
    ASSUME NEW q, NEW n
    PROVE  Turns(q, n) = TurnsOf(blocks, q, n)
BY DEF Turns, TurnsOf

LEMMA TurnsFinite ==
    ASSUME NEW B, NEW q, Len(q) \in Nat, NEW n \in Nat
    PROVE  /\ IsFiniteSet({m \in n..(Len(q) - 2) : B[q[m]].bld # B[q[m + 1]].bld})
           /\ TurnsOf(B, q, n) \in Nat
           /\ TurnsOf(B, q, n) <= (IF n > Len(q) - 2 THEN 0 ELSE Len(q) - 1 - n)
<1> DEFINE S == n..(Len(q) - 2)
           T == {m \in S : B[q[m]].bld # B[q[m + 1]].bld}
<1>1. IsFiniteSet(S) /\ Cardinality(S) = IF n > Len(q) - 2 THEN 0 ELSE (Len(q) - 2) - n + 1
  <2> DEFINE b == Len(q) - 2
  <2>1. b \in Int /\ n \in Int
    OBVIOUS
  <2> HIDE DEF b
  <2>2. IsFiniteSet(n..b) /\ Cardinality(n..b) = IF n > b THEN 0 ELSE b - n + 1
    BY <2>1, FS_Interval
  <2>3. QED
    BY <2>2 DEF b
<1>2. T \in SUBSET S
  OBVIOUS
<1> HIDE DEF S
<1>3. IsFiniteSet(T) /\ Cardinality(T) <= Cardinality(S)
  BY <1>1, <1>2, FS_Subset
<1>4. Cardinality(T) \in Nat
  BY <1>3, FS_CardinalityType
<1>5. TurnsOf(B, q, n) = Cardinality(T)
  BY DEF TurnsOf, S
<1> HIDE DEF T
<1>6. QED
  BY <1>1, <1>3, <1>4, <1>5 DEF S, T

\* The more turns the lower it begins.
LEMMA TurnsFrom ==
    ASSUME NEW B, NEW q, Len(q) \in Nat, NEW n \in Nat, NEW m \in Nat, n <= m
    PROVE  TurnsOf(B, q, m) <= TurnsOf(B, q, n)
<1> DEFINE S == {k \in n..(Len(q) - 2) : B[q[k]].bld # B[q[k + 1]].bld}
           T == {k \in m..(Len(q) - 2) : B[q[k]].bld # B[q[k + 1]].bld}
<1>1. T \in SUBSET S
  OBVIOUS
<1>2. IsFiniteSet(S)
  BY TurnsFinite
<1>3. TurnsOf(B, q, m) = Cardinality(T) /\ TurnsOf(B, q, n) = Cardinality(S)
  BY DEF TurnsOf
<1> HIDE DEF S, T
<1>4. QED
  BY <1>1, <1>2, <1>3, FS_Subset

\* A block c built on b has the turns of b, and one more if b has another
\* builder than the block before it.
LEMMA TurnsStep ==
    ASSUME NEW B, Tree(B), NEW b \in 1..Len(B), NEW c \in 1..Len(B), B[c].prev = b,
           NEW n \in Nat \ {0}
    PROVE  /\ TurnsOf(B, B[b].path, n) <= TurnsOf(B, B[c].path, n)
           /\ \A p \in 1..Len(B) : B[b].prev = p /\ B[p].bld # B[b].bld /\ n <= N(B, p) =>
                TurnsOf(B, B[b].path, n) + 1 <= TurnsOf(B, B[c].path, n)
<1> DEFINE q == B[b].path
           r == B[c].path
           S == {k \in n..(Len(q) - 2) : B[q[k]].bld # B[q[k + 1]].bld}
           T == {k \in n..(Len(r) - 2) : B[r[k]].bld # B[r[k + 1]].bld}
<1>1. /\ N(B, c) = N(B, b) + 1 /\ \A k \in 1..N(B, b) : r[k] = q[k]
      /\ N(B, b) \in Nat /\ N(B, b) >= 1
  BY OnPrev
<1>2. Len(q) = N(B, b) /\ Len(r) = N(B, b) + 1 /\ Len(q) \in Nat /\ Len(r) \in Nat
  BY <1>1, OnWay
<1>3. n \in Nat /\ \A k \in n..(Len(q) - 2) : k \in n..(Len(r) - 2)
  BY <1>2
<1>4. ASSUME NEW k \in S PROVE k \in T
  <2>0. k \in n..(Len(q) - 2) /\ B[q[k]].bld # B[q[k + 1]].bld
    OBVIOUS
  <2>1. k \in n..(Len(r) - 2) /\ k \in 1..N(B, b) /\ k + 1 \in 1..N(B, b)
    BY ONLY <1>1, <1>2, <2>0, n \in Nat \ {0}, SMTT(60)
  <2>2. r[k] = q[k] /\ r[k + 1] = q[k + 1]
    BY <1>1, <2>1
  <2>3. QED
    BY <2>0, <2>1, <2>2
<1>5. IsFiniteSet(S) /\ IsFiniteSet(T) /\ Cardinality(S) \in Nat /\ Cardinality(T) \in Nat
  <2>1. \A w : Len(w) \in Nat =>
          IsFiniteSet({m \in n..(Len(w) - 2) : B[w[m]].bld # B[w[m + 1]].bld})
    BY TurnsFinite, ZenonT(60)
  <2>3. IsFiniteSet(S) /\ IsFiniteSet(T)
    BY <1>2, <2>1
  <2>2. QED
    BY <2>3, FS_CardinalityType
<1>6. TurnsOf(B, q, n) = Cardinality(S) /\ TurnsOf(B, r, n) = Cardinality(T)
  BY DEF TurnsOf
<1>7. ASSUME NEW p \in 1..Len(B), B[b].prev = p, B[p].bld # B[b].bld, n <= N(B, p)
      PROVE  N(B, p) \in T /\ N(B, p) \notin S
  <2>1. N(B, b) = N(B, p) + 1 /\ N(B, p) \in Nat /\ N(B, p) >= 1
        /\ \A k \in 1..N(B, p) : q[k] = B[p].path[k]
    BY <1>7, OnPrev
  <2>2. N(B, p) \in 1..N(B, p) /\ B[p].path[N(B, p)] = p
    <3>1. On(B, p, p)
      BY OnWay
    <3>2. QED
      BY <3>1, OnWay
  <2>3. q[N(B, b)] = b
    <3>1. On(B, b, b)
      BY OnWay
    <3>2. QED
      BY <3>1, OnWay
  <2>4. r[N(B, p)] = p /\ r[N(B, p) + 1] = b
    <3>1. N(B, p) \in 1..N(B, b) /\ N(B, p) + 1 \in 1..N(B, b)
      BY <2>1
    <3>2. q[N(B, p)] = p /\ q[N(B, p) + 1] = b
      BY <2>1, <2>2, <2>3
    <3>3. QED
      BY <1>1, <3>1, <3>2
  <2>5. N(B, p) \in n..(Len(r) - 2) /\ N(B, p) \notin n..(Len(q) - 2)
    BY <1>2, <1>7, <2>1
  <2>6. QED
    BY <1>7, <2>4, <2>5
<1>8. S \in SUBSET T
  BY <1>4
<1> HIDE DEF S, T
<1>9. Cardinality(S) <= Cardinality(T)
  BY <1>5, <1>8, FS_Subset
<1>10. ASSUME NEW p \in 1..Len(B), B[b].prev = p, B[p].bld # B[b].bld, n <= N(B, p)
       PROVE  Cardinality(S) + 1 <= Cardinality(T)
  <2>1. N(B, p) \in T /\ N(B, p) \notin S
    BY <1>7, <1>10
  <2>2. Cardinality(S \cup {N(B, p)}) = Cardinality(S) + 1
    BY <1>5, <2>1, FS_AddElement
  <2>3. S \cup {N(B, p)} \in SUBSET T
    BY <1>8, <2>1
  <2>4. Cardinality(S \cup {N(B, p)}) <= Cardinality(T)
    BY <1>5, <2>3, FS_Subset
  <2>5. QED
    BY <2>2, <2>4
<1>11. QED
  BY <1>6, <1>9, <1>10

\* More blocks change nothing for the turns on the way to one there is.
LEMMA TurnsGrow ==
    ASSUME NEW B, NEW C, Tree(B), \A b \in 1..Len(B) : C[b] = B[b],
           NEW b \in 1..Len(B), NEW n \in Nat \ {0}
    PROVE  TurnsOf(C, C[b].path, n) = TurnsOf(B, B[b].path, n)
<1> DEFINE q == B[b].path
<1>1. C[b].path = q /\ Len(q) = N(B, b) /\ N(B, b) \in Nat
      /\ \A k \in 1..N(B, b) : q[k] \in 1..Len(B)
  BY OnWay
<1>2. \A k \in n..(Len(q) - 2) : C[q[k]].bld = B[q[k]].bld /\ C[q[k + 1]].bld = B[q[k + 1]].bld
  <2>1. ASSUME NEW k \in n..(Len(q) - 2) PROVE k \in 1..N(B, b) /\ k + 1 \in 1..N(B, b)
    BY <1>1
  <2>2. QED
    BY <1>1, <2>1
<1> HIDE DEF q
<1>3. {m \in n..(Len(q) - 2) : C[q[m]].bld # C[q[m + 1]].bld}
      = {m \in n..(Len(q) - 2) : B[q[m]].bld # B[q[m + 1]].bld}
  BY <1>2
<1>4. TurnsOf(C, q, n) = TurnsOf(B, q, n)
  BY <1>3 DEF TurnsOf
<1>5. QED
  BY <1>1, <1>4 DEF q

(***************************************************************************)
(* The third invariant: what the DPoS window of a pack holds.  Its last    *)
(* block is the one the block is built on; from its i-th block on builders *)
(* took turns as often as it has blocks after that; and from the block     *)
(* that left it last, dpos_irreversible_need times.                        *)
(***************************************************************************)
InWindow(B, b, q, i) ==
  LET a == q.win[i]
  IN  /\ a # b /\ On(B, a, b)
      /\ TurnsOf(B, B[b].path, N(B, a)) >= Len(q.win) - i
      /\ N(B, q.dpos) < N(B, a)
      /\ \A j \in 1..Len(q.win) : i < j => N(B, a) < N(B, q.win[j])

LeftWindow(B, b, d) ==
  d # b /\ On(B, d, b) /\ TurnsOf(B, B[b].path, N(B, d)) >= DposNeed

Window(B, b, q) ==
  /\ Len(q.win) >= 1 => q.win[Len(q.win)] = B[b].prev
  /\ \A i \in 1..Len(q.win) : InWindow(B, b, q, i)
  /\ q.dpos # NoBlock => LeftWindow(B, b, q.dpos)

Windows(B, P) == \A b \in DOMAIN P : Window(B, b, P[b])

LEMMA TailIs ==
    ASSUME NEW S, NEW s \in Seq(S), s # <<>>
    PROVE  /\ Tail(s) \in Seq(S) /\ Len(Tail(s)) = Len(s) - 1
           /\ \A i \in 1..Len(s) - 1 : Tail(s)[i] = s[i + 1]
OBVIOUS

\* The window of a block c built on p whose pack is q.
LEMMA WindowOn ==
    ASSUME Tree(blocks), NEW p \in 1..Len(blocks), NEW c \in 1..Len(blocks), Prev(c) = p,
           NEW q \in PackTypeOf(Len(blocks)), Len(q.win) <= DposNeed, Window(blocks, p, q),
           NEW isMain
    PROVE  /\ Window(blocks, c, PackOn(p, q, isMain))
           /\ N(blocks, q.dpos) <= N(blocks, PackOn(p, q, isMain).dpos)
<1> DEFINE w == q.win
           L == Len(w)
           r == PackOn(p, q, isMain)
           v == NextWindow(w, p)
           d == q.dpos
           e == NextDpos(q, p)
           nn(x) == N(blocks, x)
           tp(x) == TurnsOf(blocks, blocks[p].path, x)
           tc(x) == TurnsOf(blocks, blocks[c].path, x)
<1>1. r.win = v /\ r.dpos = e
  BY DEF PackOn
<1>2. w \in Seq(1..Len(blocks)) /\ L \in Nat /\ L <= DposNeed /\ d \in 0..Len(blocks)
      /\ \A i \in 1..L : w[i] \in 1..Len(blocks)
  BY DEF PackTypeOf
<1>3. DposNeed \in Nat \ {0}
  BY ForkDbAssumption
<1>4. /\ nn(c) = nn(p) + 1 /\ nn(p) \in Nat /\ nn(p) >= 1 /\ On(blocks, p, c) /\ p # c
      /\ \A a \in 1..Len(blocks) : On(blocks, a, c) <=> a = c \/ On(blocks, a, p)
  BY OnPrev DEF Prev
<1>5. /\ L >= 1 => w[L] = blocks[p].prev
      /\ \A i \in 1..L : InWindow(blocks, p, q, i)
      /\ d # NoBlock => LeftWindow(blocks, p, d)
  BY DEF Window
<1>6. ASSUME NEW a \in 1..Len(blocks), a # p, On(blocks, a, p)
      PROVE  /\ nn(a) \in Nat \ {0} /\ nn(a) < nn(p) /\ a # c /\ On(blocks, a, c)
             /\ tp(nn(a)) \in Nat /\ tc(nn(a)) \in Nat /\ tp(nn(a)) <= tc(nn(a))
             /\ \A x \in 1..Len(blocks) :
                  blocks[p].prev = x /\ blocks[x].bld # blocks[p].bld => tp(nn(a)) + 1 <= tc(nn(a))
  <2>1. nn(a) \in 1..nn(p) /\ nn(a) # nn(p) /\ nn(a) \in Nat /\ nn(a) >= 1
    BY <1>6, OnWay, OnSame
  <2>2. nn(a) \in Nat \ {0} /\ nn(a) < nn(p)
    BY <1>4, <2>1
  <2>3. On(blocks, a, c) /\ a # c
    BY <1>4, <1>6, <2>2
  <2>4. tp(nn(a)) <= tc(nn(a))
    BY <2>2, TurnsStep DEF Prev
  <2>5. ASSUME NEW x \in 1..Len(blocks), blocks[p].prev = x, blocks[x].bld # blocks[p].bld
        PROVE  tp(nn(a)) + 1 <= tc(nn(a))
    <3>1. nn(p) = nn(x) + 1 /\ nn(x) \in Nat
      BY <2>5, OnPrev
    <3>2. nn(a) <= nn(x)
      BY <2>2, <3>1
    <3>3. QED
      BY <2>2, <2>5, <3>2, TurnsStep DEF Prev
  <2>6. tp(nn(a)) \in Nat /\ tc(nn(a)) \in Nat
    <3>1. Len(blocks[p].path) \in Nat /\ Len(blocks[c].path) \in Nat
      BY OnWay, SMTT(60)
    <3>2. QED
      BY <2>2, <3>1, TurnsFinite
  <2>7. QED
    BY <2>2, <2>3, <2>4, <2>5, <2>6
<1>7. tc(nn(p)) \in Nat
  <2>1. Len(blocks[c].path) \in Nat
    BY OnWay
  <2>2. QED
    BY <1>4, <2>1, TurnsFinite
<1>8. nn(d) \in Nat /\ nn(d) < nn(p)
  <2>1. CASE d = NoBlock
    BY <1>4, <2>1 DEF N
  <2>2. CASE d # NoBlock
    BY <1>2, <1>5, <1>6, <2>2 DEF LeftWindow, NoBlock
  <2>3. QED
    BY <2>1, <2>2
\* The blocks that were in the window.
<1>9. ASSUME NEW i \in 1..L
      PROVE  /\ w[i] \in 1..Len(blocks) /\ w[i] # p /\ On(blocks, w[i], p)
             /\ tp(nn(w[i])) >= L - i /\ nn(d) < nn(w[i])
             /\ \A j \in 1..L : i < j => nn(w[i]) < nn(w[j])
  BY <1>2, <1>5 DEF InWindow
<1>10. ASSUME d # NoBlock PROVE LeftWindow(blocks, c, d)
  <2>1. d \in 1..Len(blocks) /\ d # p /\ On(blocks, d, p) /\ tp(nn(d)) >= DposNeed
    BY <1>2, <1>5, <1>10 DEF LeftWindow, NoBlock
  <2>2. d # c /\ On(blocks, d, c) /\ tp(nn(d)) \in Nat /\ tc(nn(d)) \in Nat /\ tp(nn(d)) <= tc(nn(d))
    BY <1>6, <2>1
  <2>3. tc(nn(d)) >= DposNeed
    BY <1>3, <2>1, <2>2
  <2>4. QED
    BY <2>2, <2>3 DEF LeftWindow
<1>11. ASSUME ~SameBuilder(w, p), NEW i \in 1..L
       PROVE  tc(nn(w[i])) >= L - i + 1
  <2>1. w[L] = blocks[p].prev /\ w[L] \in 1..Len(blocks) /\ w # <<>> /\ Last(w) = w[L]
    BY <1>2, <1>5 DEF Last
  <2>2. blocks[w[L]].bld # blocks[p].bld
    BY <1>11, <2>1 DEF SameBuilder
  <2>3. tp(nn(w[i])) + 1 <= tc(nn(w[i])) /\ tp(nn(w[i])) \in Nat /\ tc(nn(w[i])) \in Nat
        /\ tp(nn(w[i])) >= L - i
    BY <1>6, <1>9, <2>1, <2>2
  <2>4. QED
    BY <1>2, <2>3
<1> HIDE DEF nn, tp, tc
\* A window is one if its blocks are of the old one, or p and the last.
<1>12. ASSUME NEW x, NEW M \in Nat \ {0}, Len(x.win) = M, x.win[M] = p,
              nn(x.dpos) \in Nat, nn(x.dpos) < nn(p),
              x.dpos # NoBlock => LeftWindow(blocks, c, x.dpos),
              NEW s \in Nat, M - 1 + s <= L,
              \A i \in 1..M - 1 : x.win[i] = w[i + s] /\ tc(nn(w[i + s])) >= M - i
                                  /\ nn(x.dpos) < nn(w[i + s])
       PROVE  Window(blocks, c, x)
  <2>1. M \in 1..M
    OBVIOUS
  <2>2. InWindow(blocks, c, x, M)
    <3>1. tc(nn(p)) >= M - M
      BY <1>7
    <3>2. \A j \in 1..M : ~(M < j)
      OBVIOUS
    <3>3. QED
      BY <1>4, <1>12, <3>1, <3>2 DEF InWindow, nn, tc
  <2>3. ASSUME NEW i \in 1..M - 1 PROVE InWindow(blocks, c, x, i)
    <3>0. i + s \in 1..L
      BY ONLY <1>2, M \in Nat, s \in Nat, i \in 1..M - 1, M - 1 + s <= L
    <3>1. i + s \in 1..L /\ x.win[i] = w[i + s] /\ tc(nn(w[i + s])) >= M - i
          /\ nn(x.dpos) < nn(w[i + s])
      BY <1>12, <3>0
    <3>2. w[i + s] \in 1..Len(blocks) /\ w[i + s] # p /\ On(blocks, w[i + s], p)
          /\ \A j \in 1..L : i + s < j => nn(w[i + s]) < nn(w[j])
      BY <1>9, <3>1
    <3>3. w[i + s] # c /\ On(blocks, w[i + s], c) /\ nn(w[i + s]) < nn(p)
      BY <1>6, <3>2
    <3>4. ASSUME NEW j \in 1..M, i < j PROVE nn(x.win[i]) < nn(x.win[j])
      <4>1. CASE j = M
        BY <1>12, <3>1, <3>3, <4>1
      <4>2. CASE j # M
        <5>1. j \in 1..M - 1 /\ j + s \in 1..L /\ i + s < j + s
          BY <1>2, <1>12, <3>4, <4>2
        <5>2. x.win[j] = w[j + s]
          BY <1>12, <5>1
        <5>3. QED
          BY <3>1, <3>2, <5>1, <5>2
      <4>3. QED
        BY <4>1, <4>2
    <3>5. QED
      BY <1>12, <3>1, <3>3, <3>4 DEF InWindow, nn, tc
  <2>4. \A i \in 1..M : i = M \/ i \in 1..M - 1
    OBVIOUS
  <2>5. QED
    BY <1>12, <2>2, <2>3, <2>4 DEF Window, Prev
<1>13. ASSUME NEW i \in 1..L
       PROVE  tc(nn(w[i])) >= L - i
  <2>1. tp(nn(w[i])) <= tc(nn(w[i])) /\ tp(nn(w[i])) \in Nat /\ tc(nn(w[i])) \in Nat
        /\ tp(nn(w[i])) >= L - i
    BY <1>6, <1>9
  <2>2. QED
    BY <1>2, <2>1
<1> HIDE DEF r, v, e
<1>14. CASE SameBuilder(w, p)
  <2>1. w # <<>> /\ v = Append(Front(w), p) /\ e = d
    BY <1>14 DEF SameBuilder, v, e, NextWindow, NextDpos
  <2>2. L >= 1 /\ L - 1 \in Nat /\ L - 1 <= L /\ Front(w) = SubSeq(w, 1, L - 1)
    BY <1>2, <2>1 DEF Front
  <2>3. Front(w) \in Seq(1..Len(blocks)) /\ Len(Front(w)) = L - 1
        /\ \A i \in 1..L - 1 : Front(w)[i] = w[i]
    BY <1>2, <2>2, Prefix, SMTT(60)
  <2>4. Len(v) = L /\ v[L] = p /\ \A i \in 1..L - 1 : v[i] = w[i]
    BY <1>2, <2>1, <2>2, <2>3, SMTT(60)
  <2>5. \A i \in 1..L - 1 : /\ i + 0 = i /\ i \in 1..L
    BY <1>2
  <2>6. \A i \in 1..L - 1 : v[i] = w[i + 0] /\ tc(nn(w[i + 0])) >= L - i /\ nn(d) < nn(w[i + 0])
    BY <1>9, <1>13, <2>4, <2>5
  <2>7. Window(blocks, c, r)
    <3>1. L \in Nat \ {0} /\ 0 \in Nat /\ L - 1 + 0 <= L
      BY <1>2, <2>2
    <3> HIDE DEF L, w, d
    <3>2. QED
      BY <1>1, <1>8, <1>10, <2>1, <2>4, <2>6, <3>1, <1>12
  <2>8. QED
    BY <1>1, <1>8, <2>1, <2>7 DEF nn, r
<1>15. CASE ~SameBuilder(w, p) /\ L < DposNeed
  <2>1. v = Append(w, p) /\ e = d
    BY <1>2, <1>3, <1>15 DEF v, e, NextWindow, NextDpos
  <2>4. Len(v) = L + 1 /\ v[L + 1] = p /\ \A i \in 1..L : v[i] = w[i]
    BY <1>2, <2>1
  <2>5. \A i \in 1..(L + 1) - 1 : /\ i + 0 = i /\ i \in 1..L /\ L - i + 1 = (L + 1) - i
    BY <1>2
  <2>6. \A i \in 1..(L + 1) - 1 : v[i] = w[i + 0] /\ tc(nn(w[i + 0])) >= (L + 1) - i
                                 /\ nn(d) < nn(w[i + 0])
    BY <1>9, <1>11, <1>15, <2>4, <2>5
  <2>7. Window(blocks, c, r)
    <3>1. L + 1 \in Nat \ {0} /\ 0 \in Nat /\ (L + 1) - 1 + 0 <= L
      BY <1>2
    <3> HIDE DEF L, w, d
    <3>2. QED
      BY <1>1, <1>8, <1>10, <2>1, <2>4, <2>6, <3>1, <1>12, ZenonT(60)
  <2>8. QED
    BY <1>1, <1>8, <2>1, <2>7 DEF nn, r
<1>16. CASE ~SameBuilder(w, p) /\ ~(L < DposNeed)
  <2>1. L >= 1 /\ w # <<>> /\ L = DposNeed
    BY <1>2, <1>3, <1>16
  <2>2. v = Append(Tail(w), p) /\ e = w[1]
    BY <1>2, <1>3, <1>16, <2>1 DEF v, e, NextWindow, NextDpos
  <2>3. Tail(w) \in Seq(1..Len(blocks)) /\ Len(Tail(w)) = L - 1
        /\ \A i \in 1..L - 1 : Tail(w)[i] = w[i + 1]
    BY <1>2, <2>1, TailIs
  <2>4. Len(v) = L /\ v[L] = p /\ \A i \in 1..L - 1 : v[i] = w[i + 1]
    BY <1>2, <2>1, <2>2, <2>3, SMTT(60)
  <2>5. \A i \in 1..L - 1 : i + 1 \in 1..L /\ L - (i + 1) + 1 = L - i /\ 1 < i + 1
    BY <1>2
  <2>6. 1 \in 1..L /\ L - 1 + 1 = DposNeed
    BY <1>2, <2>1
  <2>7. \A i \in 1..L - 1 : v[i] = w[i + 1] /\ tc(nn(w[i + 1])) >= L - i /\ nn(w[1]) < nn(w[i + 1])
    BY <1>9, <1>11, <1>16, <2>4, <2>5, <2>6
  <2>8. tc(nn(w[1])) >= DposNeed
    BY <1>11, <1>16, <2>6
  <2>9. /\ w[1] # c /\ On(blocks, w[1], c) /\ nn(w[1]) \in Nat /\ nn(w[1]) < nn(p)
        /\ nn(d) < nn(w[1])
    BY <1>6, <1>9, <2>6
  <2>10. LeftWindow(blocks, c, w[1])
    BY <2>8, <2>9 DEF LeftWindow, tc, nn
  <2>11. Window(blocks, c, r)
    <3>1. L \in Nat \ {0} /\ 1 \in Nat /\ L - 1 + 1 <= L
      BY <1>2, <2>1
    <3> HIDE DEF L, w, d
    <3>2. QED
      BY <1>1, <2>2, <2>4, <2>7, <2>9, <2>10, <3>1, <1>12, ZenonT(60)
  <2>12. QED
    BY <1>1, <1>8, <2>2, <2>9, <2>11 DEF nn, r
<1>17. QED
  BY <1>14, <1>15, <1>16

\* The packs P became Q, and what the order of the fork database and the
\* windows are made of is the same.
SameWin(P, Q) ==
  DOMAIN Q = DOMAIN P /\ \A b \in DOMAIN P : Q[b].win = P[b].win /\ Q[b].dpos = P[b].dpos

LEMMA WindowsSame ==
    ASSUME NEW B, NEW P, NEW Q, SameWin(P, Q), Windows(B, P)
    PROVE  Windows(B, Q)
<1>1. ASSUME NEW b \in DOMAIN P PROVE Window(B, b, Q[b])
  <2>1. Window(B, b, P[b]) /\ Q[b].win = P[b].win /\ Q[b].dpos = P[b].dpos
    BY DEF Windows, SameWin
  <2>2. QED
    BY <2>1 DEF Window, InWindow
<1>2. QED
  BY <1>1 DEF Windows, SameWin

\* A root pack has nothing in its window.
LEMMA RootWindow ==
    ASSUME NEW B, NEW b, NEW h, NEW isMain
    PROVE  Window(B, b, RootPack(h, isMain))
<1>1. RootPack(h, isMain).win = <<>> /\ RootPack(h, isMain).dpos = NoBlock
  BY DEF RootPack
<1>2. Len(<<>>) = 0 /\ 1..0 = {}
  OBVIOUS
<1>3. QED
  BY <1>1, <1>2 DEF Window

\* More blocks.
LEMMA WindowsGrow ==
    ASSUME NEW B, NEW C, Tree(B), \A b \in 1..Len(B) : C[b] = B[b],
           NEW P, Packs(B, P), Windows(B, P)
    PROVE  Windows(C, P)
<1>1. Len(B) \in Nat
  BY TreeLen
<1>2. /\ \A b \in 0..Len(B) : N(C, b) = N(B, b)
      /\ \A a \in 0..Len(B), b \in 1..Len(B) : On(C, a, b) <=> On(B, a, b)
  BY <1>1, OnGrows
<1>3. ASSUME NEW b \in DOMAIN P PROVE Window(C, b, P[b])
  <2> DEFINE q == P[b]
  <2>1. b \in 1..Len(B) /\ Window(B, b, q) /\ q \in PackTypeOf(Len(B)) /\ C[b] = B[b]
    BY DEF Packs, Windows
  <2> HIDE DEF q
  <2>2. q.dpos \in 0..Len(B) /\ q.win \in Seq(1..Len(B))
        /\ \A i \in 1..Len(q.win) : q.win[i] \in 1..Len(B)
    BY <2>1 DEF PackTypeOf
  <2>3. \A a \in 1..Len(B) : TurnsOf(C, C[b].path, N(C, a)) = TurnsOf(B, B[b].path, N(B, a))
    <3>1. ASSUME NEW a \in 1..Len(B)
          PROVE  TurnsOf(C, C[b].path, N(C, a)) = TurnsOf(B, B[b].path, N(B, a))
      <4>1. N(B, a) \in Nat \ {0} /\ N(C, a) = N(B, a)
        BY <1>2, OnWay
      <4>2. QED
        BY <2>1, <4>1, TurnsGrow
    <3>2. QED
      BY <3>1
  <2>4. ASSUME NEW i \in 1..Len(q.win) PROVE InWindow(C, b, q, i)
    <3>1. InWindow(B, b, q, i) /\ q.win[i] \in 1..Len(B)
      BY <2>1, <2>2 DEF Window
    <3>2. \A j \in 1..Len(q.win) : q.win[j] \in 0..Len(B)
      BY <2>2
    <3>3. q.win[i] \in 0..Len(B)
      BY <2>2
    <3>4. QED
      BY <1>2, <2>1, <2>2, <2>3, <3>1, <3>2, <3>3 DEF InWindow
  <2>5. ASSUME q.dpos # NoBlock PROVE LeftWindow(C, b, q.dpos)
    <3>1. LeftWindow(B, b, q.dpos) /\ q.dpos \in 1..Len(B)
      BY <2>1, <2>2, <2>5 DEF Window, NoBlock
    <3>2. QED
      BY <1>2, <2>1, <2>2, <2>3, <3>1 DEF LeftWindow
  <2>6. Window(C, b, q)
    BY <2>1, <2>4, <2>5 DEF Window
  <2>7. QED
    BY <2>6 DEF q
<1>4. QED
  BY <1>3 DEF Windows

\* How far below block b the block is that left its window.
LEMMA DposDeep ==
    ASSUME NEW B, Tree(B), NEW b \in 1..Len(B), NEW d \in 1..Len(B), LeftWindow(B, b, d)
    PROVE  N(B, d) + DposNeed + 1 <= N(B, b)
<1>1. N(B, d) \in Nat /\ N(B, b) \in Nat /\ Len(B[b].path) = N(B, b)
  BY OnWay
<1>2. DposNeed \in Nat \ {0}
  BY ForkDbAssumption
<1> DEFINE t == TurnsOf(B, B[b].path, N(B, d))
<1>3. t \in Nat /\ t <= (IF N(B, d) > Len(B[b].path) - 2 THEN 0 ELSE Len(B[b].path) - 1 - N(B, d))
  BY <1>1, TurnsFinite
<1>4. t >= DposNeed
  BY DEF LeftWindow
<1> HIDE DEF t
<1>5. QED
  BY <1>1, <1>2, <1>3, <1>4

\* The order of by_longest_num, with the first difference spelled out.
Beats(B, a, b, P) ==
  \/ N(B, P[a].lc) > N(B, P[b].lc)
  \/ /\ N(B, P[a].lc) = N(B, P[b].lc)
     /\ \/ N(B, P[a].dpos) > N(B, P[b].dpos)
        \/ /\ N(B, P[a].dpos) = N(B, P[b].dpos)
           /\ \/ N(B, a) > N(B, b)
              \/ N(B, a) = N(B, b) /\ P[a].main /\ ~P[b].main

Best(B, h, K, P) == h \in K /\ \A c \in K : ~Beats(B, c, h, P)

LEMMA LongestIsBest ==
    ASSUME Tree(blocks), NEW P, Packs(blocks, P), NEW K, K \subseteq DOMAIN P
    PROVE  \A h : h \in Longest(K, P) <=> Best(blocks, h, K, P)
<1>1. ASSUME NEW a \in K, NEW b \in K
      PROVE  Above(Rating(a, P), Rating(b, P)) <=> Beats(blocks, a, b, P)
  <2> DEFINE x(c) == Rating(c, P)
             m(c) == IF P[c].main THEN 1 ELSE 0
  <2>1. ASSUME NEW c \in K
        PROVE  /\ x(c)[1] = N(blocks, P[c].lc) /\ x(c)[2] = N(blocks, P[c].dpos)
               /\ x(c)[3] = N(blocks, c) /\ x(c)[4] = m(c)
               /\ N(blocks, P[c].lc) \in Nat /\ N(blocks, P[c].dpos) \in Nat
               /\ N(blocks, c) \in Nat /\ m(c) \in {0, 1} /\ P[c].main \in BOOLEAN
    <3>1. P[c] \in PackTypeOf(Len(blocks)) /\ c \in 1..Len(blocks)
      BY DEF Packs
    <3>2. P[c].lc \in 0..Len(blocks) /\ P[c].dpos \in 0..Len(blocks) /\ c \in 0..Len(blocks)
          /\ P[c].main \in BOOLEAN
      BY <3>1 DEF PackTypeOf
    <3>3. N(blocks, P[c].lc) \in Nat /\ N(blocks, P[c].dpos) \in Nat /\ N(blocks, c) \in Nat
      BY <3>2, NumIsNat
    <3>4. x(c)[1] = Num(P[c].lc) /\ x(c)[2] = Num(P[c].dpos) /\ x(c)[3] = Num(c) /\ x(c)[4] = m(c)
      BY DEF Rating
    <3>5. QED
      BY <3>2, <3>3, <3>4, NumIsN
  <2>2. Above(x(a), x(b)) <=>
          \/ x(a)[1] > x(b)[1]
          \/ x(a)[1] = x(b)[1] /\ x(a)[2] > x(b)[2]
          \/ x(a)[1] = x(b)[1] /\ x(a)[2] = x(b)[2] /\ x(a)[3] > x(b)[3]
          \/ x(a)[1] = x(b)[1] /\ x(a)[2] = x(b)[2] /\ x(a)[3] = x(b)[3] /\ x(a)[4] > x(b)[4]
    <3> HIDE DEF x
    <3>1. \A r, s : Above(r, s) <=>
             \/ r[1] > s[1]
             \/ r[1] = s[1] /\ r[2] > s[2]
             \/ r[1] = s[1] /\ r[2] = s[2] /\ r[3] > s[3]
             \/ r[1] = s[1] /\ r[2] = s[2] /\ r[3] = s[3] /\ r[4] > s[4]
      <4>1. 1..4 = {1, 2, 3, 4} /\ 1..(1 - 1) = {} /\ 1..(2 - 1) = {1} /\ 1..(3 - 1) = {1, 2}
            /\ 1..(4 - 1) = {1, 2, 3}
        OBVIOUS
      <4>2. QED
        BY <4>1 DEF Above
    <3>2. QED
      BY <3>1
  <2>3. m(a) > m(b) <=> P[a].main /\ ~P[b].main
    BY <2>1
  <2> HIDE DEF x, m
  <2>4. QED
    BY <2>1, <2>2, <2>3 DEF Beats, x
<1>2. QED
  BY <1>1 DEF Longest, Best

(***************************************************************************)
(* The fork database K with packs P, when block l is the last irreversible *)
(* one: no known block is below l, and of a known block everything above l *)
(* is known; where l itself is not (after a start without the file), all   *)
(* that is known is built on one block above it.                           *)
(***************************************************************************)
Rests(B, l, K) ==
  /\ \A y \in K : N(B, y) >= N(B, l)
  /\ \A y \in K : \A a \in 1..Len(B) : On(B, a, y) /\ N(B, a) > N(B, l) => a \in K
  /\ l \notin K => \A y \in K :
       /\ N(B, y) > N(B, l) /\ On(B, l, y)
       /\ \A z \in K : N(B, y) = N(B, l) + 1 /\ N(B, z) = N(B, l) + 1 => y = z

\* last_confirmed_id is l for the blocks built on l, and lower for the others.
Confirms(B, l, K, P) ==
  \A y \in K : /\ On(B, l, y) => P[y].lc = l
               /\ ~On(B, l, y) => N(B, P[y].lc) < N(B, l)

\* dpos_irreversible_id rises along a branch ...
Rising(B, K, P) ==
  \A y \in K : \A a \in K : On(B, a, y) => N(B, P[a].dpos) <= N(B, P[y].dpos)

\* ... and is not above a known block.
Caught(B, l, K, P) ==
  \A y \in K : \A z \in K : On(B, l, y) => N(B, P[y].dpos) <= N(B, z)

\* What is above l was not announced.
Fresh(B, l, K, P) == \A y \in K : N(B, y) > N(B, l) => P[y].irr = FALSE

Settled(B, l, K, P) ==
  /\ Rests(B, l, K) /\ Confirms(B, l, K, P) /\ Rising(B, K, P)
  /\ Caught(B, l, K, P) /\ Fresh(B, l, K, P)

LEMMA PackNumbers ==
    ASSUME NEW B, Tree(B), NEW P, Packs(B, P), NEW y \in DOMAIN P
    PROVE  /\ y \in 1..Len(B) /\ N(B, y) \in Nat /\ N(B, y) >= 1
           /\ P[y].lc \in 0..Len(B) /\ P[y].dpos \in 0..Len(B)
           /\ N(B, P[y].lc) \in Nat /\ N(B, P[y].dpos) \in Nat
           /\ P[y].main \in BOOLEAN /\ P[y].irr \in BOOLEAN
           /\ P[y] \in PackTypeOf(Len(B)) /\ Len(P[y].win) <= DposNeed
<1>1. P[y] \in PackTypeOf(Len(B)) /\ y \in 1..Len(B) /\ Len(P[y].win) <= DposNeed
  BY DEF Packs
<1>2. P[y].lc \in 0..Len(B) /\ P[y].dpos \in 0..Len(B) /\ P[y].main \in BOOLEAN
      /\ P[y].irr \in BOOLEAN
  BY <1>1 DEF PackTypeOf
<1>3. QED
  BY <1>1, <1>2, NumIsNat, OnWay

\* Block t is inserted.
LEMMA InsertedSettled ==
    ASSUME NEW B, Tree(B), NEW P, Packs(B, P), NEW K, K \subseteq DOMAIN P,
           NEW l \in 1..Len(B),
           Rests(B, l, K), Confirms(B, l, K, P), Rising(B, K, P), Fresh(B, l, K, P),
           NEW t \in 1..Len(B), t \notin K, NEW p \in 1..Len(B), B[t].prev = p,
           p \in DOMAIN P, p \in K \/ (K = {} /\ p = l /\ P[l].lc = l),
           NEW Q, Packs(B, Q), \A c \in K : Q[c] = P[c], t \in DOMAIN Q,
           Q[t].lc = P[p].lc, N(B, P[p].dpos) <= N(B, Q[t].dpos), Q[t].irr = FALSE
    PROVE  /\ Rests(B, l, K \cup {t}) /\ Confirms(B, l, K \cup {t}, Q)
           /\ Rising(B, K \cup {t}, Q) /\ Fresh(B, l, K \cup {t}, Q)
<1> DEFINE J == K \cup {t}
<1>1. /\ N(B, t) = N(B, p) + 1 /\ On(B, p, t) /\ N(B, p) \in Nat /\ p # t
      /\ \A a \in 1..Len(B) : On(B, a, t) <=> a = t \/ On(B, a, p)
  BY OnPrev
<1>2. /\ \A y \in 1..Len(B) : N(B, y) \in Nat /\ On(B, y, y)
      /\ \A y \in K : y \in 1..Len(B) /\ y # t
  BY PackNumbers, OnWay
<1>3. N(B, p) >= N(B, l) /\ N(B, t) > N(B, l) /\ t # l
  <2>1. N(B, p) >= N(B, l)
    BY <1>2 DEF Rests
  <2>2. QED
    BY <1>1, <1>2, <2>1
<1>4. Rests(B, l, J)
  <2>1. \A y \in J : N(B, y) >= N(B, l)
    BY <1>2, <1>3 DEF Rests
  <2>2. ASSUME NEW y \in J, NEW a \in 1..Len(B), On(B, a, y), N(B, a) > N(B, l) PROVE a \in J
    <3>1. CASE y \in K
      BY <2>2, <3>1 DEF Rests
    <3>2. CASE y = t /\ a # t
      <4>1. On(B, a, p)
        BY <1>1, <2>2, <3>2
      <4>2. CASE p \in K
        BY <2>2, <4>1, <4>2 DEF Rests
      <4>3. CASE p = l
        <5>1. N(B, a) <= N(B, l)
          BY <4>1, <4>3 DEF On
        <5>2. QED
          BY <1>2, <2>2, <5>1
      <4>4. QED
        BY <4>2, <4>3
    <3>3. QED
      BY <3>1, <3>2
  <2>3. ASSUME l \notin J, NEW y \in J
        PROVE  /\ N(B, y) > N(B, l) /\ On(B, l, y)
               /\ \A z \in J : N(B, y) = N(B, l) + 1 /\ N(B, z) = N(B, l) + 1 => y = z
    <3>1. CASE K = {}
      <4>1. J = {t} /\ y = t /\ p = l
        BY <3>1
      <4>2. QED
        BY <1>1, <1>3, <4>1
    <3>2. CASE K # {}
      <4>1. p \in K /\ l \notin K
        BY <2>3, <3>2
      <4>2. N(B, p) > N(B, l) /\ On(B, l, p)
        BY <4>1 DEF Rests
      <4>3. N(B, t) # N(B, l) + 1 /\ On(B, l, t)
        BY <1>1, <1>2, <4>2
      <4>4. \A z \in K : /\ N(B, z) > N(B, l) /\ On(B, l, z)
                         /\ \A x \in K : N(B, z) = N(B, l) + 1 /\ N(B, x) = N(B, l) + 1 => z = x
        BY <4>1 DEF Rests
      <4>5. QED
        BY <1>3, <4>3, <4>4
    <3>3. QED
      BY <3>1, <3>2
  <2>4. QED
    BY <2>1, <2>2, <2>3 DEF Rests
<1>5. Confirms(B, l, J, Q)
  <2>1. On(B, l, t) <=> On(B, l, p)
    BY <1>1, <1>3
  <2>2. (On(B, l, p) => P[p].lc = l) /\ (~On(B, l, p) => N(B, P[p].lc) < N(B, l))
    BY <1>2 DEF Confirms
  <2>3. \A y \in K : (On(B, l, y) => Q[y].lc = l) /\ (~On(B, l, y) => N(B, Q[y].lc) < N(B, l))
    BY DEF Confirms
  <2>4. QED
    BY <2>1, <2>2, <2>3 DEF Confirms
<1>6. Rising(B, J, Q)
  <2>1. ASSUME NEW y \in J, NEW a \in J, On(B, a, y)
        PROVE  N(B, Q[a].dpos) <= N(B, Q[y].dpos)
    <3>1. CASE y \in K /\ a \in K
      BY <2>1, <3>1 DEF Rising
    <3>2. CASE y = t /\ a = t
      <4>1. N(B, Q[t].dpos) \in Nat
        BY PackNumbers
      <4>2. QED
        BY <3>2, <4>1
    <3>3. CASE y = t /\ a \in K
      <4>1. p \in K /\ On(B, a, p)
        BY <1>1, <1>2, <2>1, <3>3
      <4>2. N(B, P[a].dpos) <= N(B, P[p].dpos)
        BY <3>3, <4>1 DEF Rising
      <4>3. N(B, P[a].dpos) \in Nat /\ N(B, P[p].dpos) \in Nat /\ N(B, Q[t].dpos) \in Nat
        BY <3>3, PackNumbers
      <4>4. Q[a] = P[a]
        BY <3>3
      <4>5. QED
        BY <3>3, <4>2, <4>3, <4>4
    <3>4. CASE y \in K /\ a = t
      BY <1>3, <2>1, <3>4 DEF Rests
    <3>5. QED
      BY <3>1, <3>2, <3>3, <3>4
  <2>2. QED
    BY <2>1 DEF Rising
<1>7. Fresh(B, l, J, Q)
  BY DEF Fresh
<1>8. QED
  BY <1>4, <1>5, <1>6, <1>7

\* The head is built on l if any known block is.
LEMMA BestOn ==
    ASSUME NEW B, Tree(B), NEW P, Packs(B, P), NEW K, K \subseteq DOMAIN P,
           NEW l \in 1..Len(B), Confirms(B, l, K, P), NEW h, Best(B, h, K, P),
           NEW x \in K, On(B, l, x)
    PROVE  On(B, l, h) /\ P[h].lc = l
<1>1. h \in K /\ ~Beats(B, x, h, P)
  BY DEF Best
<1>2. N(B, P[h].lc) \in Nat /\ N(B, l) \in Nat /\ P[x].lc = l
  BY <1>1, PackNumbers, OnWay DEF Confirms
<1>3. ~(N(B, P[h].lc) < N(B, l))
  BY <1>1, <1>2 DEF Beats
<1>4. QED
  BY <1>1, <1>3 DEF Confirms

LEMMA BestDpos ==
    ASSUME NEW B, Tree(B), NEW P, Packs(B, P), NEW K, K \subseteq DOMAIN P,
           NEW l \in 1..Len(B), Confirms(B, l, K, P), NEW h, Best(B, h, K, P),
           On(B, l, h), NEW y \in K, On(B, l, y)
    PROVE  N(B, P[y].dpos) <= N(B, P[h].dpos)
<1>1. h \in K /\ ~Beats(B, y, h, P)
  BY DEF Best
<1>2. P[h].lc = l /\ P[y].lc = l
  BY <1>1 DEF Confirms
<1>3. N(B, P[h].dpos) \in Nat /\ N(B, P[y].dpos) \in Nat
  BY <1>1, PackNumbers
<1>4. QED
  BY <1>1, <1>2, <1>3 DEF Beats

LEMMA CaughtByHead ==
    ASSUME NEW B, Tree(B), NEW P, Packs(B, P), NEW K, K \subseteq DOMAIN P,
           NEW l \in 1..Len(B), Confirms(B, l, K, P), NEW h, Best(B, h, K, P),
           On(B, l, h), \A z \in K : N(B, P[h].dpos) <= N(B, z)
    PROVE  Caught(B, l, K, P)
<1>1. ASSUME NEW y \in K, NEW z \in K, On(B, l, y) PROVE N(B, P[y].dpos) <= N(B, z)
  <2>1. N(B, P[y].dpos) <= N(B, P[h].dpos)
    BY <1>1, BestDpos
  <2>2. N(B, P[y].dpos) \in Nat /\ N(B, P[h].dpos) \in Nat /\ N(B, z) \in Nat
    BY PackNumbers DEF Best
  <2>3. QED
    BY <2>1, <2>2
<1>2. QED
  BY <1>1 DEF Caught

LEMMA LinkedIs ==
    ASSUME Tree(blocks), NEW K, NEW a \in 1..Len(blocks), NEW d \in 1..Len(blocks)
    PROVE  /\ Linked(a, d, K) => On(blocks, a, d)
           /\ (/\ On(blocks, a, d)
               /\ \A c \in 1..Len(blocks) : On(blocks, a, c) /\ On(blocks, c, d) => c \in K)
              => Linked(a, d, K)
<1>1. Num(a) = N(blocks, a) /\ Num(d) = N(blocks, d)
  BY NumIsN
<1>2. Linked(a, d, K) => On(blocks, a, d)
  BY <1>1 DEF Linked, On, Path
<1>3. ASSUME On(blocks, a, d),
             \A c \in 1..Len(blocks) : On(blocks, a, c) /\ On(blocks, c, d) => c \in K,
             NEW n \in Num(a)..Num(d)
      PROVE  blocks[d].path[n] \in K
  <2> DEFINE c == blocks[d].path[n]
  <2>1. N(blocks, a) \in Nat /\ N(blocks, a) >= 1 /\ N(blocks, d) \in Nat
    BY OnWay
  <2>2. n \in 1..N(blocks, d) /\ N(blocks, a) <= n
    BY <1>1, <2>1
  <2>3. c \in 1..Len(blocks) /\ N(blocks, c) = n /\ On(blocks, c, d)
    BY <2>2, OnWay
  <2> HIDE DEF c
  <2>4. On(blocks, a, c)
    BY <1>3, <2>2, <2>3, OnChain
  <2>5. c \in K
    BY <1>3, <2>3, <2>4
  <2>6. QED
    BY <2>5 DEF c
<1>4. QED
  BY <1>1, <1>2, <1>3 DEF Linked, On, Path

LEMMA ConfirmingIs ==
    ASSUME NEW P, NEW K, NEW l
    PROVE  /\ DOMAIN Confirming(l, K, P) = DOMAIN P
           /\ \A b \in DOMAIN P :
                IF b \in K /\ (Linked(b, l, K) \/ Linked(l, b, K))
                THEN Confirming(l, K, P)[b] = [P[b] EXCEPT !.lc = l]
                ELSE Confirming(l, K, P)[b] = P[b]
BY DEF Confirming

LEMMA LcOnly ==
    ASSUME NEW n, NEW q \in PackTypeOf(n), NEW l
    PROVE  LET r == [q EXCEPT !.lc = l]
           IN  r.lc = l /\ r.main = q.main /\ r.dpos = q.dpos /\ r.win = q.win /\ r.irr = q.irr
BY DEF PackTypeOf

LEMMA ConfirmingSame ==
    ASSUME Tree(blocks), NEW P, Packs(blocks, P), NEW K, NEW l \in 1..Len(blocks)
    PROVE  /\ DOMAIN Confirming(l, K, P) = DOMAIN P
           /\ \A b \in DOMAIN P : LET r == Confirming(l, K, P)[b]
                IN /\ r.main = P[b].main /\ r.dpos = P[b].dpos /\ r.win = P[b].win
                   /\ r.irr = P[b].irr
                   /\ b \in K /\ (Linked(b, l, K) \/ Linked(l, b, K)) => r.lc = l
                   /\ ~(b \in K /\ (Linked(b, l, K) \/ Linked(l, b, K))) => r.lc = P[b].lc
<1> DEFINE Q == Confirming(l, K, P)
<1>1. DOMAIN Q = DOMAIN P
  BY ConfirmingIs
<1>2. ASSUME NEW b \in DOMAIN P
      PROVE  /\ Q[b].main = P[b].main /\ Q[b].dpos = P[b].dpos /\ Q[b].win = P[b].win
             /\ Q[b].irr = P[b].irr
             /\ b \in K /\ (Linked(b, l, K) \/ Linked(l, b, K)) => Q[b].lc = l
             /\ ~(b \in K /\ (Linked(b, l, K) \/ Linked(l, b, K))) => Q[b].lc = P[b].lc
  <2>1. P[b] \in PackTypeOf(Len(blocks))
    BY DEF Packs
  <2>2. CASE b \in K /\ (Linked(b, l, K) \/ Linked(l, b, K))
    <3>1. Q[b] = [P[b] EXCEPT !.lc = l]
      BY <2>2, ConfirmingIs
    <3> HIDE DEF Q
    <3>2. QED
      BY <2>1, <2>2, <3>1, LcOnly
  <2>3. CASE ~(b \in K /\ (Linked(b, l, K) \/ Linked(l, b, K)))
    <3>1. Q[b] = P[b]
      BY <2>3, ConfirmingIs
    <3> HIDE DEF Q
    <3>2. QED
      BY <2>3, <3>1
  <2>4. QED
    BY <2>2, <2>3
<1>3. QED
  BY <1>1, <1>2

\* What set_last_confirmed(d) and on_last_confirmed_grow(d) leave, with the packs Q.
Grown(l, K, P, h, d, Q) ==
  /\ d \in K /\ On(blocks, l, d) /\ N(blocks, l) < N(blocks, d)
  /\ LeftWindow(blocks, h, d)
  /\ ToErase(d, K, Q) = {b \in K : N(blocks, b) <= N(blocks, d) /\ b # d}
  /\ ToConfirm(d, K, Q)
       = {a \in 1..Len(blocks) : On(blocks, a, d) /\ N(blocks, a) > N(blocks, l)}
  /\ Settled(blocks, d, K \ ToErase(d, K, Q), Q)
  /\ Best(blocks, h, K \ ToErase(d, K, Q), Q)

\* The head h makes the block that left its window irreversible.
LEMMA GrownSettled ==
    ASSUME Tree(blocks), NEW P, Packs(blocks, P), NEW K, K \subseteq DOMAIN P,
           NEW l \in 1..Len(blocks), Rests(blocks, l, K), Confirms(blocks, l, K, P),
           Rising(blocks, K, P), Fresh(blocks, l, K, P), l \in K => P[l].irr = TRUE,
           NEW h, Best(blocks, h, K, P), On(blocks, l, h), Window(blocks, h, P[h]),
           NEW d, d = P[h].dpos, NEW z \in K, N(blocks, z) < N(blocks, d)
    PROVE  Grown(l, K, P, h, d, Confirming(d, K, P))
<1> DEFINE Q == Confirming(d, K, P)
           E == ToErase(d, K, Q)
           J == K \ E
           n(x) == N(blocks, x)
<1>1. h \in K /\ h \in 1..Len(blocks) /\ n(h) \in Nat /\ d \in 0..Len(blocks) /\ n(d) \in Nat
      /\ n(l) \in Nat
  BY PackNumbers, OnWay DEF Best
<1>2. \A y \in K : y \in DOMAIN P /\ y \in 1..Len(blocks) /\ n(y) \in Nat /\ n(y) >= n(l)
  BY PackNumbers DEF Rests
<1>3. n(l) < n(d) /\ d # NoBlock /\ d \in 1..Len(blocks)
  <2>1. n(l) < n(d)
    BY <1>1, <1>2
  <2>2. d # NoBlock
    BY <1>1, <2>1 DEF N
  <2>3. QED
    BY <1>1, <2>1, <2>2 DEF NoBlock
<1>4. LeftWindow(blocks, h, d) /\ d # h /\ On(blocks, d, h)
  BY <1>3 DEF Window, LeftWindow
<1>5. d \in K
  BY <1>1, <1>3, <1>4 DEF Rests
<1>6. On(blocks, l, d)
  BY <1>1, <1>3, <1>4, OnChain
<1>7. n(d) < n(h)
  <2>1. n(d) \in 1..n(h) /\ n(d) # n(h)
    BY <1>1, <1>3, <1>4, OnWay, OnSame
  <2>2. QED
    BY <1>1, <2>1
<1>8. /\ DOMAIN Q = DOMAIN P
      /\ \A b \in DOMAIN P :
           /\ Q[b].main = P[b].main /\ Q[b].dpos = P[b].dpos /\ Q[b].irr = P[b].irr
           /\ b \in K /\ (Linked(b, d, K) \/ Linked(d, b, K)) => Q[b].lc = d
           /\ ~(b \in K /\ (Linked(b, d, K) \/ Linked(d, b, K))) => Q[b].lc = P[b].lc
  BY <1>3, ConfirmingSame
<1> HIDE DEF Q
\* A known block is linked with d when it is on the branch of d above l.
<1>9. ASSUME NEW y \in K, On(blocks, d, y) PROVE Linked(d, y, K)
  <2>1. ASSUME NEW c \in 1..Len(blocks), On(blocks, d, c), On(blocks, c, y) PROVE c \in K
    <3>1. n(d) <= n(c) /\ n(c) \in Nat
      BY <2>1, OnWay DEF On
    <3>2. n(c) > n(l)
      BY <1>1, <1>3, <3>1
    <3>3. QED
      BY <2>1, <3>2 DEF Rests
  <2>2. QED
    BY <1>2, <1>3, <1>9, <2>1, LinkedIs
<1>10. ASSUME NEW y \in 1..Len(blocks), On(blocks, y, d), n(y) > n(l)
       PROVE  y \in K /\ Linked(y, d, K)
  <2>1. ASSUME NEW c \in 1..Len(blocks), On(blocks, y, c), On(blocks, c, d) PROVE c \in K
    <3>1. n(y) <= n(c) /\ n(c) \in Nat /\ n(y) \in Nat
      BY <2>1, OnWay DEF On
    <3>2. n(c) > n(l)
      BY <1>1, <1>10, <3>1
    <3>3. QED
      BY <1>5, <2>1, <3>2 DEF Rests
  <2>2. y \in K
    BY <1>5, <1>10 DEF Rests
  <2>3. QED
    BY <1>3, <1>10, <2>1, <2>2, LinkedIs
<1>11. ASSUME NEW y \in K
       PROVE  /\ Linked(d, y, K) => On(blocks, d, y)
              /\ Linked(y, d, K) => On(blocks, y, d)
  BY <1>2, <1>3, LinkedIs
<1>12. ASSUME NEW y \in K PROVE n(P[y].lc) \in Nat /\ n(P[y].lc) < n(d) /\ P[y].lc # d
  <2>1. n(P[y].lc) \in Nat
    BY <1>2, PackNumbers
  <2>2. n(P[y].lc) <= n(l)
    BY <1>1, <2>1 DEF Confirms
  <2>3. QED
    BY <1>1, <1>3, <2>1, <2>2
<1>13. Q[d].lc = d
  <2>1. On(blocks, d, d)
    BY <1>3, OnWay
  <2>2. QED
    BY <1>2, <1>5, <1>8, <1>9, <2>1
<1>14. E = {b \in K : n(b) <= n(d) /\ b # d}
  BY <1>13, NumIsN DEF ToErase
<1>15. ToConfirm(d, K, Q) = {a \in 1..Len(blocks) : On(blocks, a, d) /\ n(a) > n(l)}
  <2>1. ASSUME NEW a \in K, n(a) <= n(d), Q[a].lc = d, ~Q[a].irr
        PROVE  On(blocks, a, d) /\ n(a) > n(l)
    <3>1. Linked(a, d, K) \/ Linked(d, a, K)
      BY <1>2, <1>8, <1>12, <2>1
    <3>2. On(blocks, a, d)
      <4>1. CASE Linked(a, d, K)
        BY <1>11, <4>1
      <4>2. CASE Linked(d, a, K)
        <5>1. On(blocks, d, a)
          BY <1>11, <4>2
        <5>2. n(d) <= n(a)
          BY <5>1 DEF On
        <5>3. n(d) = n(a)
          BY <1>1, <1>2, <2>1, <5>2
        <5>4. a = d
          BY <1>2, <1>3, <5>1, <5>3, OnSame
        <5>5. QED
          BY <5>1, <5>4
      <4>3. QED
        BY <3>1, <4>1, <4>2
    <3>3. n(a) # n(l)
      <4>1. SUFFICES ASSUME n(a) = n(l) PROVE FALSE
        OBVIOUS
      <4>2. On(blocks, a, l)
        BY <1>1, <1>2, <1>3, <1>6, <3>2, <4>1, OnChain
      <4>3. a = l
        BY <1>2, <4>1, <4>2, OnSame
      <4>4. QED
        BY <1>2, <1>8, <2>1, <4>3
    <3>4. QED
      BY <1>1, <1>2, <3>2, <3>3
  <2>2. ASSUME NEW a \in 1..Len(blocks), On(blocks, a, d), n(a) > n(l)
        PROVE  a \in K /\ n(a) <= n(d) /\ Q[a].lc = d /\ ~Q[a].irr
    <3>1. a \in K /\ Linked(a, d, K)
      BY <1>10, <2>2
    <3>2. Q[a].lc = d /\ Q[a].irr = P[a].irr
      BY <1>2, <1>8, <3>1
    <3>3. P[a].irr = FALSE
      BY <2>2, <3>1 DEF Fresh
    <3>4. n(a) <= n(d)
      BY <2>2 DEF On
    <3>5. QED
      BY <3>1, <3>2, <3>3, <3>4
  <2>3. QED
    BY <1>2, <2>1, <2>2, NumIsN DEF ToConfirm
<1> HIDE DEF E
<1>16. d \in J /\ \A y \in J : y \in K /\ n(y) >= n(d) /\ (n(y) = n(d) => y = d)
  BY <1>1, <1>2, <1>5, <1>14
<1>17. Rests(blocks, d, J)
  <2>1. ASSUME NEW y \in J, NEW a \in 1..Len(blocks), On(blocks, a, y), n(a) > n(d)
        PROVE  a \in J
    <3>1. n(a) \in Nat
      BY OnWay
    <3>2. a \in K
      BY <1>1, <1>3, <1>16, <2>1, <3>1 DEF Rests
    <3>3. QED
      BY <1>1, <1>14, <2>1, <3>1, <3>2
  <2>2. QED
    BY <1>16, <2>1 DEF Rests
<1>18. Confirms(blocks, d, J, Q)
  <2>1. ASSUME NEW y \in J, On(blocks, d, y) PROVE Q[y].lc = d
    BY <1>2, <1>8, <1>9, <1>16, <2>1
  <2>2. ASSUME NEW y \in J, ~On(blocks, d, y) PROVE n(Q[y].lc) < n(d)
    <3>1. y \in K /\ n(y) >= n(d) /\ n(y) \in Nat /\ y \in 1..Len(blocks) /\ y \in DOMAIN P
      BY <1>2, <1>16
    <3>2. ~Linked(d, y, K)
      BY <1>11, <2>2, <3>1
    <3>3. ~Linked(y, d, K)
      <4>1. SUFFICES ASSUME Linked(y, d, K) PROVE FALSE
        OBVIOUS
      <4>2. On(blocks, y, d)
        BY <1>11, <3>1, <4>1
      <4>3. n(y) = n(d)
        BY <1>1, <3>1, <4>2 DEF On
      <4>4. y = d
        BY <1>3, <3>1, <4>2, <4>3, OnSame
      <4>5. QED
        BY <2>2, <4>2, <4>4
    <3>4. Q[y].lc = P[y].lc
      BY <1>8, <3>1, <3>2, <3>3
    <3>5. QED
      BY <1>12, <3>1, <3>4
  <2>3. QED
    BY <2>1, <2>2 DEF Confirms
<1>19. Rising(blocks, J, Q)
  <2>1. \A y \in J : Q[y].dpos = P[y].dpos /\ y \in K
    BY <1>2, <1>8, <1>16
  <2>2. QED
    BY <2>1 DEF Rising
<1>20. Caught(blocks, d, J, Q)
  <2>1. ASSUME NEW y \in J, NEW x \in J, On(blocks, d, y) PROVE n(Q[y].dpos) <= n(x)
    <3>1. y \in K /\ y \in 1..Len(blocks) /\ x \in K /\ n(x) >= n(d) /\ n(x) \in Nat
      BY <1>2, <1>16
    <3>2. On(blocks, l, y)
      BY <1>3, <1>6, <2>1, <3>1, OnTrans
    <3>3. n(P[y].dpos) <= n(P[h].dpos)
      BY <3>1, <3>2, BestDpos
    <3>4. n(P[y].dpos) \in Nat /\ Q[y].dpos = P[y].dpos
      BY <1>2, <1>8, <3>1, PackNumbers
    <3>5. QED
      BY <1>1, <3>1, <3>3, <3>4
  <2>2. QED
    BY <2>1 DEF Caught
<1>21. Fresh(blocks, d, J, Q)
  <2>1. ASSUME NEW y \in J, n(y) > n(d) PROVE Q[y].irr = FALSE
    <3>1. y \in K /\ n(y) > n(l) /\ Q[y].irr = P[y].irr
      BY <1>1, <1>2, <1>3, <1>8, <1>16, <2>1
    <3>2. QED
      BY <3>1 DEF Fresh
  <2>2. QED
    BY <2>1 DEF Fresh
<1>22. Best(blocks, h, J, Q)
  <2>1. h \in J
    BY <1>1, <1>7, <1>14
  <2>2. Q[h].lc = d
    BY <1>4, <1>18, <2>1 DEF Confirms
  <2>3. ASSUME NEW c \in J PROVE ~Beats(blocks, c, h, Q)
    <3>1. c \in K /\ ~Beats(blocks, c, h, P)
      BY <1>16 DEF Best
    <3>2. /\ Q[c].dpos = P[c].dpos /\ Q[c].main = P[c].main
          /\ Q[h].dpos = P[h].dpos /\ Q[h].main = P[h].main
      BY <1>1, <1>2, <1>8, <3>1
    <3>3. CASE On(blocks, d, c)
      <4>1. Q[c].lc = d
        BY <1>18, <3>3 DEF Confirms
      <4>2. On(blocks, l, c)
        BY <1>2, <1>3, <1>6, <3>1, <3>3, OnTrans
      <4>3. P[c].lc = l /\ P[h].lc = l
        BY <1>1, <3>1, <4>2 DEF Confirms
      <4>4. QED
        BY <1>1, <2>2, <3>1, <3>2, <4>1, <4>3 DEF Beats
    <3>4. CASE ~On(blocks, d, c)
      <4>1. n(Q[c].lc) < n(d)
        BY <1>18, <3>4 DEF Confirms
      <4>2. n(Q[c].lc) \in Nat
        <5>1. Q[c].lc = d \/ Q[c].lc = P[c].lc
          BY <1>2, <1>8, <3>1
        <5>2. QED
          BY <1>1, <1>12, <3>1, <5>1
      <4>3. QED
        BY <1>1, <2>2, <4>1, <4>2 DEF Beats
    <3>5. QED
      BY <3>3, <3>4
  <2>4. QED
    BY <2>1, <2>3 DEF Best
<1>23. QED
  BY <1>3, <1>4, <1>5, <1>6, <1>14, <1>15, <1>17, <1>18, <1>19, <1>20, <1>21, <1>22
     DEF Grown, Settled, Q, E

(***************************************************************************)
(* The undo database d holds the effects of block bh and has one session   *)
(* for each block above number k on the way to it, which returns to the    *)
(* block before; with e = 1 one more session is open.                      *)
(***************************************************************************)
DbType == [state : Seq(Nat), undo : Seq([rev : Nat, to : Seq(Nat)]), rev : Nat]

DbOK(B, d, bh, k, e) ==
  /\ d \in DbType
  /\ d.rev = N(B, bh) + e
  /\ Len(d.undo) = d.rev - k
  /\ \A i \in 1..Len(d.undo) :
       d.undo[i].rev = k + i /\ d.undo[i].to = B[B[bh].path[k + i - 1]].path
  /\ e = 0 => d.state = B[bh].path

LEMMA UndoIs ==
    ASSUME NEW d \in DbType, Len(d.undo) >= 1
    PROVE  LET r == UndoSession(d)
               n == Len(d.undo)
           IN  /\ r.state = d.undo[n].to /\ r.state \in Seq(Nat)
               /\ r.undo = SubSeq(d.undo, 1, n - 1)
               /\ r.undo \in Seq([rev : Nat, to : Seq(Nat)])
               /\ Len(r.undo) = n - 1 /\ \A i \in 1..(n - 1) : r.undo[i] = d.undo[i]
               /\ r.rev = d.rev - 1
               /\ d.rev >= 1 => r \in DbType
<1> DEFINE n == Len(d.undo)
           S == [rev : Nat, to : Seq(Nat)]
           s == d.undo
<1>1. s \in Seq(S) /\ d.rev \in Nat
  BY DEF DbType
<1>2. n \in Nat /\ n >= 1 /\ s # <<>>
  BY <1>1
<1>3. UndoSession(d) = [state |-> s[n].to, undo |-> SubSeq(s, 1, n - 1), rev |-> d.rev - 1]
  BY <1>2 DEF UndoSession
<1> HIDE DEF s, S
<1>4. s[n] \in S
  BY <1>1, <1>2 DEF n, s
<1>5. s[n].to \in Seq(Nat)
  BY <1>4 DEF S
<1>6. SubSeq(s, 1, n - 1) \in Seq(S) /\ Len(SubSeq(s, 1, n - 1)) = n - 1
      /\ \A i \in 1..(n - 1) : SubSeq(s, 1, n - 1)[i] = s[i]
  BY <1>1, <1>2 DEF n, s
<1> DEFINE r == UndoSession(d)
<1>7. r.state = s[n].to /\ r.undo = SubSeq(s, 1, n - 1) /\ r.rev = d.rev - 1
  BY <1>3
<1>8. d.rev >= 1 => d.rev - 1 \in Nat
  BY <1>1
<1> HIDE DEF n
<1>9. d.rev >= 1 => r \in DbType
  BY <1>3, <1>5, <1>6, <1>8 DEF DbType, S
<1>10. QED
  BY <1>5, <1>6, <1>7, <1>9 DEF s, n, S

LEMMA AbortedDb ==
    ASSUME NEW B, Tree(B), NEW bh \in 1..Len(B), NEW k \in Nat, k >= 1, k <= N(B, bh),
           NEW d, DbOK(B, d, bh, k, 1)
    PROVE  DbOK(B, UndoSession(d), bh, k, 0)
<1> DEFINE r == UndoSession(d)
           n == Len(d.undo)
<1>1. N(B, bh) \in Nat /\ B[bh].path[N(B, bh)] = bh
  BY OnWay, Way
<1>2. d \in DbType /\ d.rev = N(B, bh) + 1 /\ n = d.rev - k
      /\ \A i \in 1..n : d.undo[i].rev = k + i /\ d.undo[i].to = B[B[bh].path[k + i - 1]].path
  BY DEF DbOK
<1>3. n >= 1 /\ n \in Nat /\ d.rev >= 1 /\ k + n - 1 = N(B, bh)
  BY <1>1, <1>2, SMTT(60)
<1> HIDE DEF n
<1>4. /\ r \in DbType /\ r.state = d.undo[n].to /\ Len(r.undo) = n - 1
      /\ \A i \in 1..(n - 1) : r.undo[i] = d.undo[i]
      /\ r.rev = d.rev - 1
  BY <1>2, <1>3, UndoIs DEF n
<1> HIDE DEF r
<1>5. d.undo[n].to = B[bh].path
  <2>1. n \in 1..n
    BY <1>3
  <2>2. d.undo[n].to = B[B[bh].path[k + n - 1]].path
    BY <1>2, <2>1
  <2>3. QED
    BY <1>1, <1>3, <2>2
<1>6. Len(r.undo) = r.rev - k /\ r.rev = N(B, bh) + 0
  BY <1>1, <1>2, <1>3, <1>4, SMTT(60)
<1>7. \A i \in 1..Len(r.undo) :
         r.undo[i].rev = k + i /\ r.undo[i].to = B[B[bh].path[k + i - 1]].path
  <2>1. SUFFICES ASSUME NEW i \in 1..Len(r.undo)
                 PROVE  r.undo[i].rev = k + i /\ r.undo[i].to = B[B[bh].path[k + i - 1]].path
    OBVIOUS
  <2>2. i \in 1..(n - 1) /\ i \in 1..n
    BY <1>3, <1>4, <2>1
  <2>3. QED
    BY <1>2, <1>4, <2>2
<1>8. QED
  BY <1>4, <1>5, <1>6, <1>7 DEF DbOK, r

LEMMA PoppedDb ==
    ASSUME NEW B, Tree(B), NEW bh \in 1..Len(B), NEW p \in 1..Len(B), B[bh].prev = p,
           NEW k \in Nat, k >= 1, k <= N(B, p), NEW e \in {0, 1},
           NEW d, DbOK(B, d, bh, k, e)
    PROVE  DbOK(B, UndoSession(d), p, k, e)
<1> DEFINE r == UndoSession(d)
           n == Len(d.undo)
<1>1. N(B, bh) = N(B, p) + 1 /\ N(B, p) \in Nat /\ B[bh].path[N(B, p)] = p
      /\ \A i \in 1..N(B, p) : B[bh].path[i] = B[p].path[i]
  BY OnPrev DEF On
<1>2. d \in DbType /\ d.rev = N(B, bh) + e /\ n = d.rev - k
      /\ \A i \in 1..n : d.undo[i].rev = k + i /\ d.undo[i].to = B[B[bh].path[k + i - 1]].path
  BY DEF DbOK
<1>3. n >= 1 /\ n \in Nat /\ d.rev >= 1 /\ k + n - 1 = N(B, p) + e
  BY <1>1, <1>2, SMTT(60)
<1> HIDE DEF n
<1>4. /\ r \in DbType /\ r.state = d.undo[n].to /\ Len(r.undo) = n - 1
      /\ \A i \in 1..(n - 1) : r.undo[i] = d.undo[i]
      /\ r.rev = d.rev - 1
  BY <1>2, <1>3, UndoIs DEF n
<1> HIDE DEF r
<1>5. e = 0 => r.state = B[p].path
  <2>1. n \in 1..n
    BY <1>3
  <2>2. d.undo[n].to = B[B[bh].path[k + n - 1]].path
    BY <1>2, <2>1
  <2>3. e = 0 => k + n - 1 = N(B, p)
    BY <1>1, <1>3
  <2>4. QED
    BY <1>1, <1>4, <2>2, <2>3
<1>6. Len(r.undo) = r.rev - k /\ r.rev = N(B, p) + e
  BY <1>1, <1>2, <1>3, <1>4, SMTT(60)
<1>7. \A i \in 1..Len(r.undo) :
         r.undo[i].rev = k + i /\ r.undo[i].to = B[B[p].path[k + i - 1]].path
  <2>1. SUFFICES ASSUME NEW i \in 1..Len(r.undo)
                 PROVE  r.undo[i].rev = k + i /\ r.undo[i].to = B[B[p].path[k + i - 1]].path
    OBVIOUS
  <2>2. i \in 1..(n - 1) /\ i \in 1..n /\ k + i - 1 \in 1..N(B, p)
    <3>1. i \in Nat /\ i >= 1 /\ i <= n - 1 /\ e <= 1 /\ e \in Nat
      BY <1>3, <1>4, <2>1
    <3>2. QED
      BY <1>1, <1>3, <3>1
  <2>3. B[bh].path[k + i - 1] = B[p].path[k + i - 1]
    BY <1>1, <2>2
  <2>4. QED
    BY <1>2, <1>4, <2>2, <2>3
<1>8. QED
  BY <1>4, <1>5, <1>6, <1>7 DEF DbOK, r

\* A database is what its fields say.
LEMMA DbMade ==
    ASSUME NEW s \in Seq(Nat), NEW u \in Seq([rev : Nat, to : Seq(Nat)]), NEW n \in Nat,
           NEW r, r = [state |-> s, undo |-> u, rev |-> n]
    PROVE  r \in DbType /\ r.state = s /\ r.undo = u /\ r.rev = n
BY DEF DbType

\* r is d with a new session for block b.
SessionOf(r, d, b) == r = [StartSession(d) EXCEPT !.state = Append(@, b)]

\* The session of block b built on bh: with it the database is at b.
LEMMA StartedDb ==
    ASSUME NEW B, Tree(B), NEW bh \in 1..Len(B), NEW b \in 1..Len(B), B[b].prev = bh,
           NEW k \in Nat, k >= 1, k <= N(B, bh), NEW d, DbOK(B, d, bh, k, 0),
           NEW r, SessionOf(r, d, b)
    PROVE  /\ DbOK(B, r, bh, k, 1) /\ DbOK(B, r, b, k, 0)
           /\ r.state = B[b].path
<1> DEFINE n == Len(d.undo)
           S == [rev : Nat, to : Seq(Nat)]
           x == [rev |-> d.rev + 1, to |-> d.state]
           t == Append(d.state, b)
           u == Append(d.undo, x)
<1>1. /\ N(B, b) = N(B, bh) + 1 /\ N(B, bh) \in Nat /\ B[bh].path[N(B, bh)] = bh
      /\ B[b].path = Append(B[bh].path, b) /\ B[bh].path \in Seq(Nat)
      /\ B[b].path \in Seq(Nat)
      /\ \A i \in 1..N(B, bh) : B[b].path[i] = B[bh].path[i]
  <2>1. B[bh].path \in Seq(Nat) /\ B[b].path \in Seq(Nat) /\ B[bh].path[N(B, bh)] = bh
    BY OnWay, Way
  <2>2. QED
    BY <2>1, OnPrev
<1>2. /\ d \in DbType /\ d.rev = N(B, bh) + 0 /\ n = d.rev - k /\ d.state = B[bh].path
      /\ \A i \in 1..n : d.undo[i].rev = k + i /\ d.undo[i].to = B[B[bh].path[k + i - 1]].path
  BY DEF DbOK
<1>3. d.state \in Seq(Nat) /\ d.undo \in Seq(S) /\ d.rev \in Nat
      /\ d = [state |-> d.state, undo |-> d.undo, rev |-> d.rev]
  BY <1>2 DEF DbType
<1>4. r = [state |-> t, undo |-> u, rev |-> d.rev + 1]
  BY <1>3 DEF StartSession, SessionOf
<1>5. x \in S /\ x.rev = d.rev + 1 /\ x.to = d.state
  BY <1>3
<1>6. t = B[b].path /\ t \in Seq(Nat)
  BY <1>1, <1>2
<1> HIDE DEF S, x, t
<1>7. u \in Seq(S) /\ Len(u) = n + 1 /\ u[n + 1] = x /\ \A i \in 1..n : u[i] = d.undo[i]
  BY <1>3, <1>5
<1> HIDE DEF u, n
<1>8. r \in DbType /\ r.state = t /\ r.undo = u /\ r.rev = d.rev + 1
  <2>1. d.rev + 1 \in Nat
    BY <1>3
  <2>2. QED
    <3>1. u \in Seq([rev : Nat, to : Seq(Nat)])
      BY <1>7 DEF S
    <3>2. QED
      BY ONLY <1>4, <1>6, <2>1, <3>1, DbMade
<1>9. r.rev = N(B, bh) + 1 /\ r.rev = N(B, b) + 0 /\ Len(u) = r.rev - k
      /\ n \in Nat /\ k + n = N(B, bh) /\ d.rev + 1 = k + n + 1
  <2>1. d.rev = N(B, bh) /\ N(B, bh) \in Nat /\ n = d.rev - k /\ N(B, b) = N(B, bh) + 1
    BY <1>1, <1>2
  <2>2. n \in Nat /\ k + n = N(B, bh)
    BY ONLY <2>1, k \in Nat, k >= 1, k <= N(B, bh)
  <2>3. QED
    BY ONLY <1>7, <1>8, <2>1, <2>2, k \in Nat, SMTT(60)
<1>10. ASSUME NEW i \in 1..Len(u)
       PROVE  /\ u[i].rev = k + i /\ u[i].to = B[B[bh].path[k + i - 1]].path
              /\ B[b].path[k + i - 1] = B[bh].path[k + i - 1]
  <2>1. i \in Nat /\ i >= 1 /\ i <= n + 1
    BY <1>7, <1>9
  <2>2. k + i - 1 \in 1..N(B, bh)
    <3>1. N(B, bh) \in Nat /\ k + n = N(B, bh) /\ n \in Nat
      BY <1>1, <1>9
    <3>2. QED
      BY ONLY <2>1, <3>1, k \in Nat, k >= 1
  <2>3. B[b].path[k + i - 1] = B[bh].path[k + i - 1]
    BY <1>1, <2>2
  <2>4. CASE i <= n
    <3>1. i \in 1..n
      BY <2>1, <2>4, <1>9
    <3>2. QED
      BY <1>2, <1>7, <2>3, <3>1
  <2>5. CASE i = n + 1
    <3>1. u[i] = x /\ k + i = d.rev + 1 /\ k + i - 1 = N(B, bh)
      BY <1>7, <1>9, <2>5, SMTT(60)
    <3>2. B[bh].path[k + i - 1] = bh
      BY <1>1, <3>1
    <3>3. QED
      BY <1>2, <1>5, <2>3, <3>1, <3>2
  <2>6. QED
    BY <1>9, <2>1, <2>4, <2>5
<1>11. DbOK(B, r, bh, k, 1)
  <2>1. \A i \in 1..Len(r.undo) :
          r.undo[i].rev = k + i /\ r.undo[i].to = B[B[bh].path[k + i - 1]].path
    BY <1>8, <1>10
  <2>2. QED
    BY <1>8, <1>9, <2>1 DEF DbOK
<1>12. DbOK(B, r, b, k, 0)
  <2>1. \A i \in 1..Len(r.undo) :
          r.undo[i].rev = k + i /\ r.undo[i].to = B[B[b].path[k + i - 1]].path
    BY <1>8, <1>10
  <2>2. QED
    BY <1>6, <1>8, <1>9, <2>1 DEF DbOK
<1>13. QED
  BY <1>6, <1>8, <1>11, <1>12

\* The session that is open is that of block b, and becomes its undo session.
LEMMA PushedDb ==
    ASSUME NEW B, Tree(B), NEW bh \in 1..Len(B), NEW b \in 1..Len(B), B[b].prev = bh,
           NEW k \in Nat, k >= 1, k <= N(B, bh), NEW d, DbOK(B, d, bh, k, 1),
           d.state = B[b].path
    PROVE  DbOK(B, d, b, k, 0)
<1>1. /\ N(B, b) = N(B, bh) + 1 /\ N(B, bh) \in Nat
      /\ \A i \in 1..N(B, bh) : B[b].path[i] = B[bh].path[i]
  BY OnPrev, ZenonT(60)
<1> DEFINE n == Len(d.undo)
<1>2. /\ d \in DbType /\ d.rev = N(B, bh) + 1 /\ n = d.rev - k
      /\ \A i \in 1..n : d.undo[i].rev = k + i /\ d.undo[i].to = B[B[bh].path[k + i - 1]].path
  BY DEF DbOK
<1> HIDE DEF n
<1>3. n \in Nat /\ k + n - 1 = N(B, bh) /\ d.rev = N(B, b) + 0
  <2>1. d.rev = N(B, bh) + 1 /\ n = d.rev - k /\ N(B, b) = N(B, bh) + 1 /\ N(B, bh) \in Nat
    BY <1>1, <1>2
  <2>2. QED
    BY ONLY <2>1, k \in Nat, k <= N(B, bh)
<1>4. ASSUME NEW i \in 1..n
      PROVE  d.undo[i].rev = k + i /\ d.undo[i].to = B[B[b].path[k + i - 1]].path
  <2>1. k + i - 1 \in 1..N(B, bh)
    BY <1>1, <1>3
  <2>2. B[b].path[k + i - 1] = B[bh].path[k + i - 1]
    BY <1>1, <2>1
  <2>3. QED
    BY <1>2, <2>2
<1>5. QED
  BY <1>2, <1>3, <1>4 DEF DbOK, n

\* Committing block number k + 1 drops the oldest session.
LEMMA CommittedDb ==
    ASSUME NEW B, Tree(B), NEW bh \in 1..Len(B), NEW k \in Nat, k + 1 <= N(B, bh),
           NEW e \in {0, 1}, NEW d, DbOK(B, d, bh, k, e)
    PROVE  DbOK(B, CommitSessions(d, k + 1), bh, k + 1, e)
<1> DEFINE n == Len(d.undo)
           S == [rev : Nat, to : Seq(Nat)]
           c == Committed(d.undo, k + 1)
           u == SubSeq(d.undo, c + 1, n)
           r == CommitSessions(d, k + 1)
<1>1. N(B, bh) \in Nat
  BY OnWay
<1>2. /\ d \in DbType /\ d.rev = N(B, bh) + e /\ n = d.rev - k
      /\ \A i \in 1..n : d.undo[i].rev = k + i /\ d.undo[i].to = B[B[bh].path[k + i - 1]].path
      /\ e = 0 => d.state = B[bh].path
  BY DEF DbOK
<1>3. d.state \in Seq(Nat) /\ d.undo \in Seq(S) /\ d.rev \in Nat
      /\ d = [state |-> d.state, undo |-> d.undo, rev |-> d.rev]
  BY <1>2 DEF DbType
<1> HIDE DEF n, S
<1>4. n >= 1 /\ n \in Nat
  BY <1>1, <1>2
<1>5. c = 1
  <2> DEFINE Stops(j) == /\ \A i \in 1..j : d.undo[i].rev <= k + 1
                         /\ j < Len(d.undo) => d.undo[j + 1].rev > k + 1
  <2>1. \A i \in 1..n : d.undo[i].rev = k + i
    BY <1>2
  <2> HIDE DEF Stops
  <2>2. Stops(1)
    <3>1. \A i \in 1..1 : i \in 1..n /\ d.undo[i].rev <= k + 1
      BY <1>4, <2>1
    <3>2. 1 < n => 2 \in 1..n
      BY <1>4
    <3>3. 1 < n => d.undo[1 + 1].rev = k + 2
      BY <2>1, <3>2
    <3>4. 1 < n => d.undo[1 + 1].rev > k + 1
      BY <3>3
    <3>5. QED
      BY <3>1, <3>4 DEF Stops, n
  <2>3. ASSUME NEW j \in 0..n, Stops(j) PROVE j = 1
    <3>1. CASE j = 0
      <4>1. 1 \in 1..n /\ j < n
        BY <1>4, <3>1
      <4>2. d.undo[j + 1].rev > k + 1
        BY <2>3, <4>1 DEF Stops, n
      <4>3. d.undo[j + 1].rev = k + 1
        BY <2>1, <3>1, <4>1
      <4>4. QED
        BY <4>2, <4>3
    <3>2. CASE j >= 2
      <4>1. 2 \in 1..j /\ 2 \in 1..n
        BY <3>2, <1>4
      <4>2. d.undo[2].rev <= k + 1
        BY <2>3, <4>1 DEF Stops
      <4>3. d.undo[2].rev = k + 2
        BY <2>1, <4>1
      <4>4. QED
        BY <4>2, <4>3
    <3>3. QED
      BY <3>1, <3>2, <1>4
  <2>4. 1 \in 0..n
    BY <1>4
  <2>5. c = CHOOSE j \in 0..n : Stops(j)
    BY DEF Committed, Stops, n
  <2> HIDE DEF c
  <2>6. QED
    BY <2>2, <2>3, <2>4, <2>5
<1>6. r = [state |-> d.state, undo |-> u, rev |-> d.rev]
  <2>1. r = [d EXCEPT !.undo = u]
    BY DEF CommitSessions, n
  <2> HIDE DEF u, r
  <2>2. QED
    BY <1>3, <2>1
<1> HIDE DEF c, r
<1>7. u \in Seq(S) /\ Len(u) = n - 1 /\ \A i \in 1..(n - 1) : u[i] = d.undo[i + 1]
  <2>1. u = SubSeq(d.undo, 2, n) /\ Len(d.undo) = n
    BY <1>5 DEF n
  <2> DEFINE s == d.undo
  <2>2. s \in Seq(S) /\ Len(s) = n /\ u = SubSeq(s, 2, n)
    BY <1>3, <2>1
  <2> HIDE DEF s
  <2> HIDE DEF u
  <2>3. u \in Seq(S) /\ Len(u) = n - 1 /\ \A i \in 1..(n - 1) : u[i] = s[i + 1]
    BY ONLY <1>4, <2>2
  <2>4. QED
    BY <2>3 DEF s
<1> HIDE DEF u
<1>8. r \in DbType /\ r.state = d.state /\ r.undo = u /\ r.rev = d.rev
  BY <1>3, <1>6, <1>7, DbMade DEF S
<1>9. Len(u) = r.rev - (k + 1)
  BY <1>2, <1>3, <1>7, <1>8
<1>10. ASSUME NEW i \in 1..Len(u)
       PROVE  u[i].rev = (k + 1) + i /\ u[i].to = B[B[bh].path[(k + 1) + i - 1]].path
  <2>1. i \in 1..(n - 1) /\ i + 1 \in 1..n /\ k + (i + 1) = (k + 1) + i
        /\ k + (i + 1) - 1 = (k + 1) + i - 1
    BY <1>4, <1>7
  <2>2. d.undo[i + 1].rev = k + (i + 1) /\ d.undo[i + 1].to = B[B[bh].path[k + (i + 1) - 1]].path
    BY <1>2, <2>1
  <2>3. QED
    BY <1>7, <2>1, <2>2
<1>11. QED
  BY <1>2, <1>8, <1>9, <1>10 DEF DbOK, r

\* A restart at block a, the end of the log.
LEMMA RestartedDb ==
    ASSUME NEW B, Tree(B), NEW bh \in 1..Len(B), NEW a \in 1..Len(B), On(B, a, bh),
           NEW e \in {0, 1}, NEW d, DbOK(B, d, bh, N(B, a), e)
    PROVE  /\ N(B, a) <= d.rev
           /\ DbOK(B, IF N(B, a) = d.rev THEN d
                      ELSE [UndoAllSessions(d) EXCEPT !.rev = N(B, a)], a, N(B, a), 0)
<1> DEFINE n == Len(d.undo)
           S == [rev : Nat, to : Seq(Nat)]
           k == N(B, a)
<1>1. /\ N(B, bh) \in Nat /\ k \in Nat /\ k >= 1 /\ k <= N(B, bh) /\ B[bh].path[k] = a
      /\ B[a].path \in Seq(Nat)
  BY OnWay
<1>2. /\ d \in DbType /\ d.rev = N(B, bh) + e /\ n = d.rev - k
      /\ \A i \in 1..n : d.undo[i].rev = k + i /\ d.undo[i].to = B[B[bh].path[k + i - 1]].path
      /\ e = 0 => d.state = B[bh].path
  BY DEF DbOK
<1>3. d.state \in Seq(Nat) /\ d.undo \in Seq(S) /\ d.rev \in Nat
  BY <1>2 DEF DbType
<1>4. N(B, a) <= d.rev
  BY <1>1, <1>2
<1>5. CASE N(B, a) = d.rev
  <2>1. e = 0 /\ N(B, a) = N(B, bh)
    BY <1>1, <1>2, <1>5
  <2>2. a = bh
    BY <2>1, OnSame
  <2>3. QED
    BY <1>4, <1>5, <2>1, <2>2
<1>6. CASE N(B, a) # d.rev
  <2> DEFINE r == [UndoAllSessions(d) EXCEPT !.rev = N(B, a)]
             z == <<>>
  <2>1. n >= 1 /\ 1 \in 1..n /\ d.undo # <<>>
    BY <1>1, <1>2, <1>4, <1>6
  <2>2. d.undo[1].to = B[B[bh].path[k + 1 - 1]].path
    BY <1>2, <2>1
  <2>3. d.undo[1].to = B[a].path
    BY <1>1, <2>2
  <2>4. r = [state |-> d.undo[1].to, undo |-> z, rev |-> N(B, a)]
    BY <2>1 DEF UndoAllSessions
  <2>5. z \in Seq(S) /\ Len(z) = 0
    OBVIOUS
  <2> HIDE DEF z, S, r
  <2>6. r \in DbType /\ r.state = B[a].path /\ r.undo = z /\ r.rev = k
    <3>1. r = [state |-> B[a].path, undo |-> z, rev |-> N(B, a)]
      BY <2>3, <2>4
    <3>2. B[a].path \in Seq(Nat) /\ z \in Seq([rev : Nat, to : Seq(Nat)]) /\ N(B, a) \in Nat
      BY <1>1, <2>5 DEF S
    <3>3. QED
      BY ONLY <3>1, <3>2, DbMade
  <2>7. DbOK(B, r, a, k, 0)
    BY <1>1, <2>5, <2>6 DEF DbOK
  <2>8. QED
    BY <1>4, <1>6, <2>7 DEF r
<1>7. QED
  BY <1>5, <1>6

LEMMA DbGrows ==
    ASSUME NEW B, NEW C, Tree(B), \A b \in 1..Len(B) : C[b] = B[b],
           NEW bh \in 1..Len(B), NEW k \in Nat, k >= 1, NEW e \in {0, 1},
           NEW d, DbOK(B, d, bh, k, e)
    PROVE  DbOK(C, d, bh, k, e)
<1> DEFINE n == Len(d.undo)
<1>1. N(B, bh) \in Nat /\ \A i \in 1..N(B, bh) : B[bh].path[i] \in 1..Len(B)
  BY OnWay
<1>2. /\ d \in DbType /\ d.rev = N(B, bh) + e /\ n = d.rev - k
      /\ \A i \in 1..n : d.undo[i].rev = k + i /\ d.undo[i].to = B[B[bh].path[k + i - 1]].path
      /\ e = 0 => d.state = B[bh].path
  BY DEF DbOK
<1>3. N(C, bh) = N(B, bh) /\ C[bh] = B[bh]
  BY DEF N
<1> HIDE DEF n
<1>4. ASSUME NEW i \in 1..n
      PROVE  d.undo[i].rev = k + i /\ d.undo[i].to = C[C[bh].path[k + i - 1]].path
  <2>1. k + i - 1 \in 1..N(B, bh)
    BY <1>1, <1>2, SMTT(60)
  <2>2. C[bh].path[k + i - 1] = B[bh].path[k + i - 1]
        /\ C[B[bh].path[k + i - 1]] = B[B[bh].path[k + i - 1]]
    BY <1>1, <1>3, <2>1
  <2>3. QED
    BY <1>2, <2>2, SMTT(60)
<1>5. QED
  BY <1>2, <1>3, <1>4 DEF DbOK, n

(***************************************************************************)
(* The third invariant.  l is the last irreversible block, or the block    *)
(* that on_last_confirmed_grow works towards.                              *)
(***************************************************************************)
Growing(B, l, K, P, fh, lg, c, j) ==
  /\ l \in K /\ On(B, lg[Len(lg)], l)
  /\ j.todo = {a \in 1..Len(B) :
                 On(B, a, l) /\ N(B, a) > (IF c = "commit" THEN Len(lg) - 1 ELSE Len(lg))}
  /\ j.todo \subseteq K
  /\ l \notin j.todo => P[l].irr = TRUE
  /\ j.erase = {b \in K : N(B, b) <= N(B, l) /\ b # l}
  /\ TurnsOf(B, B[fh].path, N(B, l)) >= DposNeed

Resting(l, K, P, lg, j) == l = lg[Len(lg)] /\ j.erase = {} /\ (l \in K => P[l].irr = TRUE)

Target(B, l, K, P, fh, lg, c, j) ==
  IF c \in {"grow", "commit"} THEN Growing(B, l, K, P, fh, lg, c, j)
                              ELSE Resting(l, K, P, lg, j)

\* The main_chain flags mark the branch of m.
Marked(B, J, P, m) == \A y \in J : P[y].main = TRUE <=> On(B, y, m)

\* A block that was pushed on block_head is not yet block_head.
Pushing(c, j) == c = "pushed" \/ (c \in {"grow", "commit"} /\ j.then = "pushed")

Ahead(B, J, P, fh, bh, c, j) ==
  /\ Best(B, fh, J, P)
  /\ c \in {"idle", "recv", "build", "down"} => fh = bh
  /\ Pushing(c, j) => fh = j.blk /\ B[fh].prev = bh /\ Marked(B, J, P, fh)
  /\ ~Pushing(c, j) => bh \in J /\ Marked(B, J, P, bh)

\* The fork database after a kill: empty.
Lost(l, P, bh, c) ==
  /\ bh = l /\ P[l].lc = l /\ P[l].dpos = NoBlock /\ P[l].win = <<>>
  /\ c \in {"idle", "recv", "build"}

Heads(B, l, J, P, fh, bh, c, j) ==
  /\ On(B, l, bh)
  /\ J = {} => Lost(l, P, bh, c)
  /\ J # {} => Ahead(B, J, P, fh, bh, c, j)

Live(B, l, K, P, fh, bh, lg, c, j) ==
  /\ Target(B, l, K, P, fh, lg, c, j)
  /\ Settled(B, l, K \ j.erase, P)
  /\ Heads(B, l, K \ j.erase, P, fh, bh, c, j)

LogWay(B, lg, bh) ==
  /\ \A i \in 1..Len(lg) : B[lg[Len(lg)]].path[i] = lg[i]
  /\ On(B, lg[Len(lg)], bh)

\* The undo sessions reach down to the log.
Stacked(B, d, bh, bd, lg, c, j, f) ==
  /\ bd \in BOOLEAN
  /\ \E e \in {0, 1} :
       /\ DbOK(B, d, bh, IF c = "commit" THEN Len(lg) - 1 ELSE Len(lg), e)
       /\ c # "down" => (bd = TRUE <=> e = 1)
       /\ f = TRUE => e = 0
  /\ Pushing(c, j) => bd = TRUE /\ d.state = B[j.blk].path

\* A block with path q is not too far from the branch of bh.
Near(B, bh, q) ==
  \E n \in 1..Len(q) :
    /\ n <= N(B, bh) /\ q[n] = B[bh].path[n]
    /\ n = N(B, bh) \/ Len(q) - n <= ForkDepth

Agreed ==
  /\ Windows(blocks, pack)
  /\ LogWay(blocks, log, block_head)
  /\ Stacked(blocks, db, block_head, building, log, pc, job, file)
  /\ pc = "recv" => Near(blocks, block_head, blocks[job.blk].path)
  /\ (pc = "down" => file = TRUE) =>
       \E l \in 1..Len(blocks) :
         Live(blocks, l, known, pack, fork_head, block_head, log, pc, job)

(***************************************************************************)
(* What does not change the parts of it.                                   *)
(***************************************************************************)
\* P and Q differ at most in confirmations.
Like(P, Q) ==
  /\ DOMAIN Q = DOMAIN P
  /\ \A b \in DOMAIN P : /\ Q[b].main = P[b].main /\ Q[b].lc = P[b].lc /\ Q[b].dpos = P[b].dpos
                         /\ Q[b].win = P[b].win /\ Q[b].irr = P[b].irr

LEMMA LikeWin ==
    ASSUME NEW P, NEW Q, Like(P, Q)
    PROVE  SameWin(P, Q)
BY DEF Like, SameWin

LEMMA ConfirmedLike ==
    ASSUME Cardinality(Builders) >= 3, NEW B, NEW P, Packs(B, P), NEW K, NEW b
    PROVE  Like(P, Confirmed(b, K, P))
<1> DEFINE Q == [P EXCEPT ![b].conf = TRUE]
           T == PackTypeOf(Len(B))
<1>1. Confirmed(b, K, P)
        = IF EnoughConfirmations(Q[b]) /\ Num(Q[b].lc) < Num(b) THEN Confirming(b, K, Q) ELSE Q
  BY Zenon DEF Confirmed
<1>2. ~EnoughConfirmations(Q[b])
  <2>1. Cardinality(Builders) \in Nat
    BY ForkDbAssumption, FS_CardinalityType
  <2>2. \A c \in Nat : c >= 3 => ~(1 >= (c * 2) \div 3) /\ ~(0 >= (c * 2) \div 3)
    OBVIOUS
  <2> HIDE DEF Q
  <2>3. QED
    BY <2>1, <2>2 DEF EnoughConfirmations
<1>3. ASSUME NEW q \in T
      PROVE  LET r == [q EXCEPT !.conf = TRUE]
             IN  /\ r.main = q.main /\ r.lc = q.lc /\ r.dpos = q.dpos /\ r.win = q.win
                 /\ r.irr = q.irr
  BY DEF PackTypeOf
<1>4. P = [c \in DOMAIN P |-> P[c]] /\ \A c \in DOMAIN P : P[c] \in T
  BY DEF Packs
<1> HIDE DEF T
<1>5. \A c \in DOMAIN P : Q[c] = IF c = b THEN [P[c] EXCEPT !.conf = TRUE] ELSE P[c]
  BY <1>4
<1>6. DOMAIN Q = DOMAIN P
  BY <1>4
<1> HIDE DEF Q
<1>7. Like(P, Q)
  BY <1>3, <1>4, <1>5, <1>6, ZenonT(60) DEF Like
<1>8. QED
  BY <1>1, <1>2, <1>7

LEMMA LikeLive ==
    ASSUME NEW B, NEW P, NEW Q, Like(P, Q), NEW l, NEW K, K \subseteq DOMAIN P,
           NEW fh, NEW bh, l \in K \/ bh \in DOMAIN P, NEW lg, NEW c, NEW j,
           Live(B, l, K, P, fh, bh, lg, c, j)
    PROVE  Live(B, l, K, Q, fh, bh, lg, c, j)
<1> DEFINE J == K \ j.erase
<1>1. /\ DOMAIN Q = DOMAIN P
      /\ \A b \in DOMAIN P : /\ Q[b].main = P[b].main /\ Q[b].lc = P[b].lc
                             /\ Q[b].dpos = P[b].dpos /\ Q[b].win = P[b].win /\ Q[b].irr = P[b].irr
  BY DEF Like
<1>2. J \subseteq DOMAIN P
  OBVIOUS
<1>3. Target(B, l, K, Q, fh, lg, c, j)
  BY <1>1 DEF Live, Target, Growing, Resting
<1> HIDE DEF J
<1>4. Settled(B, l, J, P) /\ Heads(B, l, J, P, fh, bh, c, j)
  BY DEF Live, J
<1>5. Settled(B, l, J, Q)
  <2>1. Confirms(B, l, J, Q)
    BY <1>1, <1>2, <1>4 DEF Settled, Confirms
  <2>2. Rising(B, J, Q)
    BY <1>1, <1>2, <1>4 DEF Settled, Rising
  <2>3. Caught(B, l, J, Q)
    BY <1>1, <1>2, <1>4 DEF Settled, Caught
  <2>4. Fresh(B, l, J, Q)
    BY <1>1, <1>2, <1>4 DEF Settled, Fresh
  <2>5. QED
    BY <1>4, <2>1, <2>2, <2>3, <2>4 DEF Settled
<1>6. Heads(B, l, J, Q, fh, bh, c, j)
  <2>1. ASSUME J = {} PROVE Lost(l, Q, bh, c)
    <3>1. Lost(l, P, bh, c) /\ l \in DOMAIN P
      BY <1>4, <2>1 DEF Heads, Lost
    <3>2. QED
      BY <1>1, <3>1 DEF Lost
  <2>2. ASSUME J # {} PROVE Ahead(B, J, Q, fh, bh, c, j)
    <3>1. Ahead(B, J, P, fh, bh, c, j)
      BY <1>4, <2>2 DEF Heads
    <3>2. Best(B, fh, J, Q)
      <4>1. fh \in J /\ \A x \in J : ~Beats(B, x, fh, P)
        BY <3>1 DEF Ahead, Best
      <4>2. \A x \in J : Q[x].main = P[x].main /\ Q[x].lc = P[x].lc /\ Q[x].dpos = P[x].dpos
        BY <1>1, <1>2
      <4>3. \A x \in J : ~Beats(B, x, fh, Q)
        BY <4>1, <4>2 DEF Beats
      <4>4. QED
        BY <4>1, <4>3 DEF Best
    <3>3. \A m : Marked(B, J, P, m) => Marked(B, J, Q, m)
      BY <1>1, <1>2 DEF Marked
    <3>4. QED
      BY <3>1, <3>2, <3>3 DEF Ahead
  <2>3. QED
    BY <1>4, <2>1, <2>2 DEF Heads
<1>7. QED
  BY <1>3, <1>5, <1>6 DEF Live, J

\* A step that changes neither the blocks nor the fork database.
LEMMA RestLive ==
    ASSUME NEW B, NEW l, NEW K, NEW P, NEW fh, NEW bh, NEW lg, NEW c, NEW j, NEW d, NEW i,
           Live(B, l, K, P, fh, bh, lg, c, j), i.erase = {},
           c \notin {"grow", "commit", "pushed"}, d \notin {"grow", "commit", "pushed"},
           d \in {"idle", "recv", "build", "down"} =>
             c \in {"idle", "recv", "build", "down"} \/ fh = bh,
           K = {} => d \in {"idle", "recv", "build"}
    PROVE  Live(B, l, K, P, fh, bh, lg, d, i)
<1>1. l = lg[Len(lg)] /\ j.erase = {} /\ (l \in K => P[l].irr = TRUE)
  BY DEF Live, Target, Resting
<1>2. Target(B, l, K, P, fh, lg, d, i)
  BY <1>1 DEF Target, Resting
<1>3. K \ j.erase = K /\ K \ i.erase = K
  BY <1>1
<1>4. Settled(B, l, K, P) /\ Heads(B, l, K, P, fh, bh, c, j)
  BY <1>3 DEF Live
<1>5. ~Pushing(c, j) /\ ~Pushing(d, i)
  BY DEF Pushing
<1>6. K # {} => Ahead(B, K, P, fh, bh, d, i)
  BY <1>4, <1>5 DEF Heads, Ahead
<1>7. K = {} => Lost(l, P, bh, d)
  BY <1>4 DEF Heads, Lost
<1>8. Heads(B, l, K, P, fh, bh, d, i)
  BY <1>4, <1>6, <1>7 DEF Heads
<1>9. QED
  BY <1>2, <1>3, <1>4, <1>8 DEF Live

LEMMA RestStacked ==
    ASSUME NEW B, NEW d, NEW bh, NEW bd, NEW lg, NEW c, NEW j, NEW f, NEW x, NEW i, NEW g,
           Stacked(B, d, bh, bd, lg, c, j, f), c \notin {"commit", "down"},
           x \notin {"grow", "commit", "pushed"}, g = FALSE
    PROVE  Stacked(B, d, bh, bd, lg, x, i, g)
<1>1. PICK e \in {0, 1} : DbOK(B, d, bh, Len(lg), e) /\ (bd = TRUE <=> e = 1)
  BY DEF Stacked
<1>2. ~Pushing(x, i) /\ bd \in BOOLEAN
  BY DEF Pushing, Stacked
<1>3. QED
  BY <1>1, <1>2 DEF Stacked

(***************************************************************************)
(* New blocks.                                                             *)
(***************************************************************************)
LEMMA LiveGrows ==
    ASSUME NEW B, NEW C, Tree(B), Tree(C), Len(B) <= Len(C), \A b \in 1..Len(B) : C[b] = B[b],
           NEW P, Packs(B, P), NEW K, K \subseteq DOMAIN P, NEW l \in 1..Len(B),
           NEW fh, NEW bh \in 1..Len(B), NEW lg, NEW j,
           Live(B, l, K, P, fh, bh, lg, "idle", j)
    PROVE  Live(C, l, K, P, fh, bh, lg, "idle", j)
<1>1. Len(B) \in Nat /\ Len(C) \in Nat
  BY TreeLen
<1>2. l = lg[Len(lg)] /\ j.erase = {} /\ (l \in K => P[l].irr = TRUE)
  BY DEF Live, Target, Resting
<1>3. Target(C, l, K, P, fh, lg, "idle", j)
  BY <1>2 DEF Target, Resting
<1>4. K \ j.erase = K
  BY <1>2
<1>5. Settled(B, l, K, P) /\ Heads(B, l, K, P, fh, bh, "idle", j)
  BY <1>4 DEF Live
<1>6. K \subseteq 1..Len(B) /\ \A y \in K : P[y].lc \in 0..Len(B) /\ P[y].dpos \in 0..Len(B)
  BY PackNumbers
<1>7. /\ \A b \in 0..Len(B) : N(C, b) = N(B, b)
      /\ \A a \in 0..Len(B), b \in 1..Len(B) : On(C, a, b) <=> On(B, a, b)
  BY <1>1, OnGrows
<1>8. \A y \in K : y \in 1..Len(B) /\ y \in 0..Len(B) /\ N(C, y) = N(B, y)
                   /\ N(C, P[y].lc) = N(B, P[y].lc) /\ N(C, P[y].dpos) = N(B, P[y].dpos)
                   /\ (On(C, l, y) <=> On(B, l, y))
  <2>1. \A y \in 1..Len(B) : y \in 0..Len(B)
    BY <1>1
  <2>2. QED
    BY <1>6, <1>7, <2>1
<1>9. N(C, l) = N(B, l) /\ l \in 0..Len(B)
  <2>1. l \in 0..Len(B)
    BY <1>1
  <2>2. QED
    BY <1>7, <2>1
<1>10. \A y \in K, z \in K : On(C, y, z) <=> On(B, y, z)
  BY <1>7, <1>8
<1>11. Rests(C, l, K)
  <2>1. /\ \A y \in K : N(B, y) >= N(B, l)
        /\ \A y \in K : \A a \in 1..Len(B) : On(B, a, y) /\ N(B, a) > N(B, l) => a \in K
        /\ l \notin K => \A y \in K :
             /\ N(B, y) > N(B, l) /\ On(B, l, y)
             /\ \A z \in K : N(B, y) = N(B, l) + 1 /\ N(B, z) = N(B, l) + 1 => y = z
    BY <1>5 DEF Settled, Rests
  <2>2. ASSUME NEW y \in K, NEW a \in 1..Len(C), On(C, a, y), N(C, a) > N(C, l)
        PROVE  a \in K
    <3>1. y \in 1..Len(C)
      BY <1>1, <1>8
    <3>2. N(C, a) \in 1..N(C, y) /\ C[y].path[N(C, a)] = a
      BY <2>2, <3>1, OnWay
    <3>3. N(C, a) \in 1..N(B, y) /\ B[y].path[N(C, a)] = a
      BY <1>8, <3>2
    <3>4. a \in 1..Len(B)
      BY <1>8, <3>3, OnWay, SMTT(60)
    <3>5. a \in 0..Len(B)
      BY <1>1, <3>4
    <3>6. On(B, a, y) /\ N(B, a) > N(B, l)
      BY <1>7, <1>8, <1>9, <2>2, <3>5
    <3>7. QED
      BY <2>1, <3>4, <3>6
  <2>3. \A y \in K : N(C, y) >= N(C, l)
    BY <2>1, <1>8, <1>9
  <2>4. l \notin K => \A y \in K :
             /\ N(C, y) > N(C, l) /\ On(C, l, y)
             /\ \A z \in K : N(C, y) = N(C, l) + 1 /\ N(C, z) = N(C, l) + 1 => y = z
    BY <2>1, <1>8, <1>9
  <2>5. QED
    BY <2>2, <2>3, <2>4 DEF Rests
<1>12. Settled(C, l, K, P)
  <2>1. Confirms(C, l, K, P)
    BY <1>5, <1>8, <1>9 DEF Settled, Confirms
  <2>2. Rising(C, K, P)
    BY <1>5, <1>8, <1>10 DEF Settled, Rising
  <2>3. Caught(C, l, K, P)
    BY <1>5, <1>8 DEF Settled, Caught
  <2>4. Fresh(C, l, K, P)
    BY <1>5, <1>8, <1>9 DEF Settled, Fresh
  <2>5. QED
    BY <1>11, <2>1, <2>2, <2>3, <2>4 DEF Settled
<1>13. Heads(C, l, K, P, fh, bh, "idle", j)
  <2>1. On(C, l, bh)
    BY <1>5, <1>7, <1>9 DEF Heads
  <2>2. ASSUME K # {} PROVE Ahead(C, K, P, fh, bh, "idle", j)
    <3>1. Best(B, fh, K, P) /\ fh = bh /\ bh \in K /\ Marked(B, K, P, bh)
      BY <1>5, <2>2 DEF Heads, Ahead, Pushing
    <3>2. Best(C, fh, K, P)
      <4>1. fh \in K /\ \A x \in K : ~Beats(B, x, fh, P)
        BY <3>1 DEF Best
      <4>2. \A x \in K : ~Beats(C, x, fh, P)
        BY <1>8, <4>1 DEF Beats
      <4>3. QED
        BY <4>1, <4>2 DEF Best
    <3>3. Marked(C, K, P, bh)
      BY <1>10, <3>1 DEF Marked
    <3>4. QED
      BY <3>1, <3>2, <3>3 DEF Ahead, Pushing
  <2>3. K = {} => Lost(l, P, bh, "idle")
    BY <1>5 DEF Heads
  <2>4. QED
    BY <2>1, <2>2, <2>3 DEF Heads
<1>14. QED
  BY <1>3, <1>4, <1>12, <1>13 DEF Live

\* The log and its last block.
LEMMA LogTip ==
    ASSUME NEW B, Tree(B), NEW lg, LogOK(B, lg)
    PROVE  /\ lg[Len(lg)] \in 1..Len(B) /\ N(B, lg[Len(lg)]) = Len(lg)
           /\ Len(lg) \in Nat /\ Len(lg) >= 1 /\ Last(lg) = lg[Len(lg)]
<1>1. lg \in Seq(1..Len(B)) /\ Len(lg) >= 1 /\ \A i \in 1..Len(lg) : B[lg[i]].num = i
  BY DEF LogOK
<1>2. Len(lg) \in Nat /\ Len(lg) \in 1..Len(lg)
  BY <1>1
<1>3. lg[Len(lg)] \in 1..Len(B)
  BY <1>1, <1>2
<1>4. B[lg[Len(lg)]].num = Len(lg)
  BY <1>1, <1>2
<1>5. QED
  BY <1>1, <1>2, <1>3, <1>4, Way DEF Last

LEMMA LogWayGrows ==
    ASSUME NEW B, NEW C, Tree(B), \A b \in 1..Len(B) : C[b] = B[b],
           NEW lg, LogOK(B, lg), NEW bh \in 1..Len(B), LogWay(B, lg, bh)
    PROVE  LogWay(C, lg, bh)
<1>1. lg[Len(lg)] \in 1..Len(B)
  BY LogTip
<1>2. C[lg[Len(lg)]] = B[lg[Len(lg)]] /\ C[bh] = B[bh]
  BY <1>1
<1>3. N(C, lg[Len(lg)]) = N(B, lg[Len(lg)]) /\ N(C, bh) = N(B, bh)
  BY <1>2 DEF N
<1>4. On(C, lg[Len(lg)], bh)
  BY <1>2, <1>3 DEF LogWay, On
<1>5. QED
  BY <1>2, <1>4 DEF LogWay

LEMMA StackedGrows ==
    ASSUME NEW B, NEW C, Tree(B), \A b \in 1..Len(B) : C[b] = B[b],
           NEW lg, LogOK(B, lg), NEW bh \in 1..Len(B), NEW d, NEW bd, NEW j, NEW f,
           Stacked(B, d, bh, bd, lg, "idle", j, f)
    PROVE  Stacked(C, d, bh, bd, lg, "idle", j, f)
<1>1. PICK e \in {0, 1} : DbOK(B, d, bh, Len(lg), e) /\ (bd = TRUE <=> e = 1)
                          /\ (f = TRUE => e = 0)
  BY DEF Stacked
<1>2. DbOK(C, d, bh, Len(lg), e)
  BY <1>1, LogTip, DbGrows
<1>3. ~Pushing("idle", j) /\ bd \in BOOLEAN
  BY DEF Pushing, Stacked
<1>4. QED
  BY <1>1, <1>2, <1>3 DEF Stacked

LEMMA NearIs ==
    ASSUME Tree(blocks), block_head \in 1..Len(blocks), NEW q, NearHead(q)
    PROVE  Near(blocks, block_head, q)
<1>1. Num(block_head) = N(blocks, block_head) /\ Path(block_head) = blocks[block_head].path
  BY DEF Num, N, Path
<1>2. QED
  BY <1>1 DEF NearHead, Near

LEMMA NotSaved ==
    ASSUME Base, pc # "down"
    PROVE  file = FALSE
BY DEF Base, Saved

\* A job of an event.
LEMMA EventJob ==
    ASSUME NEW b, NEW keys
    PROVE  LET j == [NoJob EXCEPT !.blk = b, !.by = keys]
           IN  j.blk = b /\ j.erase = {} /\ j.todo = {} /\ j.by = keys
BY DEF NoJob

LEMMA NoJobErase ==
    NoJob.erase = {} /\ NoJob.todo = {}
BY DEF NoJob

\* The parts of the invariants while the node runs.
LEMMA Parts ==
    ASSUME Base, Agreed, pc # "down"
    PROVE  /\ Tree(blocks) /\ Packs(blocks, pack) /\ LogOK(blocks, log)
           /\ known \subseteq DOMAIN pack /\ block_head \in DOMAIN pack
           /\ block_head \in 1..Len(blocks)
           /\ Windows(blocks, pack) /\ LogWay(blocks, log, block_head)
           /\ Stacked(blocks, db, block_head, building, log, pc, job, file)
           /\ (pc = "recv" => Near(blocks, block_head, blocks[job.blk].path))
           /\ file = FALSE
           /\ \E l \in 1..Len(blocks) :
                Live(blocks, l, known, pack, fork_head, block_head, log, pc, job)
<1>1. Tree(blocks) /\ Packs(blocks, pack) /\ LogOK(blocks, log)
      /\ known \subseteq DOMAIN pack /\ block_head \in DOMAIN pack
  BY DEF Base, Placed
<1>2. block_head \in 1..Len(blocks)
  BY <1>1 DEF Packs
<1>3. QED
  BY <1>1, <1>2, NotSaved DEF Agreed

\* A handler that ends, and a block that arrives again: nothing else changes.
LEMMA QuietAgreed ==
    ASSUME Base, Agreed, pc \in {"idle", "recv", "build"}, pc' \in {"idle", "recv"},
           job'.erase = {}, file' = file,
           pc' = "recv" => Near(blocks, block_head, blocks[job'.blk].path),
           Stacked(blocks, db', block_head, building', log, "idle", job', FALSE),
           UNCHANGED <<blocks, forkVars, block_head, log>>
    PROVE  Agreed'
<1>1. /\ blocks' = blocks /\ known' = known /\ pack' = pack /\ fork_head' = fork_head
      /\ block_head' = block_head /\ log' = log
  BY DEF forkVars
<1>2. /\ Windows(blocks, pack) /\ LogWay(blocks, log, block_head) /\ file = FALSE
      /\ \E l \in 1..Len(blocks) :
           Live(blocks, l, known, pack, fork_head, block_head, log, pc, job)
  BY Parts
<1>3. PICK l \in 1..Len(blocks) :
        Live(blocks, l, known, pack, fork_head, block_head, log, pc, job)
  BY <1>2
<1>4. Live(blocks, l, known, pack, fork_head, block_head, log, pc', job')
  BY <1>3, RestLive
<1>5. Stacked(blocks, db', block_head, building', log, pc', job', file')
  BY <1>2, RestStacked
<1>6. QED
  BY <1>1, <1>2, <1>4, <1>5 DEF Agreed

LEMMA IdleStacked ==
    ASSUME Base, Agreed, pc \in {"idle", "recv", "build"}, NEW j
    PROVE  Stacked(blocks, db, block_head, building, log, "idle", j, FALSE)
BY Parts, RestStacked

\* Receive and Build
LEMMA DeliverNewAgreed ==
    ASSUME Base, Agreed, NEW p \in 1..Len(blocks), NEW bld \in Builders, NEW rank \in Ranks,
           NEW good \in BOOLEAN, NEW h \in {"recv", "build"}, NEW keys,
           blocks' = Append(blocks, NewBlock(p, bld, rank, good)),
           h = "recv" => NearHead(Append(Path(p), Len(blocks) + 1)),
           Deliver(Len(blocks) + 1, h, keys)
    PROVE  Agreed'
<1> DEFINE new == NewBlock(p, bld, rank, good)
           m == Len(blocks) + 1
<1>1. /\ pc = "idle" /\ pc' = h
      /\ job' = [NoJob EXCEPT !.blk = m, !.by = keys]
      /\ known' = known /\ pack' = pack /\ fork_head' = fork_head
      /\ block_head' = block_head /\ log' = log /\ file' = file /\ db' = db
      /\ building' = building
  BY DEF Deliver, forkVars
<1>2. /\ Tree(blocks) /\ Packs(blocks, pack) /\ LogOK(blocks, log)
      /\ known \subseteq DOMAIN pack /\ block_head \in DOMAIN pack
      /\ block_head \in 1..Len(blocks)
      /\ Windows(blocks, pack) /\ LogWay(blocks, log, block_head)
      /\ Stacked(blocks, db, block_head, building, log, pc, job, file)
      /\ file = FALSE
      /\ \E l \in 1..Len(blocks) :
           Live(blocks, l, known, pack, fork_head, block_head, log, pc, job)
  BY <1>1, Parts
<1>3. /\ new \in BlockType /\ new.prev = p /\ new.num = blocks[p].num + 1
      /\ new.path = Append(blocks[p].path, Len(blocks) + 1)
  BY <1>2, NewBlockType
<1> HIDE DEF new
<1>4. /\ Tree(blocks') /\ Len(blocks') = Len(blocks) + 1
      /\ \A b \in 1..Len(blocks) : blocks'[b] = blocks[b]
      /\ blocks'[m] = new
  BY <1>2, <1>3, TreeGrows DEF new
<1>5. Len(blocks) \in Nat /\ Len(blocks) <= Len(blocks')
  BY <1>2, <1>4, TreeLen
<1> DEFINE C == blocks'
<1>C. C = blocks' /\ \A b \in 1..Len(blocks) : C[b] = blocks[b]
  BY <1>4
<1> HIDE DEF C
<1>6. Windows(blocks', pack) /\ LogWay(blocks', log, block_head)
  <2>1. Windows(C, pack)
    BY ONLY <1>2, <1>C, WindowsGrow
  <2>2. LogWay(C, log, block_head)
    BY ONLY <1>2, <1>C, LogWayGrows
  <2>3. QED
    BY <1>C, <2>1, <2>2
<1>7. job'.erase = {} /\ job'.blk = m
  BY <1>1, EventJob
<1> HIDE DEF m
<1>8a. pc' \in {"recv", "build"} /\ pc' \notin {"grow", "commit", "pushed"}
  BY <1>1
<1>8. Stacked(blocks', db, block_head, building, log, pc', job', file)
  <2>1. Stacked(C, db, block_head, building, log, "idle", job, file)
    <3>1. Stacked(blocks, db, block_head, building, log, "idle", job, file)
      BY <1>1, <1>2
    <3>2. QED
      BY ONLY <1>2, <1>C, <3>1, StackedGrows
  <2>2. Stacked(C, db, block_head, building, log, pc', job', file)
    <3>1. file = FALSE /\ "idle" \notin {"commit", "down"}
      BY <1>2
    <3> DEFINE c == "idle"
    <3>2. Stacked(C, db, block_head, building, log, c, job, file) /\ c \notin {"commit", "down"}
      BY <2>1, <3>1
    <3> HIDE DEF c
    <3>3. QED
      BY ONLY <3>2, <3>1, <1>8a, RestStacked
  <2>3. QED
    BY <1>C, <2>2
<1>9. PICK l \in 1..Len(blocks) :
        Live(blocks, l, known, pack, fork_head, block_head, log, "idle", job)
  BY <1>1, <1>2
<1>10. Live(blocks', l, known, pack, fork_head, block_head, log, "idle", job)
  <2>1. Tree(C) /\ Len(blocks) <= Len(C)
    BY <1>4, <1>5, <1>C
  <2>2. Live(C, l, known, pack, fork_head, block_head, log, "idle", job)
    BY ONLY <1>2, <1>C, <1>9, <2>1, LiveGrows
  <2>3. QED
    BY <1>C, <2>2
<1>11. Live(blocks', l, known, pack, fork_head, block_head, log, pc', job')
  BY <1>7, <1>8a, <1>10, RestLive
<1>12. pc' = "recv" => Near(blocks', block_head, blocks'[m].path)
  <2>1. SUFFICES ASSUME pc' = "recv" PROVE Near(blocks', block_head, blocks'[m].path)
    OBVIOUS
  <2>2. Near(blocks, block_head, new.path)
    <3>1. NearHead(Append(Path(p), Len(blocks) + 1)) /\ Path(p) = blocks[p].path
      BY <1>1, <2>1 DEF Path
    <3>2. QED
      BY <1>2, <1>3, <3>1, NearIs
  <2>3. blocks'[block_head] = blocks[block_head]
        /\ N(blocks', block_head) = N(blocks, block_head)
    BY <1>2, <1>4 DEF N
  <2>4. QED
    BY <1>4, <2>2, <2>3 DEF Near
<1>13. l \in 1..Len(blocks')
  BY <1>4, <1>5
<1>14. QED
  BY <1>1, <1>2, <1>6, <1>7, <1>8, <1>11, <1>12, <1>13 DEF Agreed

LEMMA EventAgreed ==
    ASSUME Cardinality(Builders) >= 3, Base, Agreed
    PROVE  /\ \A p \in BlockIds, bld \in Builders \ Own, rank \in Ranks, good \in BOOLEAN :
                Receive(p, bld, rank, good) => Agreed'
           /\ \A b \in BlockIds : ReceiveAgain(b) => Agreed'
           /\ \A bld \in Own, rank \in Ranks : Build(bld, rank) => Agreed'
           /\ \A b \in BlockIds : Confirm(b) => Agreed'
<1>1. ASSUME NEW p \in BlockIds, NEW bld \in Builders \ Own, NEW rank \in Ranks,
             NEW good \in BOOLEAN, Receive(p, bld, rank, good)
      PROVE  Agreed'
  <2>1. /\ blocks' = Append(blocks, NewBlock(p, bld, rank, good))
        /\ Deliver(Len(blocks) + 1, "recv", Own)
        /\ NearHead(Append(Path(p), Len(blocks) + 1))
    BY <1>1 DEF Receive
  <2>2. p \in 1..Len(blocks) /\ bld \in Builders
    BY DEF BlockIds
  <2>3. QED
    BY <2>1, <2>2, DeliverNewAgreed
<1>2. ASSUME NEW b \in BlockIds, ReceiveAgain(b) PROVE Agreed'
  <2>1. /\ pc' = "recv" /\ job' = [NoJob EXCEPT !.blk = b, !.by = Own]
        /\ UNCHANGED <<blocks, forkVars, block_head, log>> /\ db' = db /\ building' = building
        /\ pc = "idle" /\ file' = file /\ NearHead(Path(b))
    BY <1>2 DEF ReceiveAgain, Deliver
  <2>2. job'.erase = {} /\ job'.blk = b
    BY <2>1, EventJob
  <2>3. Near(blocks, block_head, blocks[b].path)
    <3>1. Tree(blocks) /\ block_head \in 1..Len(blocks)
      BY <2>1, Parts
    <3>2. QED
      BY <2>1, <3>1, NearIs DEF Path
  <2>4. Stacked(blocks, db', block_head, building', log, "idle", job', FALSE)
    BY <2>1, IdleStacked
  <2>5. QED
    BY <2>1, <2>2, <2>3, <2>4, QuietAgreed
<1>3. ASSUME NEW bld \in Own, NEW rank \in Ranks, Build(bld, rank) PROVE Agreed'
  <2>1. blocks' = Append(blocks, NewBlock(block_head, bld, rank, TRUE))
        /\ Deliver(Len(blocks) + 1, "build", Own \ {bld})
    BY <1>3 DEF Build
  <2>2. block_head \in 1..Len(blocks) /\ bld \in Builders
    BY HeadsAreBlocks, ChainNodeAssumption
  <2>3. QED
    BY <2>1, <2>2, DeliverNewAgreed
<1>4. ASSUME NEW b \in BlockIds, Confirm(b) PROVE Agreed'
  <2>1. /\ pack' = Confirmed(b, known, pack) /\ known' = known /\ fork_head' = fork_head
        /\ blocks' = blocks /\ block_head' = block_head /\ log' = log
        /\ pc = "idle" /\ pc' = "idle" /\ job' = job /\ db' = db /\ building' = building
        /\ file' = file
    BY <1>4 DEF Confirm, nodeVars
  <2>2. /\ Tree(blocks) /\ Packs(blocks, pack)
        /\ known \subseteq DOMAIN pack /\ block_head \in DOMAIN pack
        /\ Windows(blocks, pack) /\ LogWay(blocks, log, block_head)
        /\ Stacked(blocks, db, block_head, building, log, pc, job, file)
        /\ \E l \in 1..Len(blocks) :
             Live(blocks, l, known, pack, fork_head, block_head, log, pc, job)
    BY <2>1, Parts
  <2>3. Like(pack, pack')
    BY <2>1, <2>2, ConfirmedLike
  <2>4. PICK l \in 1..Len(blocks) :
          Live(blocks, l, known, pack, fork_head, block_head, log, pc, job)
    BY <2>2
  <2>5. Live(blocks, l, known, pack', fork_head, block_head, log, pc, job)
    BY <2>2, <2>3, <2>4, LikeLive
  <2>6. Windows(blocks, pack')
    BY <2>2, <2>3, LikeWin, WindowsSame
  <2>7. QED
    BY <2>1, <2>2, <2>5, <2>6 DEF Agreed
<1>5. QED
  BY <1>1, <1>2, <1>3, <1>4

(***************************************************************************)
(* The end of the process and the next start.                              *)
(***************************************************************************)
LEMMA EndAgreed ==
    ASSUME "torn" \notin Ends, Base, Agreed
    PROVE  Kill \/ Shutdown => Agreed'
<1>1. ASSUME Kill PROVE Agreed'
  <2>1. /\ pc # "down" /\ pc # "commit" /\ pc' = "down" /\ file' = FALSE /\ building' = FALSE
        /\ job' = NoJob /\ db' = db
        /\ UNCHANGED <<blocks, forkVars, block_head, log>>
    BY <1>1 DEF Kill
  <2>2. /\ blocks' = blocks /\ pack' = pack /\ block_head' = block_head /\ log' = log
    BY <2>1 DEF forkVars
  <2>3. /\ Windows(blocks, pack) /\ LogWay(blocks, log, block_head)
        /\ Stacked(blocks, db, block_head, building, log, pc, job, file)
    BY <2>1, Parts
  <2>4. Stacked(blocks, db, block_head, FALSE, log, "down", job', FALSE)
    <3>1. PICK e \in {0, 1} : DbOK(blocks, db, block_head, Len(log), e)
      BY <2>1, <2>3 DEF Stacked
    <3>2. ~Pushing("down", job')
      BY DEF Pushing
    <3>3. QED
      BY <3>1, <3>2 DEF Stacked
  <2>5. QED
    BY <2>1, <2>2, <2>3, <2>4 DEF Agreed
<1>2. ASSUME Shutdown PROVE Agreed'
  <2>1. /\ pc = "idle" /\ pc' = "down" /\ file' = (known # {}) /\ building' = FALSE
        /\ job' = job /\ db' = Aborted
        /\ UNCHANGED <<blocks, forkVars, block_head, log>>
    BY <1>2 DEF Shutdown, ForkDbSaved
  <2>2. /\ blocks' = blocks /\ pack' = pack /\ block_head' = block_head /\ log' = log
        /\ known' = known /\ fork_head' = fork_head
    BY <2>1 DEF forkVars
  <2>3. /\ Windows(blocks, pack) /\ LogWay(blocks, log, block_head)
        /\ Stacked(blocks, db, block_head, building, log, pc, job, file)
        /\ Tree(blocks) /\ LogOK(blocks, log) /\ block_head \in 1..Len(blocks)
        /\ \E l \in 1..Len(blocks) :
             Live(blocks, l, known, pack, fork_head, block_head, log, pc, job)
    BY <2>1, Parts
  <2>4. DbOK(blocks, Aborted, block_head, Len(log), 0)
    <3>1. PICK e \in {0, 1} : DbOK(blocks, db, block_head, Len(log), e)
                              /\ (building = TRUE <=> e = 1)
      BY <2>1, <2>3 DEF Stacked
    <3>2. building \in BOOLEAN
      BY <2>3 DEF Stacked
    <3>3. CASE building = TRUE
      <4>1. Len(log) \in Nat /\ Len(log) >= 1 /\ N(blocks, log[Len(log)]) = Len(log)
        BY <2>3, LogTip
      <4>2. Len(log) <= N(blocks, block_head)
        BY <2>3, <4>1 DEF LogWay, On
      <4>3. e = 1
        BY <3>1, <3>3
      <4>4. DbOK(blocks, UndoSession(db), block_head, Len(log), 0)
        BY <2>3, <3>1, <4>1, <4>2, <4>3, AbortedDb
      <4>5. QED
        BY <3>3, <4>4 DEF Aborted
    <3>4. CASE building = FALSE
      BY <3>1, <3>4 DEF Aborted
    <3>5. QED
      BY <3>2, <3>3, <3>4
  <2>5. Stacked(blocks, db', block_head, FALSE, log, "down", job', file')
    <3>1. ~Pushing("down", job')
      BY DEF Pushing
    <3>2. QED
      BY <2>1, <2>4, <3>1 DEF Stacked
  <2>6. ASSUME file' = TRUE
        PROVE  \E l \in 1..Len(blocks) :
                 Live(blocks, l, known, pack, fork_head, block_head, log, "down", job)
    <3>1. PICK l \in 1..Len(blocks) :
            Live(blocks, l, known, pack, fork_head, block_head, log, "idle", job)
      BY <2>1, <2>3
    <3>2. known # {}
      BY <2>1, <2>6
    <3>3. job.erase = {}
      BY <3>1 DEF Live, Target, Resting
    <3>4. QED
      BY <3>1, <3>2, <3>3, RestLive
  <2>7. QED
    BY <2>1, <2>2, <2>3, <2>5, <2>6 DEF Agreed
<1>3. QED
  BY <1>1, <1>2

LEMMA LostLive ==
    ASSUME NEW B, Tree(B), NEW lg, LogOK(B, lg), NEW P, NEW isMain,
           P[lg[Len(lg)]] = RootPack(lg[Len(lg)], isMain)
    PROVE  Live(B, lg[Len(lg)], {}, P, NoBlock, lg[Len(lg)], lg, "idle", NoJob)
<1> DEFINE l == lg[Len(lg)]
<1>1. l \in 1..Len(B)
  BY LogTip
<1>2. On(B, l, l)
  BY <1>1, OnWay
<1>3. Target(B, l, {}, P, NoBlock, lg, "idle", NoJob)
  BY NoJobErase DEF Target, Resting
<1>4. Lost(l, P, l, "idle")
  BY DEF Lost, RootPack
<1> HIDE DEF l
<1>5. {} \ NoJob.erase = {}
  OBVIOUS
<1>6. Settled(B, l, {}, P)
  BY DEF Settled, Rests, Confirms, Rising, Caught, Fresh
<1>7. Heads(B, l, {}, P, NoBlock, l, "idle", NoJob)
  BY <1>2, <1>4 DEF Heads
<1>8. QED
  BY <1>3, <1>5, <1>6, <1>7 DEF Live, l

LEMMA StartAgreed ==
    ASSUME Base, Agreed, Start
    PROVE  Agreed'
<1> DEFINE h == RestartHead
           l == log[Len(log)]
<1>1. /\ pc = "down" /\ Num(h) <= db.rev /\ block_head' = h /\ ForkDbLoaded(h)
      /\ db' = IF Num(h) = db.rev THEN db ELSE [UndoAllSessions(db) EXCEPT !.rev = Num(h)]
      /\ building' = FALSE /\ file' = FALSE /\ pc' = "idle" /\ job' = NoJob
      /\ blocks' = blocks /\ log' = log
  BY DEF Start, Done
<1>2. /\ Tree(blocks) /\ Packs(blocks, pack) /\ LogOK(blocks, log)
      /\ known \subseteq DOMAIN pack /\ block_head \in DOMAIN pack
      /\ \A i \in 1..Len(log) : log[i] \in DOMAIN pack
      /\ file \in BOOLEAN
  BY DEF Base, Placed, Saved
<1>3. /\ Windows(blocks, pack) /\ LogWay(blocks, log, block_head)
      /\ Stacked(blocks, db, block_head, building, log, pc, job, file)
      /\ (file = TRUE) => \E x \in 1..Len(blocks) :
           Live(blocks, x, known, pack, fork_head, block_head, log, pc, job)
  BY <1>1 DEF Agreed
<1>4. /\ l \in 1..Len(blocks) /\ N(blocks, l) = Len(log)
      /\ Len(log) \in Nat /\ Len(log) >= 1 /\ Last(log) = l /\ block_head \in 1..Len(blocks)
      /\ On(blocks, l, block_head)
  BY <1>2, <1>3, LogTip DEF Packs, LogWay
<1>5. PICK e \in {0, 1} : DbOK(blocks, db, block_head, Len(log), e) /\ (file = TRUE => e = 0)
  BY <1>1, <1>3 DEF Stacked
<1>6. \A j : ~Pushing("idle", j)
  BY DEF Pushing
<1>7. CASE file = TRUE
  <2>1. PICK x \in 1..Len(blocks) :
          Live(blocks, x, known, pack, fork_head, block_head, log, "down", job)
    BY <1>1, <1>3, <1>7
  <2>2. /\ x = l /\ job.erase = {}
    BY <2>1 DEF Live, Target, Resting
  <2>3. known \ job.erase = known
    BY <2>2
  <2>4. known # {} /\ fork_head = block_head
    BY <2>1, <2>3 DEF Live, Heads, Lost, Ahead
  <2>5. h = block_head
    BY <1>7, <2>4 DEF RestartHead
  <2> HIDE DEF h
  <2>6. known' = known /\ pack' = pack /\ fork_head' = fork_head
    BY <1>1, <1>7 DEF ForkDbLoaded, forkVars
  <2>7. db.rev = N(blocks, block_head) /\ db' = db
    <3>1. N(blocks, block_head) \in Nat
      BY <1>2, <1>4, OnWay
    <3>2. db.rev = N(blocks, block_head) + e /\ e = 0
      BY <1>5, <1>7 DEF DbOK
    <3>3. Num(h) = N(blocks, block_head)
      BY <2>5 DEF Num, N
    <3>4. QED
      BY <1>1, <3>1, <3>2, <3>3
  <2>8. Stacked(blocks, db, block_head, FALSE, log, "idle", NoJob, FALSE)
    BY <1>5, <1>6, <1>7 DEF Stacked
  <2>9. Live(blocks, x, known, pack, fork_head, block_head, log, "idle", NoJob)
    BY <2>1, <2>4, NoJobErase, RestLive
  <2>10. QED
    BY <1>1, <1>3, <2>5, <2>6, <2>7, <2>8, <2>9 DEF Agreed
<1>8. CASE file = FALSE
  <2>1. h = l
    BY <1>4, <1>8 DEF RestartHead
  <2> HIDE DEF h
  <2>2. /\ pack' = [pack EXCEPT ![l] = RootPack(l, FALSE)] /\ fork_head' = NoBlock
        /\ known' = {}
    BY <1>1, <1>8, <2>1 DEF ForkDbLoaded
  <2>3. Num(h) = N(blocks, l)
    BY <2>1 DEF Num, N
  <2>4. DbOK(blocks, db', l, Len(log), 0)
    <3>1. DbOK(blocks, db, block_head, N(blocks, l), e)
      BY <1>4, <1>5
    <3>2. DbOK(blocks, IF N(blocks, l) = db.rev THEN db
                       ELSE [UndoAllSessions(db) EXCEPT !.rev = N(blocks, l)], l, N(blocks, l), 0)
      BY <1>2, <1>4, <3>1, RestartedDb
    <3>3. db' = IF N(blocks, l) = db.rev THEN db
                ELSE [UndoAllSessions(db) EXCEPT !.rev = N(blocks, l)]
      BY <1>1, <2>3
    <3>4. QED
      BY <1>4, <3>2, <3>3
  <2>5. Stacked(blocks, db', l, FALSE, log, "idle", NoJob, FALSE)
    BY <1>6, <2>4 DEF Stacked
  <2>6. l \in DOMAIN pack /\ pack = [b \in DOMAIN pack |-> pack[b]]
    BY <1>2, <1>4 DEF Packs
  <2> HIDE DEF l
  <2>7. /\ DOMAIN pack' = DOMAIN pack /\ pack'[l] = RootPack(l, FALSE)
        /\ \A b \in DOMAIN pack : b # l => pack'[b] = pack[b]
    BY <2>2, <2>6
  <2>8. Windows(blocks, pack')
    BY <1>3, <2>7, RootWindow DEF Windows
  <2>9. Live(blocks, l, {}, pack', NoBlock, l, log, "idle", NoJob)
    BY <1>2, <2>7, LostLive DEF l
  <2>10. LogWay(blocks, log, l)
    <3>1. On(blocks, l, l)
      BY <1>2, <1>4, OnWay
    <3>2. QED
      BY <1>3, <3>1 DEF LogWay, l
  <2>11. QED
    BY <1>1, <1>4, <2>1, <2>2, <2>5, <2>8, <2>9, <2>10 DEF Agreed
<1>9. QED
  BY <1>2, <1>7, <1>8

LEMMA InitAgreed ==
    Init => Agreed
<1>1. SUFFICES ASSUME Init PROVE Agreed
  OBVIOUS
<1>2. PICK bld \in Builders :
        /\ blocks = <<GenesisBlock(bld)>> /\ known = {Genesis}
        /\ pack = [b \in {Genesis} |-> RootPack(b, TRUE)]
        /\ fork_head = Genesis /\ block_head = Genesis
        /\ db = [state |-> <<Genesis>>, undo |-> <<>>, rev |-> 1]
        /\ building = FALSE /\ log = <<Genesis>> /\ lib = 0 /\ pc = "idle" /\ job = NoJob
        /\ file = FALSE /\ restarts = 0
  BY <1>1 DEF Init
<1>3. Base
  BY <1>1, InitBase
<1>4. Tree(blocks) /\ Packs(blocks, pack) /\ LogOK(blocks, log)
  BY <1>3 DEF Base
<1>5. /\ Len(blocks) = 1 /\ blocks[Genesis] = GenesisBlock(bld) /\ Genesis \in 1..Len(blocks)
      /\ Len(log) = 1 /\ log[1] = Genesis
  BY <1>2 DEF Genesis
<1>6. N(blocks, Genesis) = 1 /\ blocks[Genesis].path = <<Genesis>>
  BY <1>5 DEF N, Genesis, NoBlock, GenesisBlock
<1>7. On(blocks, Genesis, Genesis)
  BY <1>4, <1>5, OnWay
<1>8. pack[Genesis] = RootPack(Genesis, TRUE) /\ DOMAIN pack = {Genesis}
  BY <1>2
<1>9. Windows(blocks, pack)
  BY <1>8, RootWindow DEF Windows
<1>10. LogWay(blocks, log, block_head)
  <2>1. \A i \in 1..Len(log) : i = 1
    BY <1>5
  <2>2. blocks[log[Len(log)]].path[1] = log[1]
    BY <1>5, <1>6
  <2>3. QED
    BY <1>2, <1>5, <1>7, <2>1, <2>2 DEF LogWay
<1>11. Stacked(blocks, db, block_head, building, log, pc, job, file)
  <2> DEFINE s == <<Genesis>>
             u == <<>>
  <2>1. db = [state |-> s, undo |-> u, rev |-> 1] /\ s = blocks[Genesis].path
    BY <1>2, <1>6
  <2>2. s \in Seq(Nat) /\ u \in Seq([rev : Nat, to : Seq(Nat)]) /\ Len(u) = 0 /\ 1 \in Nat
    BY DEF Genesis
  <2> HIDE DEF s, u
  <2>3. db \in DbType /\ db.state = s /\ db.undo = u /\ db.rev = 1
    BY <2>1, <2>2 DEF DbType
  <2>4. DbOK(blocks, db, Genesis, Len(log), 0)
    BY <1>5, <1>6, <2>1, <2>2, <2>3 DEF DbOK
  <2>5. ~Pushing(pc, job)
    BY <1>2 DEF Pushing
  <2>6. QED
    <3>1. pc = "idle" /\ building = FALSE /\ file = FALSE /\ block_head = Genesis
      BY <1>2
    <3>2. /\ DbOK(blocks, db, block_head, IF pc = "commit" THEN Len(log) - 1 ELSE Len(log), 0)
          /\ pc # "down" => (building = TRUE <=> 0 = 1)
          /\ file = TRUE => 0 = 0
      BY <2>4, <3>1
    <3>3. QED
      BY <2>5, <3>1, <3>2 DEF Stacked
<1>12. Live(blocks, Genesis, known, pack, fork_head, block_head, log, pc, job)
  <2> DEFINE g == Genesis
  <2>1. /\ job.erase = {} /\ known = {g} /\ fork_head = g /\ block_head = g /\ pc = "idle"
        /\ log[Len(log)] = g /\ On(blocks, g, g)
        /\ g \in 1..Len(blocks) /\ Len(blocks) = 1
    BY <1>2, <1>5, <1>7, NoJobErase
  <2>2. pack[g].lc = g /\ pack[g].dpos = NoBlock /\ pack[g].irr = TRUE /\ pack[g].main = TRUE
    BY <1>8 DEF RootPack
  <2>3. N(blocks, g) = 1 /\ N(blocks, NoBlock) = 0 /\ \A a \in 1..Len(blocks) : a = g
    BY <1>5, <1>6 DEF N, Genesis
  <2> HIDE DEF g
  <2>4. known \ job.erase = {g}
    BY <2>1
  <2>5. Target(blocks, g, known, pack, fork_head, log, pc, job)
    BY <2>1, <2>2 DEF Target, Resting
  <2>6. Settled(blocks, g, {g}, pack)
    <3>1. Rests(blocks, g, {g})
      BY <2>3 DEF Rests
    <3>2. Confirms(blocks, g, {g}, pack)
      BY <2>1, <2>2 DEF Confirms
    <3>3. Rising(blocks, {g}, pack)
      BY <2>2, <2>3 DEF Rising
    <3>4. Caught(blocks, g, {g}, pack)
      BY <2>2, <2>3 DEF Caught
    <3>5. Fresh(blocks, g, {g}, pack)
      BY <2>3 DEF Fresh
    <3>6. QED
      BY <3>1, <3>2, <3>3, <3>4, <3>5 DEF Settled
  <2>7. Ahead(blocks, {g}, pack, fork_head, block_head, pc, job)
    <3>1. Best(blocks, g, {g}, pack)
      BY <2>2, <2>3 DEF Best, Beats
    <3>2. Marked(blocks, {g}, pack, g)
      BY <2>1, <2>2 DEF Marked
    <3>3. QED
      BY <2>1, <3>1, <3>2 DEF Ahead, Pushing
  <2>8. QED
    BY <2>1, <2>4, <2>5, <2>6, <2>7 DEF Live, Heads, g
<1>13. QED
  BY <1>2, <1>5, <1>9, <1>10, <1>11, <1>12 DEF Agreed

(***************************************************************************)
(* on_last_confirmed_grow                                                  *)
(***************************************************************************)
\* The next block to confirm is built on the last one of the log.
LEMMA NextLinks ==
    ASSUME Base, Agreed, pc = "grow", NEW l \in 1..Len(blocks),
           Live(blocks, l, known, pack, fork_head, block_head, log, pc, job),
           NEW b, NextConfirmed(b)
    PROVE  /\ b \in 1..Len(blocks) /\ On(blocks, b, l) /\ N(blocks, b) = Len(log) + 1
           /\ blocks[b].prev = log[Len(log)]
           /\ LinksToLog(b)
<1> DEFINE t == log[Len(log)]
           m == Len(log) + 1
           a == blocks[l].path[m]
<1>1. /\ Tree(blocks) /\ LogOK(blocks, log)
  BY DEF Base
<1>2. /\ On(blocks, t, l)
      /\ job.todo = {x \in 1..Len(blocks) : On(blocks, x, l) /\ N(blocks, x) > Len(log)}
  BY DEF Live, Target, Growing
<1>3. /\ t \in 1..Len(blocks) /\ N(blocks, t) = Len(log)
      /\ Len(log) \in Nat /\ Len(log) >= 1 /\ Last(log) = t
  BY <1>1, LogTip
<1>4. b \in job.todo /\ \A c \in job.todo : ~NumberLess(c, b, pack)
  BY DEF NextConfirmed
<1>5. b \in 1..Len(blocks) /\ On(blocks, b, l) /\ N(blocks, b) > Len(log)
  BY <1>2, <1>4
<1>6. /\ N(blocks, b) \in 1..N(blocks, l) /\ blocks[l].path[N(blocks, b)] = b
      /\ N(blocks, l) \in Nat /\ N(blocks, b) \in Nat
  BY <1>1, <1>5, OnWay
<1>7. m \in Nat /\ m \in 1..N(blocks, l) /\ m > Len(log)
  BY <1>3, <1>5, <1>6
<1> HIDE DEF t, m
<1>8. a \in 1..Len(blocks) /\ On(blocks, a, l) /\ N(blocks, a) = m
  BY <1>1, <1>7, OnWay
<1> HIDE DEF a
<1>9. a \in job.todo
  BY <1>2, <1>7, <1>8
<1>10. N(blocks, b) <= m
  <2>1. ~(Num(a) < Num(b))
    BY <1>4, <1>9 DEF NumberLess
  <2>2. Num(a) = N(blocks, a) /\ Num(b) = N(blocks, b)
    BY DEF Num, N
  <2>3. QED
    BY <1>6, <1>7, <1>8, <2>1, <2>2
<1>11. N(blocks, b) = Len(log) + 1
  BY <1>3, <1>5, <1>6, <1>10 DEF m
<1>12. blocks[b].num = Len(log) + 1 /\ blocks[b].num > 1
  <2>1. blocks[b].num = N(blocks, b)
    BY <1>1, <1>5, Way
  <2>2. QED
    BY <1>3, <1>11, <2>1
<1>13. blocks[b].prev = blocks[b].path[Len(log)]
  <2>1. IsBlock(blocks, b)
    BY <1>1, <1>5 DEF Tree
  <2>2. blocks[b].prev = blocks[b].path[blocks[b].num - 1]
    BY <1>12, <2>1 DEF IsBlock
  <2>3. blocks[b].num - 1 = Len(log)
    BY <1>3, <1>12
  <2>4. QED
    BY <2>2, <2>3
<1>14. blocks[b].path[Len(log)] = t
  <2>1. Len(log) \in 1..N(blocks, b)
    BY <1>3, <1>11
  <2>2. blocks[b].path[Len(log)] = blocks[l].path[Len(log)]
    BY <1>1, <1>5, <2>1, OnWay
  <2>3. blocks[l].path[N(blocks, t)] = t
    BY <1>2 DEF On
  <2>4. QED
    BY <1>3, <2>2, <2>3
<1>15. LinksToLog(b)
  <2>1. Num(b) = Len(log) + 1 /\ Num(t) = Len(log) /\ Prev(b) = t
    BY <1>3, <1>11, <1>13, <1>14 DEF Num, N, Prev
  <2>2. QED
    BY <1>3, <2>1 DEF LinksToLog
<1>16. QED
  BY <1>5, <1>11, <1>13, <1>14, <1>15 DEF t

LEMMA IrreversibleAgreed ==
    ASSUME Base, Agreed, NEW b \in BlockIds, Irreversible(b)
    PROVE  Agreed'
<1>1. /\ pc = "grow" /\ NextConfirmed(b) /\ UNCHANGED <<blocks, forkVars, block_head, db>>
      /\ file' = file /\ building' = building
  BY DEF Irreversible
<1>2. /\ blocks' = blocks /\ known' = known /\ pack' = pack /\ fork_head' = fork_head
      /\ block_head' = block_head /\ db' = db
  BY <1>1 DEF forkVars
<1>3. /\ Tree(blocks) /\ LogOK(blocks, log) /\ block_head \in 1..Len(blocks)
      /\ Windows(blocks, pack) /\ LogWay(blocks, log, block_head) /\ file = FALSE
      /\ Stacked(blocks, db, block_head, building, log, pc, job, file)
      /\ \E l \in 1..Len(blocks) :
           Live(blocks, l, known, pack, fork_head, block_head, log, pc, job)
  BY <1>1, Parts
<1>4. PICK l \in 1..Len(blocks) :
        Live(blocks, l, known, pack, fork_head, block_head, log, pc, job)
  BY <1>3
<1>5. /\ b \in 1..Len(blocks) /\ On(blocks, b, l) /\ N(blocks, b) = Len(log) + 1
      /\ blocks[b].prev = log[Len(log)] /\ LinksToLog(b)
  BY <1>1, <1>4, NextLinks
<1>6. log' = Append(log, b) /\ pc' = "commit" /\ job' = job
  BY <1>5 DEF Irreversible
<1>7. /\ log \in Seq(1..Len(blocks)) /\ Len(log) \in Nat /\ Len(log) >= 1
      /\ log[Len(log)] \in 1..Len(blocks)
  BY <1>3, LogTip DEF LogOK
<1>8. /\ Len(log') = Len(log) + 1 /\ log'[Len(log) + 1] = b
      /\ \A i \in 1..Len(log) : log'[i] = log[i]
  BY <1>5, <1>6, <1>7
<1>9. log'[Len(log')] = b /\ Len(log') - 1 = Len(log)
  BY <1>7, <1>8
<1>10. On(blocks, l, block_head)
  BY <1>4 DEF Live, Heads
<1>11. LogWay(blocks, log', block_head)
  <2>1. On(blocks, b, block_head)
    BY <1>3, <1>5, <1>10, OnTrans
  <2>2. ASSUME NEW i \in 1..Len(log') PROVE blocks[b].path[i] = log'[i]
    <3>1. CASE i = Len(log) + 1
      <4>1. On(blocks, b, b)
        BY <1>3, <1>5, OnWay
      <4>2. QED
        BY <1>5, <1>8, <3>1, <4>1 DEF On
    <3>2. CASE i # Len(log) + 1
      <4>1. i \in 1..Len(log)
        BY <1>7, <1>8, <3>2
      <4>2. blocks[log[Len(log)]].path[i] = log[i]
        BY <1>3, <4>1 DEF LogWay
      <4>3. N(blocks, log[Len(log)]) = Len(log)
        BY <1>3, LogTip
      <4>4. blocks[b].path[i] = blocks[log[Len(log)]].path[i]
        <5> DEFINE a == log[Len(log)]
        <5>1. a \in 1..Len(blocks) /\ blocks[b].prev = a /\ i \in 1..N(blocks, a)
          BY <1>5, <1>7, <4>1, <4>3
        <5> HIDE DEF a
        <5>2. \A k \in 1..N(blocks, a) : blocks[b].path[k] = blocks[a].path[k]
          BY ONLY <1>3, <1>5, <5>1, OnPrev
        <5>3. QED
          BY <5>1, <5>2 DEF a
      <4>5. QED
        BY <1>8, <4>1, <4>2, <4>4
    <3>3. QED
      BY <3>1, <3>2
  <2>3. QED
    BY <1>9, <2>1, <2>2 DEF LogWay
<1>12. Stacked(blocks, db, block_head, building, log', "commit", job, FALSE)
  <2>1. PICK e \in {0, 1} : DbOK(blocks, db, block_head, Len(log), e)
                            /\ (building = TRUE <=> e = 1)
    BY <1>1, <1>3 DEF Stacked
  <2>2. Pushing("commit", job) => Pushing(pc, job)
    BY <1>1 DEF Pushing
  <2>3. DbOK(blocks, db, block_head, Len(log') - 1, e)
    BY <1>9, <2>1
  <2>4. building \in BOOLEAN /\ (Pushing("commit", job) =>
          building = TRUE /\ db.state = blocks[job.blk].path)
    BY <1>3, <2>2 DEF Stacked
  <2>5. QED
    BY <2>1, <2>3, <2>4 DEF Stacked
<1>13. Live(blocks, l, known, pack, fork_head, block_head, log', "commit", job)
  <2>1. Growing(blocks, l, known, pack, fork_head, log, pc, job)
    BY <1>1, <1>4 DEF Live, Target
  <2>2. Growing(blocks, l, known, pack, fork_head, log', "commit", job)
    BY <1>1, <1>5, <1>9, <2>1 DEF Growing
  <2>3. Target(blocks, l, known, pack, fork_head, log', "commit", job)
    BY <2>2 DEF Target
  <2> DEFINE J == known \ job.erase
  <2>4. Settled(blocks, l, J, pack) /\ Heads(blocks, l, J, pack, fork_head, block_head, pc, job)
    BY <1>4 DEF Live
  <2>5. Pushing("commit", job) <=> Pushing(pc, job)
    BY <1>1 DEF Pushing
  <2>6. J # {}
    BY <1>1, <2>4 DEF Heads, Lost
  <2> HIDE DEF J
  <2>7. Heads(blocks, l, J, pack, fork_head, block_head, "commit", job)
    BY <1>1, <2>4, <2>5, <2>6 DEF Heads, Ahead
  <2>8. QED
    BY <2>3, <2>4, <2>7 DEF Live, J
<1>14. QED
  BY <1>2, <1>3, <1>1, <1>6, <1>11, <1>12, <1>13 DEF Agreed

\* Q is P but for a flag of block b.
OnlyMain(P, Q, b, v) ==
  /\ DOMAIN Q = DOMAIN P
  /\ \A c \in DOMAIN P : /\ Q[c].lc = P[c].lc /\ Q[c].dpos = P[c].dpos
                         /\ Q[c].win = P[c].win /\ Q[c].irr = P[c].irr
                         /\ c = b => Q[c].main = v
                         /\ c # b => Q[c].main = P[c].main

OnlyIrr(P, Q, b, v) ==
  /\ DOMAIN Q = DOMAIN P
  /\ \A c \in DOMAIN P : /\ Q[c].lc = P[c].lc /\ Q[c].dpos = P[c].dpos
                         /\ Q[c].win = P[c].win /\ Q[c].main = P[c].main
                         /\ c = b => Q[c].irr = v
                         /\ c # b => Q[c].irr = P[c].irr

LEMMA MainFlag ==
    ASSUME NEW B, NEW P, Packs(B, P), NEW b, NEW v \in BOOLEAN
    PROVE  OnlyMain(P, [P EXCEPT ![b].main = v], b, v)
<1> DEFINE T == PackTypeOf(Len(B))
           Q == [P EXCEPT ![b].main = v]
<1>1. ASSUME NEW q \in T
      PROVE  LET r == [q EXCEPT !.main = v]
             IN  r.main = v /\ r.lc = q.lc /\ r.dpos = q.dpos /\ r.win = q.win /\ r.irr = q.irr
  BY DEF PackTypeOf
<1>2. P = [c \in DOMAIN P |-> P[c]] /\ \A c \in DOMAIN P : P[c] \in T
  BY DEF Packs
<1> HIDE DEF T
<1>3. DOMAIN Q = DOMAIN P
      /\ \A c \in DOMAIN P : Q[c] = IF c = b THEN [P[c] EXCEPT !.main = v] ELSE P[c]
  BY <1>2
<1> HIDE DEF Q
<1>4. OnlyMain(P, Q, b, v)
  <2>1. ASSUME NEW c \in DOMAIN P
        PROVE  /\ Q[c].lc = P[c].lc /\ Q[c].dpos = P[c].dpos
               /\ Q[c].win = P[c].win /\ Q[c].irr = P[c].irr
               /\ c = b => Q[c].main = v
               /\ c # b => Q[c].main = P[c].main
    <3>1. CASE c = b
      <4>1. Q[c] = [P[c] EXCEPT !.main = v] /\ P[c] \in T
        BY <1>2, <1>3, <3>1
      <4>2. QED
        BY <1>1, <3>1, <4>1
    <3>2. CASE c # b
      BY <1>3, <3>2
    <3>3. QED
      BY <3>1, <3>2
  <2>2. QED
    BY <1>3, <2>1 DEF OnlyMain
<1>5. QED
  BY <1>4 DEF Q

LEMMA IrrFlag ==
    ASSUME NEW B, NEW P, Packs(B, P), NEW b, NEW v \in BOOLEAN
    PROVE  OnlyIrr(P, [P EXCEPT ![b].irr = v], b, v)
<1> DEFINE T == PackTypeOf(Len(B))
           Q == [P EXCEPT ![b].irr = v]
<1>1. ASSUME NEW q \in T
      PROVE  LET r == [q EXCEPT !.irr = v]
             IN  r.irr = v /\ r.lc = q.lc /\ r.dpos = q.dpos /\ r.win = q.win /\ r.main = q.main
  BY DEF PackTypeOf
<1>2. P = [c \in DOMAIN P |-> P[c]] /\ \A c \in DOMAIN P : P[c] \in T
  BY DEF Packs
<1> HIDE DEF T
<1>3. DOMAIN Q = DOMAIN P
      /\ \A c \in DOMAIN P : Q[c] = IF c = b THEN [P[c] EXCEPT !.irr = v] ELSE P[c]
  BY <1>2
<1> HIDE DEF Q
<1>4. OnlyIrr(P, Q, b, v)
  <2>1. ASSUME NEW c \in DOMAIN P
        PROVE  /\ Q[c].lc = P[c].lc /\ Q[c].dpos = P[c].dpos
               /\ Q[c].win = P[c].win /\ Q[c].main = P[c].main
               /\ c = b => Q[c].irr = v
               /\ c # b => Q[c].irr = P[c].irr
    <3>1. CASE c = b
      <4>1. Q[c] = [P[c] EXCEPT !.irr = v] /\ P[c] \in T
        BY <1>2, <1>3, <3>1
      <4>2. QED
        BY <1>1, <3>1, <4>1
    <3>2. CASE c # b
      BY <1>3, <3>2
    <3>3. QED
      BY <3>1, <3>2
  <2>2. QED
    BY <1>3, <2>1 DEF OnlyIrr
<1>5. QED
  BY <1>4 DEF Q

\* Fewer blocks, or flags that change.
LEMMA SettledSame ==
    ASSUME NEW B, NEW l, NEW J, NEW K, K \subseteq J, NEW P, NEW Q, Settled(B, l, J, P),
           \A y \in K : Q[y].lc = P[y].lc /\ Q[y].dpos = P[y].dpos,
           Rests(B, l, K), Fresh(B, l, K, Q)
    PROVE  Settled(B, l, K, Q)
<1>1. Confirms(B, l, K, Q)
  BY DEF Settled, Confirms
<1>2. Rising(B, K, Q)
  BY DEF Settled, Rising
<1>3. Caught(B, l, K, Q)
  BY DEF Settled, Caught
<1>4. QED
  BY <1>1, <1>2, <1>3 DEF Settled

LEMMA BestSame ==
    ASSUME NEW B, NEW h, NEW J, NEW P, NEW Q, Best(B, h, J, P),
           \A y \in J : Q[y].lc = P[y].lc /\ Q[y].dpos = P[y].dpos /\ Q[y].main = P[y].main
    PROVE  Best(B, h, J, Q)
<1>1. h \in J /\ \A x \in J : ~Beats(B, x, h, P)
  BY DEF Best
<1>2. \A x \in J : ~Beats(B, x, h, Q)
  BY <1>1 DEF Beats
<1>3. QED
  BY <1>1, <1>2 DEF Best

LEMMA TodoJob ==
    ASSUME NEW B, NEW j \in JobType(B), NEW s
    PROVE  LET i == [j EXCEPT !.todo = s]
           IN  i.todo = s /\ i.erase = j.erase /\ i.then = j.then /\ i.blk = j.blk
BY DEF JobType

LEMMA CommitAgreed ==
    ASSUME Base, Agreed, Commit
    PROVE  Agreed'
<1> DEFINE b == log[Len(log)]
           J == known \ job.erase
<1>1. /\ Tree(blocks) /\ Packs(blocks, pack) /\ LogOK(blocks, log)
      /\ known \subseteq DOMAIN pack /\ job \in JobType(blocks)
      /\ \A i \in 1..Len(log) : log[i] \in DOMAIN pack
  BY DEF Base, Placed, Running
<1>2. /\ b \in 1..Len(blocks) /\ N(blocks, b) = Len(log)
      /\ Len(log) \in Nat /\ Len(log) >= 1 /\ Last(log) = b
  BY <1>1, LogTip
<1>3. Num(b) = Len(log) /\ b \in DOMAIN pack
  BY <1>1, <1>2 DEF Num, N
<1> HIDE DEF b
<1>4. /\ pc = "commit" /\ db' = CommitSessions(db, Len(log))
      /\ pack' = [pack EXCEPT ![b].irr = TRUE]
      /\ pc' = "grow" /\ job' = [job EXCEPT !.todo = @ \ {b}]
      /\ blocks' = blocks /\ known' = known /\ fork_head' = fork_head
      /\ block_head' = block_head /\ building' = building /\ log' = log /\ file' = file
  BY <1>2, <1>3 DEF Commit
<1>5. /\ Windows(blocks, pack) /\ LogWay(blocks, log, block_head) /\ file = FALSE
      /\ Stacked(blocks, db, block_head, building, log, pc, job, file)
      /\ block_head \in 1..Len(blocks)
      /\ \E l \in 1..Len(blocks) :
           Live(blocks, l, known, pack, fork_head, block_head, log, pc, job)
  BY <1>4, Parts
<1>6. PICK l \in 1..Len(blocks) :
        Live(blocks, l, known, pack, fork_head, block_head, log, pc, job)
  BY <1>5
<1>7. /\ DOMAIN pack' = DOMAIN pack
      /\ \A c \in DOMAIN pack : /\ pack'[c].lc = pack[c].lc /\ pack'[c].dpos = pack[c].dpos
                                /\ pack'[c].win = pack[c].win /\ pack'[c].main = pack[c].main
                                /\ c = b => pack'[c].irr = TRUE
                                /\ c # b => pack'[c].irr = pack[c].irr
  <2>1. OnlyIrr(pack, pack', b, TRUE)
    BY <1>1, <1>4, IrrFlag, Zenon
  <2>2. QED
    BY <2>1 DEF OnlyIrr
<1>8. job'.todo = job.todo \ {b} /\ job'.erase = job.erase /\ job'.then = job.then
      /\ job'.blk = job.blk
  <2> DEFINE s == job.todo \ {b}
  <2>1. job' = [job EXCEPT !.todo = s]
    BY <1>4
  <2> HIDE DEF s
  <2>2. job'.todo = s /\ job'.erase = job.erase /\ job'.then = job.then /\ job'.blk = job.blk
    BY <1>1, <2>1, TodoJob
  <2>3. QED
    BY <2>2 DEF s
<1>9. Windows(blocks, pack')
  BY <1>5, <1>7, WindowsSame DEF SameWin
<1>10. /\ Settled(blocks, l, J, pack)
       /\ Heads(blocks, l, J, pack, fork_head, block_head, "commit", job)
       /\ Growing(blocks, l, known, pack, fork_head, log, "commit", job)
  BY <1>4, <1>6 DEF Live, Target
<1>11. /\ N(blocks, l) \in Nat /\ N(blocks, b) <= N(blocks, l)
  BY <1>1, <1>2, <1>10, OnWay DEF Growing, On, b
<1>12. Growing(blocks, l, known, pack', fork_head, log, "grow", job')
  <2>1. /\ l \in known /\ On(blocks, b, l)
        /\ job.todo = {a \in 1..Len(blocks) : On(blocks, a, l) /\ N(blocks, a) > Len(log) - 1}
        /\ job.todo \subseteq known
        /\ l \notin job.todo => pack[l].irr = TRUE
        /\ job.erase = {x \in known : N(blocks, x) <= N(blocks, l) /\ x # l}
        /\ TurnsOf(blocks, blocks[fork_head].path, N(blocks, l)) >= DposNeed
    BY <1>10 DEF Growing, b
  <2>2. job'.todo = {a \in 1..Len(blocks) : On(blocks, a, l) /\ N(blocks, a) > Len(log)}
    <3>1. ASSUME NEW a \in 1..Len(blocks), On(blocks, a, l)
          PROVE  N(blocks, a) > Len(log) <=> N(blocks, a) > Len(log) - 1 /\ a # b
      <4>1. N(blocks, a) \in Nat
        BY <1>1, OnWay
      <4>2. ASSUME N(blocks, a) = Len(log) PROVE a = b
        <5>1. On(blocks, a, b)
          BY <1>1, <1>2, <2>1, <3>1, <4>1, <4>2, OnChain
        <5>2. QED
          BY <1>1, <1>2, <4>2, <5>1, OnSame
      <4>3. QED
        BY <1>2, <4>1, <4>2
    <3>2. QED
      BY <1>8, <2>1, <3>1
  <2>3. l \notin job'.todo => pack'[l].irr = TRUE
    BY <1>1, <1>7, <1>8, <2>1
  <2>4. job'.todo \subseteq known
    BY <1>8, <2>1
  <2>5. QED
    BY <1>8, <2>1, <2>2, <2>3, <2>4 DEF Growing, b
<1>13. J \subseteq DOMAIN pack /\ J = known \ job'.erase
  BY <1>1, <1>8
<1> HIDE DEF J
<1>14. Settled(blocks, l, J, pack')
  <2>1. Fresh(blocks, l, J, pack')
    <3>1. \A y \in J : N(blocks, y) > N(blocks, l) => pack[y].irr = FALSE
      BY <1>10 DEF Settled, Fresh
    <3>2. \A y \in J : N(blocks, y) > N(blocks, l) => y # b
      <4>1. \A y \in J : N(blocks, y) \in Nat
        BY <1>1, <1>13, PackNumbers
      <4>2. QED
        BY <1>2, <1>11, <4>1
    <3>3. QED
      BY <1>7, <1>13, <3>1, <3>2 DEF Fresh
  <2>2. Rests(blocks, l, J)
    BY <1>10 DEF Settled
  <2>3. \A y \in J : pack'[y].lc = pack[y].lc /\ pack'[y].dpos = pack[y].dpos
    BY <1>7, <1>13
  <2>4. QED
    BY <1>10, <2>1, <2>2, <2>3, SettledSame
<1>15. Heads(blocks, l, J, pack', fork_head, block_head, "grow", job')
  <2>1. J # {}
    BY <1>10 DEF Heads, Lost
  <2>2. Ahead(blocks, J, pack, fork_head, block_head, "commit", job)
    BY <1>10, <2>1 DEF Heads
  <2>3. Best(blocks, fork_head, J, pack')
    <3>1. \A y \in J : pack'[y].lc = pack[y].lc /\ pack'[y].dpos = pack[y].dpos
                       /\ pack'[y].main = pack[y].main
      BY <1>7, <1>13
    <3>2. QED
      BY <2>2, <3>1, BestSame DEF Ahead
  <2>4. \A m : Marked(blocks, J, pack, m) => Marked(blocks, J, pack', m)
    BY <1>7, <1>13 DEF Marked
  <2>5. Pushing("grow", job') <=> Pushing("commit", job)
    BY <1>8 DEF Pushing
  <2>6. Ahead(blocks, J, pack', fork_head, block_head, "grow", job')
    BY <1>8, <2>2, <2>3, <2>4, <2>5 DEF Ahead
  <2>7. QED
    BY <1>10, <2>1, <2>6 DEF Heads
<1>16. Live(blocks, l, known, pack', fork_head, block_head, log, "grow", job')
  BY <1>12, <1>13, <1>14, <1>15 DEF Live, Target
<1>17. Stacked(blocks, db', block_head, building, log, "grow", job', FALSE)
  <2>1. PICK e \in {0, 1} : DbOK(blocks, db, block_head, Len(log) - 1, e)
                            /\ (building = TRUE <=> e = 1)
    BY <1>4, <1>5 DEF Stacked
  <2> DEFINE k == Len(log) - 1
  <2>2. k \in Nat /\ k + 1 = Len(log) /\ k + 1 <= N(blocks, block_head)
    BY <1>2, <1>5 DEF LogWay, On, b
  <2>3. DbOK(blocks, db, block_head, k, e)
    BY <2>1
  <2> HIDE DEF k
  <2>4. DbOK(blocks, CommitSessions(db, k + 1), block_head, k + 1, e)
    BY <1>1, <1>5, <2>2, <2>3, CommittedDb
  <2>5. DbOK(blocks, db', block_head, Len(log), e)
    BY <1>4, <2>2, <2>4
  <2>6. Pushing("grow", job') <=> Pushing("commit", job)
    BY <1>8 DEF Pushing
  <2>7. CommitSessions(db, Len(log)).state = db.state
    <3>1. db \in DbType
      BY <2>1 DEF DbOK
    <3>2. QED
      BY <3>1 DEF CommitSessions, DbType
  <2>8. building \in BOOLEAN /\ (Pushing("grow", job') =>
          building = TRUE /\ db'.state = blocks[job'.blk].path)
    BY <1>4, <1>5, <1>8, <2>6, <2>7 DEF Stacked
  <2>9. QED
    BY <2>1, <2>5, <2>8 DEF Stacked
<1>18. QED
  BY <1>4, <1>5, <1>9, <1>16, <1>17 DEF Agreed

\* When every block is confirmed, the last one of the log is the target.
LEMMA LastConfirmed ==
    ASSUME Base, NEW l \in 1..Len(blocks), job.todo = {},
           Growing(blocks, l, known, pack, fork_head, log, "grow", job)
    PROVE  l = log[Len(log)]
<1> DEFINE t == log[Len(log)]
<1>1. Tree(blocks) /\ LogOK(blocks, log)
  BY DEF Base
<1>2. t \in 1..Len(blocks) /\ N(blocks, t) = Len(log) /\ Len(log) \in Nat
  BY <1>1, LogTip
<1>3. On(blocks, t, l) /\ On(blocks, l, l) /\ N(blocks, l) \in Nat
  BY <1>1, OnWay DEF Growing
<1>4. ~(N(blocks, l) > Len(log))
  BY <1>3 DEF Growing
<1>5. N(blocks, t) = N(blocks, l)
  BY <1>2, <1>3, <1>4 DEF On
<1>6. QED
  BY <1>1, <1>2, <1>3, <1>5, OnSame

LEMMA EraseAgreed ==
    ASSUME Base, Agreed, Erase
    PROVE  Agreed'
<1> DEFINE J == known \ job.erase
           t == log[Len(log)]
<1>1. /\ pc = "grow" /\ job.todo = {} /\ known' = J /\ pc' = job.then
      /\ job' = [job EXCEPT !.erase = {}]
      /\ blocks' = blocks /\ pack' = pack /\ fork_head' = fork_head
      /\ block_head' = block_head /\ db' = db /\ building' = building /\ log' = log
      /\ file' = file
  BY DEF Erase
<1>2. /\ Tree(blocks) /\ LogOK(blocks, log) /\ job \in JobType(blocks)
  BY DEF Base, Running
<1>3. /\ Windows(blocks, pack) /\ LogWay(blocks, log, block_head) /\ file = FALSE
      /\ Stacked(blocks, db, block_head, building, log, pc, job, file)
      /\ \E l \in 1..Len(blocks) :
           Live(blocks, l, known, pack, fork_head, block_head, log, pc, job)
  BY <1>1, Parts
<1>4. PICK l \in 1..Len(blocks) :
        Live(blocks, l, known, pack, fork_head, block_head, log, pc, job)
  BY <1>3
<1>5. /\ Settled(blocks, l, J, pack)
      /\ Heads(blocks, l, J, pack, fork_head, block_head, "grow", job)
      /\ Growing(blocks, l, known, pack, fork_head, log, "grow", job)
  BY <1>1, <1>4 DEF Live, Target
<1>6. job'.erase = {} /\ job'.then = job.then /\ job'.blk = job.blk
      /\ job.then \in {"pushed", "check"}
  BY <1>1, <1>2 DEF JobType
<1>7. l = t
  BY <1>1, <1>5, LastConfirmed
<1>8. pack[l].irr = TRUE
  BY <1>1, <1>5 DEF Growing
<1>9. Pushing("grow", job) <=> Pushing(pc', job')
  BY <1>1, <1>6 DEF Pushing
<1>10. known' \ job'.erase = J
  BY <1>1, <1>6
<1> HIDE DEF J, t
<1>11. Heads(blocks, l, J, pack, fork_head, block_head, pc', job')
  <2>1. J # {}
    BY <1>5 DEF Heads, Lost
  <2>2. Ahead(blocks, J, pack, fork_head, block_head, "grow", job)
    BY <1>5, <2>1 DEF Heads
  <2>3. Ahead(blocks, J, pack, fork_head, block_head, pc', job')
    BY <1>1, <1>6, <1>9, <2>2 DEF Ahead
  <2>4. QED
    BY <1>5, <2>1, <2>3 DEF Heads
<1>12. Target(blocks, l, known', pack, fork_head, log, pc', job')
  BY <1>1, <1>6, <1>7, <1>8 DEF Target, Resting, t
<1>13. Live(blocks, l, known', pack, fork_head, block_head, log, pc', job')
  BY <1>5, <1>10, <1>11, <1>12 DEF Live
<1>14. Stacked(blocks, db, block_head, building, log, pc', job', FALSE)
  <2>1. PICK e \in {0, 1} : DbOK(blocks, db, block_head, Len(log), e)
                            /\ (building = TRUE <=> e = 1)
    BY <1>1, <1>3 DEF Stacked
  <2>2. building \in BOOLEAN /\ (Pushing(pc', job') =>
          building = TRUE /\ db.state = blocks[job'.blk].path)
    BY <1>1, <1>3, <1>6, <1>9 DEF Stacked
  <2>3. pc' # "commit"
    BY <1>1, <1>6
  <2>4. QED
    BY <2>1, <2>2, <2>3 DEF Stacked
<1>15. pc' # "recv" /\ pc' # "down"
  BY <1>1, <1>6
<1>16. QED
  BY <1>1, <1>3, <1>13, <1>14, <1>15 DEF Agreed

\* The end of _push_block: the block that was pushed is the head.
LEMMA PushedHead ==
    ASSUME Base, Agreed, pc = "pushed"
    PROVE  /\ fork_head = job.blk /\ fork_head \in known /\ blocks[fork_head].prev = block_head
           /\ \E l \in 1..Len(blocks) :
                /\ Resting(l, known, pack, log, job) /\ Settled(blocks, l, known, pack)
                /\ On(blocks, l, block_head) /\ Best(blocks, fork_head, known, pack)
                /\ Marked(blocks, known, pack, fork_head)
<1>1. PICK l \in 1..Len(blocks) :
        Live(blocks, l, known, pack, fork_head, block_head, log, pc, job)
  BY Parts
<1>2. Resting(l, known, pack, log, job)
  BY <1>1 DEF Live, Target
<1>3. known \ job.erase = known
  BY <1>2 DEF Resting
<1>4. Settled(blocks, l, known, pack)
      /\ Heads(blocks, l, known, pack, fork_head, block_head, pc, job)
  BY <1>1, <1>3 DEF Live
<1>5. known # {} /\ On(blocks, l, block_head)
  BY <1>4 DEF Heads, Lost
<1>6. Ahead(blocks, known, pack, fork_head, block_head, pc, job) /\ Pushing(pc, job)
  BY <1>4, <1>5 DEF Heads, Pushing
<1>7. QED
  BY <1>2, <1>4, <1>5, <1>6 DEF Ahead, Best

LEMMA PushedAgreed ==
    ASSUME Cardinality(Builders) >= 3, Base, Agreed, Pushed
    PROVE  Agreed'
<1>1. /\ pc = "pushed" /\ block_head' = fork_head /\ pc' = "idle" /\ job' = NoJob
      /\ blocks' = blocks /\ known' = known /\ fork_head' = fork_head /\ db' = db
      /\ log' = log /\ file' = file
      /\ fork_head = job.blk => building' = FALSE /\ pack' = OwnConfirmed(job.blk)
  BY DEF Pushed, Done
<1>2. /\ fork_head = job.blk /\ fork_head \in known /\ blocks[fork_head].prev = block_head
  BY <1>1, PushedHead
<1>3. PICK l \in 1..Len(blocks) :
                /\ Resting(l, known, pack, log, job) /\ Settled(blocks, l, known, pack)
                /\ On(blocks, l, block_head) /\ Best(blocks, fork_head, known, pack)
                /\ Marked(blocks, known, pack, fork_head)
  BY <1>1, PushedHead
<1>4. /\ Tree(blocks) /\ Packs(blocks, pack) /\ LogOK(blocks, log)
      /\ known \subseteq DOMAIN pack /\ block_head \in 1..Len(blocks)
      /\ Windows(blocks, pack) /\ LogWay(blocks, log, block_head) /\ file = FALSE
      /\ Stacked(blocks, db, block_head, building, log, pc, job, file)
  BY <1>1, Parts
<1>5. Like(pack, pack')
  <2>1. Like(pack, pack)
    BY DEF Like
  <2>2. Like(pack, Confirmed(job.blk, known, pack))
    BY <1>4, ConfirmedLike
  <2>3. QED
    BY <1>1, <1>2, <2>1, <2>2 DEF OwnConfirmed
<1>6. fork_head \in 1..Len(blocks) /\ fork_head \in DOMAIN pack
  BY <1>2, <1>4 DEF Packs
<1>7. On(blocks, block_head, fork_head) /\ On(blocks, l, fork_head)
  <2>1. On(blocks, block_head, fork_head)
    BY <1>2, <1>4, <1>6, OnPrev
  <2>2. QED
    BY <1>3, <1>4, <1>6, <2>1, OnTrans
<1>8. Live(blocks, l, known, pack, fork_head, fork_head, log, "idle", NoJob)
  <2>1. Resting(l, known, pack, log, NoJob)
    BY <1>3, NoJobErase DEF Resting
  <2>2. known \ NoJob.erase = known
    BY NoJobErase
  <2>3. Ahead(blocks, known, pack, fork_head, fork_head, "idle", NoJob)
    BY <1>2, <1>3 DEF Ahead, Pushing
  <2>4. Heads(blocks, l, known, pack, fork_head, fork_head, "idle", NoJob)
    BY <1>2, <1>7, <2>3 DEF Heads
  <2>5. QED
    BY <1>3, <2>1, <2>2, <2>4 DEF Live, Target
<1>9. Live(blocks, l, known, pack', fork_head, fork_head, log, "idle", NoJob)
  BY <1>4, <1>5, <1>6, <1>8, LikeLive
<1>10. Windows(blocks, pack')
  BY <1>4, <1>5, LikeWin, WindowsSame
<1>11. LogWay(blocks, log, fork_head)
  <2>1. l = log[Len(log)]
    BY <1>3 DEF Resting
  <2>2. QED
    BY <1>4, <1>7, <2>1 DEF LogWay
<1>12. Stacked(blocks, db, fork_head, FALSE, log, "idle", NoJob, FALSE)
  <2>1. PICK e \in {0, 1} : DbOK(blocks, db, block_head, Len(log), e)
                            /\ (building = TRUE <=> e = 1)
    BY <1>1, <1>4 DEF Stacked
  <2>2. building = TRUE /\ db.state = blocks[fork_head].path
    BY <1>1, <1>2, <1>4 DEF Stacked, Pushing
  <2>3. DbOK(blocks, db, block_head, Len(log), 1)
    BY <2>1, <2>2
  <2>4. /\ Len(log) \in Nat /\ Len(log) >= 1 /\ N(blocks, log[Len(log)]) = Len(log)
    BY <1>4, LogTip
  <2>5. Len(log) <= N(blocks, block_head)
    BY <1>4, <2>4 DEF LogWay, On
  <2>6. DbOK(blocks, db, fork_head, Len(log), 0)
    BY <1>2, <1>4, <1>6, <2>2, <2>3, <2>4, <2>5, PushedDb
  <2>7. ~Pushing("idle", NoJob)
    BY DEF Pushing
  <2>8. QED
    BY <2>6, <2>7 DEF Stacked
<1>13. building' = FALSE /\ file' = FALSE
  BY <1>1, <1>2, <1>4
<1>14. QED
  BY <1>1, <1>9, <1>10, <1>11, <1>12, <1>13 DEF Agreed

(***************************************************************************)
(* _check_fork                                                             *)
(***************************************************************************)
Switching(B, l, K, P, fh, bh, lg, j) ==
  /\ Resting(l, K, P, lg, j) /\ Settled(B, l, K, P) /\ Best(B, fh, K, P)
  /\ bh \in K /\ On(B, l, bh) /\ On(B, l, fh) /\ Marked(B, K, P, bh)

LEMMA InSwitch ==
    ASSUME Base, Agreed, pc \in {"check", "pop", "apply"}
    PROVE  \E l \in 1..Len(blocks) :
             Switching(blocks, l, known, pack, fork_head, block_head, log, job)
<1>1. PICK l \in 1..Len(blocks) :
        Live(blocks, l, known, pack, fork_head, block_head, log, pc, job)
  BY Parts
<1>2. Resting(l, known, pack, log, job)
  BY <1>1 DEF Live, Target
<1>3. known \ job.erase = known
  BY <1>2 DEF Resting
<1>4. Settled(blocks, l, known, pack)
      /\ Heads(blocks, l, known, pack, fork_head, block_head, pc, job)
  BY <1>1, <1>3 DEF Live
<1>5. known # {} /\ On(blocks, l, block_head)
  BY <1>4 DEF Heads, Lost
<1>6. Ahead(blocks, known, pack, fork_head, block_head, pc, job) /\ ~Pushing(pc, job)
  BY <1>4, <1>5 DEF Heads, Pushing
<1>7. Best(blocks, fork_head, known, pack) /\ block_head \in known
      /\ Marked(blocks, known, pack, block_head)
  BY <1>6 DEF Ahead
<1>8. Tree(blocks) /\ Packs(blocks, pack) /\ known \subseteq DOMAIN pack
  BY Parts
<1>9. On(blocks, l, fork_head)
  <2>1. Confirms(blocks, l, known, pack)
    BY <1>4 DEF Settled
  <2>2. QED
    BY ONLY <1>5, <1>7, <1>8, <2>1, BestOn
<1>10. QED
  BY <1>2, <1>4, <1>5, <1>7, <1>9 DEF Switching

\* A fork head on the branch of block_head is block_head.
LEMMA MainIsHead ==
    ASSUME NEW B, Tree(B), NEW P, Packs(B, P), NEW K, K \subseteq DOMAIN P,
           NEW l \in 1..Len(B), NEW fh, NEW bh, NEW lg, NEW j,
           Switching(B, l, K, P, fh, bh, lg, j), On(B, fh, bh)
    PROVE  fh = bh
<1>1. /\ Confirms(B, l, K, P) /\ Rising(B, K, P) /\ Best(B, fh, K, P)
      /\ bh \in K /\ On(B, l, bh) /\ On(B, l, fh)
  BY DEF Switching, Settled
<1>2. fh \in K /\ ~Beats(B, bh, fh, P)
  BY <1>1 DEF Best
<1>3. P[fh].lc = l /\ P[bh].lc = l
  BY <1>1, <1>2 DEF Confirms
<1>4. N(B, P[fh].dpos) <= N(B, P[bh].dpos)
  BY <1>1, <1>2 DEF Rising
<1>5. /\ fh \in 1..Len(B) /\ bh \in 1..Len(B) /\ N(B, fh) \in Nat /\ N(B, bh) \in Nat
      /\ N(B, P[fh].dpos) \in Nat /\ N(B, P[bh].dpos) \in Nat
  BY <1>1, <1>2, PackNumbers
<1>6. ~(N(B, bh) > N(B, fh))
  BY <1>2, <1>3, <1>4, <1>5 DEF Beats
<1>7. N(B, fh) = N(B, bh)
  BY <1>5, <1>6 DEF On
<1>8. QED
  BY <1>5, <1>7, OnSame

\* fetch_branch_from_fork finds every block of both branches.
LEMMA BranchesThere ==
    ASSUME Tree(blocks), NEW P, Packs(blocks, P), NEW K, K \subseteq DOMAIN P,
           NEW l \in 1..Len(blocks), NEW fh, NEW bh, NEW lg, NEW j,
           Switching(blocks, l, K, P, fh, bh, lg, j)
    PROVE  BranchesKnown(bh, fh, K)
<1> DEFINE n == MeetNum(bh, fh)
<1>1. Rests(blocks, l, K) /\ On(blocks, l, bh) /\ On(blocks, l, fh) /\ bh \in K /\ fh \in K
  BY DEF Switching, Settled, Best
<1>2. bh \in 1..Len(blocks) /\ fh \in 1..Len(blocks)
  BY <1>1, PackNumbers
<1>3. /\ Num(bh) = N(blocks, bh) /\ Num(fh) = N(blocks, fh)
      /\ Path(bh) = blocks[bh].path /\ Path(fh) = blocks[fh].path
      /\ blocks[bh].num = N(blocks, bh) /\ blocks[fh].num = N(blocks, fh)
  <2>1. blocks[bh].num = N(blocks, bh) /\ blocks[fh].num = N(blocks, fh)
    BY <1>2, OnWay
  <2>2. QED
    BY <2>1 DEF Num, N, Path
<1>4. /\ N(blocks, l) \in 1..N(blocks, bh) /\ N(blocks, l) \in 1..N(blocks, fh)
      /\ N(blocks, bh) \in Nat /\ N(blocks, fh) \in Nat /\ N(blocks, l) \in Nat
      /\ \A k \in 1..N(blocks, l) : blocks[l].path[k] = blocks[bh].path[k]
      /\ \A k \in 1..N(blocks, l) : blocks[l].path[k] = blocks[fh].path[k]
  <2>1. /\ N(blocks, l) \in 1..N(blocks, bh) /\ N(blocks, bh) \in Nat /\ N(blocks, l) \in Nat
        /\ \A k \in 1..N(blocks, l) : blocks[l].path[k] = blocks[bh].path[k]
    BY <1>1, <1>2, OnWay
  <2>2. /\ N(blocks, l) \in 1..N(blocks, fh) /\ N(blocks, fh) \in Nat
        /\ \A k \in 1..N(blocks, l) : blocks[l].path[k] = blocks[fh].path[k]
    <3>1. Tree(blocks) /\ On(blocks, l, fh) /\ fh \in 1..Len(blocks) /\ l \in 1..Len(blocks)
      BY <1>1, <1>2
    <3>2. QED
      BY ONLY <3>1, OnWay, SMTT(60)
  <2>3. QED
    BY <2>1, <2>2
<1>5. /\ n \in 1..N(blocks, bh) /\ n <= N(blocks, fh)
      /\ blocks[bh].path[n] = blocks[fh].path[n]
      /\ n < N(blocks, bh) /\ n < N(blocks, fh) =>
           blocks[bh].path[n + 1] # blocks[fh].path[n + 1]
  BY <1>2, <1>3, BranchesMeet, SMTT(60)
<1> HIDE DEF n
<1>6. n >= N(blocks, l)
  <2>1. SUFFICES ASSUME n < N(blocks, l) PROVE FALSE
    BY <1>4, <1>5
  <2>2. n + 1 \in 1..N(blocks, l) /\ n < N(blocks, bh) /\ n < N(blocks, fh)
    BY <1>4, <1>5, <2>1
  <2>3. QED
    BY <1>4, <1>5, <2>2
<1>7. ASSUME NEW y \in K, y \in 1..Len(blocks), On(blocks, l, y), NEW m \in n..N(blocks, y),
             m > N(blocks, l)
      PROVE  blocks[y].path[m] \in K
  <2> DEFINE a == blocks[y].path[m]
  <2>1. m \in 1..N(blocks, y)
    BY <1>5, <1>7
  <2>2. a \in 1..Len(blocks) /\ N(blocks, a) = m /\ On(blocks, a, y)
    BY <1>7, <2>1, OnWay
  <2> HIDE DEF a
  <2>3. a \in K
    BY <1>1, <1>7, <2>2 DEF Rests
  <2>4. QED
    BY <2>3 DEF a
<1>8. l \notin K => n > N(blocks, l)
  <2>1. SUFFICES ASSUME l \notin K, n = N(blocks, l) PROVE FALSE
    BY <1>4, <1>5, <1>6
  <2> DEFINE m == n + 1
             x == blocks[bh].path[m]
             z == blocks[fh].path[m]
  <2>2. \A y \in K : N(blocks, y) > N(blocks, l)
    BY <1>1, <2>1 DEF Rests
  <2>3. n < N(blocks, bh) /\ n < N(blocks, fh)
    BY <1>1, <2>1, <2>2
  <2>4. x # z
    BY <1>5, <2>3
  <2>5. /\ m \in n..N(blocks, bh) /\ m \in n..N(blocks, fh) /\ m > N(blocks, l)
        /\ m \in 1..N(blocks, bh) /\ m \in 1..N(blocks, fh) /\ m = N(blocks, l) + 1
    BY <1>4, <1>5, <2>1, <2>3
  <2> HIDE DEF m
  <2>6. x \in K /\ z \in K
    BY <1>1, <1>2, <1>7, <2>5
  <2>7. N(blocks, x) = m /\ N(blocks, z) = m
    BY <1>2, <2>5, OnWay
  <2> HIDE DEF x, z
  <2>8. x = z
    BY <1>1, <2>1, <2>5, <2>6, <2>7 DEF Rests
  <2>9. QED
    BY <2>4, <2>8
<1>9. ASSUME NEW y \in K, y \in 1..Len(blocks), On(blocks, l, y), NEW m \in n..N(blocks, y)
      PROVE  blocks[y].path[m] \in K
  <2>1. CASE m > N(blocks, l)
    BY <1>7, <1>9, <2>1
  <2>2. CASE ~(m > N(blocks, l))
    <3>1. m = N(blocks, l) /\ l \in K
      BY <1>4, <1>5, <1>6, <1>8, <1>9, <2>2
    <3>2. blocks[y].path[N(blocks, l)] = l
      BY <1>9 DEF On
    <3>3. QED
      BY <3>1, <3>2
  <2>3. QED
    BY <2>1, <2>2
<1>10. QED
  BY <1>1, <1>2, <1>3, <1>9 DEF BranchesKnown, n

LEMMA SwitchLive ==
    ASSUME NEW B, NEW l, NEW K, NEW P, NEW fh, NEW bh, NEW lg, NEW j, NEW i, NEW c,
           Switching(B, l, K, P, fh, bh, lg, j), i.erase = {},
           c \in {"check", "pop", "apply"} \/ (c = "idle" /\ fh = bh)
    PROVE  Live(B, l, K, P, fh, bh, lg, c, i)
<1>1. c \notin {"grow", "commit", "pushed"}
  OBVIOUS
<1>2. Target(B, l, K, P, fh, lg, c, i)
  BY <1>1 DEF Switching, Target, Resting
<1>3. K \ i.erase = K /\ K # {} /\ ~Pushing(c, i)
  BY <1>1 DEF Switching, Pushing
<1>4. Ahead(B, K, P, fh, bh, c, i)
  BY <1>3 DEF Switching, Ahead
<1>5. QED
  BY <1>2, <1>3, <1>4 DEF Live, Heads, Switching

LEMMA CheckForkAgreed ==
    ASSUME Base, Agreed, CheckFork
    PROVE  Agreed'
<1>1. /\ pc = "check" /\ blocks' = blocks /\ known' = known /\ pack' = pack
      /\ fork_head' = fork_head /\ block_head' = block_head /\ db' = db
      /\ building' = building /\ log' = log /\ file' = file
  BY DEF CheckFork, forkVars
<1>2. /\ Tree(blocks) /\ Packs(blocks, pack) /\ known \subseteq DOMAIN pack
      /\ Windows(blocks, pack) /\ LogWay(blocks, log, block_head) /\ file = FALSE
      /\ Stacked(blocks, db, block_head, building, log, pc, job, file)
      /\ job \in JobType(blocks)
  BY <1>1, Parts DEF Base, Running
<1>3. PICK l \in 1..Len(blocks) :
        Switching(blocks, l, known, pack, fork_head, block_head, log, job)
  BY <1>1, InSwitch
<1>4. BranchesKnown(block_head, fork_head, known)
  BY <1>2, <1>3, BranchesThere
<1>5. job.erase = {}
  BY <1>3 DEF Switching, Resting
<1>6. \/ pack[fork_head].main = TRUE /\ pc' = "idle" /\ job' = NoJob
      \/ pc' = "pop" /\ job' = [job EXCEPT !.meet = MeetNum(block_head, fork_head)]
      \/ pc' = "down" /\ job' = NoJob
  <2>1. fork_head \in known
    BY <1>3 DEF Switching, Best
  <2>2. pack[fork_head].main \in BOOLEAN
    BY <1>2, <2>1, PackNumbers
  <2>3. QED
    BY <1>4, <2>2 DEF CheckFork, Done
<1>7. CASE pack[fork_head].main = TRUE /\ pc' = "idle" /\ job' = NoJob
  <2>1. On(blocks, fork_head, block_head)
    BY <1>3, <1>7 DEF Switching, Marked, Best
  <2>2. fork_head = block_head
    BY <1>2, <1>3, <2>1, MainIsHead
  <2>3. Live(blocks, l, known, pack, fork_head, block_head, log, pc', job')
    BY <1>3, <1>7, <2>2, NoJobErase, SwitchLive
  <2>4. Stacked(blocks, db, block_head, building, log, pc', job', file)
    <3>1. pc \notin {"commit", "down"} /\ pc' \notin {"grow", "commit", "pushed"}
      BY <1>1, <1>7
    <3>2. QED
      BY ONLY <1>2, <3>1, RestStacked
  <2>5. QED
    BY <1>1, <1>2, <1>7, <2>3, <2>4 DEF Agreed
<1>8. CASE pc' = "pop" /\ job' = [job EXCEPT !.meet = MeetNum(block_head, fork_head)]
  <2>1. job'.erase = {}
    <3> DEFINE n == MeetNum(block_head, fork_head)
    <3>1. job' = [job EXCEPT !.meet = n]
      BY <1>8
    <3> HIDE DEF n
    <3>2. QED
      BY <1>2, <1>5, <3>1 DEF JobType
  <2>2. Live(blocks, l, known, pack, fork_head, block_head, log, pc', job')
    BY <1>3, <1>8, <2>1, SwitchLive
  <2>3. Stacked(blocks, db, block_head, building, log, pc', job', file)
    <3>1. pc \notin {"commit", "down"} /\ pc' \notin {"grow", "commit", "pushed"}
      BY <1>1, <1>8
    <3>2. QED
      BY ONLY <1>2, <3>1, RestStacked
  <2>4. QED
    BY <1>1, <1>2, <1>8, <2>2, <2>3 DEF Agreed
<1>9. CASE pc' = "down" /\ job' = NoJob
  <2>1. Stacked(blocks, db, block_head, building, log, pc', job', file)
    <3>1. pc \notin {"commit", "down"} /\ pc' \notin {"grow", "commit", "pushed"}
      BY <1>1, <1>9
    <3>2. QED
      BY ONLY <1>2, <3>1, RestStacked
  <2>2. QED
    BY <1>1, <1>2, <1>9, <2>1 DEF Agreed
<1>10. QED
  BY <1>6, <1>7, <1>8, <1>9

LEMMA PopAgreed ==
    ASSUME Base, Agreed, Pop
    PROVE  Agreed'
<1> DEFINE b == block_head
           p == blocks[b].prev
<1>1. /\ pc = "pop" /\ pack' = [pack EXCEPT ![b].main = FALSE] /\ block_head' = p
      /\ db' = UndoSession(db) /\ pc' \in {"pop", "check", "apply"}
      /\ blocks' = blocks /\ known' = known /\ fork_head' = fork_head
      /\ building' = building /\ log' = log /\ file' = file /\ job' = job
  BY DEF Pop, Prev
<1>2. /\ Tree(blocks) /\ Packs(blocks, pack) /\ known \subseteq DOMAIN pack
      /\ LogOK(blocks, log)
      /\ Windows(blocks, pack) /\ LogWay(blocks, log, b) /\ file = FALSE
      /\ Stacked(blocks, db, b, building, log, pc, job, file)
  BY <1>1, Parts
<1>3. PICK l \in 1..Len(blocks) :
        Switching(blocks, l, known, pack, fork_head, b, log, job)
  BY <1>1, InSwitch
<1>4. /\ fork_head \in 1..Len(blocks) /\ b \in 1..Len(blocks)
      /\ blocks[b].num \in Nat /\ job.meet \in Nat
      /\ 1 <= job.meet /\ job.meet < blocks[b].num
      /\ p \in 1..Len(blocks) /\ p = blocks[b].path[blocks[b].num - 1]
      /\ \A k \in job.meet..(blocks[b].num - 1) : blocks[b].path[k] \in known
  BY <1>1, Popped DEF Prev
<1>5. OnlyMain(pack, pack', b, FALSE)
  BY <1>1, <1>2, MainFlag, Zenon
<1> HIDE DEF b
<1>6. /\ N(blocks, b) = N(blocks, p) + 1 /\ On(blocks, p, b) /\ N(blocks, p) \in Nat
      /\ N(blocks, p) >= 1 /\ p # b
      /\ \A a \in 1..Len(blocks) : On(blocks, a, b) <=> a = b \/ On(blocks, a, p)
  BY <1>2, <1>4, OnPrev
<1> HIDE DEF p
<1>7. /\ DOMAIN pack' = DOMAIN pack
      /\ \A c \in DOMAIN pack : /\ pack'[c].lc = pack[c].lc /\ pack'[c].dpos = pack[c].dpos
                                /\ pack'[c].win = pack[c].win /\ pack'[c].irr = pack[c].irr
                                /\ c = b => pack'[c].main = FALSE
                                /\ c # b => pack'[c].main = pack[c].main
  BY <1>5 DEF OnlyMain
<1>8. /\ Resting(l, known, pack, log, job) /\ Settled(blocks, l, known, pack)
      /\ Best(blocks, fork_head, known, pack) /\ Rests(blocks, l, known)
      /\ b \in known /\ On(blocks, l, b) /\ On(blocks, l, fork_head)
      /\ Marked(blocks, known, pack, b) /\ Fresh(blocks, l, known, pack)
  BY <1>3 DEF Switching, Settled
<1>9. p \in known
  <2>1. blocks[b].num - 1 \in job.meet..(blocks[b].num - 1)
    BY <1>4
  <2>2. QED
    BY <1>4, <2>1
<1>10. On(blocks, l, p)
  <2> DEFINE m == job.meet
             a == blocks[b].path[m]
  <2>0. /\ N(blocks, b) = blocks[b].num
        /\ \A i \in 1..N(blocks, b) : N(blocks, blocks[b].path[i]) = i
    BY ONLY <1>2, <1>4, OnWay
  <2>1. m \in m..(blocks[b].num - 1) /\ m \in 1..N(blocks, b)
    BY ONLY <1>4, <2>0
  <2>2. a \in known /\ N(blocks, a) = m
    BY ONLY <1>4, <2>0, <2>1, Zenon
  <2> HIDE DEF a
  <2>3. N(blocks, l) <= m /\ N(blocks, l) \in Nat
    <3>1. N(blocks, a) >= N(blocks, l)
      BY <1>8, <2>2 DEF Rests
    <3>2. N(blocks, l) \in Nat
      BY <1>2, OnWay
    <3>3. QED
      BY <1>4, <2>2, <3>1, <3>2
  <2>4. N(blocks, l) <= N(blocks, p)
    BY <1>4, <1>6, <2>0, <2>1, <2>3, SMTT(60)
  <2>5. QED
    BY <1>2, <1>4, <1>6, <1>8, <2>4, OnChain
<1>11. known \subseteq 1..Len(blocks)
  BY <1>2 DEF Packs
<1>12. Marked(blocks, known, pack', p)
  <2>1. ~On(blocks, b, p)
    BY <1>6 DEF On
  <2>2. ASSUME NEW y \in known PROVE pack'[y].main = TRUE <=> On(blocks, y, p)
    <3>1. CASE y = b
      BY <1>2, <1>7, <2>1, <3>1
    <3>2. CASE y # b
      <4>1. pack'[y].main = pack[y].main
        BY <1>2, <1>7, <3>2
      <4>2. pack[y].main = TRUE <=> On(blocks, y, b)
        BY <1>8 DEF Marked
      <4>3. On(blocks, y, b) <=> On(blocks, y, p)
        BY <1>6, <1>11, <3>2
      <4>4. QED
        BY <4>1, <4>2, <4>3
    <3>3. QED
      BY <3>1, <3>2
  <2>3. QED
    BY <2>2 DEF Marked
<1>13. Best(blocks, fork_head, known, pack')
  <2>1. fork_head \in known /\ \A c \in known : ~Beats(blocks, c, fork_head, pack)
    BY <1>8 DEF Best
  <2>2. ASSUME NEW c \in known, Beats(blocks, c, fork_head, pack') PROVE FALSE
    <3>1. /\ pack'[c].lc = pack[c].lc /\ pack'[c].dpos = pack[c].dpos
          /\ pack'[fork_head].lc = pack[fork_head].lc /\ pack'[fork_head].dpos = pack[fork_head].dpos
      BY <1>2, <1>7, <2>1
    <3>2. N(blocks, c) = N(blocks, fork_head) /\ pack'[c].main /\ ~pack'[fork_head].main
          /\ ~(pack[c].main /\ ~pack[fork_head].main)
      BY <2>1, <2>2, <3>1 DEF Beats
    <3>3. c # b /\ pack[c].main = pack'[c].main
      BY <1>2, <1>7, <3>2
    <3>4. fork_head = b
      BY <1>2, <1>7, <2>1, <3>2, <3>3
    <3>5. pack[c].main \in BOOLEAN
      BY <1>2, PackNumbers
    <3>6. On(blocks, c, b)
      BY <1>8, <3>2, <3>3, <3>5 DEF Marked
    <3>7. c = b
      BY <1>2, <1>4, <1>11, <3>2, <3>4, <3>6, OnSame
    <3>8. QED
      BY <3>3, <3>7
  <2>3. QED
    BY <2>1, <2>2 DEF Best
<1>14. Settled(blocks, l, known, pack')
  <2>1. \A y \in known : pack'[y].lc = pack[y].lc /\ pack'[y].dpos = pack[y].dpos
                         /\ pack'[y].irr = pack[y].irr
    BY <1>2, <1>7
  <2>2. Fresh(blocks, l, known, pack')
    BY <1>8, <2>1 DEF Fresh
  <2>3. QED
    BY <1>8, <2>1, <2>2, SettledSame
<1>15. Switching(blocks, l, known, pack', fork_head, p, log, job)
  <2>1. Resting(l, known, pack', log, job)
    BY <1>2, <1>7, <1>8 DEF Resting
  <2>2. QED
    BY <1>8, <1>9, <1>10, <1>12, <1>13, <1>14, <2>1 DEF Switching
<1>16. Live(blocks, l, known, pack', fork_head, p, log, pc', job')
  <2>1. job'.erase = {}
    BY <1>1, <1>8 DEF Resting
  <2>2. QED
    BY <1>1, <1>15, <2>1, SwitchLive
<1>17. LogWay(blocks, log, p)
  BY <1>2, <1>8, <1>10 DEF LogWay, Resting
<1>18. Stacked(blocks, db', p, building, log, pc', job', FALSE)
  <2>1. PICK e \in {0, 1} : DbOK(blocks, db, b, Len(log), e) /\ (building = TRUE <=> e = 1)
    BY <1>1, <1>2 DEF Stacked
  <2>2. /\ Len(log) \in Nat /\ Len(log) >= 1 /\ N(blocks, log[Len(log)]) = Len(log)
    BY <1>2, LogTip
  <2>3. Len(log) <= N(blocks, p)
    BY <1>17, <2>2 DEF LogWay, On
  <2>4. DbOK(blocks, UndoSession(db), p, Len(log), e)
    BY <1>2, <1>4, <2>1, <2>2, <2>3, PoppedDb DEF p
  <2>5. ~Pushing(pc', job') /\ building \in BOOLEAN /\ pc' # "commit"
    BY <1>1, <1>2 DEF Pushing, Stacked
  <2>6. QED
    BY <1>1, <2>1, <2>4, <2>5 DEF Stacked
<1>19. Windows(blocks, pack')
  BY <1>2, <1>7, WindowsSame DEF SameWin
<1>20. QED
  BY <1>1, <1>2, <1>16, <1>17, <1>18, <1>19 DEF Agreed

\* _abort_build and _start_build
LEMMA AbortedStack ==
    ASSUME Tree(blocks), LogOK(blocks, log), LogWay(blocks, log, block_head),
           block_head \in 1..Len(blocks), pc \notin {"commit", "down"},
           Stacked(blocks, db, block_head, building, log, pc, job, file)
    PROVE  /\ DbOK(blocks, Aborted, block_head, Len(log), 0)
           /\ Len(log) \in Nat /\ Len(log) >= 1 /\ Len(log) <= N(blocks, block_head)
           /\ \A b \in 1..Len(blocks) : blocks[b].prev = block_head =>
                /\ DbOK(blocks, Started(b), block_head, Len(log), 1)
                /\ DbOK(blocks, Started(b), b, Len(log), 0)
                /\ Started(b).state = blocks[b].path
<1>1. PICK e \in {0, 1} : DbOK(blocks, db, block_head, Len(log), e)
                          /\ (building = TRUE <=> e = 1)
  BY DEF Stacked
<1>2. building \in BOOLEAN
  BY DEF Stacked
<1>3. Len(log) \in Nat /\ Len(log) >= 1 /\ N(blocks, log[Len(log)]) = Len(log)
  BY LogTip
<1>4. Len(log) <= N(blocks, block_head)
  BY <1>3 DEF LogWay, On
<1>7. DbOK(blocks, Aborted, block_head, Len(log), 0)
  <2>1. CASE building = TRUE
    <3>1. e = 1
      BY <1>1, <2>1
    <3>2. DbOK(blocks, UndoSession(db), block_head, Len(log), 0)
      BY <1>1, <1>3, <1>4, <3>1, AbortedDb
    <3>3. QED
      BY <2>1, <3>2 DEF Aborted
  <2>2. CASE building = FALSE
    <3>1. e = 0
      BY <1>1, <2>2
    <3>2. QED
      BY <1>1, <2>2, <3>1 DEF Aborted
  <2>3. QED
    BY <1>2, <2>1, <2>2
<1>8. ASSUME NEW b \in 1..Len(blocks), blocks[b].prev = block_head
      PROVE  /\ DbOK(blocks, Started(b), block_head, Len(log), 1)
             /\ DbOK(blocks, Started(b), b, Len(log), 0)
             /\ Started(b).state = blocks[b].path
  <2>1. SessionOf(Started(b), Aborted, b)
    BY Zenon DEF Started, SessionOf
  <2>2. Tree(blocks) /\ blocks[b].prev = block_head /\ block_head \in 1..Len(blocks)
        /\ Len(log) \in Nat /\ Len(log) >= 1 /\ Len(log) <= N(blocks, block_head)
    BY <1>3, <1>4, <1>8
  <2>3. QED
    BY ONLY <1>7, <1>8, <2>1, <2>2, StartedDb
<1>9. QED
  BY <1>3, <1>4, <1>7, <1>8

\* A block that fails when it is applied.
LEMMA FailedStack ==
    ASSUME Tree(blocks), LogOK(blocks, log), LogWay(blocks, log, block_head),
           block_head \in 1..Len(blocks), pc \notin {"commit", "down"},
           Stacked(blocks, db, block_head, building, log, pc, job, file),
           NEW b \in 1..Len(blocks), blocks[b].prev = block_head, Failed(b),
           NEW x, x \notin {"grow", "commit", "pushed"}, NEW i
    PROVE  Stacked(blocks, db', block_head, building', log, x, i, FALSE)
<1>1. ~Pushing(x, i) /\ building \in BOOLEAN
  BY DEF Pushing, Stacked
<1>2. CASE UNCHANGED <<db, building>>
  <2>1. PICK e \in {0, 1} : DbOK(blocks, db, block_head, Len(log), e)
                            /\ (building = TRUE <=> e = 1)
    BY DEF Stacked
  <2>2. db' = db /\ building' = building
    BY <1>2
  <2>3. QED
    BY <1>1, <2>1, <2>2 DEF Stacked
<1>3. CASE db' = Aborted /\ building' = FALSE
  <2>0. DbOK(blocks, Aborted, block_head, Len(log), 0)
    BY AbortedStack
  <2>1. DbOK(blocks, db', block_head, Len(log), 0)
    BY ONLY <1>3, <2>0
  <2>2. QED
    <3>1. building' = FALSE /\ x # "commit"
      BY <1>3
    <3>2. Stacked(blocks, db', block_head, FALSE, log, x, i, FALSE)
      BY ONLY <1>1, <2>1, <3>1 DEF Stacked
    <3>3. QED
      BY ONLY <3>1, <3>2, Zenon
<1>4. CASE db' = Started(b) /\ building' = TRUE
  <2>0. DbOK(blocks, Started(b), block_head, Len(log), 1)
    BY AbortedStack
  <2>1. DbOK(blocks, db', block_head, Len(log), 1)
    BY ONLY <1>4, <2>0
  <2>2. QED
    BY <1>1, <1>4, <2>1 DEF Stacked
<1>5. QED
  BY <1>2, <1>3, <1>4 DEF Failed

\* remove_chain keeps a block if it keeps one that is built on it.
LEMMA RemovedRests ==
    ASSUME Tree(blocks), NEW K, K \subseteq 1..Len(blocks), NEW l \in 1..Len(blocks),
           Rests(blocks, l, K), NEW b \in 1..Len(blocks),
           NEW h \in K, N(blocks, h) < N(blocks, b), On(blocks, l, h)
    PROVE  LET R == K \ RemovedWith(b, K)
           IN  Rests(blocks, l, R) /\ h \in R /\ R \subseteq K /\ (l \in K => l \in R)
<1> DEFINE R == K \ RemovedWith(b, K)
<1>1. \A a \in 0..Len(blocks) : Num(a) = N(blocks, a) /\ N(blocks, a) \in Nat
  BY NumIsNat DEF Num, N
<1>2. ASSUME NEW y \in 1..Len(blocks)
      PROVE  /\ Prev(y) \in 0..Len(blocks) /\ Num(Prev(y)) = N(blocks, y) - 1
             /\ \A a \in 1..Len(blocks) : On(blocks, a, y) /\ a # y => On(blocks, a, Prev(y)) /\ Prev(y) \in 1..Len(blocks)
  <2>1. CASE blocks[y].prev = NoBlock
    <3>1. blocks[y].num = 1
      <4>1. IsBlock(blocks, y)
        BY DEF Tree
      <4>2. ASSUME blocks[y].num > 1 PROVE FALSE
        <5>1. blocks[y].prev = blocks[y].path[blocks[y].num - 1]
          BY <4>1, <4>2 DEF IsBlock
        <5>2. blocks[y].num - 1 \in 1..blocks[y].num
          BY <4>1, <4>2, SMTT(60) DEF IsBlock
        <5>3. blocks[y].path[blocks[y].num - 1] \in 1..Len(blocks)
          BY <5>2, Way
        <5>4. QED
          BY <2>1, <5>1, <5>3 DEF NoBlock
      <4>3. QED
        BY <4>1, <4>2 DEF IsBlock
    <3>2. N(blocks, y) = 1 /\ Prev(y) = 0 /\ Num(Prev(y)) = 0
      BY <2>1, <3>1, Way DEF Prev, Num, NoBlock
    <3>3. ASSUME NEW a \in 1..Len(blocks), On(blocks, a, y), a # y PROVE FALSE
      <4>1. N(blocks, a) \in 1..N(blocks, y)
        BY <3>3, OnWay
      <4>2. N(blocks, a) = N(blocks, y)
        BY <3>2, <4>1
      <4>3. QED
        BY <3>3, <4>2, OnSame
    <3>4. 0 \in 0..Len(blocks)
      BY TreeLen
    <3>5. QED
      BY <3>2, <3>3, <3>4
  <2>2. CASE blocks[y].prev # NoBlock
    <3> DEFINE p == blocks[y].prev
    <3>1. p \in 1..Len(blocks)
      BY <2>2, PrevOnTree
    <3>2. /\ N(blocks, y) = N(blocks, p) + 1 /\ N(blocks, p) \in Nat
          /\ \A a \in 1..Len(blocks) : On(blocks, a, y) <=> a = y \/ On(blocks, a, p)
      BY <3>1, OnPrev, ZenonT(60)
    <3>3. Num(p) = N(blocks, p) /\ Prev(y) = p
      BY DEF Num, N, Prev
    <3> HIDE DEF p
    <3>4. QED
      BY <3>1, <3>2, <3>3
  <2>3. QED
    BY <2>1, <2>2
<1>3. \A y \in K : y \in R <=> y # b /\ IdBefore(Prev(y), b)
  BY DEF RemovedWith
<1>4. \A a \in 0..Len(blocks) : (N(blocks, a) < N(blocks, b) => IdBefore(a, b))
                                /\ (IdBefore(a, b) => N(blocks, a) <= N(blocks, b))
  <2>1. Num(b) = N(blocks, b) /\ N(blocks, b) \in Nat
    BY <1>1
  <2>2. QED
    BY <1>1, <2>1 DEF IdBefore
<1>5. ~IdBefore(b, b)
  <2>1. Num(b) \in Nat /\ blocks[b].rank \in Nat
    <3>1. blocks[b] \in BlockType
      BY DEF Tree
    <3>2. Num(b) \in Nat
      BY <1>1
    <3>3. QED
      BY <3>1, <3>2 DEF BlockType
  <2>2. QED
    BY <2>1 DEF IdBefore
<1> HIDE DEF R
<1>6. ASSUME NEW y \in K, N(blocks, y) < N(blocks, b) PROVE y \in R
  <2>1. y \in 1..Len(blocks)
    OBVIOUS
  <2>2. N(blocks, Prev(y)) < N(blocks, b) /\ Prev(y) \in 0..Len(blocks)
    <3>1. Num(Prev(y)) = N(blocks, y) - 1 /\ Prev(y) \in 0..Len(blocks)
      BY <1>2, <2>1
    <3>2. N(blocks, y) \in Nat /\ N(blocks, b) \in Nat /\ Num(Prev(y)) = N(blocks, Prev(y))
      BY <1>1, <2>1, <3>1
    <3>3. N(blocks, Prev(y)) = N(blocks, y) - 1
      BY ONLY <3>1, <3>2
    <3>4. QED
      BY ONLY <1>6, <3>1, <3>2, <3>3
  <2>3. IdBefore(Prev(y), b)
    BY ONLY <1>4, <2>2
  <2>4. y # b
    BY ONLY <1>1, <1>6, <2>1
  <2>5. QED
    BY ONLY <1>3, <1>6, <2>3, <2>4
<1>7. h \in R /\ R \subseteq K
  BY <1>6 DEF R
<1>8. l \in K => l \in R
  <2>1. N(blocks, l) < N(blocks, b)
    <3>1. N(blocks, l) \in Nat /\ N(blocks, h) \in Nat /\ N(blocks, b) \in Nat
      BY OnWay
    <3>2. QED
      BY <3>1 DEF On
  <2>2. QED
    BY <1>6, <2>1
<1>9. ASSUME NEW y \in R, NEW a \in 1..Len(blocks), On(blocks, a, y),
             N(blocks, a) > N(blocks, l)
      PROVE  a \in R
  <2>1. y \in K /\ a \in K /\ y # b /\ IdBefore(Prev(y), b) /\ y \in 1..Len(blocks)
    BY <1>3, <1>7, <1>9 DEF Rests
  <2>2. CASE a = y
    BY <1>9, <2>2
  <2>3. CASE a # y
    <3>1. On(blocks, a, Prev(y)) /\ Prev(y) \in 1..Len(blocks)
      BY <1>2, <1>9, <2>1, <2>3
    <3>2. N(blocks, a) <= N(blocks, Prev(y)) /\ N(blocks, Prev(y)) <= N(blocks, b)
      BY <1>4, <2>1, <3>1 DEF On
    <3>3. N(blocks, a) \in Nat /\ N(blocks, Prev(y)) \in Nat /\ N(blocks, b) \in Nat
      BY <3>1, OnWay
    <3>4. a # b
      <4>1. SUFFICES ASSUME a = b PROVE FALSE
        OBVIOUS
      <4>2. N(blocks, a) = N(blocks, Prev(y))
        BY <3>2, <3>3, <4>1
      <4>3. a = Prev(y)
        BY <3>1, <4>2, OnSame
      <4>4. QED
        BY <1>5, <2>1, <4>1, <4>3
    <3>5. IdBefore(Prev(a), b)
      <4>1. Num(Prev(a)) = N(blocks, a) - 1 /\ Prev(a) \in 0..Len(blocks)
        BY <1>2
      <4>2. N(blocks, Prev(a)) < N(blocks, b)
        BY <1>1, <3>2, <3>3, <4>1
      <4>3. QED
        BY <1>4, <4>1, <4>2
    <3>6. QED
      BY <1>3, <2>1, <3>4, <3>5
  <2>4. QED
    BY <2>2, <2>3
<1>10. Rests(blocks, l, R)
  <2>1. \A y \in R : N(blocks, y) >= N(blocks, l)
    BY <1>7 DEF Rests
  <2>2. l \notin R => \A y \in R :
       /\ N(blocks, y) > N(blocks, l) /\ On(blocks, l, y)
       /\ \A z \in R : N(blocks, y) = N(blocks, l) + 1 /\ N(blocks, z) = N(blocks, l) + 1 => y = z
    BY <1>7, <1>8 DEF Rests
  <2>3. QED
    BY <1>9, <2>1, <2>2 DEF Rests
<1>11. QED
  BY <1>7, <1>8, <1>10 DEF R

\* The block to apply is built on block_head.
LEMMA AppliedOn ==
    ASSUME Base, pc = "apply", NEW b, b = Path(fork_head)[Num(block_head) + 1]
    PROVE  /\ b \in known /\ b \in 1..Len(blocks) /\ fork_head \in 1..Len(blocks)
           /\ block_head \in 1..Len(blocks)
           /\ blocks[b].prev = block_head /\ On(blocks, b, fork_head)
           /\ N(blocks, b) = N(blocks, block_head) + 1
<1>1. Tree(blocks) /\ Running(blocks, known, fork_head, block_head, pc, job)
  BY DEF Base
<1>2. /\ fork_head \in 1..Len(blocks) /\ block_head \in 1..Len(blocks)
      /\ b \in known /\ b \in 1..Len(blocks)
      /\ blocks[block_head].num \in Nat /\ blocks[fork_head].num \in Nat
      /\ blocks[b].num = blocks[block_head].num + 1
      /\ blocks[b].num <= blocks[fork_head].num
      /\ blocks[fork_head].path[blocks[b].num] = b
      /\ 1 <= blocks[block_head].num
  <2>1. job.meet \in Nat /\ 1 <= job.meet /\ job.meet <= blocks[block_head].num
        /\ blocks[block_head].num \in Nat
    BY Applied
  <2>2. 1 <= blocks[block_head].num
    BY ONLY <2>1
  <2>3. QED
    BY <2>2, Applied
<1>3. blocks[fork_head].path[blocks[block_head].num] = block_head
  BY <1>1 DEF Running
<1>4. /\ N(blocks, b) = blocks[b].num /\ N(blocks, block_head) = blocks[block_head].num
      /\ N(blocks, fork_head) = blocks[fork_head].num
  BY <1>1, <1>2, OnWay, SMTT(60)
<1>5. On(blocks, b, fork_head) /\ N(blocks, b) = N(blocks, block_head) + 1
  BY <1>2, <1>4 DEF On
<1>6. blocks[b].path[blocks[block_head].num] = blocks[fork_head].path[blocks[block_head].num]
  <2>1. \A k \in 1..N(blocks, b) : blocks[b].path[k] = blocks[fork_head].path[k]
    BY ONLY <1>1, <1>2, <1>5, OnWay
  <2>2. blocks[block_head].num \in 1..N(blocks, b)
    BY ONLY <1>2, <1>4
  <2>3. QED
    BY <2>1, <2>2
<1>7. blocks[b].prev = blocks[b].path[blocks[b].num - 1]
  <2>1. IsBlock(blocks, b)
    BY <1>1, <1>2 DEF Tree
  <2>2. blocks[b].num > 1
    BY <1>2
  <2>3. QED
    BY <2>1, <2>2 DEF IsBlock
<1>8. blocks[b].num - 1 = blocks[block_head].num
  BY ONLY <1>2
<1>9. QED
  BY <1>2, <1>3, <1>5, <1>6, <1>7, <1>8

LEMMA ApplyGoodAgreed ==
    ASSUME Base, Agreed, pc = "apply", NEW b, b = Path(fork_head)[Num(block_head) + 1],
           db' = Started(b), building' = FALSE, block_head' = b,
           pack' = [pack EXCEPT ![b].main = TRUE], pc' \in {"check", "apply"},
           known' = known, fork_head' = fork_head, blocks' = blocks, log' = log,
           job' = job, file' = file
    PROVE  Agreed'
<1> DEFINE p == block_head
<1>1. /\ b \in known /\ b \in 1..Len(blocks) /\ fork_head \in 1..Len(blocks)
      /\ p \in 1..Len(blocks) /\ blocks[b].prev = p /\ On(blocks, b, fork_head)
  BY AppliedOn
<1>2. /\ Tree(blocks) /\ Packs(blocks, pack) /\ known \subseteq DOMAIN pack
      /\ LogOK(blocks, log)
      /\ Windows(blocks, pack) /\ LogWay(blocks, log, p) /\ file = FALSE
      /\ Stacked(blocks, db, p, building, log, pc, job, file)
  BY Parts
<1>3. PICK l \in 1..Len(blocks) :
        Switching(blocks, l, known, pack, fork_head, p, log, job)
  BY InSwitch
<1>4. OnlyMain(pack, pack', b, TRUE)
  BY <1>2, MainFlag, Zenon
<1>5. DbOK(blocks, db', b, Len(log), 0)
  <2>1. pc \notin {"commit", "down"}
    OBVIOUS
  <2>2. DbOK(blocks, Started(b), b, Len(log), 0)
    BY <1>1, <1>2, <2>1, AbortedStack
  <2>3. QED
    BY ONLY <2>2, db' = Started(b)
<1> HIDE DEF p
<1>6. /\ N(blocks, b) = N(blocks, p) + 1 /\ On(blocks, p, b)
      /\ \A a \in 1..Len(blocks) : On(blocks, a, b) <=> a = b \/ On(blocks, a, p)
  BY <1>1, <1>2, OnPrev
<1>7. /\ DOMAIN pack' = DOMAIN pack
      /\ \A c \in DOMAIN pack : /\ pack'[c].lc = pack[c].lc /\ pack'[c].dpos = pack[c].dpos
                                /\ pack'[c].win = pack[c].win /\ pack'[c].irr = pack[c].irr
                                /\ c = b => pack'[c].main = TRUE
                                /\ c # b => pack'[c].main = pack[c].main
  BY <1>4 DEF OnlyMain
<1>8. /\ Resting(l, known, pack, log, job) /\ Settled(blocks, l, known, pack)
      /\ Best(blocks, fork_head, known, pack) /\ Rests(blocks, l, known)
      /\ On(blocks, l, p) /\ On(blocks, l, fork_head)
      /\ Marked(blocks, known, pack, p) /\ Fresh(blocks, l, known, pack)
  BY <1>3 DEF Switching, Settled
<1>9. On(blocks, l, b)
  BY <1>6, <1>8
<1>10. known \subseteq 1..Len(blocks)
  BY <1>2 DEF Packs
<1>11. Marked(blocks, known, pack', b)
  <2>1. On(blocks, b, b)
    BY <1>6, <1>1
  <2>2. ASSUME NEW y \in known PROVE pack'[y].main = TRUE <=> On(blocks, y, b)
    <3>1. CASE y = b
      BY <1>2, <1>7, <2>1, <3>1
    <3>2. CASE y # b
      <4>1. pack'[y].main = pack[y].main
        BY <1>2, <1>7, <3>2
      <4>2. pack[y].main = TRUE <=> On(blocks, y, p)
        BY <1>8 DEF Marked
      <4>3. On(blocks, y, b) <=> On(blocks, y, p)
        BY <1>6, <1>10, <3>2
      <4>4. QED
        BY <4>1, <4>2, <4>3
    <3>3. QED
      BY <3>1, <3>2
  <2>3. QED
    BY <2>2 DEF Marked
<1>12. Best(blocks, fork_head, known, pack')
  <2>1. fork_head \in known /\ \A c \in known : ~Beats(blocks, c, fork_head, pack)
    BY <1>8 DEF Best
  <2>2. ASSUME NEW c \in known, Beats(blocks, c, fork_head, pack') PROVE FALSE
    <3>1. /\ pack'[c].lc = pack[c].lc /\ pack'[c].dpos = pack[c].dpos
          /\ pack'[fork_head].lc = pack[fork_head].lc /\ pack'[fork_head].dpos = pack[fork_head].dpos
      BY <1>2, <1>7, <2>1
    <3>2. N(blocks, c) = N(blocks, fork_head) /\ pack'[c].main /\ ~pack'[fork_head].main
          /\ ~(pack[c].main /\ ~pack[fork_head].main)
      BY <2>1, <2>2, <3>1 DEF Beats
    <3>3. fork_head # b /\ pack'[fork_head].main = pack[fork_head].main
      BY <1>2, <1>7, <2>1, <3>2
    <3>4. c = b
      BY <1>2, <1>7, <2>1, <3>2, <3>3
    <3>5. QED
      BY <1>1, <1>2, <3>2, <3>3, <3>4, OnSame
  <2>3. QED
    BY <2>1, <2>2 DEF Best
<1>13. Settled(blocks, l, known, pack')
  <2>1. \A y \in known : pack'[y].lc = pack[y].lc /\ pack'[y].dpos = pack[y].dpos
                         /\ pack'[y].irr = pack[y].irr
    BY <1>2, <1>7
  <2>2. Fresh(blocks, l, known, pack')
    BY <1>8, <2>1 DEF Fresh
  <2>3. QED
    BY ONLY <1>8, <2>1, <2>2, SettledSame
<1>14. Switching(blocks, l, known, pack', fork_head, b, log, job)
  <2>1. Resting(l, known, pack', log, job)
    BY <1>2, <1>7, <1>8 DEF Resting
  <2>2. QED
    BY <1>1, <1>8, <1>9, <1>11, <1>12, <1>13, <2>1 DEF Switching
<1>15. Live(blocks, l, known, pack', fork_head, b, log, pc', job')
  <2>1. job'.erase = {}
    BY <1>8 DEF Resting
  <2>2. QED
    BY <1>14, <2>1, SwitchLive
<1>16. LogWay(blocks, log, b)
  BY <1>2, <1>8, <1>9 DEF LogWay, Resting
<1>17. Stacked(blocks, db', b, FALSE, log, pc', job', FALSE)
  <2>1. ~Pushing(pc', job') /\ pc' # "commit"
    BY DEF Pushing
  <2>2. QED
    BY ONLY <1>5, <2>1 DEF Stacked
<1>18. Windows(blocks, pack')
  BY <1>2, <1>7, WindowsSame DEF SameWin
<1>19. building' = FALSE /\ file' = FALSE /\ pc' # "recv"
  BY <1>2
<1>20. Stacked(blocks, db', b, building', log, pc', job', file')
  BY ONLY <1>17, <1>19, Zenon
<1>21. QED
  BY <1>15, <1>16, <1>18, <1>19, <1>20 DEF Agreed

LEMMA ApplyBadAgreed ==
    ASSUME Base, Agreed, pc = "apply", NEW b, b = Path(fork_head)[Num(block_head) + 1],
           Failed(b), known' = known \ RemovedWith(b, known),
           fork_head' \in Longest(known', pack), pc' = "check",
           block_head' = block_head, pack' = pack, blocks' = blocks, log' = log,
           job' = job, file' = file
    PROVE  Agreed'
<1> DEFINE p == block_head
           R == known \ RemovedWith(b, known)
<1>1. /\ b \in known /\ b \in 1..Len(blocks) /\ p \in 1..Len(blocks)
      /\ blocks[b].prev = p /\ N(blocks, b) = N(blocks, p) + 1
  BY AppliedOn
<1>2. /\ Tree(blocks) /\ Packs(blocks, pack) /\ known \subseteq DOMAIN pack
      /\ LogOK(blocks, log)
      /\ Windows(blocks, pack) /\ LogWay(blocks, log, p) /\ file = FALSE
      /\ Stacked(blocks, db, p, building, log, pc, job, file)
  BY Parts
<1>3. PICK l \in 1..Len(blocks) :
        Switching(blocks, l, known, pack, fork_head, p, log, job)
  BY InSwitch
<1>4. Stacked(blocks, db', p, building', log, pc', job', FALSE)
  <2>1. pc \notin {"commit", "down"} /\ pc' \notin {"grow", "commit", "pushed"}
    OBVIOUS
  <2>2. QED
    BY <1>1, <1>2, <2>1, FailedStack
<1>5. /\ Resting(l, known, pack, log, job) /\ Settled(blocks, l, known, pack)
      /\ p \in known /\ On(blocks, l, p) /\ Marked(blocks, known, pack, p)
      /\ Rests(blocks, l, known) /\ Fresh(blocks, l, known, pack)
      /\ Confirms(blocks, l, known, pack)
  BY <1>3 DEF Switching, Settled
<1>6. known \subseteq 1..Len(blocks)
  BY <1>2 DEF Packs
<1>7. N(blocks, p) < N(blocks, b)
  <2>1. N(blocks, p) \in Nat
    BY <1>1, <1>2, OnWay
  <2>2. QED
    BY <1>1, <2>1
<1>8. Rests(blocks, l, R) /\ p \in R /\ R \subseteq known /\ (l \in known => l \in R)
  BY ONLY <1>1, <1>2, <1>5, <1>6, <1>7, RemovedRests
<1>9. known' = R
  OBVIOUS
<1> HIDE DEF R, p
<1>10. Settled(blocks, l, R, pack)
  <2>1. Fresh(blocks, l, R, pack)
    BY <1>5, <1>8 DEF Fresh
  <2>2. QED
    BY <1>5, <1>8, <2>1, SettledSame
<1>11. Best(blocks, fork_head', R, pack)
  BY <1>2, <1>8, <1>9, LongestIsBest
<1>12. On(blocks, l, fork_head')
  <2>1. Confirms(blocks, l, R, pack) /\ R \subseteq DOMAIN pack
    BY <1>2, <1>8, <1>10 DEF Settled
  <2>2. QED
    BY <1>2, <1>5, <1>8, <1>11, <2>1, BestOn
<1>13. Switching(blocks, l, R, pack, fork_head', p, log, job)
  <2>1. Resting(l, R, pack, log, job)
    BY <1>5, <1>8 DEF Resting
  <2>2. Marked(blocks, R, pack, p)
    BY <1>5, <1>8 DEF Marked
  <2>3. QED
    BY <1>5, <1>8, <1>10, <1>11, <1>12, <2>1, <2>2 DEF Switching
<1>14. Live(blocks, l, R, pack, fork_head', p, log, pc', job')
  <2>1. job'.erase = {} /\ pc' \in {"check", "pop", "apply"}
    BY <1>5 DEF Resting
  <2>2. QED
    BY <1>13, <2>1, SwitchLive
<1>15. QED
  BY <1>2, <1>4, <1>9, <1>14 DEF Agreed, p

LEMMA ApplyAgreed ==
    ASSUME Uncaught = {}, Base, Agreed, Apply
    PROVE  Agreed'
<1> DEFINE b == Path(fork_head)[Num(block_head) + 1]
<1>0. blocks[b].bld \notin Uncaught
  OBVIOUS
<1>1. pc = "apply" /\ blocks' = blocks /\ log' = log /\ file' = file /\ job' = job
  BY <1>0 DEF Apply
<1>2. CASE /\ db' = Started(b) /\ building' = FALSE /\ block_head' = b
           /\ pack' = [pack EXCEPT ![b].main = TRUE] /\ pc' \in {"check", "apply"}
           /\ known' = known /\ fork_head' = fork_head
  BY <1>1, <1>2, ApplyGoodAgreed, Zenon
<1>3. CASE /\ Failed(b) /\ known' = known \ RemovedWith(b, known)
           /\ fork_head' \in Longest(known', pack) /\ pc' = "check"
           /\ block_head' = block_head /\ pack' = pack
  BY <1>1, <1>3, ApplyBadAgreed, Zenon
<1>4. QED
  BY <1>0, <1>2, <1>3 DEF Apply

(***************************************************************************)
(* add_block.  The fork database K with packs P right after the insertion, *)
(* before a block becomes irreversible; h is its new head.                 *)
(***************************************************************************)
Added(B, l, K, P, h, bh) ==
  /\ Rests(B, l, K) /\ Confirms(B, l, K, P) /\ Rising(B, K, P) /\ Fresh(B, l, K, P)
  /\ l \in K => P[l].irr = TRUE
  /\ Best(B, h, K, P) /\ On(B, l, h) /\ On(B, l, bh)

Chosen(B, K, P, h, bh, b, then) ==
  /\ then = "pushed" => h = b /\ B[h].prev = bh /\ Marked(B, K, P, h)
  /\ then = "check" => bh \in K /\ Marked(B, K, P, bh)

\* No block is lower than the one that left the window of h.
NoGrowth(B, K, P, h) == \A z \in K : N(B, P[h].dpos) <= N(B, z)

LEMMA AddRest ==
    ASSUME Tree(blocks), NEW P, Packs(blocks, P), NEW K, K \subseteq DOMAIN P,
           NEW l \in 1..Len(blocks), NEW h, NEW bh, Added(blocks, l, K, P, h, bh),
           NEW then \in {"pushed", "check"}, NEW j, j.erase = {},
           Chosen(blocks, K, P, h, bh, j.blk, then),
           NEW lg, l = lg[Len(lg)], NoGrowth(blocks, K, P, h)
    PROVE  Live(blocks, l, K, P, h, bh, lg, then, j)
<1>1. /\ Rests(blocks, l, K) /\ Confirms(blocks, l, K, P) /\ Rising(blocks, K, P) /\ Fresh(blocks, l, K, P)
      /\ (l \in K => P[l].irr = TRUE)
      /\ Best(blocks, h, K, P) /\ On(blocks, l, h) /\ On(blocks, l, bh)
  BY DEF Added
<1>2. Caught(blocks, l, K, P)
  BY <1>1, CaughtByHead DEF NoGrowth
<1>3. Settled(blocks, l, K, P)
  BY <1>1, <1>2 DEF Settled
<1>4. K \ j.erase = K /\ K # {}
  BY <1>1 DEF Best
<1>5. Target(blocks, l, K, P, h, lg, then, j)
  BY <1>1 DEF Target, Resting
<1>6. Ahead(blocks, K, P, h, bh, then, j)
  <2>1. CASE then = "pushed"
    BY <1>1, <2>1 DEF Ahead, Pushing, Chosen
  <2>2. CASE then = "check"
    BY <1>1, <2>2 DEF Ahead, Pushing, Chosen
  <2>3. QED
    BY <2>1, <2>2
<1>7. Heads(blocks, l, K, P, h, bh, then, j)
  BY <1>1, <1>4, <1>6 DEF Heads
<1>8. QED
  BY <1>3, <1>4, <1>5, <1>7 DEF Live

LEMMA AddGrow ==
    ASSUME Tree(blocks), NEW P, Packs(blocks, P), NEW K, K \subseteq DOMAIN P,
           NEW l \in 1..Len(blocks), NEW h, NEW bh \in 1..Len(blocks),
           Added(blocks, l, K, P, h, bh), Window(blocks, h, P[h]),
           NEW d, d = P[h].dpos, NEW z \in K, N(blocks, z) < N(blocks, d), On(blocks, d, bh),
           NEW Q, Q = Confirming(d, K, P), NEW then \in {"pushed", "check"}, NEW j,
           j.then = then, j.todo = ToConfirm(d, K, Q), j.erase = ToErase(d, K, Q),
           Chosen(blocks, K, P, h, bh, j.blk, then),
           NEW lg, l = lg[Len(lg)], N(blocks, l) = Len(lg)
    PROVE  d \in K /\ Live(blocks, d, K, Q, h, bh, lg, "grow", j)
<1> DEFINE J == K \ j.erase
<1>1. /\ Rests(blocks, l, K) /\ Confirms(blocks, l, K, P) /\ Rising(blocks, K, P)
      /\ Fresh(blocks, l, K, P) /\ (l \in K => P[l].irr = TRUE)
      /\ Best(blocks, h, K, P) /\ On(blocks, l, h) /\ On(blocks, l, bh)
  BY DEF Added
<1>2. Grown(l, K, P, h, d, Q)
  BY <1>1, GrownSettled
<1>3. /\ d \in K /\ On(blocks, l, d) /\ N(blocks, l) < N(blocks, d)
      /\ LeftWindow(blocks, h, d)
      /\ j.erase = {b \in K : N(blocks, b) <= N(blocks, d) /\ b # d}
      /\ j.todo = {a \in 1..Len(blocks) : On(blocks, a, d) /\ N(blocks, a) > Len(lg)}
      /\ Settled(blocks, d, J, Q) /\ Best(blocks, h, J, Q)
  BY <1>2 DEF Grown
<1>4. j.todo \subseteq K
  BY DEF ToConfirm
<1>5. d \in 1..Len(blocks) /\ On(blocks, d, d)
  BY <1>3, OnWay DEF Packs
<1>6. d \in j.todo
  BY <1>3, <1>5
<1>7. TurnsOf(blocks, blocks[h].path, N(blocks, d)) >= DposNeed
  BY <1>3 DEF LeftWindow
<1>8. Growing(blocks, d, K, Q, h, lg, "grow", j)
  BY <1>3, <1>4, <1>6, <1>7 DEF Growing
<1>9. \A b \in DOMAIN P : Q[b].main = P[b].main
  BY <1>5, ConfirmingSame
<1>10. J \subseteq K /\ J # {} /\ h \in J
  BY <1>3 DEF Best
<1>11. \A m : Marked(blocks, K, P, m) => Marked(blocks, J, Q, m)
  <2>1. \A b \in J : Q[b].main = P[b].main /\ b \in K
    BY <1>9, <1>10
  <2>2. QED
    BY <2>1 DEF Marked
<1>12. Ahead(blocks, J, Q, h, bh, "grow", j)
  <2>1. CASE then = "pushed"
    <3>1. h = j.blk /\ blocks[h].prev = bh /\ Marked(blocks, J, Q, h) /\ Pushing("grow", j)
      BY <1>11, <2>1 DEF Chosen, Pushing
    <3>2. QED
      BY <1>3, <3>1 DEF Ahead
  <2>2. CASE then = "check"
    <3>1. bh \in K /\ Marked(blocks, J, Q, bh) /\ ~Pushing("grow", j)
      BY <1>11, <2>2 DEF Chosen, Pushing
    <3>2. bh \in J
      <4>1. N(blocks, d) <= N(blocks, bh) /\ (N(blocks, d) = N(blocks, bh) => d = bh)
        BY <1>5, OnSame DEF On
      <4>2. N(blocks, d) \in Nat /\ N(blocks, bh) \in Nat
        BY <1>5, OnWay
      <4>3. bh \notin j.erase
        BY ONLY <1>3, <4>1, <4>2
      <4>4. QED
        BY <3>1, <4>3
    <3>3. QED
      BY <1>3, <3>1, <3>2 DEF Ahead
  <2>3. QED
    BY <2>1, <2>2
<1>13. Heads(blocks, d, J, Q, h, bh, "grow", j)
  BY <1>10, <1>12 DEF Heads
<1>14. Target(blocks, d, K, Q, h, lg, "grow", j)
  BY <1>8 DEF Target
<1>15. QED
  BY <1>3, <1>13, <1>14 DEF Live

\* The invariant before a block is inserted.
LEMMA AtRest ==
    ASSUME pc \in {"idle", "recv", "build"}, NEW l,
           Live(blocks, l, known, pack, fork_head, block_head, log, pc, job)
    PROVE  /\ Resting(l, known, pack, log, job) /\ job.erase = {}
           /\ Settled(blocks, l, known, pack) /\ On(blocks, l, block_head)
           /\ known = {} => Lost(l, pack, block_head, pc)
           /\ known # {} => /\ Best(blocks, block_head, known, pack)
                            /\ fork_head = block_head /\ block_head \in known
                            /\ Marked(blocks, known, pack, block_head)
<1>1. ~Pushing(pc, job) /\ pc \notin {"grow", "commit"}
  BY DEF Pushing
<1>2. Resting(l, known, pack, log, job)
  BY <1>1 DEF Live, Target
<1>3. known \ job.erase = known /\ job.erase = {}
  BY <1>2 DEF Resting
<1>4. Settled(blocks, l, known, pack) /\ Heads(blocks, l, known, pack, fork_head, block_head, pc, job)
  BY <1>3 DEF Live
<1>5. known # {} => Ahead(blocks, known, pack, fork_head, block_head, pc, job)
  BY <1>4 DEF Heads
<1>6. known # {} => /\ Best(blocks, fork_head, known, pack)
                    /\ fork_head = block_head /\ block_head \in known
                    /\ Marked(blocks, known, pack, block_head)
  BY <1>1, <1>5 DEF Ahead
<1>7. On(blocks, l, block_head) /\ (known = {} => Lost(l, pack, block_head, pc))
  BY <1>4 DEF Heads
<1>8. QED
  BY <1>2, <1>3, <1>4, <1>6, <1>7

Insertable(B, P, K, l, t, p, Q) ==
  /\ Tree(B) /\ Packs(B, P) /\ K \subseteq DOMAIN P
  /\ l \in 1..Len(B) /\ Rests(B, l, K) /\ Confirms(B, l, K, P) /\ Rising(B, K, P)
  /\ Fresh(B, l, K, P)
  /\ t \in 1..Len(B) /\ t \notin K /\ p \in 1..Len(B) /\ B[t].prev = p
  /\ p \in DOMAIN P /\ (p \in K \/ (K = {} /\ p = l /\ P[l].lc = l))
  /\ Packs(B, Q) /\ (\A c \in K : Q[c] = P[c]) /\ t \in DOMAIN Q
  /\ Q[t].lc = P[p].lc /\ N(B, P[p].dpos) <= N(B, Q[t].dpos) /\ Q[t].irr = FALSE

LEMMA InsertedRests ==
    ASSUME NEW B, NEW P, NEW K, NEW l, NEW t, NEW p, NEW Q, Insertable(B, P, K, l, t, p, Q)
    PROVE  /\ Rests(B, l, K \cup {t}) /\ Confirms(B, l, K \cup {t}, Q)
           /\ Rising(B, K \cup {t}, Q) /\ Fresh(B, l, K \cup {t}, Q)
BY InsertedSettled, ZenonT(60) DEF Insertable

Insertion(l, K, P, b, p, isMain) ==
  /\ Packs(blocks, P) /\ K \subseteq DOMAIN P /\ Windows(blocks, P)
  /\ Rests(blocks, l, K) /\ Confirms(blocks, l, K, P) /\ Rising(blocks, K, P)
  /\ Fresh(blocks, l, K, P) /\ (l \in K => P[l].irr = TRUE)
  /\ P[b].main = isMain /\ P[b].lc = pack[p].lc
  /\ N(blocks, pack[p].dpos) <= N(blocks, P[b].dpos)
  /\ \A c \in known : P[c] = pack[c]

LEMMA InsertAdded ==
    ASSUME Base, Agreed, pc \in {"recv", "build"}, NEW l \in 1..Len(blocks),
           Live(blocks, l, known, pack, fork_head, block_head, log, pc, job),
           NEW b \in 1..Len(blocks), b \notin known, NEW p, Prev(b) = p,
           p \in known \/ p = block_head, NEW isMain \in BOOLEAN,
           NEW P, P = Inserted(b, PackOn(p, pack[p], isMain), pack)
    PROVE  Insertion(l, known \cup {b}, P, b, p, isMain)
<1> DEFINE q == PackOn(p, pack[p], isMain)
           K == known \cup {b}
<1>1. /\ Tree(blocks) /\ Packs(blocks, pack) /\ known \subseteq DOMAIN pack
      /\ block_head \in DOMAIN pack /\ Windows(blocks, pack)
  BY Parts
<1>2. /\ Resting(l, known, pack, log, job)
      /\ Settled(blocks, l, known, pack) /\ On(blocks, l, block_head)
      /\ (known = {} => Lost(l, pack, block_head, pc))
      /\ (known # {} => block_head \in known)
  BY AtRest
<1>3. p \in DOMAIN pack /\ p \in 1..Len(blocks) /\ blocks[b].prev = p
  BY <1>1 DEF Packs, Prev
<1>4. /\ pack[p] \in PackTypeOf(Len(blocks)) /\ Len(pack[p].win) <= DposNeed
      /\ Window(blocks, p, pack[p])
  BY <1>1, <1>3 DEF Packs, Windows
<1>5. q \in PackTypeOf(Len(blocks)) /\ Len(q.win) <= DposNeed /\ q.lc = pack[p].lc
  BY <1>1, <1>3, <1>4, TreeLen, PackOnType
<1>6. q.main = isMain /\ q.irr = FALSE
  BY DEF PackOn
<1>7. /\ Window(blocks, b, q) /\ N(blocks, pack[p].dpos) <= N(blocks, q.dpos)
  BY <1>1, <1>3, <1>4, WindowOn
<1> HIDE DEF q
<1>8. P = Inserted(b, q, pack)
  BY DEF q
<1>9. /\ Packs(blocks, P) /\ DOMAIN P = DOMAIN pack \cup {b} /\ P[b] = q
      /\ \A c \in DOMAIN pack : c # b => P[c] = pack[c]
  <2>1. Packs(blocks, P)
    <3>1. Packs(blocks, Inserted(b, q, pack))
      BY ONLY <1>1, <1>5, b \in 1..Len(blocks), InsertedPacks
    <3>2. QED
      BY ONLY <1>8, <3>1
  <2>2. QED
    BY <1>8, <2>1 DEF Inserted
<1>10. \A c \in known : P[c] = pack[c]
  BY <1>1, <1>9
<1>11. Windows(blocks, P)
  BY <1>1, <1>7, <1>9 DEF Windows
<1>12. p \in known \/ (known = {} /\ p = l /\ pack[l].lc = l)
  BY <1>2 DEF Lost
<1>13. /\ Rests(blocks, l, K) /\ Confirms(blocks, l, K, P) /\ Rising(blocks, K, P)
       /\ Fresh(blocks, l, K, P)
  <2>1. /\ Rests(blocks, l, known) /\ Confirms(blocks, l, known, pack)
        /\ Rising(blocks, known, pack) /\ Fresh(blocks, l, known, pack)
    BY <1>2 DEF Settled
  <2>2. /\ P[b].lc = pack[p].lc /\ N(blocks, pack[p].dpos) <= N(blocks, P[b].dpos)
        /\ P[b].irr = FALSE /\ b \in DOMAIN P
    BY <1>5, <1>6, <1>7, <1>9
  <2>3. l \in 1..Len(blocks) /\ b \in 1..Len(blocks) /\ b \notin known
    OBVIOUS
  <2>4. QED
    <3>1. Insertable(blocks, pack, known, l, b, p, P)
      BY ONLY <1>1, <1>3, <1>9, <1>10, <1>12, <2>1, <2>2, <2>3 DEF Insertable
    <3>2. QED
      BY ONLY <3>1, InsertedRests
<1>14. l # b
  <2>1. N(blocks, l) <= N(blocks, p)
    <3>1. CASE p \in known
      BY <1>2, <3>1 DEF Settled, Rests
    <3>2. CASE p = l
      <4>1. N(blocks, l) \in Nat
        BY <1>1, OnWay
      <4>2. QED
        BY <3>2, <4>1
    <3>3. QED
      BY <1>12, <3>1, <3>2
  <2>2. N(blocks, b) = N(blocks, p) + 1 /\ N(blocks, p) \in Nat /\ N(blocks, l) \in Nat
    BY <1>1, <1>3, OnPrev, OnWay
  <2>3. N(blocks, l) # N(blocks, b)
    BY ONLY <2>1, <2>2
  <2>4. QED
    BY <2>3
<1>15. l \in K => P[l].irr = TRUE
  BY <1>2, <1>10, <1>14 DEF Resting
<1>16. K \subseteq DOMAIN P
  BY <1>1, <1>9
<1>17. QED
  BY <1>5, <1>6, <1>7, <1>9, <1>10, <1>11, <1>13, <1>15, <1>16 DEF Insertion

\* A block pushed on block_head becomes the head of the fork database.
LEMMA NextIsBest ==
    ASSUME Base, Agreed, pc \in {"recv", "build"}, NEW l \in 1..Len(blocks),
           Live(blocks, l, known, pack, fork_head, block_head, log, pc, job),
           NEW b \in 1..Len(blocks), b \notin known, Prev(b) = block_head,
           NEW P, Insertion(l, known \cup {b}, P, b, block_head, TRUE),
           NEW h, Best(blocks, h, known \cup {b}, P)
    PROVE  /\ h = b /\ On(blocks, l, b)
           /\ Marked(blocks, known \cup {b}, P, b)
<1> DEFINE K == known \cup {b}
           p == block_head
<1>1. /\ Tree(blocks) /\ Packs(blocks, pack) /\ known \subseteq DOMAIN pack
      /\ p \in 1..Len(blocks)
  BY Parts
<1>2. /\ Settled(blocks, l, known, pack) /\ On(blocks, l, p)
      /\ known # {} => /\ Best(blocks, p, known, pack) /\ p \in known
                       /\ Marked(blocks, known, pack, p)
  BY AtRest
<1>3. blocks[b].prev = p
  BY DEF Prev
<1> HIDE DEF p
<1>4. /\ N(blocks, b) = N(blocks, p) + 1 /\ N(blocks, p) \in Nat
      /\ \A a \in 1..Len(blocks) : On(blocks, a, b) <=> a = b \/ On(blocks, a, p)
  BY <1>1, <1>3, OnPrev
<1>5. On(blocks, l, b) /\ On(blocks, b, b)
  BY <1>2, <1>4
<1>6. /\ Packs(blocks, P) /\ K \subseteq DOMAIN P /\ Confirms(blocks, l, K, P)
      /\ P[b].main = TRUE /\ N(blocks, pack[p].dpos) <= N(blocks, P[b].dpos)
      /\ \A c \in known : P[c] = pack[c]
  BY DEF Insertion, p
<1>7. known \subseteq 1..Len(blocks)
  BY <1>1 DEF Packs
<1>8. ASSUME h # b PROVE FALSE
  <2>1. h \in known /\ ~Beats(blocks, b, h, P)
    BY <1>8 DEF Best
  <2>2. Best(blocks, p, known, pack) /\ p \in known
    BY <1>2, <2>1
  <2>3. Confirms(blocks, l, known, pack)
    BY <1>2 DEF Settled
  <2>4. On(blocks, l, h) /\ P[h].lc = l
    BY <1>1, <1>5, <1>6, BestOn
  <2>5. P[b].lc = l /\ P[h] = pack[h]
    BY <1>5, <1>6, <2>1 DEF Confirms
  <2>6. N(blocks, pack[h].dpos) <= N(blocks, pack[p].dpos)
    BY <1>1, <1>2, <2>1, <2>2, <2>3, <2>4, BestDpos
  <2>7. /\ N(blocks, pack[h].dpos) \in Nat /\ N(blocks, pack[p].dpos) \in Nat
        /\ N(blocks, P[b].dpos) \in Nat /\ N(blocks, h) \in Nat
    <3>1. h \in DOMAIN pack /\ p \in DOMAIN pack /\ b \in DOMAIN P
      BY <1>1, <1>6, <2>1, <2>2
    <3>2. QED
      BY <1>1, <1>6, <3>1, PackNumbers
  <2>8. ~(N(blocks, P[b].dpos) > N(blocks, P[h].dpos))
        /\ ~(N(blocks, P[b].dpos) = N(blocks, P[h].dpos) /\ N(blocks, b) > N(blocks, h))
    BY <2>1, <2>4, <2>5 DEF Beats
  <2>9. N(blocks, pack[h].dpos) = N(blocks, pack[p].dpos)
        /\ N(blocks, P[b].dpos) = N(blocks, P[h].dpos)
    <3>1. N(blocks, P[h].dpos) = N(blocks, pack[h].dpos)
      BY <2>5
    <3>2. QED
      BY ONLY <1>6, <2>6, <2>7, <2>8, <3>1
  <2>10. N(blocks, h) > N(blocks, p)
    BY ONLY <1>4, <2>7, <2>8, <2>9
  <2>11. pack[p].lc = l /\ pack[h].lc = l
    BY <1>2, <2>2, <2>3, <2>4, <2>5 DEF Confirms
  <2>12. Beats(blocks, h, p, pack)
    BY <2>9, <2>10, <2>11 DEF Beats
  <2>13. QED
    BY <2>1, <2>2, <2>12 DEF Best
<1>9. ASSUME NEW y \in K PROVE P[y].main = TRUE <=> On(blocks, y, b)
  <2>1. CASE y = b
    BY <1>5, <1>6, <2>1
  <2>2. CASE y # b
    <3>1. y \in known /\ P[y] = pack[y] /\ y \in 1..Len(blocks)
      BY <1>6, <1>7, <2>2
    <3>2. pack[y].main = TRUE <=> On(blocks, y, p)
      BY <1>2, <3>1 DEF Marked
    <3>3. On(blocks, y, b) <=> On(blocks, y, p)
      BY <1>4, <2>2, <3>1
    <3>4. QED
      BY <3>1, <3>2, <3>3
  <2>3. QED
    BY <2>1, <2>2
<1>10. Marked(blocks, K, P, b)
  BY <1>9 DEF Marked
<1>11. QED
  BY <1>5, <1>8, <1>10

\* A block pushed elsewhere: the head of the fork database stays or is the block.
LEMMA ForkHead ==
    ASSUME Base, Agreed, pc = "recv", NEW l \in 1..Len(blocks),
           Live(blocks, l, known, pack, fork_head, block_head, log, pc, job),
           NEW b \in 1..Len(blocks), b \notin known, NEW p \in known, Prev(b) = p,
           NEW P, Insertion(l, known \cup {b}, P, b, p, FALSE),
           NEW h, Best(blocks, h, known \cup {b}, P)
    PROVE  /\ block_head \in known /\ Marked(blocks, known \cup {b}, P, block_head)
           /\ On(blocks, l, h) /\ (h = b \/ h = block_head)
           /\ h = block_head =>
                \A z \in known \cup {b} : N(blocks, P[h].dpos) <= N(blocks, z)
<1> DEFINE K == known \cup {b}
           e == block_head
<1>1. /\ Tree(blocks) /\ Packs(blocks, pack) /\ known \subseteq DOMAIN pack
      /\ e \in 1..Len(blocks)
  BY Parts
<1>2. /\ Settled(blocks, l, known, pack) /\ On(blocks, l, e)
      /\ Best(blocks, e, known, pack) /\ e \in known /\ Marked(blocks, known, pack, e)
  BY AtRest
<1> HIDE DEF e
<1>3. /\ Packs(blocks, P) /\ K \subseteq DOMAIN P /\ Confirms(blocks, l, K, P)
      /\ P[b].main = FALSE /\ (\A c \in known : P[c] = pack[c])
      /\ Rests(blocks, l, known) /\ Caught(blocks, l, known, pack)
  BY <1>2 DEF Insertion, Settled
<1>4. blocks[b].prev = p /\ p \in 1..Len(blocks) /\ known \subseteq 1..Len(blocks)
  BY <1>1 DEF Packs, Prev
<1>5. N(blocks, b) = N(blocks, p) + 1 /\ N(blocks, p) \in Nat
  BY <1>1, <1>4, OnPrev
<1>6. On(blocks, l, h) /\ P[h].lc = l
  <2>1. e \in K /\ Best(blocks, h, K, P) /\ l \in 1..Len(blocks)
    BY <1>2
  <2> HIDE DEF K
  <2>2. QED
    BY ONLY <1>1, <1>2, <1>3, <2>1, BestOn
<1>7. ~On(blocks, b, e)
  <2>1. SUFFICES ASSUME On(blocks, b, e) PROVE FALSE
    OBVIOUS
  <2>2. N(blocks, p) >= N(blocks, l) /\ N(blocks, l) \in Nat
    BY <1>1, <1>3, OnWay DEF Rests
  <2>3. N(blocks, b) > N(blocks, l)
    BY ONLY <1>5, <2>2
  <2>4. b \in known
    BY <1>2, <1>3, <2>1, <2>3 DEF Rests
  <2>5. QED
    BY <2>4
<1>8. Marked(blocks, K, P, e)
  <2>1. ASSUME NEW y \in K PROVE P[y].main = TRUE <=> On(blocks, y, e)
    <3>1. CASE y = b
      BY <1>3, <1>7, <3>1
    <3>2. CASE y # b
      <4>1. y \in known /\ P[y] = pack[y]
        BY <1>3, <3>2
      <4>2. QED
        BY <1>2, <4>1 DEF Marked
    <3>3. QED
      BY <3>1, <3>2
  <2>2. QED
    BY <2>1 DEF Marked
<1>9. ASSUME h # b PROVE h = e
  <2>1. h \in known /\ P[h] = pack[h] /\ P[e] = pack[e] /\ ~Beats(blocks, e, h, P)
    BY <1>2, <1>3, <1>9 DEF Best
  <2>2. ~Beats(blocks, h, e, P)
    <3>1. ~Beats(blocks, h, e, pack)
      BY <1>2, <2>1 DEF Best
    <3>2. QED
      BY <2>1, <3>1 DEF Beats
  <2>3. P[h].lc = l /\ P[e].lc = l
    BY <1>2, <1>3, <1>6 DEF Confirms
  <2>4. /\ N(blocks, P[h].dpos) \in Nat /\ N(blocks, P[e].dpos) \in Nat
        /\ N(blocks, h) \in Nat /\ N(blocks, e) \in Nat
        /\ P[h].main \in BOOLEAN /\ P[e].main \in BOOLEAN
    <3>1. h \in DOMAIN P /\ e \in DOMAIN P
      BY <1>2, <1>3, <2>1
    <3>2. QED
      BY <1>1, <1>3, <3>1, PackNumbers
  <2>5. N(blocks, P[h].dpos) = N(blocks, P[e].dpos)
    BY <2>1, <2>2, <2>3, <2>4 DEF Beats
  <2>6. N(blocks, h) = N(blocks, e)
    BY <2>1, <2>2, <2>3, <2>4, <2>5 DEF Beats
  <2>7. P[e].main = TRUE
    BY <1>1, <1>2, <1>8, OnWay DEF Marked
  <2>8. P[h].main = TRUE
    BY <2>1, <2>3, <2>4, <2>5, <2>6, <2>7 DEF Beats
  <2>9. On(blocks, h, e)
    BY <1>8, <2>1, <2>8 DEF Marked
  <2>10. h \in 1..Len(blocks)
    BY <1>4, <2>1
  <2>11. QED
    BY ONLY <1>1, <2>6, <2>9, <2>10, OnSame
<1>10. ASSUME h = e, NEW z \in K PROVE N(blocks, P[h].dpos) <= N(blocks, z)
  <2>1. P[h] = pack[e]
    BY <1>2, <1>3, <1>10
  <2>2. \A y \in known : N(blocks, pack[e].dpos) <= N(blocks, y)
    BY <1>2, <1>3 DEF Caught
  <2>3. CASE z \in known
    BY <2>1, <2>2, <2>3
  <2>4. CASE z = b
    <3>1. N(blocks, pack[e].dpos) <= N(blocks, p) /\ N(blocks, pack[e].dpos) \in Nat
      <4>1. e \in DOMAIN pack
        BY <1>1, <1>2
      <4>2. QED
        BY <1>1, <2>2, <4>1, PackNumbers
    <3>2. N(blocks, pack[e].dpos) <= N(blocks, b)
      BY ONLY <1>5, <3>1
    <3>3. QED
      BY <2>1, <2>4, <3>2
  <2>5. QED
    BY <2>3, <2>4
<1>11. QED
  BY <1>2, <1>6, <1>8, <1>9, <1>10 DEF e

\* A fork that is not too deep leaves the branch of block_head above the block it makes irreversible.
LEMMA ForkGrowth ==
    ASSUME ForkDepth <= DposNeed + 1, Base, Agreed, pc = "recv", NEW l \in 1..Len(blocks),
           Live(blocks, l, known, pack, fork_head, block_head, log, pc, job),
           NEW b \in 1..Len(blocks), b \notin known, b = job.blk, NEW p \in known, Prev(b) = p,
           p # block_head,
           NEW P, Insertion(l, known \cup {b}, P, b, p, FALSE), On(blocks, l, b),
           NEW d, d = P[b].dpos, NEW z \in known \cup {b}, N(blocks, z) < N(blocks, d)
    PROVE  On(blocks, d, block_head)
<1> DEFINE K == known \cup {b}
           e == block_head
<1>1. /\ Tree(blocks) /\ Packs(blocks, pack) /\ known \subseteq DOMAIN pack
      /\ e \in 1..Len(blocks) /\ Near(blocks, e, blocks[b].path)
  BY Parts
<1>2. /\ Settled(blocks, l, known, pack) /\ On(blocks, l, e)
      /\ Best(blocks, e, known, pack) /\ e \in known
  BY AtRest
<1> HIDE DEF e
<1>3. /\ Packs(blocks, P) /\ K \subseteq DOMAIN P /\ Windows(blocks, P)
      /\ Confirms(blocks, l, known, pack) /\ Rising(blocks, known, pack)
  BY <1>2 DEF Insertion, Settled
<1>4. blocks[b].prev = p /\ p \in 1..Len(blocks) /\ known \subseteq 1..Len(blocks)
  BY <1>1 DEF Packs, Prev
<1>5. /\ N(blocks, b) = N(blocks, p) + 1 /\ N(blocks, p) \in Nat
      /\ \A a \in 1..Len(blocks) : On(blocks, a, b) <=> a = b \/ On(blocks, a, p)
  BY <1>1, <1>4, OnPrev, SMTT(60)
<1>6. d \in 1..Len(blocks) /\ LeftWindow(blocks, b, d)
  <2>1. b \in DOMAIN P /\ z \in DOMAIN P
    BY <1>3
  <2>2. d \in 0..Len(blocks) /\ N(blocks, z) \in Nat
    BY <1>1, <1>3, <2>1, PackNumbers
  <2>3. d # NoBlock
    <3>1. N(blocks, NoBlock) = 0
      BY DEF N, NoBlock
    <3>2. QED
      BY <2>2, <3>1
  <2>4. Window(blocks, b, P[b])
    BY <1>3, <2>1 DEF Windows
  <2>5. QED
    BY <2>2, <2>3, <2>4 DEF Window, NoBlock
<1>7. N(blocks, d) + DposNeed + 1 <= N(blocks, b) /\ On(blocks, d, b)
  BY <1>1, <1>6, DposDeep DEF LeftWindow
<1>8. /\ N(blocks, b) \in Nat /\ N(blocks, d) \in Nat /\ N(blocks, d) >= 1 /\ N(blocks, e) \in Nat
      /\ Len(blocks[b].path) = N(blocks, b) /\ DposNeed \in Nat /\ ForkDepth \in Nat
  BY <1>1, <1>6, OnWay, ForkDbAssumption, ChainNodeAssumption
<1>9. PICK n \in 1..Len(blocks[b].path) :
        /\ n <= N(blocks, e) /\ blocks[b].path[n] = blocks[e].path[n]
        /\ n = N(blocks, e) \/ Len(blocks[b].path) - n <= ForkDepth
  BY <1>1 DEF Near
<1> DEFINE a == blocks[b].path[n]
<1>10. n \in 1..N(blocks, b) /\ n \in 1..N(blocks, e)
  BY <1>8, <1>9
<1>11. a \in 1..Len(blocks) /\ N(blocks, a) = n /\ On(blocks, a, b)
  BY <1>1, <1>10, OnWay, SMTT(60)
<1>12. On(blocks, a, e)
  <2>1. On(blocks, blocks[e].path[n], e)
    BY <1>1, <1>10, OnWay
  <2>2. QED
    BY <1>9, <2>1
<1> HIDE DEF a
<1>13. ~(n = N(blocks, e))
  <2>1. SUFFICES ASSUME n = N(blocks, e) PROVE FALSE
    OBVIOUS
  <2>2. a = e
    BY <1>1, <1>11, <1>12, <2>1, OnSame
  <2>3. On(blocks, e, p)
    BY <1>1, <1>2, <1>5, <1>11, <2>2
  <2>4. N(blocks, e) <= N(blocks, p) /\ (N(blocks, e) = N(blocks, p) => e = p)
    BY <1>1, <1>4, <2>3, OnSame DEF On
  <2>5. N(blocks, e) < N(blocks, p)
    <3>1. e # p
      BY DEF e
    <3>2. QED
      BY <1>5, <1>8, <2>4, <3>1
  <2>6. On(blocks, l, p)
    BY <1>1, <1>2, <1>4, <2>3, OnTrans
  <2>7. pack[p].lc = l /\ pack[e].lc = l
    BY <1>2, <1>3, <2>6 DEF Confirms
  <2>8. N(blocks, pack[e].dpos) <= N(blocks, pack[p].dpos)
    BY <1>2, <1>3, <2>3 DEF Rising
  <2>9. N(blocks, pack[e].dpos) \in Nat /\ N(blocks, pack[p].dpos) \in Nat
    <3>1. e \in DOMAIN pack /\ p \in DOMAIN pack
      BY <1>1, <1>2
    <3>2. QED
      BY <1>1, <3>1, PackNumbers
  <2>10. Beats(blocks, p, e, pack)
    BY <2>5, <2>7, <2>8, <2>9 DEF Beats
  <2>11. QED
    BY <1>2, <2>10 DEF Best
<1>14. N(blocks, d) <= N(blocks, a)
  <2>1. N(blocks, b) - n <= ForkDepth /\ n \in Nat
    BY <1>8, <1>9, <1>10, <1>13
  <2>2. N(blocks, d) <= n
    BY ONLY <1>7, <1>8, <2>1, ForkDepth <= DposNeed + 1
  <2>3. QED
    BY <1>11, <2>2
<1>15. On(blocks, d, a)
  BY <1>1, <1>6, <1>7, <1>11, <1>14, OnChain
<1>16. On(blocks, d, e)
  BY <1>1, <1>6, <1>11, <1>12, <1>15, OnTrans
<1>17. QED
  BY <1>16 DEF e

\* What add_block did to the head: the block that was inserted may be irreversible.
Heading(l, K, P, bh, b, then) ==
  \A h : Best(blocks, h, K, P) =>
    /\ On(blocks, l, h) /\ Chosen(blocks, K, P, h, bh, b, then)
    /\ \A z \in K : N(blocks, z) < N(blocks, P[h].dpos) => On(blocks, P[h].dpos, bh)

LEMMA ThenJob ==
    ASSUME NEW B, NEW j \in JobType(B), NEW then, NEW i, i = [j EXCEPT !.then = then]
    PROVE  i.then = then /\ i.blk = j.blk /\ i.erase = j.erase /\ i.todo = j.todo
BY DEF JobType

GrowingJob(i, j, then, t, e) ==
  i = [[j EXCEPT !.then = then] EXCEPT !.todo = t, !.erase = e]

LEMMA GrowJob ==
    ASSUME NEW B, NEW j \in JobType(B), NEW then, NEW t, NEW e,
           NEW i, GrowingJob(i, j, then, t, e)
    PROVE  i.then = then /\ i.blk = j.blk /\ i.erase = e /\ i.todo = t
BY DEF JobType, GrowingJob

LEMMA AddBlockLive ==
    ASSUME Base, Agreed, pc \in {"recv", "build"}, NEW l \in 1..Len(blocks),
           Live(blocks, l, known, pack, fork_head, block_head, log, pc, job),
           NEW b \in 1..Len(blocks), b = job.blk, b \notin known, NEW p, Prev(b) = p,
           p \in known \/ p = block_head, NEW isMain \in BOOLEAN,
           NEW then \in {"pushed", "check"},
           NEW P, P = Inserted(b, PackOn(p, pack[p], isMain), pack),
           Heading(l, known \cup {b}, P, block_head, b, then),
           AddBlock(b, PackOn(p, pack[p], isMain), then)
    PROVE  /\ known' = known \cup {b} /\ pc' \in {"grow", then}
           /\ job'.then = then /\ job'.blk = b /\ Windows(blocks, pack')
           /\ \E m \in 1..Len(blocks) :
                Live(blocks, m, known', pack', fork_head', block_head, log, pc', job')
<1> DEFINE K == known \cup {b}
           next == [job EXCEPT !.then = then]
           dp(h) == P[h].dpos
           Grow(d, Q) == /\ pack' = Q
                         /\ pc' = "grow"
                         /\ job' = [next EXCEPT !.todo = ToConfirm(d, K, Q),
                                                !.erase = ToErase(d, K, Q)]
<1>1. known' = K
  BY DEF AddBlock
<1> DEFINE X == Inserted(b, PackOn(p, pack[p], isMain), pack)
<1>2a. \E h \in Longest(known', X) :
        /\ fork_head' = h
        /\ \/ GrowsByConfirmation(h, known', X)
           \/ /\ GrowsByDpos(h, known', X) /\ X[h].dpos \in known'
              /\ pack' = Confirming(X[h].dpos, known', X)
              /\ pc' = "grow"
              /\ job' = [next EXCEPT
                          !.todo = ToConfirm(X[h].dpos, known', Confirming(X[h].dpos, known', X)),
                          !.erase = ToErase(X[h].dpos, known', Confirming(X[h].dpos, known', X))]
           \/ GrowsByDpos(h, known', X) /\ X[h].dpos \notin known'
           \/ /\ ~GrowsByConfirmation(h, known', X) /\ ~GrowsByDpos(h, known', X)
              /\ pack' = X /\ pc' = then /\ job' = next
  BY ONLY b \notin known, AddBlock(b, PackOn(p, pack[p], isMain), then), ZenonT(60) DEF AddBlock
<1>2b. P = X
  OBVIOUS
<1> HIDE DEF X, K, next
<1>2. PICK h \in Longest(K, P) :
        /\ fork_head' = h
        /\ \/ GrowsByConfirmation(h, K, P)
           \/ /\ GrowsByDpos(h, K, P) /\ dp(h) \in K
              /\ Grow(dp(h), Confirming(dp(h), K, P))
           \/ GrowsByDpos(h, K, P) /\ dp(h) \notin K
           \/ /\ ~GrowsByConfirmation(h, K, P) /\ ~GrowsByDpos(h, K, P)
              /\ pack' = P /\ pc' = then /\ job' = next
  BY ONLY <1>1, <1>2a, <1>2b, Zenon
<1> USE DEF K, next
<1>3. /\ Tree(blocks) /\ LogOK(blocks, log) /\ block_head \in 1..Len(blocks)
  BY Parts
<1>4. Insertion(l, K, P, b, p, isMain)
  BY InsertAdded
<1>5. /\ Packs(blocks, P) /\ K \subseteq DOMAIN P /\ Windows(blocks, P)
      /\ Rests(blocks, l, K) /\ Confirms(blocks, l, K, P) /\ Rising(blocks, K, P)
      /\ Fresh(blocks, l, K, P) /\ (l \in K => P[l].irr = TRUE)
  BY <1>4 DEF Insertion
<1>6. Heading(l, K, P, block_head, b, then)
  OBVIOUS
<1>7. /\ Resting(l, known, pack, log, job) /\ job.erase = {} /\ On(blocks, l, block_head)
      /\ l = log[Len(log)]
  BY AtRest DEF Resting
<1>8. N(blocks, l) = Len(log)
  BY <1>3, <1>7, LogTip
<1>9. job \in JobType(blocks)
  BY DEF Base, Running
<1> HIDE DEF K
<1>10. Best(blocks, h, K, P)
  BY <1>2, <1>3, <1>5, LongestIsBest
<1>11. /\ On(blocks, l, h) /\ Chosen(blocks, K, P, h, block_head, b, then)
       /\ \A z \in K : N(blocks, z) < N(blocks, P[h].dpos) => On(blocks, P[h].dpos, block_head)
  BY <1>6, <1>10 DEF Heading
<1>12. Added(blocks, l, K, P, h, block_head)
  BY <1>5, <1>7, <1>10, <1>11 DEF Added
<1>13. h \in K /\ h \in DOMAIN P /\ Window(blocks, h, P[h]) /\ P[h].lc = l
  BY <1>5, <1>10, <1>11 DEF Best, Windows, Confirms
<1>14. /\ \A c \in K : Num(c) = N(blocks, c) /\ N(blocks, c) \in Nat
       /\ Num(P[h].lc) = N(blocks, P[h].lc) /\ Num(P[h].dpos) = N(blocks, P[h].dpos)
       /\ N(blocks, P[h].lc) \in Nat /\ N(blocks, P[h].dpos) \in Nat
  <2>1. \A c \in K : c \in DOMAIN P
    BY <1>5
  <2>2. \A c \in K : N(blocks, c) \in Nat
    BY <1>3, <1>5, <2>1, PackNumbers
  <2>3. N(blocks, P[h].lc) \in Nat /\ N(blocks, P[h].dpos) \in Nat
    BY <1>3, <1>5, <1>13, PackNumbers
  <2>4. \A c : Num(c) = N(blocks, c)
    BY DEF Num, N
  <2>5. QED
    BY <2>2, <2>3, <2>4
<1>15. ~GrowsByConfirmation(h, K, P)
  <2>1. SUFFICES ASSUME NEW c \in K, Num(c) < Num(P[h].lc) PROVE FALSE
    BY DEF GrowsByConfirmation
  <2>2. N(blocks, c) >= N(blocks, l) /\ N(blocks, c) < N(blocks, l)
    BY <1>5, <1>13, <1>14, <2>1 DEF Rests
  <2>3. QED
    BY <1>13, <1>14, <2>2
<1>16. CASE GrowsByDpos(h, K, P)
  <2> DEFINE d == P[h].dpos
             Q == Confirming(d, K, P)
  <2>1. PICK z \in K : N(blocks, z) < N(blocks, d)
    BY <1>14, <1>16 DEF GrowsByDpos
  <2>2. On(blocks, d, block_head)
    BY <1>11, <2>1
  <2>3. /\ d \in K => Grow(d, Q)
    BY <1>2, <1>15, <1>16
  <2>4. d = P[h].dpos /\ Q = Confirming(d, K, P)
    OBVIOUS
  <2> DEFINE j == [next EXCEPT !.todo = ToConfirm(d, K, Q), !.erase = ToErase(d, K, Q)]
  <2>5. j.then = then /\ j.blk = b /\ j.todo = ToConfirm(d, K, Q) /\ j.erase = ToErase(d, K, Q)
    <3> HIDE DEF d, Q
    <3> DEFINE t == ToConfirm(d, K, Q)
               u == ToErase(d, K, Q)
    <3>1. GrowingJob(j, job, then, t, u)
      BY Zenon DEF GrowingJob
    <3> HIDE DEF j, t, u, next
    <3>2. j.then = then /\ j.blk = job.blk /\ j.todo = t /\ j.erase = u
      BY ONLY <1>9, <3>1, GrowJob
    <3>3. QED
      BY <3>2 DEF t, u
  <2>6. d \in K => pack' = Q /\ pc' = "grow" /\ job' = j
    BY <2>3, Zenon
  <2> HIDE DEF j, d, Q, Grow, next, dp
  <2>7. d \in K /\ Live(blocks, d, K, Q, h, block_head, log, "grow", j)
    <3>1. Chosen(blocks, K, P, h, block_head, j.blk, then)
      BY <1>11, <2>5
    <3>2. l \in 1..Len(blocks) /\ then \in {"pushed", "check"}
      OBVIOUS
    <3>3. QED
      BY ONLY <1>3, <1>5, <1>7, <1>8, <1>12, <1>13, <2>1, <2>2, <2>4, <2>5, <3>1, <3>2, AddGrow, SMTT(60)
  <2>8. d \in 1..Len(blocks)
    BY <1>5, <2>7 DEF Packs
  <2>9. Windows(blocks, Q)
    <3>1. SameWin(P, Q)
      BY <1>3, <1>5, <2>4, <2>8, ConfirmingSame DEF SameWin
    <3>2. QED
      BY <1>5, <3>1, WindowsSame
  <2>10. pack' = Q /\ pc' = "grow" /\ job' = j /\ fork_head' = h
    BY <1>2, <2>6, <2>7
  <2>11. QED
    BY <1>1, <2>5, <2>7, <2>8, <2>9, <2>10 DEF K
<1>17. CASE ~GrowsByDpos(h, K, P)
  <2>1. pack' = P /\ pc' = then /\ job' = next
    BY <1>2, <1>15, <1>17
  <2>2. next.then = then /\ next.blk = b /\ next.erase = {}
    BY <1>7, <1>9, ThenJob
  <2> HIDE DEF next, Grow, dp
  <2>3. NoGrowth(blocks, K, P, h)
    <3>1. ASSUME NEW z \in K PROVE ~(N(blocks, z) < N(blocks, P[h].dpos))
      BY <1>14, <1>15, <1>17 DEF GrowsByDpos
    <3>2. QED
      BY <1>14, <3>1 DEF NoGrowth
  <2>4. Live(blocks, l, K, P, h, block_head, log, then, next)
    <3>1. Chosen(blocks, K, P, h, block_head, next.blk, then)
      BY <1>11, <2>2
    <3>2. l \in 1..Len(blocks) /\ then \in {"pushed", "check"}
      OBVIOUS
    <3>3. QED
      <4> DEFINE j == next
                 m == block_head
      <4>1. /\ Tree(blocks) /\ Packs(blocks, P) /\ K \subseteq DOMAIN P
            /\ Added(blocks, l, K, P, h, m) /\ j.erase = {}
            /\ Chosen(blocks, K, P, h, m, j.blk, then)
            /\ l = log[Len(log)] /\ NoGrowth(blocks, K, P, h)
        BY <1>3, <1>5, <1>7, <1>12, <2>2, <2>3, <3>1
      <4> HIDE DEF j, m
      <4>2. Live(blocks, l, K, P, h, m, log, then, j)
        BY ONLY <3>2, <4>1, AddRest
      <4>3. QED
        BY <4>2 DEF j, m
  <2>5. fork_head' = h
    BY <1>2
  <2>6. QED
    BY <1>1, <1>5, <2>1, <2>2, <2>4, <2>5 DEF K
<1>18. QED
  BY <1>16, <1>17, SMTT(60)

\* A handler that throws after it touched at most the undo database.
LEMMA ThrownAgreed ==
    ASSUME Base, Agreed, pc \in {"recv", "build"}, NEW b \in 1..Len(blocks),
           Failed(b), blocks[b].prev = block_head, Done, file' = file,
           UNCHANGED <<blocks, forkVars, block_head, log>>
    PROVE  Agreed'
<1>1. pc' = "idle" /\ job' = NoJob /\ job'.erase = {}
  BY NoJobErase DEF Done
<1>2. /\ Tree(blocks) /\ LogOK(blocks, log) /\ LogWay(blocks, log, block_head)
      /\ block_head \in 1..Len(blocks)
      /\ Stacked(blocks, db, block_head, building, log, pc, job, file)
  BY Parts
<1> DEFINE x == "idle"
<1>3. x \notin {"grow", "commit", "pushed"} /\ pc \notin {"commit", "down"}
  OBVIOUS
<1> HIDE DEF x
<1>4. Stacked(blocks, db', block_head, building', log, x, job', FALSE)
  BY <1>2, <1>3, FailedStack
<1>5. Stacked(blocks, db', block_head, building', log, "idle", job', FALSE)
  BY <1>4 DEF x
<1>6. QED
  BY <1>1, <1>5, QuietAgreed

\* The handler ends and has changed nothing.
LEMMA NothingAgreed ==
    ASSUME Base, Agreed, pc \in {"recv", "build"}, Done, file' = file,
           UNCHANGED <<blocks, forkVars, block_head, db, building, log>>
    PROVE  Agreed'
<1>1. pc' = "idle" /\ job' = NoJob /\ job'.erase = {}
  BY NoJobErase DEF Done
<1>2. db' = db /\ building' = building
  OBVIOUS
<1>3. Stacked(blocks, db', block_head, building', log, "idle", job', FALSE)
  BY <1>2, IdleStacked
<1>4. QED
  BY <1>1, <1>3, QuietAgreed

\* A block that was inserted: the fork database is as AddBlockLive says.
LEMMA InsertedAgreed ==
    ASSUME Base, Agreed, pc \in {"recv", "build"}, pc' # "recv", file' = file,
           blocks' = blocks, block_head' = block_head, log' = log,
           Windows(blocks, pack'),
           \E m \in 1..Len(blocks) :
             Live(blocks, m, known', pack', fork_head', block_head, log, pc', job'),
           Stacked(blocks, db', block_head, building', log, pc', job', FALSE)
    PROVE  Agreed'
<1>1. LogWay(blocks, log, block_head) /\ file' = FALSE
  BY Parts
<1>2. Stacked(blocks, db', block_head, building', log, pc', job', file')
  BY <1>1
<1>3. QED
  BY <1>1, <1>2 DEF Agreed

\* _apply_block and build_block
LEMMA PushNextAgreed ==
    ASSUME Base, Agreed, pc \in {"recv", "build"}, NEW b, b = job.blk,
           Prev(b) = block_head, NEW good, PushNext(b, good),
           UNCHANGED <<blocks, file>>
    PROVE  Agreed'
<1> DEFINE then == "pushed"
           isMain == TRUE
           P == Inserted(b, PackOn(block_head, pack[block_head], isMain), pack)
           K == known \cup {b}
<1>1. b \in 1..Len(blocks) /\ blocks[b].prev = block_head
  <2>1. b # NoBlock /\ b \in 0..Len(blocks)
    BY DEF Base, Running, JobType
  <2>2. QED
    BY <2>1 DEF Prev, NoBlock
<1>2. block_head' = block_head /\ log' = log /\ blocks' = blocks /\ file' = file
  BY DEF PushNext
<1>3. CASE Failed(b) /\ Done /\ UNCHANGED forkVars
  BY <1>1, <1>2, <1>3, ThrownAgreed
<1>4. CASE /\ b \notin known /\ db' = Started(b) /\ building' = TRUE
           /\ AddBlock(b, PackOn(block_head, pack[block_head], isMain), then)
  <2>1. /\ Tree(blocks) /\ LogOK(blocks, log) /\ LogWay(blocks, log, block_head)
        /\ block_head \in 1..Len(blocks) /\ file = FALSE
        /\ Stacked(blocks, db, block_head, building, log, pc, job, file)
        /\ \E l \in 1..Len(blocks) :
             Live(blocks, l, known, pack, fork_head, block_head, log, pc, job)
    BY Parts
  <2>2. PICK l \in 1..Len(blocks) :
          Live(blocks, l, known, pack, fork_head, block_head, log, pc, job)
    BY <2>1
  <2>3. isMain \in BOOLEAN /\ isMain = TRUE /\ then \in {"pushed", "check"} /\ then = "pushed"
    OBVIOUS
  <2>4. P = Inserted(b, PackOn(block_head, pack[block_head], isMain), pack)
    OBVIOUS
  <2> HIDE DEF P, isMain, then
  <2>5. Insertion(l, K, P, b, block_head, isMain)
    BY <1>1, <1>4, <2>2, <2>3, <2>4, InsertAdded
  <2>6. Insertion(l, K, P, b, block_head, TRUE)
    BY <2>3, <2>5
  <2>7. Heading(l, K, P, block_head, b, then)
    <3>1. SUFFICES ASSUME NEW h, Best(blocks, h, K, P)
                   PROVE  /\ On(blocks, l, h) /\ Chosen(blocks, K, P, h, block_head, b, then)
                          /\ \A z \in K : N(blocks, z) < N(blocks, P[h].dpos)
                                            => On(blocks, P[h].dpos, block_head)
      BY DEF Heading
    <3>2. h = b /\ On(blocks, l, b) /\ Marked(blocks, K, P, b)
      BY <1>1, <1>4, <2>2, <2>6, <3>1, NextIsBest
    <3>3. Chosen(blocks, K, P, h, block_head, b, then)
      BY <1>1, <2>3, <3>2 DEF Chosen
    <3>4. ASSUME NEW z \in K, N(blocks, z) < N(blocks, P[h].dpos)
          PROVE  On(blocks, P[h].dpos, block_head)
      <4> DEFINE d == P[h].dpos
      <4>1. Packs(blocks, P) /\ K \subseteq DOMAIN P /\ Windows(blocks, P)
        BY <2>6 DEF Insertion
      <4>2. b \in DOMAIN P /\ z \in DOMAIN P
        BY <4>1
      <4>3. d \in 0..Len(blocks) /\ N(blocks, z) \in Nat
        BY <2>1, <3>2, <4>1, <4>2, PackNumbers
      <4>4. Window(blocks, b, P[b])
        BY <4>1, <4>2 DEF Windows
      <4>5. d = P[b].dpos
        BY <3>2
      <4> HIDE DEF d
      <4>6. d # NoBlock
        <5>1. N(blocks, NoBlock) = 0 /\ N(blocks, z) < N(blocks, d)
          BY <3>4 DEF N, NoBlock, d
        <5>2. QED
          BY <4>3, <5>1
      <4>7. d # b /\ On(blocks, d, b) /\ d \in 1..Len(blocks)
        BY <4>3, <4>4, <4>5, <4>6 DEF Window, LeftWindow, NoBlock
      <4>8. On(blocks, d, block_head)
        BY <1>1, <2>1, <4>7, OnPrev
      <4>9. QED
        BY <4>8 DEF d
    <3>5. QED
      BY <3>2, <3>3, <3>4
  <2>8. /\ known' = K /\ pc' \in {"grow", then}
        /\ job'.then = then /\ job'.blk = b /\ Windows(blocks, pack')
        /\ \E m \in 1..Len(blocks) :
             Live(blocks, m, known', pack', fork_head', block_head, log, pc', job')
    BY <1>1, <1>4, <2>2, <2>3, <2>4, <2>7, AddBlockLive
  <2>9. Stacked(blocks, db', block_head, TRUE, log, pc', job', FALSE)
    <3>1. pc \notin {"commit", "down"}
      OBVIOUS
    <3>2. DbOK(blocks, Started(b), block_head, Len(log), 1) /\ Started(b).state = blocks[b].path
      BY <1>1, <2>1, <3>1, AbortedStack
    <3>3. DbOK(blocks, db', block_head, Len(log), 1) /\ db'.state = blocks[job'.blk].path
      BY ONLY <1>4, <2>8, <3>2
    <3>4. pc' # "commit"
      BY <2>3, <2>8
    <3>5. QED
      BY ONLY <3>3, <3>4 DEF Stacked
  <2>10. building' = TRUE /\ pc' # "recv"
    BY <1>4, <2>3, <2>8
  <2>11. Stacked(blocks, db', block_head, building', log, pc', job', FALSE)
    BY ONLY <2>9, <2>10, Zenon
  <2>12. QED
    BY <1>2, <2>8, <2>10, <2>11, InsertedAgreed
<1>5. QED
  <2>1. \/ Failed(b) /\ Done /\ UNCHANGED forkVars
        \/ /\ db' = Started(b) /\ building' = TRUE
           /\ AddBlock(b, PackOn(block_head, pack[block_head], TRUE), "pushed")
    BY DEF PushNext
  <2>2. ASSUME b \in known, AddBlock(b, PackOn(block_head, pack[block_head], TRUE), "pushed")
        PROVE  Done /\ UNCHANGED forkVars
    BY ONLY <2>2, Zenon DEF AddBlock
  <2>3. ASSUME db' = Started(b), building' = TRUE PROVE Failed(b)
    BY <2>3 DEF Failed
  <2>4. QED
    BY <1>3, <1>4, <2>1, <2>2, <2>3

\* push_fork
LEMMA PushForkAgreed ==
    ASSUME ForkDepth <= DposNeed + 1, Base, Agreed, pc = "recv", NEW b, b = job.blk,
           Prev(b) # block_head, PushFork(b), UNCHANGED <<blocks, file>>
    PROVE  Agreed'
<1> DEFINE then == "check"
           isMain == FALSE
           p == Prev(b)
           P == Inserted(b, PackOn(p, pack[p], isMain), pack)
           K == known \cup {b}
<1>1. b \in 1..Len(blocks)
  BY DEF Base, Running, JobType, NoBlock
<1>2. /\ block_head' = block_head /\ log' = log /\ blocks' = blocks /\ file' = file
      /\ db' = db /\ building' = building
  BY DEF PushFork
<1>3. CASE Done /\ UNCHANGED forkVars
  BY <1>2, <1>3, NothingAgreed
<1>4. CASE p \in known /\ b \notin known /\ AddBlock(b, PackOn(p, pack[p], isMain), then)
  <2>1. /\ Tree(blocks) /\ block_head \in 1..Len(blocks) /\ file = FALSE
        /\ Stacked(blocks, db, block_head, building, log, pc, job, file)
        /\ \E l \in 1..Len(blocks) :
             Live(blocks, l, known, pack, fork_head, block_head, log, pc, job)
    BY Parts
  <2>2. PICK l \in 1..Len(blocks) :
          Live(blocks, l, known, pack, fork_head, block_head, log, pc, job)
    BY <2>1
  <2>3. isMain \in BOOLEAN /\ isMain = FALSE /\ then \in {"pushed", "check"} /\ then = "check"
        /\ Prev(b) = p /\ p # block_head
    OBVIOUS
  <2>4. P = Inserted(b, PackOn(p, pack[p], isMain), pack)
    OBVIOUS
  <2> HIDE DEF P, isMain, then, p
  <2>5. Insertion(l, K, P, b, p, isMain)
    BY <1>1, <1>4, <2>2, <2>3, <2>4, InsertAdded
  <2>6. Insertion(l, K, P, b, p, FALSE)
    BY <2>3, <2>5
  <2>7. Heading(l, K, P, block_head, b, then)
    <3>1. SUFFICES ASSUME NEW h, Best(blocks, h, K, P)
                   PROVE  /\ On(blocks, l, h) /\ Chosen(blocks, K, P, h, block_head, b, then)
                          /\ \A z \in K : N(blocks, z) < N(blocks, P[h].dpos)
                                            => On(blocks, P[h].dpos, block_head)
      BY DEF Heading
    <3>2. /\ block_head \in known /\ Marked(blocks, K, P, block_head)
          /\ On(blocks, l, h) /\ (h = b \/ h = block_head)
          /\ h = block_head => \A z \in K : N(blocks, P[h].dpos) <= N(blocks, z)
      BY <1>1, <1>4, <2>2, <2>3, <2>6, <3>1, ForkHead
    <3>3. Chosen(blocks, K, P, h, block_head, b, then)
      BY <2>3, <3>2 DEF Chosen
    <3>4. ASSUME NEW z \in K, N(blocks, z) < N(blocks, P[h].dpos)
          PROVE  On(blocks, P[h].dpos, block_head)
      <4>1. Packs(blocks, P) /\ K \subseteq DOMAIN P
        BY <2>6 DEF Insertion
      <4>2. h \in DOMAIN P /\ z \in DOMAIN P
        BY <3>1, <4>1 DEF Best
      <4>3. N(blocks, P[h].dpos) \in Nat /\ N(blocks, z) \in Nat
        BY <2>1, <4>1, <4>2, PackNumbers
      <4>4. h = b
        BY <3>2, <3>4, <4>3
      <4>5. QED
        <5> DEFINE d == P[b].dpos
        <5>1. N(blocks, z) < N(blocks, d) /\ On(blocks, l, b) /\ d = P[b].dpos
          BY <3>2, <3>4, <4>4
        <5> HIDE DEF d
        <5>2. On(blocks, d, block_head)
          BY <1>1, <1>4, <2>2, <2>3, <2>6, <5>1, ForkGrowth
        <5>3. QED
          BY <4>4, <5>1, <5>2
    <3>5. QED
      BY <3>2, <3>3, <3>4
  <2>8. /\ known' = K /\ pc' \in {"grow", then}
        /\ job'.then = then /\ job'.blk = b /\ Windows(blocks, pack')
        /\ \E m \in 1..Len(blocks) :
             Live(blocks, m, known', pack', fork_head', block_head, log, pc', job')
    BY <1>1, <1>4, <2>2, <2>3, <2>4, <2>7, AddBlockLive
  <2>9. Stacked(blocks, db', block_head, building', log, pc', job', FALSE)
    <3>1. PICK e \in {0, 1} : DbOK(blocks, db, block_head, Len(log), e)
                              /\ (building = TRUE <=> e = 1)
      BY <2>1 DEF Stacked
    <3>2. ~Pushing(pc', job') /\ building \in BOOLEAN /\ pc' # "commit"
      BY <2>1, <2>3, <2>8 DEF Pushing, Stacked
    <3>3. QED
      BY <1>2, <3>1, <3>2 DEF Stacked
  <2>10. pc' # "recv"
    BY <2>3, <2>8
  <2>11. QED
    BY <1>2, <2>8, <2>9, <2>10, InsertedAgreed
<1>5. QED
  <2>1. \/ p \in known /\ AddBlock(b, PackOn(p, pack[p], FALSE), "check")
        \/ Done /\ UNCHANGED forkVars
    BY DEF PushFork
  <2>2. ASSUME b \in known, AddBlock(b, PackOn(p, pack[p], FALSE), "check")
        PROVE  Done /\ UNCHANGED forkVars
    BY ONLY <2>2, Zenon DEF AddBlock
  <2>3. QED
    BY <1>3, <1>4, <2>1, <2>2

LEMMA HandlerAgreed ==
    ASSUME ForkDepth <= DposNeed + 1, Base, Agreed
    PROVE  RecieveBlock \/ BuildBlock => Agreed'
<1> DEFINE b == job.blk
<1>1. ASSUME RecieveBlock PROVE Agreed'
  <2>1. /\ pc = "recv" /\ UNCHANGED <<blocks, file>>
        /\ \/ Prev(b) = block_head /\ PushNext(b, blocks[b].good)
           \/ Prev(b) # block_head /\ PushFork(b)
           \/ Done /\ UNCHANGED <<forkVars, block_head, db, building, log>>
    BY <1>1 DEF RecieveBlock
  <2>2. CASE Prev(b) = block_head /\ PushNext(b, blocks[b].good)
    BY <2>1, <2>2, PushNextAgreed
  <2>3. CASE Prev(b) # block_head /\ PushFork(b)
    BY <2>1, <2>3, PushForkAgreed
  <2>4. CASE Done /\ UNCHANGED <<forkVars, block_head, db, building, log>>
    BY <2>1, <2>4, NothingAgreed
  <2>5. QED
    BY <2>1, <2>2, <2>3, <2>4
<1>2. ASSUME BuildBlock PROVE Agreed'
  <2>1. pc = "build" /\ PushNext(b, TRUE) /\ UNCHANGED <<blocks, file>>
    BY <1>2 DEF BuildBlock
  <2>2. Prev(b) = block_head
    BY <2>1 DEF Base, Running, Prev
  <2>3. QED
    BY <2>1, <2>2, PushNextAgreed
<1>3. QED
  BY <1>1, <1>2

(***************************************************************************)
(* What the node is used for: three builders or more, forks that leave its *)
(* branch at most DposNeed + 1 blocks below their end, no kill between the *)
(* block log and the undo database, and no block that fails by anything    *)
(* else than the fc::exception that _check_fork catches.                   *)
(***************************************************************************)
Calm ==
  /\ Cardinality(Builders) >= 3
  /\ ForkDepth <= DposNeed + 1
  /\ "torn" \notin Ends
  /\ Uncaught = {}

LEMMA StepAgreed ==
    ASSUME Calm, Base, Agreed, [Next]_vars
    PROVE  Agreed'
<1>0. /\ Cardinality(Builders) >= 3 /\ ForkDepth <= DposNeed + 1 /\ "torn" \notin Ends
      /\ Uncaught = {}
  BY DEF Calm
<1>1. ASSUME UNCHANGED vars PROVE Agreed'
  <2>1. /\ blocks' = blocks /\ known' = known /\ pack' = pack /\ fork_head' = fork_head
        /\ block_head' = block_head /\ log' = log /\ pc' = pc /\ job' = job /\ file' = file
        /\ db' = db /\ building' = building
    BY <1>1 DEF vars, forkVars, nodeVars
  <2>2. QED
    BY <2>1 DEF Agreed
<1>2. ASSUME Step PROVE Agreed'
  <2>1. CASE RecieveBlock \/ BuildBlock
    BY <1>0, <2>1, HandlerAgreed
  <2>2. CASE \E b \in BlockIds : Irreversible(b)
    BY <2>2, IrreversibleAgreed
  <2>3. CASE Commit \/ Erase
    BY <2>3, CommitAgreed, EraseAgreed
  <2>4. CASE Pushed
    BY <1>0, <2>4, PushedAgreed
  <2>5. CASE CheckFork \/ Pop \/ Apply
    BY <1>0, <2>5, CheckForkAgreed, PopAgreed, ApplyAgreed
  <2>6. QED
    BY <1>2, <2>1, <2>2, <2>3, <2>4, <2>5 DEF Step
<1>3. ASSUME Kill \/ Shutdown \/ Start PROVE Agreed'
  BY <1>0, <1>3, EndAgreed, StartAgreed
<1>4. QED
  BY <1>0, <1>1, <1>2, <1>3, EventAgreed DEF Next

LEMMA AgreedInvariant ==
    ASSUME Calm
    PROVE  Spec => [](Base /\ Agreed)
<1>1. Init => Base /\ Agreed
  BY InitBase, InitAgreed
<1>2. Base /\ Agreed /\ [Next]_vars => (Base /\ Agreed)'
  BY StepBase, StepAgreed
<1>3. QED
  BY <1>1, <1>2, PTL DEF Spec

\* Between two handlers the places that keep the chain agree.
LEMMA AgreedStores ==
    ASSUME Base, Agreed
    PROVE  StoresAgree
<1>1. SUFFICES ASSUME pc = "idle"
               PROVE  /\ Aborted.state = Path(block_head)
                      /\ Aborted.rev = Num(block_head)
                      /\ Len(Aborted.undo) = Num(block_head) - Num(Last(log))
                      /\ \A b \in known : pack[b].main <=> b \in Range(Path(block_head))
                      /\ IsPrefix(log, Path(block_head))
                      /\ known # {} => block_head = fork_head /\ block_head \in known
  BY DEF StoresAgree, DbFollowsHead, UndoSpansLog, MainIsHeadBranch, LogOnHead,
         HeadIsForkHead, Idle
<1>2. /\ Tree(blocks) /\ Packs(blocks, pack) /\ LogOK(blocks, log)
      /\ known \subseteq DOMAIN pack /\ block_head \in 1..Len(blocks)
      /\ LogWay(blocks, log, block_head)
      /\ Stacked(blocks, db, block_head, building, log, pc, job, file)
      /\ \E l \in 1..Len(blocks) :
           Live(blocks, l, known, pack, fork_head, block_head, log, pc, job)
  BY <1>1, Parts
<1>3. DbOK(blocks, Aborted, block_head, Len(log), 0)
  <2>1. pc \notin {"commit", "down"}
    BY <1>1
  <2>2. QED
    BY <1>2, <2>1, AbortedStack
<1>4. /\ Num(block_head) = N(blocks, block_head) /\ Path(block_head) = blocks[block_head].path
      /\ Num(Last(log)) = N(blocks, Last(log))
  BY DEF Num, N, Path
<1>5. /\ N(blocks, log[Len(log)]) = Len(log) /\ Last(log) = log[Len(log)]
      /\ Len(log) \in Nat /\ Len(log) >= 1 /\ log[Len(log)] \in 1..Len(blocks)
  BY <1>2, LogTip
<1>6. /\ N(blocks, block_head) \in Nat /\ blocks[block_head].path \in Seq(Nat)
      /\ Len(blocks[block_head].path) = N(blocks, block_head)
  BY <1>2, OnWay
<1>7. /\ Aborted.state = Path(block_head) /\ Aborted.rev = Num(block_head)
      /\ Len(Aborted.undo) = Num(block_head) - Num(Last(log))
  <2> DEFINE r == Aborted
  <2>1. DbOK(blocks, r, block_head, Len(log), 0)
    BY <1>3
  <2> HIDE DEF r
  <2>2. r.state = blocks[block_head].path /\ r.rev = N(blocks, block_head) + 0
        /\ Len(r.undo) = r.rev - Len(log)
    BY <2>1 DEF DbOK
  <2>3. r.state = Path(block_head) /\ r.rev = Num(block_head)
        /\ Len(r.undo) = Num(block_head) - Num(Last(log))
    BY <1>4, <1>5, <1>6, <2>2
  <2>4. QED
    BY <2>3 DEF r
<1>8. PICK l \in 1..Len(blocks) :
        Live(blocks, l, known, pack, fork_head, block_head, log, pc, job)
  BY <1>2
<1>9. known # {} => /\ fork_head = block_head /\ block_head \in known
                    /\ Marked(blocks, known, pack, block_head)
  BY <1>1, <1>8, AtRest
<1>10. ASSUME NEW b \in known PROVE pack[b].main <=> b \in Range(Path(block_head))
  <2>1. pack[b].main = TRUE <=> On(blocks, b, block_head)
    BY <1>9 DEF Marked
  <2>2. b \in 1..Len(blocks) /\ pack[b].main \in BOOLEAN
    <3>1. b \in DOMAIN pack
      BY <1>2
    <3>2. QED
      BY <1>2, <3>1, PackNumbers
  <2>3. ASSUME On(blocks, b, block_head) PROVE b \in Range(Path(block_head))
    <3>1. N(blocks, b) \in 1..N(blocks, block_head)
          /\ blocks[block_head].path[N(blocks, b)] = b
      BY <1>2, <2>2, <2>3, OnWay
    <3>2. QED
      BY <1>4, <1>6, <3>1 DEF Range
  <2>4. ASSUME b \in Range(Path(block_head)) PROVE On(blocks, b, block_head)
    <3>1. PICK n \in DOMAIN blocks[block_head].path : blocks[block_head].path[n] = b
      BY <1>4, <2>4 DEF Range
    <3>2. n \in 1..N(blocks, block_head)
      BY <1>6
    <3>3. QED
      BY <1>2, <3>1, <3>2, OnWay
  <2>5. QED
    BY <2>1, <2>2, <2>3, <2>4
<1>11. IsPrefix(log, Path(block_head))
  <2> DEFINE a == log[Len(log)]
             q == blocks[block_head].path
  <2>1. On(blocks, a, block_head) /\ \A i \in 1..Len(log) : blocks[a].path[i] = log[i]
    BY <1>2 DEF LogWay
  <2>2. /\ N(blocks, a) \in 1..N(blocks, block_head)
        /\ \A k \in 1..N(blocks, a) : blocks[a].path[k] = q[k]
    BY <1>2, <1>5, <2>1, OnWay, SMTT(60)
  <2>3. Len(log) <= Len(q) /\ \A i \in 1..Len(log) : log[i] = q[i]
    BY <1>5, <1>6, <2>1, <2>2
  <2>4. log \in Seq(Nat) /\ q \in Seq(Nat)
    BY <1>2, <1>6 DEF LogOK
  <2> HIDE DEF q
  <2>5. IsPrefix(log, q)
    BY <1>5, <2>3, <2>4 DEF IsPrefix
  <2>6. QED
    BY <1>4, <2>5 DEF q
<1>12. QED
  BY <1>7, <1>9, <1>10, <1>11

\* With three builders or more, forks that leave the node's branch at most
\* DposNeed + 1 blocks below their end, and no kill between the block log and
\* the undo database, but any blocks that fail, handlers that throw, kills,
\* shutdowns and restarts otherwise: after every handler the undo database,
\* its sessions, the flags and the head of the fork database and the log
\* agree on the chain.
THEOREM StoresAlwaysAgree ==
    ASSUME Calm
    PROVE  Spec => []StoresAgree
<1>1. Base /\ Agreed => StoresAgree
  BY AgreedStores
<1>2. QED
  BY <1>1, AgreedInvariant, PTL

\* In the same conditions initialize_impl always finds a head that is not
\* above the undo database: the node can start again.
THEOREM CanAlwaysStart ==
    ASSUME Calm
    PROVE  Spec => []CanStart
<1>1. Base /\ Agreed => CanStart
  <2>1. SUFFICES ASSUME Base, Agreed, pc = "down" PROVE Num(RestartHead) <= db.rev
    BY DEF CanStart
  <2>2. /\ Tree(blocks) /\ Packs(blocks, pack) /\ LogOK(blocks, log)
        /\ block_head \in DOMAIN pack /\ file \in BOOLEAN
        /\ LogWay(blocks, log, block_head)
        /\ Stacked(blocks, db, block_head, building, log, pc, job, file)
    BY <2>1 DEF Base, Placed, Saved, Agreed
  <2>3. block_head \in 1..Len(blocks) /\ N(blocks, block_head) \in Nat
    BY <2>2, PackNumbers
  <2>4. PICK e \in {0, 1} : DbOK(blocks, db, block_head, Len(log), e)
    BY <2>1, <2>2 DEF Stacked
  <2>5. N(blocks, block_head) <= db.rev /\ db.rev \in Nat
    <3>1. db.rev = N(blocks, block_head) + e
      BY <2>4 DEF DbOK
    <3>2. e \in Nat
      OBVIOUS
    <3>3. QED
      BY ONLY <2>3, <3>1, <3>2
  <2>6. CASE file = TRUE
    <3>1. PICK l \in 1..Len(blocks) :
            Live(blocks, l, known, pack, fork_head, block_head, log, pc, job)
      BY <2>1, <2>6 DEF Agreed
    <3>2. Resting(l, known, pack, log, job)
      BY <2>1, <3>1 DEF Live, Target
    <3>3. Heads(blocks, l, known \ job.erase, pack, fork_head, block_head, pc, job)
      BY <3>1 DEF Live
    <3>4. known \ job.erase # {}
      BY <2>1, <3>3 DEF Heads, Lost
    <3>5. fork_head = block_head
      BY <2>1, <3>3, <3>4 DEF Heads, Ahead
    <3>6. Num(RestartHead) = N(blocks, block_head)
      BY <2>6, <3>5 DEF RestartHead, Num, N
    <3>7. QED
      BY <2>5, <3>6
  <2>7. CASE file = FALSE
    <3>1. /\ N(blocks, log[Len(log)]) = Len(log) /\ Last(log) = log[Len(log)]
          /\ Len(log) \in Nat
      BY <2>2, LogTip
    <3>2. Len(log) <= N(blocks, block_head)
      BY <2>2, <3>1 DEF LogWay, On
    <3>3. Num(RestartHead) = Len(log)
      BY <2>7, <3>1 DEF RestartHead, Num, N
    <3>4. QED
      BY ONLY <2>3, <2>5, <3>1, <3>2, <3>3
  <2>8. QED
    BY <2>2, <2>6, <2>7
<1>2. QED
  BY <1>1, AgreedInvariant, PTL

\* In the same conditions no block fails the asserts of on_irreversible: the
\* next block that becomes irreversible is built on the last one of the log.
THEOREM IrreversibleAlwaysLinks ==
    ASSUME Calm
    PROVE  Spec => IrreversibleLinks
<1>1. Base /\ Agreed /\ [Next]_vars
        => [\A b \in BlockIds : Irreversible(b) => LinksToLog(b)]_vars
  <2>1. SUFFICES ASSUME Base, Agreed, NEW b \in BlockIds, Irreversible(b)
                 PROVE  LinksToLog(b)
    OBVIOUS
  <2>2. pc = "grow" /\ NextConfirmed(b)
    BY <2>1 DEF Irreversible
  <2>3. PICK l \in 1..Len(blocks) :
          Live(blocks, l, known, pack, fork_head, block_head, log, pc, job)
    BY <2>1, <2>2, Parts
  <2>4. QED
    BY <2>1, <2>2, <2>3, NextLinks
<1>2. QED
  BY <1>1, AgreedInvariant, PTL DEF Spec, IrreversibleLinks

\* In the same conditions the block that _push_block pushed is the head of the
\* fork database when it looks.
THEOREM PushedAlwaysHead ==
    ASSUME Calm
    PROVE  Spec => PushedIsHead
<1>1. Base /\ Agreed /\ [Next]_vars => [Pushed => fork_head = job.blk]_vars
  <2>1. SUFFICES ASSUME Base, Agreed, Pushed PROVE fork_head = job.blk
    OBVIOUS
  <2>2. pc = "pushed"
    BY <2>1 DEF Pushed
  <2>3. QED
    BY <2>1, <2>2, PushedHead
<1>2. QED
  BY <1>1, AgreedInvariant, PTL DEF Spec, PushedIsHead

\* In the same conditions fetch_branch_from_fork finds every block of both
\* branches of a fork switch.
THEOREM BranchesAlwaysFound ==
    ASSUME Calm
    PROVE  Spec => BranchesFound
<1>1. Base /\ Agreed /\ [Next]_vars
        => [CheckFork => pack[fork_head].main \/ BranchesKnown(block_head, fork_head, known)]_vars
  <2>1. SUFFICES ASSUME Base, Agreed, CheckFork
                 PROVE  BranchesKnown(block_head, fork_head, known)
    OBVIOUS
  <2>2. pc = "check"
    BY <2>1 DEF CheckFork
  <2>3. PICK l \in 1..Len(blocks) :
          Switching(blocks, l, known, pack, fork_head, block_head, log, job)
    BY <2>1, <2>2, InSwitch
  <2>4. Tree(blocks) /\ Packs(blocks, pack) /\ known \subseteq DOMAIN pack
    BY <2>1 DEF Base, Placed
  <2>5. QED
    BY <2>3, <2>4, BranchesThere
<1>2. QED
  BY <1>1, AgreedInvariant, PTL DEF Spec, BranchesFound

\* Only _irreversible_block appends to the block log.
LEMMA LogGrowsOnly ==
    ASSUME Base, [Next]_vars, Len(log') > Len(log)
    PROVE  \E b \in BlockIds : Irreversible(b) /\ log' = Append(log, b)
<1>1. SUFFICES ASSUME ~\E b \in BlockIds : Irreversible(b) /\ log' = Append(log, b)
               PROVE  log' = log
  <2>1. Len(log) \in Nat
    BY DEF Base, LogOK
  <2>2. QED
    BY <2>1
<1>2. CASE UNCHANGED vars
  BY <1>2 DEF vars, nodeVars
<1>3. CASE Step
  <2>1. CASE RecieveBlock \/ BuildBlock
    BY <2>1 DEF RecieveBlock, BuildBlock, PushNext, PushFork
  <2>2. CASE \E b \in BlockIds : Irreversible(b)
    BY <1>1, <2>2 DEF Irreversible
  <2>3. CASE Commit \/ Erase \/ Pushed
    BY <2>3 DEF Commit, Erase, Pushed
  <2>4. CASE CheckFork \/ Pop \/ Apply
    BY <2>4 DEF CheckFork, Pop, Apply
  <2>5. QED
    BY <1>3, <2>1, <2>2, <2>3, <2>4 DEF Step
<1>4. CASE Kill \/ Shutdown \/ Start
  BY <1>4 DEF Kill, Shutdown, Start
<1>5. CASE \/ \E p \in BlockIds, bld \in Builders \ Own, rank \in Ranks, good \in BOOLEAN :
                Receive(p, bld, rank, good)
           \/ \E b \in BlockIds : ReceiveAgain(b)
           \/ \E bld \in Own, rank \in Ranks : Build(bld, rank)
           \/ \E b \in BlockIds : Confirm(b)
  BY <1>5 DEF Receive, ReceiveAgain, Build, Confirm, Deliver, nodeVars
<1>6. QED
  BY <1>2, <1>3, <1>4, <1>5 DEF Next

\* In the same conditions a block becomes irreversible only after builders took
\* turns on top of it dpos_irreversible_need times, whoever confirms blocks.
THEOREM FinalityAlwaysNeedsTurns ==
    ASSUME Calm
    PROVE  Spec => FinalityNeedsTurns
<1>1. Base /\ Agreed /\ [Next]_vars
        => [Len(log') > Len(log) => Turns(Path(fork_head), Num(Last(log'))) >= DposNeed]_vars
  <2>1. SUFFICES ASSUME Base, Agreed, [Next]_vars, Len(log') > Len(log)
                 PROVE  Turns(Path(fork_head), Num(Last(log'))) >= DposNeed
    OBVIOUS
  <2>2. PICK b \in BlockIds : Irreversible(b) /\ log' = Append(log, b)
    BY <2>1, LogGrowsOnly
  <2>3. pc = "grow" /\ NextConfirmed(b)
    BY <2>2 DEF Irreversible
  <2>4. Tree(blocks) /\ LogOK(blocks, log) /\ fork_head \in 1..Len(blocks)
    <3>1. fork_head # NoBlock
      BY <2>1, <2>3 DEF Base, Running
    <3>2. QED
      BY <2>1, <3>1 DEF Base, Placed, Packs
  <2>5. PICK l \in 1..Len(blocks) :
          Live(blocks, l, known, pack, fork_head, block_head, log, pc, job)
    BY <2>1, <2>3, Parts
  <2>6. b \in 1..Len(blocks) /\ On(blocks, b, l)
    BY <2>1, <2>3, <2>5, NextLinks
  <2>7. TurnsOf(blocks, blocks[fork_head].path, N(blocks, l)) >= DposNeed
    BY <2>3, <2>5 DEF Live, Target, Growing
  <2>8. Last(log') = b
    <3>1. log \in Seq(1..Len(blocks)) /\ Len(log) \in Nat
      BY <2>4 DEF LogOK
    <3>2. QED
      BY <2>2, <2>6, <3>1 DEF Last
  <2>9. Num(Last(log')) = N(blocks, b) /\ Path(fork_head) = blocks[fork_head].path
    BY <2>8 DEF Num, N, Path
  <2> DEFINE q == blocks[fork_head].path
  <2>10. /\ N(blocks, b) \in Nat /\ N(blocks, l) \in Nat /\ N(blocks, b) <= N(blocks, l)
         /\ Len(q) \in Nat /\ DposNeed \in Nat
    BY <2>4, <2>6, OnWay, ForkDbAssumption, SMTT(60) DEF On
  <2> HIDE DEF q
  <2>11. TurnsOf(blocks, q, N(blocks, l)) <= TurnsOf(blocks, q, N(blocks, b))
    BY <2>10, TurnsFrom
  <2>12. TurnsOf(blocks, q, N(blocks, l)) \in Nat /\ TurnsOf(blocks, q, N(blocks, b)) \in Nat
    BY <2>10, TurnsFinite
  <2>13. TurnsOf(blocks, q, N(blocks, b)) >= DposNeed
    BY <2>7, <2>10, <2>11, <2>12 DEF q
  <2>14. QED
    BY <2>9, <2>13, TurnsIsTurnsOf DEF q
<1>2. QED
  BY <1>1, AgreedInvariant, PTL DEF Spec, FinalityNeedsTurns

(***************************************************************************)
(* Where no block fails, a fork switch never goes to a block built on      *)
(* block_head; and a node that is only ever shut down never loses its fork *)
(* database, which so knows the end of the log.                            *)
(***************************************************************************)
Checking(c, j) == c = "check" \/ (c \in {"grow", "commit"} /\ j.then = "check")

Straight ==
  /\ \A b \in 1..Len(blocks) : blocks[b].good = TRUE
  /\ Checking(pc, job) => fork_head = block_head \/ ~On(blocks, block_head, fork_head)

Unbroken ==
  /\ pc = "down" => file = TRUE
  /\ pc \notin {"grow", "commit"} => log[Len(log)] \in known

\* What add_block does to the fork database whatever becomes irreversible.
LEMMA AddShape ==
    ASSUME NEW b, NEW q, NEW then, AddBlock(b, q, then), job \in JobType(blocks)
    PROVE  /\ known \subseteq known'
           /\ \/ pc' = "idle"
              \/ /\ pc' \in {"grow", then} /\ job'.then = then
                 /\ b \notin known /\ known' = known \cup {b}
                 /\ fork_head' \in Longest(known', Inserted(b, q, pack))
<1> DEFINE next == [job EXCEPT !.then = then]
           X == Inserted(b, q, pack)
           D(h) == X[h].dpos
           Q(h) == Confirming(D(h), known', X)
<1>1. CASE b \in known /\ Done /\ UNCHANGED forkVars
  BY <1>1 DEF Done, forkVars
<1>2. CASE /\ b \notin known /\ known' = known \cup {b}
           /\ \E h \in Longest(known', X) :
                /\ fork_head' = h
                /\ \/ pc' = "grow" /\ \E t, e : job' = [next EXCEPT !.todo = t, !.erase = e]
                   \/ Done
                   \/ pc' = then /\ job' = next
  <2>1. PICK h \in Longest(known', X) :
          /\ fork_head' = h
          /\ \/ pc' = "grow" /\ \E t, e : job' = [next EXCEPT !.todo = t, !.erase = e]
             \/ Done
             \/ pc' = then /\ job' = next
    BY <1>2
  <2>2. CASE pc' = "grow" /\ \E t, e : job' = [next EXCEPT !.todo = t, !.erase = e]
    <3>1. PICK t, e : GrowingJob(job', job, then, t, e)
      BY <2>2, Zenon DEF GrowingJob
    <3>2. job'.then = then
      BY <3>1, GrowJob
    <3>3. QED
      BY <1>2, <2>1, <2>2, <3>2
  <2>3. CASE pc' = then /\ job' = next
    <3>1. job'.then = then
      BY <2>3, ThenJob
    <3>2. QED
      BY <1>2, <2>1, <2>3, <3>1
  <2>4. CASE Done
    BY <1>2, <2>4 DEF Done
  <2>5. QED
    BY <2>1, <2>2, <2>3, <2>4
<1>3. QED
  <2>1. \/ b \in known /\ Done /\ UNCHANGED forkVars
        \/ /\ b \notin known /\ known' = known \cup {b}
           /\ \E h \in Longest(known', X) :
                /\ fork_head' = h
                /\ \/ pc' = "grow" /\ \E t, e : job' = [next EXCEPT !.todo = t, !.erase = e]
                   \/ Done
                   \/ pc' = then /\ job' = next
    BY ONLY AddBlock(b, q, then), ZenonT(60) DEF AddBlock
  <2>2. QED
    BY <1>1, <1>2, <2>1

\* A fork whose block becomes the head is not built on block_head.
LEMMA ForkElsewhere ==
    ASSUME Base, Agreed, pc = "recv", NEW b, b = job.blk, Prev(b) # block_head, PushFork(b),
           pc' # "idle", UNCHANGED blocks
    PROVE  /\ known \subseteq known' /\ pc' \in {"grow", "check"} /\ block_head' = block_head
           /\ fork_head' = block_head \/ ~On(blocks, block_head, fork_head')
<1> DEFINE p == Prev(b)
           P == Inserted(b, PackOn(p, pack[p], FALSE), pack)
           K == known \cup {b}
           e == block_head
           f == fork_head'
<1>1. b \in 1..Len(blocks) /\ job \in JobType(blocks)
  BY DEF Base, Running, JobType, NoBlock
<1>2. p \in known /\ AddBlock(b, PackOn(p, pack[p], FALSE), "check") /\ block_head' = e
  BY DEF PushFork, Done
<1>3. /\ known \subseteq known' /\ pc' \in {"grow", "check"} /\ b \notin known
      /\ known' = K /\ f \in Longest(K, P)
  BY <1>1, <1>2, AddShape
<1>4. /\ Tree(blocks) /\ e \in 1..Len(blocks) /\ Packs(blocks, pack) /\ known \subseteq DOMAIN pack
      /\ \E l \in 1..Len(blocks) :
           Live(blocks, l, known, pack, fork_head, block_head, log, pc, job)
  BY Parts
<1>5. PICK l \in 1..Len(blocks) :
        Live(blocks, l, known, pack, fork_head, block_head, log, pc, job)
  BY <1>4
<1>6. /\ Settled(blocks, l, known, pack) /\ On(blocks, l, e)
      /\ known # {} => Best(blocks, e, known, pack) /\ e \in known
  BY <1>5, AtRest
<1>7. Prev(b) = p /\ P = Inserted(b, PackOn(p, pack[p], FALSE), pack) /\ p # e
  OBVIOUS
<1> HIDE DEF P, p, f
<1>8. Insertion(l, K, P, b, p, FALSE)
  <2> DEFINE v == FALSE
  <2>1. v \in BOOLEAN /\ P = Inserted(b, PackOn(p, pack[p], v), pack) /\ v = FALSE
    BY <1>7
  <2> HIDE DEF v
  <2>2. Insertion(l, K, P, b, p, v)
    BY <1>1, <1>2, <1>3, <1>5, <1>7, <2>1, InsertAdded
  <2>3. QED
    BY <2>1, <2>2
<1>9. Best(blocks, f, K, P)
  <2>1. Packs(blocks, P) /\ K \subseteq DOMAIN P
    BY <1>8 DEF Insertion
  <2>2. QED
    BY <1>3, <1>4, <2>1, LongestIsBest
<1>10. f = b \/ f = e
  <2>1. b \notin known /\ p \in known /\ Prev(b) = p
    BY <1>2, <1>3, <1>7
  <2>2. ASSUME NEW h, Best(blocks, h, K, P) PROVE h = b \/ h = block_head
    BY <1>1, <1>5, <1>8, <2>1, <2>2, ForkHead
  <2>3. QED
    BY <1>9, <2>2
<1> HIDE DEF e, K
<1>11. ASSUME On(blocks, e, b) PROVE FALSE
  <2>1. blocks[b].prev = p /\ p \in 1..Len(blocks) /\ e \in known
    BY <1>2, <1>4, <1>6, <1>7 DEF Packs, Prev
  <2>2. On(blocks, e, p)
    BY <1>1, <1>3, <1>4, <1>11, <2>1, OnPrev
  <2>3. N(blocks, e) <= N(blocks, p) /\ (N(blocks, e) = N(blocks, p) => e = p)
    BY <1>4, <2>1, <2>2, OnSame DEF On
  <2>4. N(blocks, e) \in Nat /\ N(blocks, p) \in Nat
    BY <1>4, <2>1, OnWay
  <2>5. N(blocks, e) < N(blocks, p)
    BY ONLY <1>7, <2>3, <2>4
  <2>6. On(blocks, l, p)
    BY <1>4, <1>6, <2>1, <2>2, OnTrans
  <2>7. pack[p].lc = l /\ pack[e].lc = l
    BY <1>2, <1>6, <2>1, <2>6 DEF Settled, Confirms
  <2>8. N(blocks, pack[e].dpos) <= N(blocks, pack[p].dpos)
    BY <1>2, <1>6, <2>1, <2>2 DEF Settled, Rising
  <2>9. N(blocks, pack[e].dpos) \in Nat /\ N(blocks, pack[p].dpos) \in Nat
    <3>1. e \in DOMAIN pack /\ p \in DOMAIN pack
      BY <1>2, <1>4, <2>1
    <3>2. QED
      BY <1>4, <3>1, PackNumbers
  <2>10. Beats(blocks, p, e, pack)
    BY <2>5, <2>7, <2>8, <2>9 DEF Beats
  <2>11. QED
    BY <1>2, <1>6, <2>10 DEF Best
<1>12. f = e \/ ~On(blocks, e, f)
  BY <1>10, <1>11
<1>13. QED
  BY <1>2, <1>3, <1>12 DEF e, f

LEMMA GoodBlocks ==
    ASSUME Faulty = {}, Base, \A b \in 1..Len(blocks) : blocks[b].good = TRUE, [Next]_vars
    PROVE  \A b \in 1..Len(blocks') : blocks'[b].good = TRUE
<1>1. Tree(blocks) /\ Len(blocks) \in Nat
  BY TreeLen DEF Base
<1>2. ASSUME NEW p, NEW bld, NEW rank, NEW v, v = TRUE,
             blocks' = Append(blocks, NewBlock(p, bld, rank, v))
      PROVE  \A b \in 1..Len(blocks') : blocks'[b].good = TRUE
  <2> DEFINE x == NewBlock(p, bld, rank, v)
  <2>1. x.good = TRUE
    BY <1>2 DEF NewBlock
  <2>2. blocks' = Append(blocks, x) /\ blocks \in Seq(BlockType)
    BY <1>1, <1>2 DEF Tree
  <2> HIDE DEF x
  <2>3. Len(blocks') = Len(blocks) + 1 /\ blocks'[Len(blocks) + 1] = x
        /\ \A b \in 1..Len(blocks) : blocks'[b] = blocks[b]
    BY <2>2
  <2>4. QED
    BY <1>1, <2>1, <2>3
<1>3. CASE UNCHANGED blocks
  BY <1>3
<1>4. CASE \E p \in BlockIds, bld \in Builders \ Own, rank \in Ranks, good \in BOOLEAN :
             Receive(p, bld, rank, good)
  <2>1. PICK p \in BlockIds, bld \in Builders \ Own, rank \in Ranks, good \in BOOLEAN :
          Receive(p, bld, rank, good)
    BY <1>4
  <2>2. good = TRUE /\ blocks' = Append(blocks, NewBlock(p, bld, rank, good))
    BY <2>1 DEF Receive
  <2>3. QED
    BY <1>2, <2>2
<1>5. CASE \E bld \in Own, rank \in Ranks : Build(bld, rank)
  <2>1. PICK bld, rank : Build(bld, rank)
    BY <1>5
  <2> DEFINE v == TRUE
  <2>2. v = TRUE /\ blocks' = Append(blocks, NewBlock(block_head, bld, rank, v))
    BY <2>1 DEF Build
  <2> HIDE DEF v
  <2>3. QED
    BY <1>2, <2>2
<1>6. CASE \/ \E b \in BlockIds : ReceiveAgain(b)
           \/ \E b \in BlockIds : Confirm(b)
           \/ Kill \/ Shutdown \/ Start
  <2>1. UNCHANGED blocks
    BY <1>6 DEF ReceiveAgain, Confirm, Kill, Shutdown, Start
  <2>2. QED
    BY <1>3, <2>1
<1>7. CASE Step
  <2>1. UNCHANGED blocks
    BY <1>7 DEF Step, RecieveBlock, BuildBlock, Irreversible, Commit, Erase, Pushed,
                CheckFork, Pop, Apply
  <2>2. QED
    BY <1>3, <2>1
<1>8. CASE UNCHANGED vars
  <2>1. UNCHANGED blocks
    BY <1>8 DEF vars
  <2>2. QED
    BY <1>3, <2>1
<1>9. QED
  BY <1>4, <1>5, <1>6, <1>7, <1>8 DEF Next

\* A block pushed on block_head: nothing is checked then.
LEMMA NextNoCheck ==
    ASSUME job \in JobType(blocks), NEW b, NEW good, PushNext(b, good)
    PROVE  ~Checking(pc', job') /\ known \subseteq known' /\ UNCHANGED log
           /\ pc' \in {"idle", "grow", "pushed"}
<1>1. CASE Done /\ UNCHANGED forkVars
  BY <1>1 DEF Done, forkVars, Checking, PushNext
<1>2. CASE AddBlock(b, PackOn(block_head, pack[block_head], TRUE), "pushed")
  <2> DEFINE q == PackOn(block_head, pack[block_head], TRUE)
             then == "pushed"
  <2>1. AddBlock(b, q, then) /\ then = "pushed"
    BY <1>2
  <2> HIDE DEF q, then
  <2>2. known \subseteq known' /\ (pc' = "idle" \/ (pc' \in {"grow", then} /\ job'.then = then))
    BY <2>1, AddShape
  <2>3. QED
    BY <2>1, <2>2 DEF Checking, PushNext
<1>3. QED
  BY <1>1, <1>2 DEF PushNext

LEMMA StepStraight ==
    ASSUME Faulty = {}, Base, Agreed, Straight, [Next]_vars
    PROVE  Straight'
<1>1. \A b \in 1..Len(blocks) : blocks[b].good = TRUE
  BY DEF Straight
<1>2. \A b \in 1..Len(blocks') : blocks'[b].good = TRUE
  BY <1>1, GoodBlocks
<1>3. SUFFICES ASSUME Checking(pc', job')
               PROVE  fork_head' = block_head' \/ ~On(blocks', block_head', fork_head')
  BY <1>2 DEF Straight
<1>4. job \in JobType(blocks)
  BY DEF Base, Running
<1>5. CASE ~Step
  <2>1. CASE \/ \E p \in BlockIds, bld \in Builders \ Own, rank \in Ranks, good \in BOOLEAN :
                  Receive(p, bld, rank, good)
             \/ \E b \in BlockIds : ReceiveAgain(b)
             \/ \E bld \in Own, rank \in Ranks : Build(bld, rank)
             \/ \E b \in BlockIds : Confirm(b)
    <3>1. pc' \in {"recv", "build", "idle"}
      BY <2>1 DEF Receive, ReceiveAgain, Build, Deliver, Confirm, nodeVars
    <3>2. QED
      BY <1>3, <3>1 DEF Checking
  <2>2. CASE Kill \/ Shutdown \/ Start
    BY <1>3, <2>2 DEF Checking, Kill, Shutdown, Start, Done
  <2>3. CASE UNCHANGED vars
    BY <1>3, <2>3 DEF vars, forkVars, nodeVars, Straight
  <2>4. QED
    BY <1>5, <2>1, <2>2, <2>3 DEF Next
<1>6. CASE RecieveBlock
  <2> DEFINE b == job.blk
  <2>1. pc = "recv" /\ UNCHANGED blocks
    BY <1>6 DEF RecieveBlock
  <2>2. CASE PushNext(b, blocks[b].good)
    BY <1>3, <1>4, <2>2, NextNoCheck
  <2>3. CASE Prev(b) # block_head /\ PushFork(b)
    <3>1. pc' # "idle"
      BY <1>3 DEF Checking
    <3>2. block_head' = block_head
          /\ (fork_head' = block_head \/ ~On(blocks, block_head, fork_head'))
      BY <2>1, <2>3, <3>1, ForkElsewhere
    <3>3. QED
      BY <2>1, <3>2
  <2>4. CASE Done
    BY <1>3, <2>4 DEF Done, Checking
  <2>5. QED
    BY <1>6, <2>2, <2>3, <2>4 DEF RecieveBlock
<1>7. CASE BuildBlock
  BY <1>3, <1>4, <1>7, NextNoCheck DEF BuildBlock
<1>8. CASE \E b \in BlockIds : Irreversible(b)
  <2>1. PICK b \in BlockIds : Irreversible(b)
    BY <1>8
  <2>2. /\ blocks' = blocks /\ fork_head' = fork_head /\ block_head' = block_head
        /\ pc = "grow" /\ ((job' = job /\ pc' = "commit") \/ pc' = "idle")
    BY <2>1 DEF Irreversible, Done, forkVars
  <2>3. job' = job /\ Checking(pc, job)
    BY <1>3, <2>2 DEF Checking
  <2>4. QED
    BY <2>2, <2>3 DEF Straight
<1>9. CASE Commit
  <2>1. /\ blocks' = blocks /\ fork_head' = fork_head /\ block_head' = block_head
        /\ pc = "commit" /\ pc' = "grow" /\ job' = [job EXCEPT !.todo = @ \ {Last(log)}]
    BY <1>9 DEF Commit
  <2>2. job'.then = job.then
    <3> DEFINE s == job.todo \ {Last(log)}
    <3>1. job' = [job EXCEPT !.todo = s]
      BY <2>1
    <3> HIDE DEF s
    <3>2. QED
      BY <1>4, <3>1, TodoJob
  <2>3. QED
    BY <1>3, <2>1, <2>2 DEF Straight, Checking
<1>10. CASE Erase
  <2>1. /\ blocks' = blocks /\ fork_head' = fork_head /\ block_head' = block_head
        /\ pc = "grow" /\ pc' = job.then
    BY <1>10 DEF Erase
  <2>2. job.then \in {"pushed", "check"}
    BY <1>4 DEF JobType
  <2>3. QED
    BY <1>3, <2>1, <2>2 DEF Straight, Checking
<1>11. CASE Pushed
  BY <1>3, <1>11 DEF Pushed, Done, Checking
<1>12. CASE CheckFork
  BY <1>3, <1>12 DEF CheckFork, Done, Checking
<1>13. CASE Pop
  BY <1>3, <1>13 DEF Pop, Checking
<1>14. CASE Apply
  <2> DEFINE b == Path(fork_head)[Num(block_head) + 1]
  <2>1. pc = "apply"
    BY <1>14 DEF Apply
  <2>2. b \in 1..Len(blocks)
    BY <2>1, AppliedOn
  <2>3. blocks[b].good = TRUE
    BY <1>1, <2>2
  <2>4. block_head' = b /\ fork_head' = fork_head /\ pc' = IF b = fork_head THEN "check" ELSE "apply"
    BY <1>14, <2>3 DEF Apply
  <2> HIDE DEF b
  <2>5. QED
    BY <1>3, <2>4 DEF Checking
<1>15. QED
  BY <1>5, <1>6, <1>7, <1>8, <1>9, <1>10, <1>11, <1>12, <1>13, <1>14 DEF Step

\* _check_fork finds a branch to undo.
LEMMA CheckNotDown ==
    ASSUME Base, Agreed, Straight, CheckFork
    PROVE  pc' # "down"
<1> DEFINE n == MeetNum(block_head, fork_head)
<1>1. SUFFICES ASSUME pc' = "down" PROVE FALSE
  OBVIOUS
<1>2. pc = "check" /\ ~pack[fork_head].main /\ n = Num(block_head)
  BY <1>1 DEF CheckFork, Done
<1>3. Tree(blocks) /\ Packs(blocks, pack) /\ known \subseteq DOMAIN pack
  BY <1>2, Parts
<1>4. PICK l \in 1..Len(blocks) :
        Switching(blocks, l, known, pack, fork_head, block_head, log, job)
  BY <1>2, InSwitch
<1>5. fork_head \in known /\ block_head \in known /\ Marked(blocks, known, pack, block_head)
  BY <1>4 DEF Switching, Best
<1>6. fork_head \in 1..Len(blocks) /\ block_head \in 1..Len(blocks)
  BY <1>3, <1>5, PackNumbers
<1>7. /\ n <= blocks[fork_head].num
      /\ blocks[block_head].path[n] = blocks[fork_head].path[n]
  BY <1>3, <1>6, BranchesMeet
<1>8. /\ n = N(blocks, block_head) /\ blocks[fork_head].num = N(blocks, fork_head)
      /\ On(blocks, block_head, block_head)
      /\ blocks[block_head].path[N(blocks, block_head)] = block_head
  <2>1. /\ On(blocks, block_head, block_head) /\ blocks[fork_head].num = N(blocks, fork_head)
    BY <1>3, <1>6, OnWay
  <2>2. QED
    BY <1>2, <2>1 DEF Num, N, On
<1> HIDE DEF n
<1>9. On(blocks, block_head, fork_head)
  BY <1>7, <1>8 DEF On
<1>10. fork_head = block_head
  BY <1>2, <1>9 DEF Straight, Checking
<1>11. pack[fork_head].main = TRUE
  BY <1>5, <1>8, <1>10 DEF Marked
<1>12. QED
  BY <1>2, <1>11

LEMMA StraightInvariant ==
    ASSUME Calm, Faulty = {}
    PROVE  Spec => [](Base /\ Agreed /\ Straight)
<1>1. Init => Straight
  <2>1. SUFFICES ASSUME Init PROVE Straight
    OBVIOUS
  <2>2. PICK bld \in Builders : blocks = <<GenesisBlock(bld)>>
    BY <2>1 DEF Init
  <2>3. pc = "idle" /\ ~Checking(pc, job)
    BY <2>1 DEF Init, Checking
  <2> DEFINE x == GenesisBlock(bld)
  <2>4. x.good = TRUE /\ blocks = <<x>>
    BY <2>2 DEF GenesisBlock
  <2> HIDE DEF x
  <2>5. Len(blocks) = 1 /\ blocks[1] = x
    BY <2>4
  <2>6. \A b \in 1..Len(blocks) : blocks[b].good = TRUE
    BY <2>4, <2>5
  <2>7. QED
    BY <2>3, <2>6 DEF Straight
<1>2. Base /\ Agreed /\ Straight /\ [Next]_vars => Straight'
  BY StepStraight
<1>3. QED
  BY <1>1, <1>2, AgreedInvariant, PTL DEF Spec

\* In the same conditions, and where no block fails when it is applied, the
\* branch that _check_fork undoes is never empty: it never dereferences the
\* end of the branch, however often the node is killed and started.
THEOREM OriginAlwaysThere ==
    ASSUME Calm, Faulty = {}
    PROVE  Spec => OriginBranch
<1>1. Base /\ Agreed /\ Straight /\ [Next]_vars => [CheckFork => pc' # "down"]_vars
  BY CheckNotDown
<1>2. QED
  BY <1>1, StraightInvariant, PTL DEF Spec, OriginBranch

LEMMA StepUnbroken ==
    ASSUME Faulty = {}, Ends \subseteq {"stop"}, Base, Agreed, Straight, Unbroken, [Next]_vars
    PROVE  Unbroken'
<1> DEFINE t == log[Len(log)]
<1>1. pc \notin {"grow", "commit"} => t \in known
  BY DEF Unbroken
<1>2. ASSUME pc \notin {"grow", "commit"}, known \subseteq known', UNCHANGED log, pc' # "down"
      PROVE  Unbroken'
  BY <1>1, <1>2 DEF Unbroken
<1>3. job \in JobType(blocks)
  BY DEF Base, Running
<1>4. CASE ~Step
  <2>1. CASE \/ \E p \in BlockIds, bld \in Builders \ Own, rank \in Ranks, good \in BOOLEAN :
                  Receive(p, bld, rank, good)
             \/ \E b \in BlockIds : ReceiveAgain(b)
             \/ \E bld \in Own, rank \in Ranks : Build(bld, rank)
             \/ \E b \in BlockIds : Confirm(b)
    <3>1. pc = "idle" /\ pc' \in {"recv", "build", "idle"} /\ UNCHANGED <<known, log>>
      BY <2>1 DEF Receive, ReceiveAgain, Build, Deliver, Confirm, forkVars, nodeVars
    <3>2. QED
      BY <1>2, <3>1
  <2>2. CASE Kill
    BY <2>2 DEF Kill
  <2>3. CASE Shutdown
    <3>1. pc = "idle" /\ file' = ForkDbSaved /\ UNCHANGED <<known, log>>
      BY <2>3 DEF Shutdown, forkVars
    <3>2. t \in known
      BY <1>1, <3>1
    <3>3. file' = TRUE
      BY <3>1, <3>2 DEF ForkDbSaved
    <3>4. QED
      BY <3>1, <3>2, <3>3 DEF Unbroken
  <2>4. CASE Start
    <3>1. pc = "down" /\ file = TRUE /\ UNCHANGED log /\ pc' = "idle"
      BY <2>4 DEF Start, Unbroken, Done
    <3>2. UNCHANGED known
      BY <2>4, <3>1 DEF Start, ForkDbLoaded, forkVars
    <3>3. QED
      BY <1>2, <3>1, <3>2
  <2>5. CASE UNCHANGED vars
    BY <2>5 DEF vars, forkVars, nodeVars, Unbroken
  <2>6. QED
    BY <1>4, <2>1, <2>2, <2>3, <2>4, <2>5 DEF Next
<1>5. CASE RecieveBlock
  <2> DEFINE b == job.blk
  <2>1. pc = "recv"
    BY <1>5 DEF RecieveBlock
  <2>2. CASE PushNext(b, blocks[b].good)
    <3>1. known \subseteq known' /\ UNCHANGED log /\ pc' \in {"idle", "grow", "pushed"}
      BY <1>3, <2>2, NextNoCheck
    <3>2. QED
      BY <1>2, <2>1, <3>1
  <2>3. CASE PushFork(b)
    <3>1. UNCHANGED log
      BY <2>3 DEF PushFork
    <3>2. CASE Done /\ UNCHANGED forkVars
      BY <1>2, <2>1, <3>1, <3>2 DEF Done, forkVars
    <3>3. CASE AddBlock(b, PackOn(Prev(b), pack[Prev(b)], FALSE), "check")
      <4> DEFINE q == PackOn(Prev(b), pack[Prev(b)], FALSE)
                 then == "check"
      <4>1. AddBlock(b, q, then) /\ then = "check"
        BY <3>3
      <4> HIDE DEF q, then, b
      <4>2. known \subseteq known' /\ (pc' = "idle" \/ pc' \in {"grow", then})
        BY <1>3, <4>1, AddShape
      <4>3. QED
        BY <1>2, <2>1, <3>1, <4>1, <4>2
    <3>4. QED
      BY <2>3, <3>2, <3>3 DEF PushFork
  <2>4. CASE Done /\ UNCHANGED <<forkVars, log>>
    BY <1>2, <2>1, <2>4 DEF Done, forkVars
  <2>5. QED
    BY <1>5, <2>2, <2>3, <2>4 DEF RecieveBlock
<1>6. CASE BuildBlock
  <2>1. pc = "build" /\ PushNext(job.blk, TRUE)
    BY <1>6 DEF BuildBlock
  <2>2. known \subseteq known' /\ UNCHANGED log /\ pc' \in {"idle", "grow", "pushed"}
    BY <1>3, <2>1, NextNoCheck
  <2>3. QED
    BY <1>2, <2>1, <2>2
<1>7. CASE \E b \in BlockIds : Irreversible(b)
  <2>1. PICK b \in BlockIds : Irreversible(b)
    BY <1>7
  <2>2. pc = "grow" /\ NextConfirmed(b)
    BY <2>1 DEF Irreversible
  <2>3. PICK l \in 1..Len(blocks) :
          Live(blocks, l, known, pack, fork_head, block_head, log, pc, job)
    BY <2>2, Parts
  <2>4. LinksToLog(b)
    BY <2>2, <2>3, NextLinks
  <2>5. pc' = "commit"
    BY <2>1, <2>4 DEF Irreversible
  <2>6. QED
    BY <2>5 DEF Unbroken
<1>8. CASE Commit
  BY <1>8 DEF Commit, Unbroken
<1>9. CASE Erase
  <2>1. /\ pc = "grow" /\ job.todo = {} /\ known' = known \ job.erase /\ log' = log
        /\ pc' = job.then
    BY <1>9 DEF Erase
  <2>2. PICK l \in 1..Len(blocks) :
          Live(blocks, l, known, pack, fork_head, block_head, log, pc, job)
    BY <2>1, Parts
  <2>3. Growing(blocks, l, known, pack, fork_head, log, "grow", job)
    BY <2>1, <2>2 DEF Live, Target
  <2>4. l = t
    BY <2>1, <2>3, LastConfirmed
  <2>5. l \in known /\ l \notin job.erase
    BY <2>3 DEF Growing
  <2>6. job.then \in {"pushed", "check"}
    BY <1>3 DEF JobType
  <2>7. QED
    BY <2>1, <2>4, <2>5, <2>6 DEF Unbroken
<1>10. CASE Pushed \/ Pop
  <2>1. /\ pc \in {"pushed", "pop"} /\ UNCHANGED <<known, log>>
        /\ pc' \in {"idle", "pop", "check", "apply"}
    BY <1>10 DEF Pushed, Done, Pop
  <2>2. QED
    BY <1>2, <2>1
<1>11. CASE CheckFork
  <2>1. pc = "check" /\ UNCHANGED <<known, log>>
    BY <1>11 DEF CheckFork, forkVars
  <2>2. QED
    BY <1>2, <1>11, <2>1, CheckNotDown
<1>12. CASE Apply
  <2> DEFINE b == Path(fork_head)[Num(block_head) + 1]
  <2>1. pc = "apply"
    BY <1>12 DEF Apply
  <2>2. b \in 1..Len(blocks)
    BY <2>1, AppliedOn
  <2>3. blocks[b].good = TRUE
    BY <2>2 DEF Straight
  <2>4. UNCHANGED <<known, log>> /\ pc' \in {"check", "apply"}
    BY <1>12, <2>3 DEF Apply
  <2>5. QED
    BY <1>2, <2>1, <2>4
<1>13. QED
  BY <1>4, <1>5, <1>6, <1>7, <1>8, <1>9, <1>10, <1>11, <1>12 DEF Step

\* In the same conditions, where no block fails and the node is only ever shut
\* down: after every handler the log has reached the block that fell out of
\* the DPoS window of the head.
THEOREM FinalityIsPrompt ==
    ASSUME Calm, Faulty = {}, Ends \subseteq {"stop"}
    PROVE  Spec => []FinalityKeepsUp
<1>1. Init => Unbroken
  <2>1. SUFFICES ASSUME Init PROVE Unbroken
    OBVIOUS
  <2>2. pc = "idle" /\ log = <<Genesis>> /\ known = {Genesis}
    BY <2>1 DEF Init
  <2>3. log[Len(log)] = Genesis
    BY <2>2
  <2>4. QED
    BY <2>2, <2>3 DEF Unbroken
<1>2. Base /\ Agreed /\ Straight /\ Unbroken /\ [Next]_vars => Unbroken'
  BY StepUnbroken
<1>3. Base /\ Agreed /\ Unbroken => FinalityKeepsUp
  <2>1. SUFFICES ASSUME Base, Agreed, Unbroken, pc = "idle"
                 PROVE  Num(pack[block_head].dpos) <= Num(Last(log))
    BY DEF FinalityKeepsUp, Idle
  <2>2. LogOK(blocks, log) /\ Tree(blocks)
    BY <2>1, Parts
  <2>3. PICK l \in 1..Len(blocks) :
          Live(blocks, l, known, pack, fork_head, block_head, log, pc, job)
    BY <2>1, Parts
  <2>4. /\ Resting(l, known, pack, log, job) /\ Settled(blocks, l, known, pack)
        /\ On(blocks, l, block_head) /\ (known # {} => block_head \in known)
    BY <2>1, <2>3, AtRest
  <2>5. l = log[Len(log)] /\ l \in known /\ block_head \in known
    BY <2>1, <2>4 DEF Resting, Unbroken
  <2>6. N(blocks, pack[block_head].dpos) <= N(blocks, l)
    BY <2>4, <2>5 DEF Settled, Caught
  <2>7. Last(log) = l
    BY <2>2, <2>5, LogTip
  <2>8. QED
    BY <2>6, <2>7 DEF Num, N
<1>4. QED
  BY <1>1, <1>2, <1>3, StraightInvariant, PTL DEF Spec

============================================================================
