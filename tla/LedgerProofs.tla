----------------------------- MODULE LedgerProofs -----------------------------
(***************************************************************************)
(* Proofs about Ledger.  The operators of Tokens and Ledger that stand for  *)
(* loops are recursive functions; what they compute is shown by induction   *)
(* on the turns of the loop, as the absence of a least counterexample.      *)
(***************************************************************************)
EXTENDS Ledger, FiniteSetTheorems, SequenceTheorems, TLAPS

-----------------------------------------------------------------------------
(* Loops.                                                                  *)

\* A set of numbers has a least one.
LEMMA Least ==
  ASSUME NEW T, T \subseteq Nat, T # {}
  PROVE  \E x \in T : \A y \in T : ~(y < x)
<1>. DEFINE R == OpToRel(<, Nat)
<1>1. IsWellFoundedOn(R, Nat)
  BY NatLessThanWellFounded
<1>2. \A x, y \in Nat : <<y, x>> \in R <=> y < x
  BY DEF OpToRel
<1>. HIDE DEF R
<1>3. \E x \in T : \A y \in T : ~(<<y, x>> \in R)
  BY <1>1, WFMin, Zenon
<1>. QED
  BY <1>2, <1>3

\* Turn i of each loop of the model, from a; p is what the loop runs over.
Turn(loop, p, a, i) ==
  CASE loop = "notify" -> NotifyOne(p[1], p[2], a, i)
    [] loop = "messages" -> ExecMessage(a, p[i])
    [] loop = "built" -> ApplyTrx(p[1][i], a, p[2])
    [] loop = "trxs" -> Effect(p.trxs[i], p.by, a).s
    [] loop = "replay" -> Replayed(a, p[i])
    [] loop = "receipts" -> a \o p[i].trxs
    [] loop = "count" -> a + Len(p[i].msgs)
    [] loop = "genesis" -> a \o Allocation(p[i])

\* g has the values of n turns of a loop that starts with b.
Loop(g, loop, p, b, n) ==
  g = [i \in 0..n |-> IF i = 0 THEN b ELSE Turn(loop, p, g[i - 1], i)]

LEMMA LoopTurns ==
  ASSUME NEW g, NEW loop, NEW p, NEW b, NEW n \in Nat, Loop(g, loop, p, b, n)
  PROVE  g[0] = b /\ \A i \in 1..n : g[i] = Turn(loop, p, g[i - 1], i)
<1>1. g = [i \in 0..n |-> IF i = 0 THEN b ELSE Turn(loop, p, g[i - 1], i)]
  BY DEF Loop
<1>2. g[0] = b
  BY <1>1
<1>3. \A i \in 1..n : g[i] = Turn(loop, p, g[i - 1], i)
  BY <1>1
<1>. QED
  BY <1>2, <1>3

LEMMA TurnsLoop ==
  ASSUME NEW g, NEW loop, NEW p, NEW b, NEW n \in Nat, NEW e, g = [i \in 0..n |-> e[i]],
         g[0] = b, \A i \in 1..n : g[i] = Turn(loop, p, g[i - 1], i)
  PROVE  Loop(g, loop, p, b, n)
<1>. DEFINE h == [i \in 0..n |-> IF i = 0 THEN b ELSE Turn(loop, p, g[i - 1], i)]
<1>1. ASSUME NEW i \in 0..n PROVE e[i] = h[i]
  <2>1. e[i] = g[i]
    OBVIOUS
  <2>2. CASE i = 0
    BY <2>1, <2>2
  <2>3. CASE i # 0
    <3>1. i \in 1..n
      BY <2>3
    <3>. QED
      BY <2>1, <2>3, <3>1
  <2>. QED
    BY <2>2, <2>3
<1>2. [i \in 0..n |-> e[i]] = h
  BY <1>1
<1>. QED
  BY <1>2 DEF Loop

\* Every loop has its values.
LEMMA LoopExists ==
  ASSUME NEW loop, NEW p, NEW b
  PROVE  \A n \in Nat : \E g : Loop(g, loop, p, b, n)
<1>. DEFINE Bad == {n \in Nat : ~\E g : Loop(g, loop, p, b, n)}
<1>. SUFFICES ASSUME Bad # {} PROVE FALSE
  OBVIOUS
<1>1. PICK n \in Bad : \A m \in Bad : ~(m < n)
  BY Least
<1>2. n \in Nat
  BY <1>1
<1>3. CASE n = 0
  <2>. DEFINE g == [i \in 0..0 |-> b]
              e == [i \in {0} |-> b]
  <2>1. g[0] = b /\ g = [i \in 0..0 |-> e[i]]
    OBVIOUS
  <2>2. \A i \in 1..0 : g[i] = Turn(loop, p, g[i - 1], i)
    OBVIOUS
  <2>3. 0 \in Nat
    OBVIOUS
  <2>. HIDE DEF g, e
  <2>4. Loop(g, loop, p, b, 0)
    BY ONLY <2>1, <2>2, <2>3, TurnsLoop, ZenonT(60)
  <2>. QED
    BY <1>1, <1>3, <2>4
<1>4. CASE n # 0
  <2>1. n - 1 \in Nat /\ n - 1 \notin Bad
    BY <1>1, <1>4
  <2>2. PICK g : Loop(g, loop, p, b, n - 1)
    BY <2>1
  <2>3. g[0] = b /\ \A i \in 1..(n - 1) : g[i] = Turn(loop, p, g[i - 1], i)
    BY <2>1, <2>2, LoopTurns
  <2>. DEFINE h == [i \in 0..n |-> IF i < n THEN g[i] ELSE Turn(loop, p, g[n - 1], n)]
  <2>4. h[0] = b
    BY <1>4, <2>1, <2>3
  <2>5. h = [i \in 0..n |-> h[i]]
    BY <2>1
  <2>6. ASSUME NEW i \in 1..n PROVE h[i] = Turn(loop, p, h[i - 1], i)
    <3>1. CASE i < n
      <4>1. h[i] = g[i] /\ h[i - 1] = g[i - 1] /\ i \in 1..(n - 1)
        BY <2>1, <3>1
      <4>. QED
        BY <2>3, <4>1
    <3>2. CASE ~(i < n)
      <4>1. i = n /\ h[n] = Turn(loop, p, g[n - 1], n) /\ h[n - 1] = g[n - 1]
        BY <2>1, <3>2
      <4>. QED
        BY <4>1
    <3>. QED
      BY <3>1, <3>2
  <2>. HIDE DEF h
  <2>7. Loop(h, loop, p, b, n)
    BY ONLY <1>2, <2>4, <2>5, <2>6, TurnsLoop
  <2>. QED
    BY <1>1, <2>7
<1>. QED
  BY <1>3, <1>4

\* Two loops whose first n turns are the same have the same first n values.
LEMMA LoopsAgree ==
  ASSUME NEW loop, NEW p, NEW q, NEW b, NEW n \in Nat, NEW m \in Nat, n <= m,
         NEW g, Loop(g, loop, p, b, n), NEW h, Loop(h, loop, q, b, m),
         \A a : \A i \in 1..n : Turn(loop, p, a, i) = Turn(loop, q, a, i)
  PROVE  g[n] = h[n]
<1>1. g[0] = b /\ \A i \in 1..n : g[i] = Turn(loop, p, g[i - 1], i)
  BY LoopTurns
<1>2. h[0] = b /\ \A i \in 1..m : h[i] = Turn(loop, q, h[i - 1], i)
  BY LoopTurns
<1>. DEFINE Bad == {i \in Nat : i <= n /\ g[i] # h[i]}
<1>3. ASSUME Bad # {} PROVE FALSE
  <2>1. PICK i \in Bad : \A j \in Bad : ~(j < i)
    BY <1>3, Least
  <2>2. i # 0 /\ i \in 1..n /\ i \in 1..m /\ i - 1 \in Nat /\ i - 1 <= n /\ i - 1 < i
    BY <1>1, <1>2, <2>1
  <2>3. g[i - 1] = h[i - 1]
    BY <2>1, <2>2
  <2>. QED
    BY <1>1, <1>2, <2>1, <2>2, <2>3
<1>. QED
  BY <1>3

\* The messages of a transaction.
LEMMA ExecAllLoop ==
  ASSUME NEW ms, NEW run, Len(ms) \in Nat
  PROVE  \E g : Loop(g, "messages", ms, run, Len(ms)) /\ ExecAll(ms, run) = g[Len(ms)]
<1>. DEFINE P(g) == g = [i \in 0..Len(ms) |-> IF i = 0 THEN run ELSE ExecMessage(g[i - 1], ms[i])]
            f == CHOOSE g : P(g)
<1>1. \E g : P(g)
  <2>1. PICK g : Loop(g, "messages", ms, run, Len(ms))
    BY LoopExists
  <2>2. P(g)
    BY <2>1 DEF Loop, Turn
  <2>. QED
    BY <2>2
<1>2. P(f)
  <2>. HIDE DEF P
  <2>. QED
    BY <1>1
<1>3. Loop(f, "messages", ms, run, Len(ms))
  <2>. HIDE DEF f
  <2>. QED
    BY <1>2 DEF Loop, Turn
<1>4. ExecAll(ms, run) = f[Len(ms)]
  BY DEF ExecAll
<1>. QED
  BY <1>3, <1>4

\* The transactions of a block, replayed.
LEMMA ReplayedLoop ==
  ASSUME NEW s, NEW b, Len(b.trxs) \in Nat
  PROVE  \E g : Loop(g, "trxs", b, s, Len(b.trxs)) /\ Replayed(s, b) = g[Len(b.trxs)]
<1>. DEFINE P(g) == g = [i \in 0..Len(b.trxs) |-> IF i = 0 THEN s ELSE Effect(b.trxs[i], b.by, g[i - 1]).s]
            f == CHOOSE g : P(g)
<1>1. \E g : P(g)
  <2>1. PICK g : Loop(g, "trxs", b, s, Len(b.trxs))
    BY LoopExists
  <2>2. P(g)
    BY <2>1 DEF Loop, Turn
  <2>. QED
    BY <2>2
<1>2. P(f)
  <2>. HIDE DEF P
  <2>. QED
    BY <1>1
<1>3. Loop(f, "trxs", b, s, Len(b.trxs))
  <2>. HIDE DEF f
  <2>. QED
    BY <1>2 DEF Loop, Turn
<1>4. Replayed(s, b) = f[Len(b.trxs)]
  BY DEF Replayed
<1>. QED
  BY <1>3, <1>4

\* The blocks of a chain, replayed.
LEMMA ReplayLoop ==
  ASSUME NEW bs, Len(bs) \in Nat
  PROVE  \E g : Loop(g, "replay", bs, Genesis, Len(bs)) /\ Replay(bs) = g[Len(bs)]
<1>. DEFINE P(g) == g = [i \in 0..Len(bs) |-> IF i = 0 THEN Genesis ELSE Replayed(g[i - 1], bs[i])]
            f == CHOOSE g : P(g)
<1>1. \E g : P(g)
  <2>1. PICK g : Loop(g, "replay", bs, Genesis, Len(bs))
    BY LoopExists
  <2>2. P(g)
    BY <2>1 DEF Loop, Turn
  <2>. QED
    BY <2>2
<1>2. P(f)
  <2>. HIDE DEF P
  <2>. QED
    BY <1>1
<1>3. Loop(f, "replay", bs, Genesis, Len(bs))
  <2>. HIDE DEF f
  <2>. QED
    BY <1>2 DEF Loop, Turn
<1>4. Replay(bs) = f[Len(bs)]
  BY DEF Replay
<1>. QED
  BY <1>3, <1>4

\* The transactions of blocks.
LEMMA ReceiptsLoop ==
  ASSUME NEW bs, Len(bs) \in Nat
  PROVE  \E g : Loop(g, "receipts", bs, <<>>, Len(bs)) /\ ReceiptsOf(bs) = g[Len(bs)]
<1>. DEFINE P(g) == g = [i \in 0..Len(bs) |-> IF i = 0 THEN <<>> ELSE g[i - 1] \o bs[i].trxs]
            f == CHOOSE g : P(g)
<1>1. \E g : P(g)
  <2>1. PICK g : Loop(g, "receipts", bs, <<>>, Len(bs))
    BY LoopExists
  <2>2. P(g)
    BY <2>1 DEF Loop, Turn
  <2>. QED
    BY <2>2
<1>2. P(f)
  <2>. HIDE DEF P
  <2>. QED
    BY <1>1
<1>3. Loop(f, "receipts", bs, <<>>, Len(bs))
  <2>. HIDE DEF f
  <2>. QED
    BY <1>2 DEF Loop, Turn
<1>4. ReceiptsOf(bs) = f[Len(bs)]
  BY DEF ReceiptsOf
<1>. QED
  BY <1>3, <1>4

\* The messages of transactions, counted.
LEMMA CountLoop ==
  ASSUME NEW ts, Len(ts) \in Nat
  PROVE  \E g : Loop(g, "count", ts, 0, Len(ts)) /\ MessagesOf(ts) = g[Len(ts)]
<1>. DEFINE P(g) == g = [i \in 0..Len(ts) |-> IF i = 0 THEN 0 ELSE g[i - 1] + Len(ts[i].msgs)]
            f == CHOOSE g : P(g)
<1>1. \E g : P(g)
  <2>1. PICK g : Loop(g, "count", ts, 0, Len(ts))
    BY LoopExists
  <2>2. P(g)
    BY <2>1 DEF Loop, Turn
  <2>. QED
    BY <2>2
<1>2. P(f)
  <2>. HIDE DEF P
  <2>. QED
    BY <1>1
<1>3. Loop(f, "count", ts, 0, Len(ts))
  <2>. HIDE DEF f
  <2>. QED
    BY <1>2 DEF Loop, Turn
<1>4. MessagesOf(ts) = f[Len(ts)]
  BY DEF MessagesOf
<1>. QED
  BY <1>3, <1>4

\* The messages of the genesis transaction.
LEMMA GenesisLoop ==
  ASSUME Len(Accounts) \in Nat
  PROVE  \E g : Loop(g, "genesis", Accounts, <<>>, Len(Accounts)) /\ GenesisMessages = g[Len(Accounts)]
<1>. DEFINE P(g) == g = [i \in 0..Len(Accounts) |-> IF i = 0 THEN <<>> ELSE g[i - 1] \o Allocation(Accounts[i])]
            f == CHOOSE g : P(g)
<1>1. \E g : P(g)
  <2>1. PICK g : Loop(g, "genesis", Accounts, <<>>, Len(Accounts))
    BY LoopExists
  <2>2. P(g)
    BY <2>1 DEF Loop, Turn
  <2>. QED
    BY <2>2
<1>2. P(f)
  <2>. HIDE DEF P
  <2>. QED
    BY <1>1
<1>3. Loop(f, "genesis", Accounts, <<>>, Len(Accounts))
  <2>. HIDE DEF f
  <2>. QED
    BY <1>2 DEF Loop, Turn
<1>4. GenesisMessages = f[Len(Accounts)]
  BY DEF GenesisMessages
<1>. QED
  BY <1>3, <1>4

\* A block that is built from what Aborted leaves.
Started(d, open, by) ==
  [db |-> StartSession(Aborted(d, open)), build |-> [by |-> by, trxs |-> <<>>]]

\* The transactions of a block that is built.
LEMMA BuiltLoop ==
  ASSUME NEW d, NEW open, NEW by, NEW ts, NEW height, Len(ts) \in Nat
  PROVE  \E g : Loop(g, "built", <<ts, height>>, Started(d, open, by), Len(ts)) /\ Built(d, open, by, ts, height) = g[Len(ts)]
<1>. DEFINE P(g) == g = [i \in 0..Len(ts) |-> IF i = 0 THEN Started(d, open, by) ELSE ApplyTrx(ts[i], g[i - 1], height)]
            f == CHOOSE g : P(g)
<1>1. \E g : P(g)
  <2>1. PICK g : Loop(g, "built", <<ts, height>>, Started(d, open, by), Len(ts))
    BY LoopExists
  <2>2. P(g)
    BY <2>1 DEF Loop, Turn
  <2>. QED
    BY <2>2
<1>2. P(f)
  <2>. HIDE DEF P
  <2>. QED
    BY <1>1
<1>3. Loop(f, "built", <<ts, height>>, Started(d, open, by), Len(ts))
  <2>. HIDE DEF f
  <2>. QED
    BY <1>2 DEF Loop, Turn
<1>4. Built(d, open, by, ts, height) = f[Len(ts)]
  BY DEF Built, Started
<1>. QED
  BY <1>3, <1>4

\* The recipients of a message.
LEMMA NotifyLoop ==
  ASSUME NEW m, NEW r, NEW run, r = Recipients(m, run.s), Len(r) \in Nat,
         run.ok, run.s.acct[m.code] # "contract"
  PROVE  \E g : Loop(g, "notify", <<m, r>>, run, Len(r)) /\ NotifyAll(m, run) = g[Len(r)]
<1>. DEFINE P(g) == g = [i \in 0..Len(r) |-> IF i = 0 THEN run ELSE NotifyOne(m, r, g[i - 1], i)]
            f == CHOOSE g : P(g)
<1>1. \E g : P(g)
  <2>1. PICK g : Loop(g, "notify", <<m, r>>, run, Len(r))
    BY LoopExists
  <2>2. P(g)
    BY <2>1 DEF Loop, Turn
  <2>. QED
    BY <2>2
<1>2. P(f)
  <2>. HIDE DEF P
  <2>. QED
    BY <1>1
<1>3. Loop(f, "notify", <<m, r>>, run, Len(r))
  <2>. HIDE DEF f
  <2>. QED
    BY <1>2 DEF Loop, Turn
<1>4. NotifyAll(m, run) = f[Len(r)]
  BY DEF NotifyAll
<1>. QED
  BY <1>3, <1>4

\* The blocks of the chain, and what is open.
Blocks == [by : Builders \cup {"none"}, trxs : Seq(Trxs)]

\* A loop over nothing, and over one thing more.
LEMMA ReplayEmpty == Replay(<<>>) = Genesis
<1>1. Len(<<>>) = 0 /\ 0 \in Nat
  OBVIOUS
<1>2. PICK g : Loop(g, "replay", <<>>, Genesis, 0) /\ Replay(<<>>) = g[0]
  BY <1>1, ReplayLoop
<1>. QED
  BY <1>1, <1>2, LoopTurns

LEMMA ReplayAppend ==
  ASSUME NEW bs \in Seq(Blocks), NEW b \in Blocks
  PROVE  Replay(Append(bs, b)) = Replayed(Replay(bs), b)
<1>. DEFINE n == Len(bs)
            cs == Append(bs, b)
<1>1. n \in Nat /\ n + 1 \in Nat /\ Len(cs) = n + 1 /\ cs[n + 1] = b /\ n + 1 \in 1..(n + 1)
      /\ n <= n + 1 /\ (n + 1) - 1 = n
  OBVIOUS
<1>2. \A i \in 1..n : cs[i] = bs[i]
  OBVIOUS
<1>. HIDE DEF cs
<1>3. PICK g : Loop(g, "replay", bs, Genesis, n) /\ Replay(bs) = g[n]
  BY <1>1, ReplayLoop
<1>4. PICK h : Loop(h, "replay", cs, Genesis, n + 1) /\ Replay(cs) = h[n + 1]
  BY <1>1, ReplayLoop
<1>. HIDE DEF n
<1>5. g[n] = h[n]
  <2>1. \A a : \A i \in 1..n : Turn("replay", bs, a, i) = Turn("replay", cs, a, i)
    BY <1>2 DEF Turn
  <2>. QED
    BY ONLY <1>1, <1>3, <1>4, <2>1, LoopsAgree
<1>6. h[n + 1] = Turn("replay", cs, h[n], n + 1)
  <2>1. \A i \in 1..(n + 1) : h[i] = Turn("replay", cs, h[i - 1], i)
    BY ONLY <1>1, <1>4, LoopTurns
  <2>. QED
    BY <1>1, <2>1
<1>. QED
  BY <1>1, <1>3, <1>4, <1>5, <1>6 DEF Turn, cs

LEMMA ReceiptsEmpty == ReceiptsOf(<<>>) = <<>>
<1>1. Len(<<>>) = 0 /\ 0 \in Nat
  OBVIOUS
<1>2. PICK g : Loop(g, "receipts", <<>>, <<>>, 0) /\ ReceiptsOf(<<>>) = g[0]
  BY <1>1, ReceiptsLoop
<1>. QED
  BY <1>1, <1>2, LoopTurns

LEMMA ReceiptsAppend ==
  ASSUME NEW bs \in Seq(Blocks), NEW b \in Blocks
  PROVE  ReceiptsOf(Append(bs, b)) = ReceiptsOf(bs) \o b.trxs
<1>. DEFINE n == Len(bs)
            cs == Append(bs, b)
<1>1. n \in Nat /\ n + 1 \in Nat /\ Len(cs) = n + 1 /\ cs[n + 1] = b /\ n + 1 \in 1..(n + 1)
      /\ n <= n + 1 /\ (n + 1) - 1 = n
  OBVIOUS
<1>2. \A i \in 1..n : cs[i] = bs[i]
  OBVIOUS
<1>. HIDE DEF cs
<1>3. PICK g : Loop(g, "receipts", bs, <<>>, n) /\ ReceiptsOf(bs) = g[n]
  BY <1>1, ReceiptsLoop
<1>4. PICK h : Loop(h, "receipts", cs, <<>>, n + 1) /\ ReceiptsOf(cs) = h[n + 1]
  BY <1>1, ReceiptsLoop
<1>. HIDE DEF n
<1>5. g[n] = h[n]
  <2>1. \A a : \A i \in 1..n : Turn("receipts", bs, a, i) = Turn("receipts", cs, a, i)
    BY <1>2 DEF Turn
  <2>. QED
    BY ONLY <1>1, <1>3, <1>4, <2>1, LoopsAgree
<1>6. h[n + 1] = Turn("receipts", cs, h[n], n + 1)
  <2>1. \A i \in 1..(n + 1) : h[i] = Turn("receipts", cs, h[i - 1], i)
    BY ONLY <1>1, <1>4, LoopTurns
  <2>. QED
    BY <1>1, <2>1
<1>. QED
  BY <1>1, <1>3, <1>4, <1>5, <1>6 DEF Turn, cs

LEMMA ReplayedEmpty ==
  ASSUME NEW s, NEW b, b.trxs = <<>>
  PROVE  Replayed(s, b) = s
<1>1. Len(b.trxs) = 0 /\ 0 \in Nat
  OBVIOUS
<1>2. PICK g : Loop(g, "trxs", b, s, 0) /\ Replayed(s, b) = g[0]
  BY <1>1, ReplayedLoop
<1>. QED
  BY <1>1, <1>2, LoopTurns

LEMMA ReplayedAppend ==
  ASSUME NEW s, NEW t \in Trxs,
         NEW b, b.trxs \in Seq(Trxs), NEW c, c.by = b.by, c.trxs = Append(b.trxs, t)
  PROVE  Replayed(s, c) = Effect(t, b.by, Replayed(s, b)).s
<1>. DEFINE n == Len(b.trxs)
<1>1. /\ n \in Nat /\ n + 1 \in Nat /\ Len(c.trxs) = n + 1 /\ Len(b.trxs) = n
      /\ c.trxs[n + 1] = t /\ n + 1 \in 1..(n + 1) /\ n <= n + 1 /\ (n + 1) - 1 = n
  OBVIOUS
<1>2. \A i \in 1..n : c.trxs[i] = b.trxs[i]
  OBVIOUS
<1>3. PICK g : Loop(g, "trxs", b, s, n) /\ Replayed(s, b) = g[n]
  BY <1>1, ReplayedLoop
<1>4. PICK h : Loop(h, "trxs", c, s, n + 1) /\ Replayed(s, c) = h[n + 1]
  BY <1>1, ReplayedLoop
<1>. HIDE DEF n
<1>5. g[n] = h[n]
  <2>1. \A a : \A i \in 1..n : Turn("trxs", b, a, i) = Turn("trxs", c, a, i)
    BY <1>2 DEF Turn
  <2>. QED
    BY ONLY <1>1, <1>3, <1>4, <2>1, LoopsAgree
<1>6. h[n + 1] = Turn("trxs", c, h[n], n + 1)
  <2>1. \A i \in 1..(n + 1) : h[i] = Turn("trxs", c, h[i - 1], i)
    BY ONLY <1>1, <1>4, LoopTurns
  <2>. QED
    BY <1>1, <2>1
<1>. QED
  BY <1>1, <1>3, <1>4, <1>5, <1>6 DEF Turn


-----------------------------------------------------------------------------
(* Sums over finite sets.                                                  *)

\* Among subsets of a finite set one is smallest.
LEMMA Smallest ==
  ASSUME NEW S, IsFiniteSet(S), NEW B, B \subseteq SUBSET S, B # {}
  PROVE  \E T \in B : \A U \in B : U \subseteq T => U = T
<1>1. IsWellFoundedOn(StrictSubsetOrdering(S), FiniteSubsetsOf(S))
  BY FS_StrictSubsetOrderingWellFounded
<1>2. FiniteSubsetsOf(S) = SUBSET S
  BY FS_FiniteSubsetsOfFinite
<1>3. IsWellFoundedOn(StrictSubsetOrdering(S), SUBSET S)
  BY <1>1, <1>2
<1>4. \E T \in B : \A U \in B : ~(<<U, T>> \in StrictSubsetOrdering(S))
  BY <1>3, WFMin, Zenon
<1>5. \A T, U \in B : U \subseteq T /\ U # T => <<U, T>> \in StrictSubsetOrdering(S)
  BY DEF StrictSubsetOrdering
<1>. QED
  BY <1>4, <1>5

\* The element that a sum takes first.
Pick(s) == CHOOSE x \in s : TRUE

\* g has the sums of f over the subsets of S.
Sums(g, f, S) ==
  g = [s \in SUBSET S |-> IF s = {} THEN 0 ELSE f[Pick(s)] + g[s \ {Pick(s)}]]

LEMMA SumsAre ==
  ASSUME NEW g, NEW f, NEW S, Sums(g, f, S)
  PROVE  /\ g[{}] = 0
         /\ \A s \in SUBSET S : s # {} => g[s] = f[Pick(s)] + g[s \ {Pick(s)}]
<1>1. g = [s \in SUBSET S |-> IF s = {} THEN 0 ELSE f[Pick(s)] + g[s \ {Pick(s)}]]
  BY DEF Sums
<1>2. \A s \in SUBSET S : g[s] = IF s = {} THEN 0 ELSE f[Pick(s)] + g[s \ {Pick(s)}]
  BY <1>1, Zenon
<1>. QED
  BY <1>2

LEMMA AreSums ==
  ASSUME NEW g, NEW f, NEW S, NEW e, g = [s \in SUBSET S |-> e[s]], g[{}] = 0,
         \A s \in SUBSET S : s # {} => g[s] = f[Pick(s)] + g[s \ {Pick(s)}]
  PROVE  Sums(g, f, S)
<1>. DEFINE h == [s \in SUBSET S |-> IF s = {} THEN 0 ELSE f[Pick(s)] + g[s \ {Pick(s)}]]
<1>1. ASSUME NEW s \in SUBSET S PROVE e[s] = h[s]
  <2>1. e[s] = g[s]
    OBVIOUS
  <2>2. h[s] = IF s = {} THEN 0 ELSE f[Pick(s)] + g[s \ {Pick(s)}]
    OBVIOUS
  <2>. HIDE DEF h
  <2>3. CASE s = {}
    BY <2>1, <2>2, <2>3
  <2>4. CASE s # {}
    BY <2>1, <2>2, <2>4
  <2>. QED
    BY <2>3, <2>4
<1>2. [s \in SUBSET S |-> e[s]] = h
  BY <1>1
<1>. QED
  BY <1>2 DEF Sums

LEMMA PickIn == ASSUME NEW s, s # {} PROVE Pick(s) \in s
BY DEF Pick

\* Sums over the subsets of two sets agree on what both have.
LEMMA SumsAgree ==
  ASSUME NEW f, NEW S, NEW T, NEW g, Sums(g, f, S), NEW h, Sums(h, f, T),
         NEW V, IsFiniteSet(V), V \subseteq S, V \subseteq T
  PROVE  g[V] = h[V]
<1>. DEFINE Bad == {U \in SUBSET V : g[U] # h[U]}
<1>1. ASSUME Bad # {} PROVE FALSE
  <2>0. Bad \subseteq SUBSET V
    OBVIOUS
  <2>1. PICK U \in Bad : \A W \in Bad : W \subseteq U => W = U
    <3>. HIDE DEF Bad
    <3>. QED
      BY <1>1, <2>0, Smallest
  <2>2. U # {}
    BY <2>1, SumsAre
  <2>3. Pick(U) \in U
    BY <2>2, PickIn
  <2>4. U \ {Pick(U)} \in SUBSET V /\ U \ {Pick(U)} # U /\ U \ {Pick(U)} \subseteq U
    BY <2>1, <2>3
  <2>5. g[U \ {Pick(U)}] = h[U \ {Pick(U)}]
    BY <2>1, <2>4
  <2>6. U \in SUBSET S /\ U \in SUBSET T
    BY <2>1
  <2>7. g[U] = f[Pick(U)] + g[U \ {Pick(U)}]
    BY <2>2, <2>6, SumsAre, ZenonT(60)
  <2>8. h[U] = f[Pick(U)] + h[U \ {Pick(U)}]
    BY <2>2, <2>6, SumsAre, ZenonT(60)
  <2>. QED
    BY <2>1, <2>5, <2>7, <2>8
<1>. QED
  BY <1>1

\* There are sums over the subsets of every finite set.
LEMMA SumsExist ==
  ASSUME NEW f, NEW S, IsFiniteSet(S)
  PROVE  \E g : Sums(g, f, S)
<1>. DEFINE Bad == {T \in SUBSET S : ~\E g : Sums(g, f, T)}
<1>. SUFFICES ASSUME Bad # {} PROVE FALSE
  OBVIOUS
<1>0. Bad \subseteq SUBSET S
  OBVIOUS
<1>1. PICK T \in Bad : \A U \in Bad : U \subseteq T => U = T
  <2>. HIDE DEF Bad
  <2>. QED
    BY <1>0, Smallest
<1>. DEFINE G(U) == CHOOSE g : Sums(g, f, U)
<1>2. ASSUME NEW U, U \subseteq T, U # T PROVE Sums(G(U), f, U) /\ IsFiniteSet(U)
  <2>1. \E g : Sums(g, f, U)
    BY <1>1, <1>2
  <2>2. IsFiniteSet(U)
    BY <1>1, <1>2, FS_Subset
  <2>. QED
    BY <2>1, <2>2
<1>. DEFINE h == [s \in SUBSET T |-> IF s = {} THEN 0
                                    ELSE f[Pick(s)] + G(s \ {Pick(s)})[s \ {Pick(s)}]]
<1>3. \A s \in SUBSET T : h[s] = IF s = {} THEN 0
                                 ELSE f[Pick(s)] + G(s \ {Pick(s)})[s \ {Pick(s)}]
  OBVIOUS
<1>4. h = [s \in SUBSET T |-> h[s]]
  OBVIOUS
<1>. HIDE DEF h, G
<1>5. ASSUME NEW u, u \subseteq T, u # T PROVE h[u] = G(u)[u]
  <2>1. Sums(G(u), f, u) /\ IsFiniteSet(u)
    BY <1>2, <1>5
  <2>2. CASE u = {}
    <3>1. G(u)[u] = 0
      BY <2>1, <2>2, SumsAre
    <3>. QED
      BY <1>3, <2>2, <3>1
  <2>3. CASE u # {}
    <3>. DEFINE v == u \ {Pick(u)}
    <3>1. v \subseteq u /\ v \subseteq T /\ v # T
      BY <1>5, <2>3, PickIn
    <3>2. Sums(G(v), f, v) /\ IsFiniteSet(v)
      BY <1>2, <3>1
    <3>3. G(u)[v] = G(v)[v]
      BY <2>1, <3>1, <3>2, SumsAgree
    <3>4. G(u)[u] = f[Pick(u)] + G(u)[v]
      BY <2>1, <2>3, SumsAre
    <3>5. h[u] = f[Pick(u)] + G(v)[v]
      BY <1>3, <1>5, <2>3
    <3>. QED
      BY <3>3, <3>4, <3>5
  <2>. QED
    BY <2>2, <2>3
<1>6. h[{}] = 0
  BY <1>3
<1>7. ASSUME NEW s \in SUBSET T, s # {} PROVE h[s] = f[Pick(s)] + h[s \ {Pick(s)}]
  <2>1. s \ {Pick(s)} \subseteq T /\ s \ {Pick(s)} # T
    BY <1>7, PickIn
  <2>2. h[s] = f[Pick(s)] + G(s \ {Pick(s)})[s \ {Pick(s)}]
    BY <1>3, <1>7
  <2>. QED
    BY <1>5, <2>1, <2>2
<1>8. Sums(h, f, T)
  BY ONLY <1>4, <1>6, <1>7, AreSums
<1>. QED
  BY <1>1, <1>8

Sum(f, S) == SumFunctionOnSet(f, S)

LEMMA SumIs ==
  ASSUME NEW f, NEW S, IsFiniteSet(S)
  PROVE  \E g : Sums(g, f, S) /\ Sum(f, S) = g[S]
<1>. DEFINE P(g) == g = [s \in SUBSET S |->
                           IF s = {} THEN 0 ELSE f[CHOOSE x \in s : TRUE]
                                                 + g[s \ {CHOOSE x \in s : TRUE}]]
            h == CHOOSE g : P(g)
<1>1. \E g : P(g)
  <2>1. PICK g : Sums(g, f, S)
    BY SumsExist
  <2>2. P(g)
    BY <2>1 DEF Sums, Pick
  <2>. QED
    BY <2>2
<1>2. P(h)
  <2>. HIDE DEF P
  <2>. QED
    BY <1>1
<1>3. Sums(h, f, S)
  <2>. HIDE DEF h
  <2>. QED
    BY <1>2 DEF Sums, Pick
<1>4. Sum(f, S) = h[S]
  BY DEF Sum, SumFunctionOnSet, FoldFunctionOnSet, MapThenFoldSet
<1>. QED
  BY <1>3, <1>4

\* The equation of a sum.
LEMMA SumPick ==
  ASSUME NEW f, NEW S, IsFiniteSet(S)
  PROVE  /\ S = {} => Sum(f, S) = 0
         /\ S # {} => Sum(f, S) = f[Pick(S)] + Sum(f, S \ {Pick(S)})
<1>1. PICK g : Sums(g, f, S) /\ Sum(f, S) = g[S]
  BY SumIs
<1>2. S = {} => Sum(f, S) = 0
  BY <1>1, SumsAre
<1>3. ASSUME S # {} PROVE Sum(f, S) = f[Pick(S)] + Sum(f, S \ {Pick(S)})
  <2>. DEFINE T == S \ {Pick(S)}
  <2>1. IsFiniteSet(T) /\ T \subseteq S
    BY FS_Difference
  <2>. HIDE DEF T
  <2>2. PICK h : Sums(h, f, T) /\ Sum(f, T) = h[T]
    BY <2>1, SumIs
  <2>3. g[T] = h[T]
    BY <1>1, <2>1, <2>2, SumsAgree
  <2>4. g[S] = f[Pick(S)] + g[T]
    BY <1>1, <1>3, SumsAre DEF T
  <2>. QED
    BY <1>1, <2>2, <2>3, <2>4 DEF T
<1>. QED
  BY <1>2, <1>3

LEMMA SumInt ==
  ASSUME NEW f, NEW S, IsFiniteSet(S), \A x \in S : f[x] \in Int
  PROVE  Sum(f, S) \in Int
<1>. DEFINE Bad == {T \in SUBSET S : Sum(f, T) \notin Int}
<1>0. Bad \subseteq SUBSET S
  OBVIOUS
<1>1. ASSUME Bad # {} PROVE FALSE
  <2>1. PICK T \in Bad : \A U \in Bad : U \subseteq T => U = T
    <3>. HIDE DEF Bad
    <3>. QED
      BY <1>0, <1>1, Smallest
  <2>2. IsFiniteSet(T) /\ T \subseteq S
    BY <2>1, FS_Subset
  <2>3. T # {}
    <3>1. T = {} => Sum(f, T) = 0
      BY <2>2, SumPick
    <3>2. Sum(f, T) \notin Int
      BY <2>1
    <3>. QED
      BY <3>1, <3>2
  <2>4. Pick(T) \in T
    BY <2>3, PickIn
  <2>5. Sum(f, T \ {Pick(T)}) \in Int
    BY <2>1, <2>2, <2>4
  <2>6. Sum(f, T) = f[Pick(T)] + Sum(f, T \ {Pick(T)})
    BY <2>2, <2>3, SumPick
  <2>. QED
    BY <2>1, <2>2, <2>4, <2>5, <2>6
<1>. QED
  BY <1>1

\* Any element may be taken first.
LEMMA SumTake ==
  ASSUME NEW f, NEW S, IsFiniteSet(S), \A y \in S : f[y] \in Int, NEW x \in S
  PROVE  Sum(f, S) = f[x] + Sum(f, S \ {x})
<1>. DEFINE Bad == {T \in SUBSET S : \E y \in T : Sum(f, T) # f[y] + Sum(f, T \ {y})}
<1>0. Bad \subseteq SUBSET S
  OBVIOUS
<1>1. ASSUME Bad # {} PROVE FALSE
  <2>1. PICK T \in Bad : \A U \in Bad : U \subseteq T => U = T
    <3>. HIDE DEF Bad
    <3>. QED
      BY <1>0, <1>1, Smallest
  <2>2. IsFiniteSet(T) /\ T \subseteq S
    BY <2>1, FS_Subset
  <2>3. PICK y \in T : Sum(f, T) # f[y] + Sum(f, T \ {y})
    BY <2>1
  <2>. DEFINE z == Pick(T)
              U == T \ {y}
              V == T \ {z}
  <2>4. z \in T
    BY <2>3, PickIn
  <2>5. Sum(f, T) = f[z] + Sum(f, V)
    BY <2>2, <2>3, SumPick
  <2>6. y # z
    BY <2>3, <2>5
  <2>7. /\ U \in SUBSET S /\ V \in SUBSET S /\ U \subseteq T /\ V \subseteq T
        /\ U # T /\ V # T /\ z \in U /\ y \in V /\ U \ {z} = V \ {y}
    BY <2>2, <2>3, <2>4, <2>6
  <2>8. U \notin Bad /\ V \notin Bad
    <3>. HIDE DEF Bad, U, V
    <3>. QED
      BY <2>1, <2>7
  <2>9. IsFiniteSet(V \ {y})
    BY <2>2, <2>7, FS_Subset
  <2>. HIDE DEF z, U, V
  <2>10. Sum(f, U) = f[z] + Sum(f, U \ {z})
    BY <2>7, <2>8
  <2>11. Sum(f, V) = f[y] + Sum(f, V \ {y})
    BY <2>7, <2>8
  <2>12. Sum(f, V \ {y}) \in Int
    BY <2>7, <2>9, SumInt
  <2>13. f[y] \in Int /\ f[z] \in Int
    BY <2>2, <2>3, <2>4
  <2>. QED
    <3>1. U \ {z} = V \ {y}
      BY <2>7
    <3>2. Sum(f, T) # f[y] + Sum(f, U)
      BY <2>3 DEF U
    <3>3. Sum(f, U) = f[z] + Sum(f, V \ {y})
      BY <2>10, <3>1
    <3>. QED
      BY <2>5, <2>11, <2>12, <2>13, <3>2, <3>3
<1>. QED
  BY <1>1

LEMMA SumSame ==
  ASSUME NEW f, NEW g, NEW S, IsFiniteSet(S), \A x \in S : f[x] = g[x]
  PROVE  Sum(f, S) = Sum(g, S)
<1>. DEFINE Bad == {T \in SUBSET S : Sum(f, T) # Sum(g, T)}
<1>0. Bad \subseteq SUBSET S
  OBVIOUS
<1>1. ASSUME Bad # {} PROVE FALSE
  <2>1. PICK T \in Bad : \A U \in Bad : U \subseteq T => U = T
    <3>. HIDE DEF Bad
    <3>. QED
      BY <1>0, <1>1, Smallest
  <2>2. IsFiniteSet(T) /\ T \subseteq S
    BY <2>1, FS_Subset
  <2>3. T # {}
    BY <2>1, <2>2, SumPick
  <2>4. Pick(T) \in T
    BY <2>3, PickIn
  <2>5. Sum(f, T \ {Pick(T)}) = Sum(g, T \ {Pick(T)})
    BY <2>1, <2>2, <2>4
  <2>6. Sum(f, T) = f[Pick(T)] + Sum(f, T \ {Pick(T)})
    BY <2>2, <2>3, SumPick
  <2>7. Sum(g, T) = g[Pick(T)] + Sum(g, T \ {Pick(T)})
    BY <2>2, <2>3, SumPick
  <2>. QED
    BY <2>1, <2>2, <2>4, <2>5, <2>6, <2>7
<1>. QED
  BY <1>1

\* A sum after one value changed, and with one element more.
LEMMA SumChange ==
  ASSUME NEW f, NEW g, NEW S, IsFiniteSet(S), NEW x \in S,
         \A y \in S : f[y] \in Int, g[x] \in Int, \A y \in S : y # x => g[y] = f[y]
  PROVE  Sum(g, S) = Sum(f, S) - f[x] + g[x] /\ Sum(g, S) \in Int
<1>. DEFINE T == S \ {x}
<1>1. IsFiniteSet(T) /\ T \subseteq S /\ x \notin T
  BY FS_Difference
<1>2. \A y \in S : g[y] \in Int
  OBVIOUS
<1>3. Sum(f, S) = f[x] + Sum(f, T)
  BY SumTake
<1>4. Sum(g, S) = g[x] + Sum(g, T)
  BY <1>2, SumTake
<1>. HIDE DEF T
<1>5. Sum(f, T) = Sum(g, T)
  BY <1>1, SumSame
<1>6. Sum(f, T) \in Int
  BY <1>1, SumInt
<1>. QED
  BY <1>3, <1>4, <1>5, <1>6

LEMMA SumMore ==
  ASSUME NEW f, NEW g, NEW S, IsFiniteSet(S), NEW x, x \notin S,
         \A y \in S : f[y] \in Int, g[x] \in Int, \A y \in S : g[y] = f[y]
  PROVE  Sum(g, S \cup {x}) = Sum(f, S) + g[x] /\ IsFiniteSet(S \cup {x})
<1>. DEFINE T == S \cup {x}
<1>1. IsFiniteSet(T) /\ x \in T
  BY FS_AddElement
<1>2. T \ {x} = S /\ \A y \in T : g[y] \in Int
  OBVIOUS
<1>. HIDE DEF T
<1>3. Sum(g, T) = g[x] + Sum(g, S)
  BY <1>1, <1>2, SumTake
<1>4. Sum(f, S) = Sum(g, S)
  BY SumSame
<1>5. Sum(f, S) \in Int
  BY SumInt
<1>. QED
  BY <1>1, <1>3, <1>4, <1>5 DEF T

-----------------------------------------------------------------------------
(* The arithmetic of share_type.                                           *)

Span == 2 * ShareHalf

\* x and y are the same to a share_type.
Congruent(x, y) == \E q \in Int : x = y + q * Span

LEMMA SpanIs == Span \in Nat \ {0}
BY TokensAssumption DEF Span

LEMMA ShareTypeIs == ShareType \subseteq Int /\ 0 \in ShareType
BY TokensAssumption DEF ShareType

LEMMA AmountInt == ASSUME NEW m, AmountOK(m) PROVE m.amount \in Int
<1>1. CASE m.type \in {"addaccount", "adderc20", "mint", "transferfrom"}
  BY <1>1, ShareTypeIs DEF AmountOK
<1>2. CASE m.type \notin {"addaccount", "adderc20", "mint", "transferfrom"}
  BY <1>2 DEF AmountOK
<1>. QED
  BY <1>1, <1>2

LEMMA WrapIs ==
  ASSUME NEW v \in Int
  PROVE  Wrap(v) \in ShareType /\ Wrap(v) \in Int /\ \E q \in Int : Wrap(v) = v + q * Span
<1>. DEFINE n == Span
            u == v + ShareHalf
            q == u \div n
            r == u % n
<1>1. n \in Nat \ {0} /\ ShareHalf \in Nat /\ n = 2 * ShareHalf /\ u \in Int
  BY TokensAssumption DEF Span
<1>2. Wrap(v) = r - ShareHalf
  BY DEF Wrap, Span
<1>. HIDE DEF n, u
<1>3. u = n * q + r /\ q \in Int /\ r \in 0..(n - 1)
  BY <1>1
<1>. HIDE DEF q, r
<1>4. Wrap(v) \in ShareType /\ Wrap(v) \in Int
  BY <1>1, <1>2, <1>3 DEF ShareType
<1>5. Wrap(v) = v + (-q) * n /\ -q \in Int
  BY <1>1, <1>2, <1>3 DEF u
<1>. QED
  BY <1>4, <1>5 DEF n

LEMMA CongruentMod ==
  ASSUME NEW x \in Int, NEW y \in Int, Congruent(x, y)
  PROVE  (x - y) % (2 * ShareHalf) = 0
<1>. DEFINE n == Span
            d == (x - y) \div n
            r == (x - y) % n
<1>1. n \in Nat \ {0} /\ n = 2 * ShareHalf
  BY SpanIs DEF Span
<1>2. PICK q \in Int : x = y + q * n
  BY DEF Congruent
<1>. HIDE DEF n
<1>3. x - y = n * d + r /\ d \in Int /\ r \in 0..(n - 1)
  BY <1>1
<1>4. r = (x - y) % (2 * ShareHalf)
  BY <1>1
<1>. HIDE DEF d, r
<1>5. n * (q - d) = r /\ q - d \in Int
  <2>1. q * n \in Int /\ n * d \in Int /\ n * (q - d) = q * n - n * d
    BY <1>1, <1>3
  <2>2. x - y = q * n
    BY <1>2, <2>1
  <2>. QED
    BY <1>3, <2>1, <2>2
<1>6. \A m \in Int : n * m = r => m = 0
  BY <1>1, <1>3
<1>7. q - d = 0
  BY <1>5, <1>6
<1>8. r = 0
  BY <1>1, <1>3, <1>5, <1>7
<1>. QED
  BY <1>4, <1>8

\* Numbers that differ by multiples of Span.
LEMMA CongruentBy ==
  ASSUME NEW x \in Int, NEW y \in Int, NEW z \in Int, Congruent(x, y),
         NEW q \in Int, z = y + q * Span
  PROVE  Congruent(x, z)
<1>. DEFINE n == Span
<1>1. n \in Int
  BY SpanIs
<1>2. PICK p \in Int : x = y + p * n
  BY DEF Congruent
<1>3. z = y + q * n
  OBVIOUS
<1>. HIDE DEF n
<1>4. x = z + (p - q) * n /\ p - q \in Int
  BY <1>1, <1>2, <1>3
<1>. QED
  BY <1>4 DEF Congruent, n

-----------------------------------------------------------------------------
(* Contents of the database in which no token was made or lost.            *)

Fields == {"acct", "main", "erc", "hold", "nft", "data", "msgs", "done", "trxs"}
AccountTypes == {"system", "personal", "contract", "erc20", "erc721"}

\* What finitely many owners have of main tokens and of erc20 tokens.
Values(f, V) == IsFiniteSet(DOMAIN f) /\ \A x \in DOMAIN f : f[x] \in V
Amounts(f) == Values(f, Nat)
Shares(f) == Values(f, ShareType)

AcctOK(acct) == \A a \in DOMAIN acct : acct[a] \in AccountTypes

MainOK(acct, main) ==
  DOMAIN main \subseteq DOMAIN acct /\ Amounts(main) /\ Sum(main, DOMAIN main) = Supply

\* The balances of token k.
Of(hold, k) == {h \in DOMAIN hold : h[1] = k}

ErcFields == {"std", "owner", "supply", "stopmint", "revoked"}

Matches(erc, hold, k) ==
  /\ DOMAIN erc[k] = ErcFields
  /\ erc[k].std = "erc20" => /\ erc[k].supply \in Int
                             /\ Congruent(erc[k].supply, Sum(hold, Of(hold, k)))

ErcOK(acct, erc, hold) ==
  /\ DOMAIN erc \subseteq DOMAIN acct /\ Shares(hold)
  /\ \A h \in DOMAIN hold : h[1] \in DOMAIN erc
  /\ \A k \in DOMAIN erc : Matches(erc, hold, k)

Sound(s) ==
  DOMAIN s = Fields /\ AcctOK(s.acct) /\ MainOK(s.acct, s.main) /\ ErcOK(s.acct, s.erc, s.hold)

\* f with v at a.
IsExcept(g, f, a, v) ==
  DOMAIN g = DOMAIN f /\ g[a] = v /\ \A y \in DOMAIN f : y # a => g[y] = f[y]

\* An amount v moves from one owner to another, or to the same.
LEMMA MoveKeeps ==
  ASSUME NEW f, Amounts(f), NEW a \in DOMAIN f, NEW b \in DOMAIN f, NEW v \in Nat, v <= f[a],
         NEW e, IsExcept(e, f, a, f[a] - v), NEW g, IsExcept(g, e, b, e[b] + v),
         NEW S, S \subseteq DOMAIN f, a \in S, b \in S
  PROVE  DOMAIN g = DOMAIN f /\ Amounts(g) /\ Sum(g, S) = Sum(f, S)
<1>1. /\ DOMAIN e = DOMAIN f /\ e[a] = f[a] - v /\ \A y \in DOMAIN f : y # a => e[y] = f[y]
  BY DEF IsExcept
<1>2. \A y \in DOMAIN f : f[y] \in Nat
  BY DEF Amounts, Values
<1>3. \A y \in DOMAIN f : e[y] \in Nat
  BY <1>1, <1>2
<1>4. /\ DOMAIN g = DOMAIN f /\ g[b] = e[b] + v /\ \A y \in DOMAIN f : y # b => g[y] = e[y]
  BY <1>1 DEF IsExcept
<1>5. \A y \in DOMAIN f : g[y] \in Nat
  BY <1>3, <1>4
<1>6. IsFiniteSet(DOMAIN f) /\ IsFiniteSet(S)
  BY FS_Subset DEF Amounts, Values
<1>7. \A y \in S : f[y] \in Int /\ e[y] \in Int /\ g[y] \in Int
  BY <1>2, <1>3, <1>5
<1>8. Sum(e, S) = Sum(f, S) - f[a] + e[a]
  <2>1. a \in S /\ e[a] \in Int /\ \A y \in S : f[y] \in Int
    BY <1>7
  <2>2. \A y \in S : y # a => e[y] = f[y]
    BY <1>1
  <2>. QED
    BY ONLY <1>6, <2>1, <2>2, SumChange
<1>9. Sum(g, S) = Sum(e, S) - e[b] + g[b]
  <2>1. b \in S /\ g[b] \in Int /\ \A y \in S : e[y] \in Int
    BY <1>7
  <2>2. \A y \in S : y # b => g[y] = e[y]
    BY <1>4
  <2>. QED
    BY ONLY <1>6, <2>1, <2>2, SumChange
<1>10. Sum(f, S) \in Int
  BY <1>6, <1>7, SumInt
<1>11. f[a] \in Int /\ e[b] \in Int
  BY <1>7
<1>12. Amounts(g)
  BY <1>4, <1>5, <1>6 DEF Amounts, Values
<1>. QED
  BY <1>1, <1>4, <1>8, <1>9, <1>10, <1>11, <1>12

\* f with an owner x more.
IsAdded(g, f, x, v) ==
  /\ DOMAIN g = DOMAIN f \cup {x} /\ g[x] = v
  /\ \A y \in DOMAIN f : g[y] = f[y]
  /\ \A S : S \subseteq DOMAIN f => Sum(g, S) = Sum(f, S) /\ Sum(g, S \cup {x}) = Sum(f, S) + v

LEMMA Added ==
  ASSUME NEW V, V \subseteq Int, NEW f, Values(f, V), NEW x, x \notin DOMAIN f, NEW v \in V,
         NEW g, g = With(f, x, v)
  PROVE  IsAdded(g, f, x, v) /\ Values(g, V)
<1>1. /\ DOMAIN g = DOMAIN f \cup {x} /\ g[x] = v /\ \A y \in DOMAIN f : g[y] = f[y]
  BY DEF With
<1>2. IsFiniteSet(DOMAIN g) /\ IsFiniteSet(DOMAIN f)
  BY <1>1, FS_AddElement DEF Values
<1>3. Values(g, V)
  BY <1>1, <1>2 DEF Values
<1>4. ASSUME NEW S, S \subseteq DOMAIN f
      PROVE  Sum(g, S) = Sum(f, S) /\ Sum(g, S \cup {x}) = Sum(f, S) + v
  <2>1. IsFiniteSet(S)
    BY <1>2, <1>4, FS_Subset
  <2>2. x \notin S /\ g[x] \in Int
    BY <1>1, <1>4
  <2>3. \A y \in S : f[y] \in Int /\ g[y] = f[y]
    BY <1>1, <1>4 DEF Values
  <2>4. Sum(g, S) = Sum(f, S)
    BY <2>1, <2>3, SumSame
  <2>5. Sum(g, S \cup {x}) = Sum(f, S) + g[x]
    BY <2>1, <2>2, <2>3, SumMore
  <2>. QED
    BY <1>1, <2>4, <2>5
<1>. QED
  BY <1>1, <1>3, <1>4 DEF IsAdded

LEMMA MainMoved ==
  ASSUME NEW acct, NEW main, MainOK(acct, main), NEW a \in DOMAIN main, NEW b \in DOMAIN main,
         NEW v \in Nat, v <= main[a], NEW g, g = Moved(main, a, b, v)
  PROVE  MainOK(acct, g)
<1>. DEFINE e == [main EXCEPT ![a] = main[a] - v]
<1>1. Amounts(main) /\ DOMAIN main \subseteq DOMAIN acct /\ Sum(main, DOMAIN main) = Supply
  BY DEF MainOK
<1>2. DOMAIN g = DOMAIN main /\ Amounts(g) /\ Sum(g, DOMAIN main) = Sum(main, DOMAIN main)
  <2>1. /\ a \in DOMAIN main /\ b \in DOMAIN main /\ v \in Nat /\ v <= main[a]
        /\ DOMAIN main \subseteq DOMAIN main
    OBVIOUS
  <2>2. IsExcept(g, e, b, e[b] + v)
    BY DEF IsExcept, Moved
  <2>3. IsExcept(e, main, a, main[a] - v)
    BY DEF IsExcept
  <2>. HIDE DEF e
  <2>. QED
    BY ONLY <1>1, <2>1, <2>2, <2>3, MoveKeeps
<1>. QED
  BY <1>1, <1>2 DEF MainOK

\* An owner a gives v to a new one.
LEMMA MainAdded ==
  ASSUME NEW acct, NEW main, MainOK(acct, main), NEW a \in DOMAIN main,
         NEW v \in Nat, v <= main[a], NEW x, x \in DOMAIN acct, x \notin DOMAIN main,
         NEW g, g = With([main EXCEPT ![a] = @ - v], x, v)
  PROVE  MainOK(acct, g)
<1>1. /\ Amounts(main) /\ DOMAIN main \subseteq DOMAIN acct /\ Sum(main, DOMAIN main) = Supply
      /\ IsFiniteSet(DOMAIN main) /\ \A y \in DOMAIN main : main[y] \in Nat
  BY DEF MainOK, Amounts, Values
<1>. DEFINE e == [main EXCEPT ![a] = @ - v]
            D == DOMAIN main
<1>2. /\ DOMAIN e = D /\ e[a] = main[a] - v /\ e[a] \in Nat
      /\ \A y \in D : y # a => e[y] = main[y]
  BY <1>1
<1>. HIDE DEF e
<1>3. Amounts(e)
  BY <1>1, <1>2 DEF Amounts, Values
<1>4. Sum(e, D) = Sum(main, D) - main[a] + e[a]
  BY <1>1, <1>2, SumChange
<1>5. /\ DOMAIN g = D \cup {x} /\ Amounts(g) /\ Sum(g, D \cup {x}) = Sum(e, D) + v
  <2>1. g = With(e, x, v) /\ x \notin DOMAIN e /\ Nat \subseteq Int
    BY <1>2 DEF e
  <2>2. IsAdded(g, e, x, v) /\ Values(g, Nat)
    BY ONLY v \in Nat, <1>3, <2>1, Added DEF Amounts
  <2>. QED
    BY <1>2, <2>2 DEF IsAdded, Amounts
<1>6. Sum(g, D \cup {x}) = Supply
  BY <1>1, <1>2, <1>4, <1>5, AmountsAssumption
<1>. QED
  BY <1>1, <1>5, <1>6 DEF MainOK

\* Tokens that are not touched keep their sums.
LEMMA OthersMatch ==
  ASSUME NEW erc, NEW hold, NEW f, NEW g, Shares(hold), NEW j, Matches(erc, hold, j), f[j] = erc[j],
         Of(g, j) = Of(hold, j), \A h \in Of(hold, j) : g[h] = hold[h]
  PROVE  Matches(f, g, j)
<1>1. IsFiniteSet(Of(hold, j))
  <2>1. Of(hold, j) \subseteq DOMAIN hold
    BY DEF Of
  <2>. QED
    BY <2>1, FS_Subset DEF Shares, Values
<1>2. Sum(hold, Of(hold, j)) = Sum(g, Of(hold, j))
  BY <1>1, SumSame
<1>. QED
  BY <1>2 DEF Matches

\* An amount v of a token moves from one owner to another, or to the same.
LEMMA MoveWraps ==
  ASSUME NEW f, Shares(f), NEW a \in DOMAIN f, NEW b \in DOMAIN f, NEW v \in Int,
         NEW e, IsExcept(e, f, a, Wrap(f[a] - v)), NEW g, IsExcept(g, e, b, Wrap(e[b] + v)),
         NEW S, S \subseteq DOMAIN f, a \in S, b \in S
  PROVE  /\ DOMAIN g = DOMAIN f /\ Shares(g) /\ Sum(f, S) \in Int /\ Sum(g, S) \in Int
         /\ \E q \in Int : Sum(g, S) = Sum(f, S) + q * Span
<1>0. ShareType \subseteq Int
  BY ShareTypeIs
<1>1. /\ DOMAIN e = DOMAIN f /\ e[a] = Wrap(f[a] - v) /\ \A y \in DOMAIN f : y # a => e[y] = f[y]
  BY DEF IsExcept
<1>2. IsFiniteSet(DOMAIN f) /\ IsFiniteSet(S) /\ \A y \in DOMAIN f : f[y] \in ShareType
  BY FS_Subset DEF Shares, Values
<1>3. f[a] \in Int /\ f[a] - v \in Int
  <2>1. f[a] \in Int
    BY <1>0, <1>2
  <2>. QED
    BY <2>1
<1>4. e[a] \in ShareType /\ \E q \in Int : e[a] = f[a] - v + q * Span
  BY <1>1, <1>3, WrapIs
<1>5. \A y \in DOMAIN f : e[y] \in ShareType
  BY <1>1, <1>2, <1>4
<1>6. /\ DOMAIN g = DOMAIN f /\ g[b] = Wrap(e[b] + v) /\ \A y \in DOMAIN f : y # b => g[y] = e[y]
  BY <1>1 DEF IsExcept
<1>7. e[b] \in Int /\ e[b] + v \in Int
  <2>1. e[b] \in Int
    BY <1>0, <1>5
  <2>. QED
    BY <2>1
<1>8. g[b] \in ShareType /\ \E q \in Int : g[b] = e[b] + v + q * Span
  BY <1>6, <1>7, WrapIs
<1>9. \A y \in DOMAIN f : g[y] \in ShareType
  BY <1>5, <1>6, <1>8
<1>10. \A y \in S : f[y] \in Int /\ e[y] \in Int /\ g[y] \in Int
  BY <1>0, <1>2, <1>5, <1>9
<1>11. Sum(e, S) = Sum(f, S) - f[a] + e[a]
  <2>1. a \in S /\ e[a] \in Int /\ \A y \in S : f[y] \in Int
    BY <1>10
  <2>2. \A y \in S : y # a => e[y] = f[y]
    BY <1>1
  <2>. QED
    BY ONLY <1>2, <2>1, <2>2, SumChange
<1>12. Sum(g, S) = Sum(e, S) - e[b] + g[b] /\ Sum(g, S) \in Int
  <2>1. b \in S /\ g[b] \in Int /\ \A y \in S : e[y] \in Int
    BY <1>10
  <2>2. \A y \in S : y # b => g[y] = e[y]
    BY <1>6
  <2>. QED
    BY ONLY <1>2, <2>1, <2>2, SumChange
<1>13. Sum(f, S) \in Int
  BY <1>2, <1>10, SumInt
<1>14. \E q \in Int : Sum(g, S) = Sum(f, S) + q * Span
  <2>1. PICK p \in Int : e[a] = f[a] - v + p * Span
    BY <1>4
  <2>2. PICK q \in Int : g[b] = e[b] + v + q * Span
    BY <1>8
  <2>. DEFINE n == Span
              x == Sum(f, S)
              y == Sum(g, S)
              z == Sum(e, S)
              fa == f[a]
              ea == e[a]
              eb == e[b]
              gb == g[b]
  <2>3. n \in Int /\ p * n \in Int /\ q * n \in Int /\ (p + q) * n = p * n + q * n
    BY SpanIs
  <2>4. /\ z = x - fa + ea /\ y = z - eb + gb /\ ea = fa - v + p * n /\ gb = eb + v + q * n
        /\ x \in Int /\ fa \in Int /\ eb \in Int
    BY <1>3, <1>7, <1>11, <1>12, <1>13, <2>1, <2>2
  <2>. HIDE DEF n, x, y, z, fa, ea, eb, gb
  <2>5. y = x + (p + q) * n
    BY <2>3, <2>4
  <2>. QED
    BY <2>5 DEF n, x, y
<1>. QED
  BY <1>2, <1>6, <1>9, <1>12, <1>13, <1>14 DEF Shares, Values

LEMMA HoldMoved ==
  ASSUME NEW acct, NEW erc, NEW hold, ErcOK(acct, erc, hold),
         NEW a \in DOMAIN hold, NEW b \in DOMAIN hold, a[1] = b[1], NEW v \in Int,
         NEW e, IsExcept(e, hold, a, Wrap(hold[a] - v)), NEW g, IsExcept(g, e, b, Wrap(e[b] + v))
  PROVE  ErcOK(acct, erc, g)
<1>1. /\ Shares(hold) /\ DOMAIN erc \subseteq DOMAIN acct
      /\ \A h \in DOMAIN hold : h[1] \in DOMAIN erc
      /\ \A k \in DOMAIN erc : Matches(erc, hold, k)
  BY DEF ErcOK
<1>. DEFINE S == Of(hold, a[1])
<1>2. S \subseteq DOMAIN hold /\ a \in S /\ b \in S
  BY DEF Of
<1>3. /\ DOMAIN g = DOMAIN hold /\ Shares(g) /\ Sum(hold, S) \in Int /\ Sum(g, S) \in Int
      /\ \E q \in Int : Sum(g, S) = Sum(hold, S) + q * Span
  <2>. HIDE DEF S
  <2>. QED
    BY <1>1, <1>2, MoveWraps
<1>4. \A k : Of(g, k) = Of(hold, k)
  BY <1>3 DEF Of
<1>5. ASSUME NEW k \in DOMAIN erc PROVE Matches(erc, g, k)
  <2>1. CASE k = a[1]
    <3>1. Of(g, k) = S /\ Of(hold, k) = S
      BY <1>4, <2>1
    <3>2. Matches(erc, hold, k)
      BY <1>1
    <3>. HIDE DEF S
    <3>3. ASSUME erc[k].std = "erc20" PROVE Congruent(erc[k].supply, Sum(g, S))
      <4>1. erc[k].supply \in Int /\ Congruent(erc[k].supply, Sum(hold, S))
        BY <3>1, <3>2, <3>3 DEF Matches
      <4>2. PICK q \in Int : Sum(g, S) = Sum(hold, S) + q * Span
        BY <1>3
      <4>. QED
        BY <1>3, <4>1, <4>2, CongruentBy
    <3>. QED
      BY <3>1, <3>2, <3>3 DEF Matches
  <2>2. CASE k # a[1]
    <3>1. \A h \in Of(hold, k) : h \in DOMAIN hold /\ h # a /\ h # b
      BY <2>2 DEF Of
    <3>2. \A h \in Of(hold, k) : g[h] = hold[h]
      BY <3>1 DEF IsExcept
    <3>3. Matches(erc, hold, k) /\ Of(g, k) = Of(hold, k) /\ erc[k] = erc[k]
      BY <1>1, <1>4
    <3>. QED
      BY <1>1, <3>2, <3>3, OthersMatch
  <2>. QED
    BY <2>1, <2>2
<1>. QED
  BY <1>1, <1>3, <1>5 DEF ErcOK

\* Someone holds nothing of a token.
LEMMA HoldNothing ==
  ASSUME NEW acct, NEW erc, NEW hold, ErcOK(acct, erc, hold),
         NEW x, x \notin DOMAIN hold, x[1] \in DOMAIN erc, NEW g, g = With(hold, x, 0)
  PROVE  ErcOK(acct, erc, g)
<1>1. /\ Shares(hold) /\ DOMAIN erc \subseteq DOMAIN acct
      /\ \A h \in DOMAIN hold : h[1] \in DOMAIN erc
      /\ \A k \in DOMAIN erc : Matches(erc, hold, k)
  BY DEF ErcOK
<1>2. /\ DOMAIN g = DOMAIN hold \cup {x} /\ g[x] = 0 /\ Shares(g)
      /\ \A y \in DOMAIN hold : g[y] = hold[y]
      /\ \A S : S \subseteq DOMAIN hold => Sum(g, S) = Sum(hold, S)
                                           /\ Sum(g, S \cup {x}) = Sum(hold, S) + 0
  <2>1. 0 \in ShareType /\ ShareType \subseteq Int /\ g = With(hold, x, 0) /\ x \notin DOMAIN hold
    BY ShareTypeIs
  <2>2. IsAdded(g, hold, x, 0) /\ Values(g, ShareType)
    BY ONLY <1>1, <2>1, Added DEF Shares
  <2>. QED
    BY <2>2 DEF IsAdded, Shares
<1>3. ASSUME NEW k \in DOMAIN erc PROVE Matches(erc, g, k)
  <2>1. Of(hold, k) \subseteq DOMAIN hold /\ Matches(erc, hold, k)
    BY <1>1 DEF Of
  <2>2. CASE x[1] = k
    <3>1. Of(g, k) = Of(hold, k) \cup {x}
      BY <1>2, <2>2 DEF Of
    <3>2. Sum(hold, Of(hold, k)) \in Int
      <4>1. IsFiniteSet(Of(hold, k)) /\ \A h \in Of(hold, k) : hold[h] \in Int
        BY <1>1, <2>1, FS_Subset, ShareTypeIs DEF Shares, Values
      <4>. QED
        BY <4>1, SumInt
    <3>3. Sum(g, Of(g, k)) = Sum(hold, Of(hold, k))
      BY <1>2, <2>1, <3>1, <3>2
    <3>. QED
      BY <2>1, <3>3 DEF Matches
  <2>3. CASE x[1] # k
    <3>1. Of(g, k) = Of(hold, k)
      BY <1>2, <2>3 DEF Of
    <3>. QED
      BY <1>2, <2>1, <3>1 DEF Matches
  <2>. QED
    BY <2>2, <2>3
<1>. QED
  BY <1>1, <1>2, <1>3 DEF ErcOK

\* A token is new, without balances, or with that of its owner.
LEMMA ErcAdded ==
  ASSUME NEW acct, NEW erc, NEW hold, ErcOK(acct, erc, hold), NEW k \in DOMAIN acct,
         k \notin DOMAIN erc, NEW token, DOMAIN token = ErcFields, NEW f, f = With(erc, k, token)
  PROVE  /\ token.std # "erc20" => ErcOK(acct, f, hold)
         /\ token.supply \in ShareType =>
              \A o : ErcOK(acct, f, With(hold, <<k, o>>, token.supply))
<1>1. /\ Shares(hold) /\ DOMAIN erc \subseteq DOMAIN acct
      /\ \A h \in DOMAIN hold : h[1] \in DOMAIN erc
      /\ \A j \in DOMAIN erc : Matches(erc, hold, j)
  BY DEF ErcOK
<1>2. /\ DOMAIN f = DOMAIN erc \cup {k} /\ f[k] = token /\ \A j \in DOMAIN erc : f[j] = erc[j]
  BY DEF With
<1>3. \A j \in DOMAIN erc : Matches(f, hold, j)
  BY <1>1, <1>2 DEF Matches
<1>4. ASSUME token.std # "erc20" PROVE ErcOK(acct, f, hold)
  <2>1. Matches(f, hold, k)
    BY <1>2, <1>4 DEF Matches
  <2>. QED
    BY <1>1, <1>2, <1>3, <2>1 DEF ErcOK
<1>5. ASSUME NEW o, token.supply \in ShareType
      PROVE  ErcOK(acct, f, With(hold, <<k, o>>, token.supply))
  <2>. DEFINE x == <<k, o>>
              v == token.supply
              g == With(hold, x, v)
  <2>1. x \notin DOMAIN hold /\ x[1] = k
    BY <1>1
  <2>. HIDE DEF x, v, g
  <2>2. /\ DOMAIN g = DOMAIN hold \cup {x} /\ g[x] = v /\ Shares(g)
        /\ \A y \in DOMAIN hold : g[y] = hold[y]
        /\ \A S : S \subseteq DOMAIN hold => Sum(g, S) = Sum(hold, S)
                                             /\ Sum(g, S \cup {x}) = Sum(hold, S) + v
    <3>1. v \in ShareType /\ ShareType \subseteq Int /\ g = With(hold, x, v)
      BY <1>5, ShareTypeIs DEF g, v
    <3>2. IsAdded(g, hold, x, v) /\ Values(g, ShareType)
      BY ONLY <1>1, <2>1, <3>1, Added DEF Shares
    <3>. QED
      BY <3>2 DEF IsAdded, Shares
  <2>3. ASSUME NEW j \in DOMAIN erc PROVE Matches(f, g, j)
    <3>1. Of(hold, j) \subseteq DOMAIN hold /\ Matches(f, hold, j) /\ j # k
      BY <1>3 DEF Of
    <3>2. Of(g, j) = Of(hold, j)
      BY <2>1, <2>2, <3>1 DEF Of
    <3>. QED
      BY <2>2, <3>1, <3>2 DEF Matches
  <2>4. Matches(f, g, k)
    <3>1. Of(g, k) = {} \cup {x}
      BY <1>1, <2>1, <2>2 DEF Of
    <3>2. Sum(hold, {}) = 0
      BY SumPick, FS_EmptySet
    <3>3. Sum(g, {} \cup {x}) = Sum(hold, {}) + v
      BY <2>2
    <3>4. v \in Int
      BY <1>5, ShareTypeIs DEF v
    <3>5. Sum(g, Of(g, k)) = v
      BY <3>1, <3>2, <3>3, <3>4
    <3>6. Congruent(v, v)
      BY <3>4, SpanIs DEF Congruent
    <3>. QED
      BY <1>2, <3>4, <3>5, <3>6 DEF Matches, v
  <2>5. ErcOK(acct, f, g)
    BY <1>1, <1>2, <2>1, <2>2, <2>3, <2>4 DEF ErcOK
  <2>. QED
    BY <2>5 DEF g, x, v
<1>. QED
  BY <1>4, <1>5

\* The owner of token k gets v more of it.
LEMMA ErcMinted ==
  ASSUME NEW acct, NEW erc, NEW hold, ErcOK(acct, erc, hold), NEW k \in DOMAIN erc,
         erc[k].std = "erc20", NEW x \in DOMAIN hold, x[1] = k, NEW v \in Int,
         NEW token, DOMAIN token = ErcFields, token.supply = Wrap(erc[k].supply + v),
         NEW f, IsExcept(f, erc, k, token), NEW g, IsExcept(g, hold, x, Wrap(hold[x] + v))
  PROVE  ErcOK(acct, f, g)
<1>1. /\ Shares(hold) /\ DOMAIN erc \subseteq DOMAIN acct
      /\ \A h \in DOMAIN hold : h[1] \in DOMAIN erc
      /\ \A j \in DOMAIN erc : Matches(erc, hold, j)
  BY DEF ErcOK
<1>2. /\ DOMAIN f = DOMAIN erc /\ f[k] = token /\ \A j \in DOMAIN erc : j # k => f[j] = erc[j]
      /\ DOMAIN g = DOMAIN hold /\ g[x] = Wrap(hold[x] + v)
      /\ \A y \in DOMAIN hold : y # x => g[y] = hold[y]
  BY DEF IsExcept
<1>3. \A j : Of(g, j) = Of(hold, j)
  BY <1>2 DEF Of
<1>4. hold[x] \in Int /\ hold[x] + v \in Int
  BY <1>1, ShareTypeIs DEF Shares, Values
<1>5. g[x] \in ShareType /\ g[x] \in Int /\ \E q \in Int : g[x] = hold[x] + v + q * Span
  BY <1>2, <1>4, WrapIs
<1>6. Shares(g)
  BY <1>1, <1>2, <1>5 DEF Shares, Values
<1>7. ASSUME NEW j \in DOMAIN erc, j # k PROVE Matches(f, g, j)
  <2>1. \A h \in Of(hold, j) : g[h] = hold[h]
    BY <1>2, <1>7 DEF Of
  <2>2. Matches(erc, hold, j) /\ f[j] = erc[j] /\ Of(g, j) = Of(hold, j)
    BY <1>1, <1>2, <1>3, <1>7
  <2>. QED
    BY <1>1, <2>1, <2>2, OthersMatch
<1>8. Matches(f, g, k)
  <2>. DEFINE S == Of(hold, k)
              old == erc[k].supply
  <2>1. S \subseteq DOMAIN hold /\ x \in S
    BY DEF Of
  <2>2. old \in Int /\ Congruent(old, Sum(hold, S))
    BY <1>1 DEF Matches
  <2>. HIDE DEF S, old
  <2>3. IsFiniteSet(S) /\ \A y \in S : hold[y] \in Int
    BY <1>1, <2>1, FS_Subset, ShareTypeIs DEF Shares, Values
  <2>4. \A y \in S : y # x => g[y] = hold[y]
    BY <1>2, <2>1
  <2>5. Sum(g, S) = Sum(hold, S) - hold[x] + g[x]
    BY ONLY <1>5, <2>1, <2>3, <2>4, SumChange
  <2>6. Sum(hold, S) \in Int
    BY <2>3, SumInt
  <2>7. f[k].supply = Wrap(old + v) /\ old + v \in Int
    BY <1>2, <2>2 DEF old
  <2>8. f[k].supply \in Int /\ \E q \in Int : f[k].supply = old + v + q * Span
    BY <2>7, WrapIs
  <2>9. Congruent(f[k].supply, Sum(g, S))
    <3>1. PICK q \in Int : g[x] = hold[x] + v + q * Span
      BY <1>5
    <3>2. PICK p \in Int : f[k].supply = old + v + p * Span
      BY <2>8
    <3>3. PICK d \in Int : old = Sum(hold, S) + d * Span
      BY <2>2 DEF Congruent
    <3>. DEFINE n == Span
                a == Sum(hold, S)
                b == Sum(g, S)
                hx == hold[x]
                gx == g[x]
                new == f[k].supply
    <3>4. /\ n \in Int /\ p * n \in Int /\ q * n \in Int /\ d * n \in Int
          /\ (d + p - q) * n = d * n + p * n - q * n
      BY SpanIs
    <3>5. /\ b = a - hx + gx /\ gx = hx + v + q * n /\ new = old + v + p * n /\ old = a + d * n
          /\ a \in Int /\ hx \in Int
      BY <1>4, <2>5, <2>6, <3>1, <3>2, <3>3
    <3>. HIDE DEF n, a, b, hx, gx, new
    <3>6. new = b + (d + p - q) * n
      BY <3>4, <3>5
    <3>. QED
      BY <3>6 DEF Congruent, n, b, new
  <2>10. Of(g, k) = S
    BY <1>3 DEF S
  <2>. QED
    BY <1>2, <2>8, <2>9, <2>10 DEF Matches
<1>. QED
  BY <1>1, <1>2, <1>6, <1>7, <1>8 DEF ErcOK

\* A flag of token k changes.
LEMMA ErcFlagged ==
  ASSUME NEW acct, NEW erc, NEW hold, ErcOK(acct, erc, hold), NEW k \in DOMAIN erc,
         NEW token, DOMAIN token = ErcFields, token.supply = erc[k].supply, token.std = erc[k].std,
         NEW f, IsExcept(f, erc, k, token)
  PROVE  ErcOK(acct, f, hold)
<1>1. /\ Shares(hold) /\ DOMAIN erc \subseteq DOMAIN acct
      /\ \A h \in DOMAIN hold : h[1] \in DOMAIN erc
      /\ \A j \in DOMAIN erc : Matches(erc, hold, j)
  BY DEF ErcOK
<1>2. /\ DOMAIN f = DOMAIN erc /\ f[k] = token /\ \A j \in DOMAIN erc : j # k => f[j] = erc[j]
  BY DEF IsExcept
<1>3. \A j \in DOMAIN erc : Matches(f, hold, j)
  BY <1>1, <1>2 DEF Matches
<1>. QED
  BY <1>1, <1>2, <1>3 DEF ErcOK

-----------------------------------------------------------------------------
(* The native contracts keep the contents sound, and what is recorded.     *)

Follows(s, r) == Sound(r) /\ r.done = s.done /\ r.trxs = s.trxs

LEMMA FollowsSame == ASSUME NEW s, Sound(s) PROVE Follows(s, s)
BY DEF Follows

LEMMA FollowsOn ==
  ASSUME NEW s, NEW r, NEW q, Follows(s, r), Follows(r, q)
  PROVE  Follows(s, q)
BY DEF Follows

\* Contents made of sound parts.
Parts(s, r, acct, main, erc, hold) ==
  /\ DOMAIN r = Fields /\ r.done = s.done /\ r.trxs = s.trxs
  /\ r.acct = acct /\ r.main = main /\ r.erc = erc /\ r.hold = hold

LEMMA FollowsParts ==
  ASSUME NEW s, NEW r, NEW acct, NEW main, NEW erc, NEW hold, Parts(s, r, acct, main, erc, hold),
         AcctOK(acct), MainOK(acct, main), ErcOK(acct, erc, hold)
  PROVE  Follows(s, r)
BY DEF Follows, Sound, Parts

LEMMA SoundParts ==
  ASSUME NEW s, Sound(s)
  PROVE  /\ DOMAIN s = Fields /\ AcctOK(s.acct) /\ MainOK(s.acct, s.main)
         /\ ErcOK(s.acct, s.erc, s.hold)
         /\ DOMAIN s.main \subseteq DOMAIN s.acct /\ DOMAIN s.erc \subseteq DOMAIN s.acct
         /\ \A a \in DOMAIN s.main : s.main[a] \in Nat
         /\ \A h \in DOMAIN s.hold : s.hold[h] \in ShareType
         /\ \A k \in DOMAIN s.erc : DOMAIN s.erc[k] = ErcFields
BY DEF Sound, MainOK, ErcOK, Amounts, Shares, Values, Matches

LEMMA ReturnsIs == \A s : Returns(s).s = s /\ Throws(s).s = s /\ Returns(s).ok /\ ~Throws(s).ok
BY DEF Returns, Throws

\* An account is new.
LEMMA AcctGrows ==
  ASSUME NEW s, Sound(s), NEW x, NEW v \in AccountTypes, NEW g, g = With(s.acct, x, v)
  PROVE  /\ AcctOK(g) /\ MainOK(g, s.main) /\ ErcOK(g, s.erc, s.hold)
         /\ DOMAIN g = DOMAIN s.acct \cup {x}
<1>1. /\ DOMAIN g = DOMAIN s.acct \cup {x}
      /\ \A y \in DOMAIN s.acct \cup {x} : g[y] = IF y = x THEN v ELSE s.acct[y]
  BY DEF With
<1>2. /\ AcctOK(s.acct) /\ MainOK(s.acct, s.main) /\ ErcOK(s.acct, s.erc, s.hold)
  BY SoundParts
<1>3. AcctOK(g)
  BY <1>1, <1>2 DEF AcctOK
<1>4. MainOK(g, s.main)
  BY <1>1, <1>2 DEF MainOK
<1>5. ErcOK(g, s.erc, s.hold)
  BY <1>1, <1>2 DEF ErcOK
<1>. QED
  BY <1>1, <1>3, <1>4, <1>5

LEMMA AddAccountFollows ==
  ASSUME NEW m, NEW s, Sound(s), m.amount \in Int
  PROVE  Follows(s, AddAccount(m, s).s)
<1>1. /\ DOMAIN s = Fields /\ AcctOK(s.acct) /\ MainOK(s.acct, s.main)
      /\ ErcOK(s.acct, s.erc, s.hold) /\ DOMAIN s.main \subseteq DOMAIN s.acct
      /\ \A a \in DOMAIN s.main : s.main[a] \in Nat
  BY SoundParts
<1>. DEFINE acct == With(s.acct, m.to, "personal")
            made == [s EXCEPT !.acct = acct]
            main == With([s.main EXCEPT ![m.from] = @ - m.amount], m.to, m.amount)
            r == [made EXCEPT !.main = main]
<1>2. AcctOK(acct) /\ MainOK(acct, s.main) /\ ErcOK(acct, s.erc, s.hold)
      /\ DOMAIN acct = DOMAIN s.acct \cup {m.to}
  <2>1. "personal" \in AccountTypes
    BY DEF AccountTypes
  <2>2. acct = With(s.acct, m.to, "personal")
    OBVIOUS
  <2>. HIDE DEF acct
  <2>. QED
    BY <2>1, <2>2, AcctGrows
<1>. HIDE DEF acct
<1>3. Parts(s, made, acct, s.main, s.erc, s.hold)
  BY <1>1 DEF Parts, Fields
<1>4. Follows(s, made)
  BY <1>2, <1>3, FollowsParts
<1>5. ASSUME m.from \in DOMAIN s.main, ~(s.main[m.from] < m.amount), m.to \notin DOMAIN s.acct,
             m.amount > 0
      PROVE  Follows(s, r)
  <2>1. m.amount \in Nat /\ m.amount <= s.main[m.from] /\ m.to \notin DOMAIN s.main /\ m.to \in DOMAIN acct
    BY <1>1, <1>2, <1>5
  <2>2. main = With([s.main EXCEPT ![m.from] = @ - m.amount], m.to, m.amount)
    OBVIOUS
  <2>3. MainOK(acct, main)
    <3>. HIDE DEF main
    <3>. QED
      BY <1>2, <1>5, <2>1, <2>2, MainAdded
  <2>. HIDE DEF main
  <2>4. Parts(s, r, acct, main, s.erc, s.hold)
    BY <1>1 DEF Parts, Fields
  <2>. QED
    BY <1>2, <2>3, <2>4, FollowsParts
<1>6. \/ AddAccount(m, s).s = s
      \/ AddAccount(m, s).s = made
      \/ /\ m.from \in DOMAIN s.main /\ ~(s.main[m.from] < m.amount) /\ m.to \notin DOMAIN s.acct
         /\ m.amount > 0 /\ AddAccount(m, s).s = r
  <2>1. CASE m.to \in DOMAIN s.acct \/ m.amount <= 0
    BY <2>1 DEF AddAccount, Returns, Throws
  <2>2. CASE /\ ~(m.to \in DOMAIN s.acct \/ m.amount <= 0)
             /\ m.from \notin DOMAIN s.main \/ s.main[m.from] < m.amount
    <3>1. AddAccount(m, s).s = made
      BY <2>2 DEF AddAccount, Returns, Throws, acct
    <3>. QED
      BY <3>1
  <2>3. CASE /\ ~(m.to \in DOMAIN s.acct \/ m.amount <= 0)
             /\ ~(m.from \notin DOMAIN s.main \/ s.main[m.from] < m.amount)
    <3>1. made.main = s.main
      BY <1>1 DEF Fields
    <3>2. AddAccount(m, s) = Returns([made EXCEPT !.main =
                                        With([s.main EXCEPT ![m.from] = @ - m.amount], m.to, m.amount)])
      BY <2>3 DEF AddAccount, acct
    <3>3. AddAccount(m, s) = Returns(r)
      BY <3>1, <3>2
    <3>4. AddAccount(m, s).s = r
      BY <3>3, ReturnsIs
    <3>. QED
      BY <2>3, <3>4
  <2>. QED
    BY <2>1, <2>2, <2>3
<1>. HIDE DEF made, r
<1>. QED
  BY <1>4, <1>5, <1>6, FollowsSame

LEMMA AddContractFollows ==
  ASSUME NEW m, NEW s, Sound(s)
  PROVE  Follows(s, AddContract(m, s).s)
<1>1. /\ DOMAIN s = Fields /\ AcctOK(s.acct) /\ MainOK(s.acct, s.main)
      /\ ErcOK(s.acct, s.erc, s.hold)
  BY SoundParts
<1>. DEFINE acct == With(s.acct, m.to, "contract")
            r == [s EXCEPT !.acct = acct]
<1>2. AcctOK(acct) /\ MainOK(acct, s.main) /\ ErcOK(acct, s.erc, s.hold)
  <2>1. "contract" \in AccountTypes
    BY DEF AccountTypes
  <2>2. acct = With(s.acct, m.to, "contract")
    OBVIOUS
  <2>. HIDE DEF acct
  <2>. QED
    BY <2>1, <2>2, AcctGrows
<1>. HIDE DEF acct
<1>3. Parts(s, r, acct, s.main, s.erc, s.hold)
  BY <1>1 DEF Parts, Fields
<1>4. Follows(s, r)
  BY <1>2, <1>3, FollowsParts
<1>5. AddContract(m, s).s = s \/ AddContract(m, s).s = r
  BY DEF AddContract, Returns, Throws, acct
<1>. HIDE DEF r
<1>. QED
  BY <1>4, <1>5, FollowsSame

LEMMA AddErcFollows ==
  ASSUME NEW m, NEW s, Sound(s), NEW std \in {"erc20", "erc721"},
         std = "erc20" => m.amount \in ShareType
  PROVE  Follows(s, AddErc(m, s, std).s)
<1>1. /\ DOMAIN s = Fields /\ AcctOK(s.acct) /\ MainOK(s.acct, s.main)
      /\ ErcOK(s.acct, s.erc, s.hold) /\ DOMAIN s.erc \subseteq DOMAIN s.acct
  BY SoundParts
<1>. DEFINE acct == With(s.acct, m.to, std)
            token == [std |-> std, owner |-> m.from, supply |-> m.amount, stopmint |-> FALSE,
                      revoked |-> FALSE]
            erc == With(s.erc, m.to, token)
            hold == With(s.hold, <<m.to, m.from>>, m.amount)
            made == [s EXCEPT !.acct = acct, !.erc = erc]
            r == [made EXCEPT !.hold = hold]
<1>2. AcctOK(acct) /\ MainOK(acct, s.main) /\ ErcOK(acct, s.erc, s.hold)
      /\ DOMAIN acct = DOMAIN s.acct \cup {m.to}
  <2>1. std \in AccountTypes
    BY DEF AccountTypes
  <2>2. acct = With(s.acct, m.to, std)
    OBVIOUS
  <2>. HIDE DEF acct
  <2>. QED
    BY <2>1, <2>2, AcctGrows
<1>3. DOMAIN token = ErcFields /\ token.supply = m.amount /\ token.std = std
  BY DEF ErcFields
<1>. HIDE DEF acct, token
<1>4. Parts(s, made, acct, s.main, erc, s.hold) /\ Parts(s, r, acct, s.main, erc, hold)
  BY <1>1 DEF Parts, Fields
<1>. HIDE DEF made, r
<1>5. ASSUME m.to \notin DOMAIN s.acct
      PROVE  /\ std # "erc20" => Follows(s, made)
             /\ std = "erc20" => Follows(s, r)
  <2>1. m.to \in DOMAIN acct /\ m.to \notin DOMAIN s.erc /\ erc = With(s.erc, m.to, token)
    BY <1>1, <1>2, <1>5
  <2>. HIDE DEF erc
  <2>2. /\ token.std # "erc20" => ErcOK(acct, erc, s.hold)
        /\ token.supply \in ShareType =>
             \A o : ErcOK(acct, erc, With(s.hold, <<m.to, o>>, token.supply))
    BY ONLY <1>2, <1>3, <2>1, ErcAdded
  <2>3. std = "erc20" => ErcOK(acct, erc, hold)
    BY <1>3, <2>2
  <2>4. std # "erc20" => ErcOK(acct, erc, s.hold)
    BY <1>3, <2>2
  <2>. HIDE DEF hold
  <2>. QED
    BY <1>2, <1>4, <2>3, <2>4, FollowsParts
<1>6. \/ AddErc(m, s, std).s = s
      \/ m.to \notin DOMAIN s.acct /\ std # "erc20" /\ AddErc(m, s, std).s = made
      \/ m.to \notin DOMAIN s.acct /\ std = "erc20" /\ AddErc(m, s, std).s = r
  BY DEF AddErc, Returns, Throws, acct, token, made, r
<1>. QED
  BY <1>5, <1>6, FollowsSame

LEMMA TransferFollows ==
  ASSUME NEW m, NEW s, Sound(s), m.amount \in Nat
  PROVE  Follows(s, Transfer(m, s).s)
<1>1. /\ DOMAIN s = Fields /\ AcctOK(s.acct) /\ MainOK(s.acct, s.main)
      /\ ErcOK(s.acct, s.erc, s.hold) /\ \A a \in DOMAIN s.main : s.main[a] \in Nat
  BY SoundParts
<1>. DEFINE main == Moved(s.main, m.from, m.to, m.amount)
            r == [s EXCEPT !.main = main]
<1>2. ASSUME {m.from, m.to} \subseteq DOMAIN s.main, ~(s.main[m.from] < m.amount)
      PROVE  Follows(s, r)
  <2>1. m.amount <= s.main[m.from] /\ m.from \in DOMAIN s.main /\ m.to \in DOMAIN s.main
    BY <1>1, <1>2
  <2>2. main = Moved(s.main, m.from, m.to, m.amount)
    OBVIOUS
  <2>. HIDE DEF main
  <2>3. MainOK(s.acct, main)
    BY <1>1, <2>1, <2>2, MainMoved
  <2>4. Parts(s, r, s.acct, main, s.erc, s.hold)
    BY <1>1 DEF Parts, Fields
  <2>. QED
    BY <1>1, <2>3, <2>4, FollowsParts
<1>3. \/ Transfer(m, s).s = s
      \/ {m.from, m.to} \subseteq DOMAIN s.main /\ ~(s.main[m.from] < m.amount) /\ Transfer(m, s).s = r
  <2>1. CASE m.amount = 0 \/ ~{m.from, m.to} \subseteq DOMAIN s.main \/ s.main[m.from] < m.amount
    BY <2>1 DEF Transfer, Returns, Throws
  <2>2. CASE ~(m.amount = 0 \/ ~{m.from, m.to} \subseteq DOMAIN s.main \/ s.main[m.from] < m.amount)
    <3>1. Transfer(m, s) = Returns(r)
      BY <2>2 DEF Transfer
    <3>2. Transfer(m, s).s = r
      BY <3>1, ReturnsIs
    <3>. QED
      BY <2>2, <3>2
  <2>. QED
    BY <2>1, <2>2
<1>. HIDE DEF r
<1>. QED
  BY <1>2, <1>3, FollowsSame

\* What the two erc20 handlers leave when they throw is undone.
LEMMA Mint20Follows ==
  ASSUME NEW m, NEW s, Sound(s), m.amount \in Int, Mint20(m, s).ok
  PROVE  Follows(s, Mint20(m, s).s)
<1>1. /\ DOMAIN s = Fields /\ AcctOK(s.acct) /\ MainOK(s.acct, s.main)
      /\ ErcOK(s.acct, s.erc, s.hold) /\ \A k \in DOMAIN s.erc : DOMAIN s.erc[k] = ErcFields
  BY SoundParts
<1>. DEFINE own == <<m.token, s.erc[m.token].owner>>
            token == [s.erc[m.token] EXCEPT !.supply = Wrap(@ + m.amount)]
            hold == [s.hold EXCEPT ![own] = Wrap(@ + m.amount)]
            erc == [s.erc EXCEPT ![m.token] = token]
            paid == [s EXCEPT !.hold = hold]
            r == [paid EXCEPT !.erc = erc]
<1>2. own[1] = m.token
  OBVIOUS
<1>3. Mintable(m, s, "erc20") /\ own \in DOMAIN s.hold /\ Mint20(m, s) = Returns(r)
  <2>1. Mintable(m, s, "erc20") /\ own \in DOMAIN s.hold
    BY DEF Mint20, Throws
  <2>2. CanAdd(s.hold[own], m.amount)
    BY <2>1 DEF Mint20, Throws
  <2>3. CanAdd(s.erc[m.token].supply, m.amount)
    BY <2>1, <2>2 DEF Mint20, Throws
  <2>4. paid.erc = s.erc
    BY <1>1 DEF Fields
  <2>5. Mint20(m, s) = Returns([paid EXCEPT !.erc[m.token].supply = Wrap(@ + m.amount)])
    BY <2>1, <2>2, <2>3 DEF Mint20
  <2>6. [paid EXCEPT !.erc[m.token].supply = Wrap(@ + m.amount)] = r
    <3>. HIDE DEF hold
    <3>. QED
      BY <2>4
  <2>. QED
    BY <2>1, <2>5, <2>6
<1>4. m.token \in DOMAIN s.erc /\ s.erc[m.token].std = "erc20"
  BY <1>3 DEF Mintable, Usable
<1>5. DOMAIN token = ErcFields /\ token.supply = Wrap(s.erc[m.token].supply + m.amount)
  BY <1>1, <1>4 DEF ErcFields
<1>6. IsExcept(erc, s.erc, m.token, token)
  <2>. HIDE DEF token
  <2>. QED
    BY <1>4 DEF IsExcept
<1>7. IsExcept(hold, s.hold, own, Wrap(s.hold[own] + m.amount))
  <2>. HIDE DEF own
  <2>. QED
    BY <1>3 DEF IsExcept
<1>. HIDE DEF own, token, hold, erc
<1>8. ErcOK(s.acct, erc, hold)
  BY ONLY m.amount \in Int, <1>1, <1>2, <1>3, <1>4, <1>5, <1>6, <1>7, ErcMinted
<1>9. Parts(s, r, s.acct, s.main, erc, hold)
  BY <1>1 DEF Parts, Fields
<1>. HIDE DEF r
<1>10. Follows(s, r)
  BY <1>1, <1>8, <1>9, FollowsParts
<1>. QED
  BY <1>3, <1>10, ReturnsIs

LEMMA TransferFrom20Follows ==
  ASSUME NEW m, NEW s, Sound(s), m.amount \in Int, TransferFrom20(m, s).ok
  PROVE  Follows(s, TransferFrom20(m, s).s)
<1>. DEFINE from == <<m.token, m.from>>
            to == <<m.token, m.to>>
            made == IF to \in DOMAIN s.hold THEN s ELSE [s EXCEPT !.hold = With(@, to, 0)]
            paid == [made EXCEPT !.hold[from] = Wrap(@ - m.amount)]
            q == [paid EXCEPT !.hold[to] = Wrap(@ + m.amount)]
<1>1. /\ DOMAIN s = Fields /\ AcctOK(s.acct) /\ MainOK(s.acct, s.main)
      /\ ErcOK(s.acct, s.erc, s.hold)
  BY SoundParts
<1>2. from[1] = m.token /\ to[1] = m.token
  OBVIOUS
<1>3. Usable(m, s, "erc20") /\ from \in DOMAIN s.hold
  BY DEF TransferFrom20, Throws
<1>4. TransferFrom20(m, s) = Returns(q)
  <2>1. TransferFrom20(m, s) = IF made.hold[from] <= m.amount THEN Throws(made)
                               ELSE IF ~CanAdd(paid.hold[to], m.amount) THEN Throws(paid)
                               ELSE Returns(q)
    BY <1>3 DEF TransferFrom20
  <2>. HIDE DEF made, paid, q, from, to
  <2>2. ~(made.hold[from] <= m.amount)
    BY <2>1 DEF Throws
  <2>3. CanAdd(paid.hold[to], m.amount)
    BY <2>1, <2>2 DEF Throws
  <2>. QED
    BY <2>1, <2>2, <2>3
<1>5. m.token \in DOMAIN s.erc
  BY <1>3 DEF Usable
<1>6. Follows(s, made) /\ to \in DOMAIN made.hold /\ from \in DOMAIN made.hold
  <2>1. CASE to \in DOMAIN s.hold
    BY <1>3, <2>1, FollowsSame
  <2>2. CASE to \notin DOMAIN s.hold
    <3>. DEFINE g == With(s.hold, to, 0)
                r == [s EXCEPT !.hold = g]
    <3>1. g = With(s.hold, to, 0)
      OBVIOUS
    <3>2. DOMAIN g = DOMAIN s.hold \cup {to}
      BY DEF With
    <3>. HIDE DEF g, to
    <3>3. ErcOK(s.acct, s.erc, g)
      BY ONLY <1>1, <1>2, <1>5, <2>2, <3>1, HoldNothing
    <3>4. Parts(s, r, s.acct, s.main, s.erc, g) /\ r.hold = g
      BY <1>1 DEF Parts, Fields
    <3>5. made = r
      BY <2>2 DEF g
    <3>. HIDE DEF r, made
    <3>6. Follows(s, r)
      BY <1>1, <3>3, <3>4, FollowsParts
    <3>. QED
      BY <1>3, <3>2, <3>4, <3>5, <3>6
  <2>. QED
    BY <2>1, <2>2
<1>. HIDE DEF made, from, to
<1>7. Sound(made)
  BY <1>6 DEF Follows
<1>8. /\ DOMAIN made = Fields /\ AcctOK(made.acct) /\ MainOK(made.acct, made.main)
      /\ ErcOK(made.acct, made.erc, made.hold)
  BY <1>7, SoundParts
<1>. DEFINE e == [made.hold EXCEPT ![from] = Wrap(@ - m.amount)]
            hold == [e EXCEPT ![to] = Wrap(@ + m.amount)]
<1>9. IsExcept(e, made.hold, from, Wrap(made.hold[from] - m.amount))
  BY <1>6 DEF IsExcept
<1>10. DOMAIN e = DOMAIN made.hold
  OBVIOUS
<1>11. paid = [made EXCEPT !.hold = e]
  OBVIOUS
<1>. HIDE DEF e, paid
<1>12. paid.hold = e /\ DOMAIN paid = Fields
  BY <1>8, <1>11 DEF Fields
<1>13. q = [paid EXCEPT !.hold = hold]
  BY <1>12
<1>14. IsExcept(hold, e, to, Wrap(e[to] + m.amount))
  BY <1>6, <1>10 DEF IsExcept
<1>. HIDE DEF hold, q
<1>15. ErcOK(made.acct, made.erc, hold)
  <2>1. from[1] = to[1] /\ m.amount \in Int
    BY <1>2
  <2>. QED
    BY ONLY <1>6, <1>8, <1>9, <1>14, <2>1, HoldMoved
<1>16. Parts(made, q, made.acct, made.main, made.erc, hold)
  <2>1. /\ paid.done = made.done /\ paid.trxs = made.trxs /\ paid.acct = made.acct
        /\ paid.main = made.main /\ paid.erc = made.erc
    BY <1>8, <1>11 DEF Fields
  <2>2. /\ DOMAIN q = Fields /\ q.done = paid.done /\ q.trxs = paid.trxs /\ q.acct = paid.acct
        /\ q.main = paid.main /\ q.erc = paid.erc /\ q.hold = hold
    BY <1>12, <1>13 DEF Fields
  <2>. QED
    BY <2>1, <2>2 DEF Parts
<1>17. Follows(made, q)
  BY <1>8, <1>15, <1>16, FollowsParts
<1>. QED
  BY <1>4, <1>6, <1>17, FollowsOn, ReturnsIs

\* What is neither an account nor a balance.
LEMMA OtherFollows ==
  ASSUME NEW s, Sound(s), NEW r, Parts(s, r, s.acct, s.main, s.erc, s.hold)
  PROVE  Follows(s, r)
<1>1. /\ AcctOK(s.acct) /\ MainOK(s.acct, s.main) /\ ErcOK(s.acct, s.erc, s.hold)
  BY SoundParts
<1>. QED
  BY ONLY <1>1, FollowsParts, Parts(s, r, s.acct, s.main, s.erc, s.hold)

LEMMA Mint721Follows ==
  ASSUME NEW m, NEW s, Sound(s)
  PROVE  Follows(s, Mint721(m, s).s)
<1>1. DOMAIN s = Fields
  BY SoundParts
<1>. DEFINE nft == With(s.nft, <<m.token, m.amount>>, s.erc[m.token].owner)
            r == [s EXCEPT !.nft = nft]
<1>2. Mint721(m, s).s = s \/ Mint721(m, s).s = r
  BY DEF Mint721, Returns, Throws
<1>. HIDE DEF nft
<1>3. Parts(s, r, s.acct, s.main, s.erc, s.hold)
  BY <1>1 DEF Parts, Fields
<1>. HIDE DEF r
<1>. QED
  BY <1>2, <1>3, OtherFollows, FollowsSame

LEMMA TransferFrom721Follows ==
  ASSUME NEW m, NEW s, Sound(s)
  PROVE  Follows(s, TransferFrom721(m, s).s)
<1>1. DOMAIN s = Fields
  BY SoundParts
<1>. DEFINE nft == [s.nft EXCEPT ![<<m.token, m.amount>>] = m.to]
            r == [s EXCEPT !.nft = nft]
<1>2. TransferFrom721(m, s).s = s \/ TransferFrom721(m, s).s = r
  BY DEF TransferFrom721, Returns, Throws
<1>. HIDE DEF nft
<1>3. Parts(s, r, s.acct, s.main, s.erc, s.hold)
  BY <1>1 DEF Parts, Fields
<1>. HIDE DEF r
<1>. QED
  BY <1>2, <1>3, OtherFollows, FollowsSame

LEMMA FlagFollows ==
  ASSUME NEW s, Sound(s), NEW k \in DOMAIN s.erc, NEW token, DOMAIN token = ErcFields,
         token.supply = s.erc[k].supply, token.std = s.erc[k].std,
         NEW erc, erc = [s.erc EXCEPT ![k] = token]
  PROVE  Follows(s, [s EXCEPT !.erc = erc])
<1>1. /\ DOMAIN s = Fields /\ AcctOK(s.acct) /\ MainOK(s.acct, s.main)
      /\ ErcOK(s.acct, s.erc, s.hold)
  BY SoundParts
<1>2. IsExcept(erc, s.erc, k, token)
  BY DEF IsExcept
<1>3. ErcOK(s.acct, erc, s.hold)
  BY <1>1, <1>2, ErcFlagged
<1>. DEFINE r == [s EXCEPT !.erc = erc]
<1>4. Parts(s, r, s.acct, s.main, erc, s.hold)
  BY <1>1 DEF Parts, Fields
<1>. HIDE DEF r
<1>5. Follows(s, r)
  BY <1>1, <1>3, <1>4, FollowsParts
<1>. QED
  BY <1>5 DEF r

LEMMA StopMintFollows ==
  ASSUME NEW m, NEW s, NEW std, Sound(s)
  PROVE  Follows(s, StopMint(m, s, std).s)
<1>1. \A k \in DOMAIN s.erc : DOMAIN s.erc[k] = ErcFields
  BY SoundParts
<1>2. ASSUME Mintable(m, s, std) PROVE Follows(s, StopMint(m, s, std).s)
  <2>. DEFINE token == [s.erc[m.token] EXCEPT !.stopmint = TRUE]
              erc == [s.erc EXCEPT ![m.token] = token]
  <2>1. m.token \in DOMAIN s.erc
    BY <1>2 DEF Mintable, Usable
  <2>2. StopMint(m, s, std) = Returns([s EXCEPT !.erc = erc])
    BY <1>2 DEF StopMint
  <2>3. /\ DOMAIN token = ErcFields /\ token.supply = s.erc[m.token].supply
        /\ token.std = s.erc[m.token].std
    BY <1>1, <2>1 DEF ErcFields
  <2>4. erc = [s.erc EXCEPT ![m.token] = token]
    OBVIOUS
  <2>. HIDE DEF token, erc
  <2>5. Follows(s, [s EXCEPT !.erc = erc])
    BY <2>1, <2>3, <2>4, FlagFollows
  <2>. QED
    BY <2>2, <2>5, ReturnsIs
<1>3. ASSUME ~Mintable(m, s, std) PROVE StopMint(m, s, std).s = s
  BY <1>3 DEF StopMint, Throws
<1>. QED
  BY <1>2, <1>3, FollowsSame

LEMMA RevokeFollows ==
  ASSUME NEW m, NEW s, NEW std, Sound(s)
  PROVE  Follows(s, Revoke(m, s, std).s)
<1>1. \A k \in DOMAIN s.erc : DOMAIN s.erc[k] = ErcFields
  BY SoundParts
<1>2. ASSUME Usable(m, s, std) PROVE Follows(s, Revoke(m, s, std).s)
  <2>. DEFINE token == [s.erc[m.token] EXCEPT !.revoked = TRUE]
              erc == [s.erc EXCEPT ![m.token] = token]
  <2>1. m.token \in DOMAIN s.erc
    BY <1>2 DEF Usable
  <2>2. Revoke(m, s, std) = Returns([s EXCEPT !.erc = erc])
    BY <1>2 DEF Revoke
  <2>3. /\ DOMAIN token = ErcFields /\ token.supply = s.erc[m.token].supply
        /\ token.std = s.erc[m.token].std
    BY <1>1, <2>1 DEF ErcFields
  <2>4. erc = [s.erc EXCEPT ![m.token] = token]
    OBVIOUS
  <2>. HIDE DEF token, erc
  <2>5. Follows(s, [s EXCEPT !.erc = erc])
    BY <2>1, <2>3, <2>4, FlagFollows
  <2>. QED
    BY <2>2, <2>5, ReturnsIs
<1>3. ASSUME ~Usable(m, s, std) PROVE Revoke(m, s, std).s = s
  BY <1>3 DEF Revoke, Throws
<1>. QED
  BY <1>2, <1>3, FollowsSame

LEMMA HandleFollows ==
  ASSUME NEW scope \in {"system", "erc20", "erc721"}, NEW m, m.type \in FunctionsOf(scope),
         AmountOK(m), NEW s, Sound(s), Handle(scope, m, s).ok
  PROVE  Follows(s, Handle(scope, m, s).s)
<1>1. m.type \in {"addaccount", "addcontract", "adderc20", "adderc721", "transfer", "lock",
                  "mint", "stopmint", "revoke", "transferfrom"}
  BY DEF FunctionsOf
<1>0. m.amount \in Int
  BY AmountInt
<1>2. CASE m.type = "addaccount"
  BY <1>0, <1>2, AddAccountFollows DEF Handle
<1>3. CASE m.type = "addcontract"
  BY <1>3, AddContractFollows DEF Handle
<1>4. CASE m.type = "adderc20"
  <2>1. Handle(scope, m, s) = AddErc(m, s, "erc20")
    BY <1>4 DEF Handle
  <2>2. m.amount \in ShareType
    BY <1>4 DEF AmountOK
  <2>. QED
    BY <2>1, <2>2, AddErcFollows
<1>5. CASE m.type = "adderc721"
  <2>1. Handle(scope, m, s) = AddErc(m, s, "erc721")
    BY <1>5 DEF Handle
  <2>. QED
    BY <2>1, AddErcFollows
<1>6. CASE m.type = "transfer"
  <2>1. Handle(scope, m, s) = Transfer(m, s)
    BY <1>6 DEF Handle
  <2>2. m.amount \in Nat
    BY <1>6 DEF AmountOK
  <2>. QED
    BY <2>1, <2>2, TransferFollows
<1>7. CASE m.type = "lock"
  <2>1. Handle(scope, m, s).s = s
    BY <1>7 DEF Handle, Lock, Throws
  <2>. QED
    BY <2>1, FollowsSame
<1>8. CASE m.type = "mint"
  BY <1>0, <1>8, Mint20Follows, Mint721Follows DEF Handle
<1>9. CASE m.type = "transferfrom"
  BY <1>0, <1>9, TransferFrom20Follows, TransferFrom721Follows DEF Handle
<1>10. CASE m.type = "stopmint"
  BY <1>10, StopMintFollows DEF Handle
<1>11. CASE m.type = "revoke"
  BY <1>11, RevokeFollows DEF Handle
<1>. QED
  BY <1>1, <1>2, <1>3, <1>4, <1>5, <1>6, <1>7, <1>8, <1>9, <1>10, <1>11

LEMMA ReceiptedFollows ==
  ASSUME NEW s, Sound(s)
  PROVE  Follows(s, Receipted(s))
<1>1. DOMAIN s = Fields
  BY SoundParts
<1>2. Parts(s, Receipted(s), s.acct, s.main, s.erc, s.hold)
  BY <1>1 DEF Parts, Fields, Receipted
<1>. QED
  BY <1>2, OtherFollows

-----------------------------------------------------------------------------
(* The messages of a transaction.                                          *)

RunFields == {"ok", "s", "gas", "price", "limit"}

\* A run that began with contents s; what it leaves when it throws is undone.
RunOK(s, run) ==
  /\ DOMAIN run = RunFields /\ run.gas \in Nat /\ run.price \in Nat /\ run.limit \in Nat
  /\ run.ok => Follows(s, run.s)

\* A run whose contents and gas are new.
LEMMA RunOn ==
  ASSUME NEW s, NEW run, RunOK(s, run), run.ok, NEW q, DOMAIN q = RunFields,
         q.price = run.price, q.limit = run.limit, q.gas \in Nat,
         q.ok => Follows(run.s, q.s)
  PROVE  RunOK(s, q)
<1>1. Follows(s, run.s)
  BY DEF RunOK
<1>2. q.ok => Follows(s, q.s)
  BY <1>1, FollowsOn
<1>. QED
  BY <1>2 DEF RunOK

LEMMA PlusNat ==
  ASSUME NEW used \in Nat, NEW gas \in Nat
  PROVE  Plus(used, gas) \in Nat
BY TokensAssumption DEF Plus

LEMMA RunContractOK ==
  ASSUME NEW s, NEW m, AmountOK(m), NEW run, RunOK(s, run), run.ok
  PROVE  RunOK(s, RunContract(m, run))
<1>. DEFINE count == IF m.amount < 0 THEN 0 ELSE m.amount
            throws == m.type = "crash" \/ count > InstructionLimit(run)
            d == [run.s EXCEPT !.data = @ + (IF throws THEN 1 ELSE 2)]
            gas == IF throws THEN run.gas ELSE Plus(run.gas, count * run.price)
            q == [run EXCEPT !.s = Receipted(d), !.gas = gas]
<1>1. /\ DOMAIN run = RunFields /\ run.gas \in Nat /\ run.price \in Nat /\ run.limit \in Nat
      /\ Sound(run.s)
  BY DEF RunOK, Follows
<1>2. gas \in Nat
  <2>1. count \in Nat
    BY AmountInt
  <2>. HIDE DEF count
  <2>2. count * run.price \in Nat
    BY <1>1, <2>1
  <2>3. Plus(run.gas, count * run.price) \in Nat
    BY ONLY <1>1, <2>2, PlusNat
  <2>. QED
    BY <1>1, <2>3
<1>3. Follows(run.s, d)
  <2>1. DOMAIN run.s = Fields
    BY <1>1, SoundParts
  <2>2. Parts(run.s, d, run.s.acct, run.s.main, run.s.erc, run.s.hold)
    BY <2>1 DEF Parts, Fields
  <2>. HIDE DEF d
  <2>. QED
    BY <1>1, <2>2, OtherFollows
<1>4. RunContract(m, run) = q
  BY DEF RunContract
<1>. HIDE DEF d, gas
<1>5. Follows(run.s, Receipted(d))
  <2>1. Sound(d)
    BY <1>3 DEF Follows
  <2>. QED
    BY <1>3, <2>1, ReceiptedFollows, FollowsOn
<1>6. /\ DOMAIN q = RunFields /\ q.price = run.price /\ q.limit = run.limit /\ q.gas = gas
      /\ q.s = Receipted(d)
  BY <1>1 DEF RunFields
<1>. HIDE DEF q
<1>7. q.gas \in Nat /\ Follows(run.s, q.s)
  BY <1>2, <1>5, <1>6
<1>8. RunOK(s, q)
  BY <1>6, <1>7, RunOn
<1>. QED
  BY <1>4, <1>8

LEMMA ChargedOK ==
  ASSUME NEW s, NEW m, NEW run, RunOK(s, run), run.ok, NEW is_notify
  PROVE  RunOK(s, Charged(m, run, is_notify)) /\ Charged(m, run, is_notify).s = run.s
<1>. DEFINE gas == Plus(run.gas, GasStep(m) * run.price)
            q == [run EXCEPT !.gas = gas, !.ok = gas <= run.limit]
<1>1. /\ DOMAIN run = RunFields /\ run.gas \in Nat /\ run.price \in Nat /\ run.limit \in Nat
      /\ Sound(run.s)
  BY DEF RunOK, Follows
<1>2. gas \in Nat
  <2>1. GasStep(m) * run.price \in Nat
    <3>1. GasStep(m) \in Nat
      BY DEF GasStep
    <3>. QED
      BY <1>1, <3>1
  <2>. QED
    BY ONLY <1>1, <2>1, PlusNat
<1>3. Charged(m, run, is_notify) = run \/ Charged(m, run, is_notify) = q
  BY DEF Charged
<1>. HIDE DEF gas
<1>4. /\ DOMAIN q = RunFields /\ q.price = run.price /\ q.limit = run.limit /\ q.gas = gas
      /\ q.s = run.s
  BY <1>1 DEF RunFields
<1>. HIDE DEF q
<1>5. q.gas \in Nat /\ Follows(run.s, q.s)
  BY <1>1, <1>2, <1>4, FollowsSame
<1>6. RunOK(s, q)
  BY <1>4, <1>5, RunOn
<1>. QED
  BY <1>3, <1>4, <1>6

\* A run that only differs in whether it is ok, and in contents.
LEMMA RunTo ==
  ASSUME NEW s, NEW run, RunOK(s, run), run.ok, NEW ok, NEW r, ok => Follows(run.s, r)
  PROVE  RunOK(s, [run EXCEPT !.ok = ok, !.s = r])
<1>. DEFINE q == [run EXCEPT !.ok = ok, !.s = r]
<1>1. DOMAIN run = RunFields /\ run.gas \in Nat
  BY DEF RunOK
<1>2. /\ DOMAIN q = RunFields /\ q.price = run.price /\ q.limit = run.limit /\ q.gas = run.gas
      /\ q.s = r /\ q.ok = ok
  BY <1>1 DEF RunFields
<1>. HIDE DEF q
<1>3. q.gas \in Nat /\ (q.ok => Follows(run.s, q.s))
  BY <1>1, <1>2
<1>4. RunOK(s, q)
  BY <1>2, <1>3, RunOn
<1>. QED
  BY <1>4 DEF q

LEMMA RunNativeOK ==
  ASSUME NEW s, NEW m, AmountOK(m), NEW run, RunOK(s, run), NEW is_notify,
         NEW scope \in {"system", "erc20", "erc721"}
  PROVE  RunOK(s, RunNative(scope, m, run, is_notify))
<1>1. (run.ok => Sound(run.s)) /\ DOMAIN run = RunFields
  BY DEF RunOK, Follows
<1>2. CASE ~run.ok
  BY <1>2 DEF RunNative
<1>3. CASE run.ok /\ m.type \in FunctionsOf(scope)
  <2>. DEFINE res == Handle(scope, m, run.s)
              r == IF res.ok THEN Receipted(res.s) ELSE res.s
  <2>1. res.ok => Follows(run.s, res.s)
    BY <1>1, <1>3, HandleFollows
  <2>2. RunNative(scope, m, run, is_notify) = After(run, res)
    BY <1>3 DEF RunNative
  <2>. HIDE DEF res
  <2>3. ASSUME res.ok PROVE Follows(run.s, r)
    <3>0. Follows(run.s, res.s)
      BY <2>1, <2>3
    <3>1. Follows(res.s, Receipted(res.s))
      BY <3>0, ReceiptedFollows DEF Follows
    <3>2. Follows(run.s, Receipted(res.s))
      BY <3>0, <3>1, FollowsOn
    <3>. QED
      BY <2>3, <3>2
  <2>4. After(run, res) = [run EXCEPT !.ok = res.ok, !.s = r]
    BY DEF After
  <2>. HIDE DEF r
  <2>. QED
    <3>1. RunOK(s, [run EXCEPT !.ok = res.ok, !.s = r])
      BY <1>3, <2>3, RunTo
    <3>. QED
      BY <2>2, <2>4, <3>1
<1>4. CASE run.ok /\ m.type \notin FunctionsOf(scope) /\ is_notify
  <2>1. RunNative(scope, m, run, is_notify) = [run EXCEPT !.s = Receipted(run.s)]
    BY <1>4 DEF RunNative
  <2>2. [run EXCEPT !.s = Receipted(run.s)] = [run EXCEPT !.ok = run.ok, !.s = Receipted(run.s)]
    BY <1>1 DEF RunFields
  <2>3. RunOK(s, [run EXCEPT !.ok = run.ok, !.s = Receipted(run.s)])
    BY <1>1, <1>4, ReceiptedFollows, RunTo
  <2>. QED
    BY <2>1, <2>2, <2>3
<1>5. CASE run.ok /\ m.type \notin FunctionsOf(scope) /\ ~is_notify
  <2>1. RunNative(scope, m, run, is_notify) = [run EXCEPT !.ok = FALSE]
    BY <1>5 DEF RunNative
  <2>2. [run EXCEPT !.ok = FALSE] = [run EXCEPT !.ok = FALSE, !.s = run.s]
    BY <1>1 DEF RunFields
  <2>3. RunOK(s, [run EXCEPT !.ok = FALSE, !.s = run.s])
    BY <1>5, RunTo
  <2>. QED
    BY <2>1, <2>2, <2>3
<1>. QED
  BY <1>2, <1>3, <1>4, <1>5

LEMMA ExecOneOK ==
  ASSUME NEW s, NEW m, AmountOK(m), NEW run, RunOK(s, run), run.ok, NEW is_notify, NEW a
  PROVE  RunOK(s, ExecOne(a, m, run, is_notify))
<1>1. Sound(run.s) /\ DOMAIN run = RunFields
  BY DEF RunOK, Follows
<1>2. CASE a \notin DOMAIN run.s.acct
  <2>1. ExecOne(a, m, run, is_notify) = [run EXCEPT !.ok = FALSE]
    BY <1>2 DEF ExecOne
  <2>2. [run EXCEPT !.ok = FALSE] = [run EXCEPT !.ok = FALSE, !.s = run.s]
    BY <1>1 DEF RunFields
  <2>3. RunOK(s, [run EXCEPT !.ok = FALSE, !.s = run.s])
    BY RunTo
  <2>. QED
    BY <2>1, <2>2, <2>3
<1>3. CASE a \in DOMAIN run.s.acct /\ run.s.acct[a] = "contract"
  BY <1>3, RunContractOK DEF ExecOne
<1>4. CASE a \in DOMAIN run.s.acct /\ run.s.acct[a] # "contract"
  <2>. DEFINE scope == NativeScope(run.s.acct[a])
              q == Charged(m, run, is_notify)
  <2>1. ExecOne(a, m, run, is_notify) = RunNative(scope, m, q, is_notify)
    BY <1>4 DEF ExecOne
  <2>2. run.s.acct[a] \in AccountTypes
    BY <1>1, <1>4, SoundParts DEF AcctOK
  <2>3. scope \in {"system", "erc20", "erc721"}
    BY <1>4, <2>2 DEF NativeScope, AccountTypes
  <2>4. RunOK(s, q)
    BY ChargedOK
  <2>. HIDE DEF scope, q
  <2>5. RunOK(s, RunNative(scope, m, q, is_notify))
    BY ONLY AmountOK(m), <2>3, <2>4, RunNativeOK
  <2>. QED
    BY <2>1, <2>5
<1>. QED
  BY <1>2, <1>3, <1>4

LEMMA NotifyAllOK ==
  ASSUME NEW s, NEW m, AmountOK(m), NEW run, RunOK(s, run)
  PROVE  RunOK(s, NotifyAll(m, run))
<1>1. CASE ~run.ok \/ run.s.acct[m.code] = "contract"
  BY <1>1 DEF NotifyAll
<1>2. CASE ~(~run.ok \/ run.s.acct[m.code] = "contract")
  <2>. DEFINE r == Recipients(m, run.s)
              n == Len(r)
              p == <<m, r>>
  <2>1. n \in Nat /\ r = Recipients(m, run.s)
    BY DEF Recipients
  <2>2. p[1] = m /\ p[2] = r
    OBVIOUS
  <2>. HIDE DEF r
  <2>3. PICK g : Loop(g, "notify", p, run, n) /\ NotifyAll(m, run) = g[n]
    BY <1>2, <2>1, NotifyLoop
  <2>. HIDE DEF n, p
  <2>4. g[0] = run /\ \A i \in 1..n : g[i] = Turn("notify", p, g[i - 1], i)
    BY <2>1, <2>3, LoopTurns
  <2>. DEFINE Bad == {i \in Nat : i <= n /\ ~RunOK(s, g[i])}
  <2>5. ASSUME Bad # {} PROVE FALSE
    <3>0. Bad \subseteq Nat
      OBVIOUS
    <3>1. PICK i \in Bad : \A j \in Bad : ~(j < i)
      <4>. HIDE DEF Bad
      <4>. QED
        BY <2>5, <3>0, Least
    <3>2. i # 0 /\ i \in 1..n /\ i - 1 \in Nat /\ i - 1 <= n /\ i - 1 < i
      BY <2>1, <2>4, <3>1
    <3>3. RunOK(s, g[i - 1])
      BY <3>1, <3>2
    <3>4. g[i] = NotifyOne(m, r, g[i - 1], i)
      BY <2>2, <2>4, <3>2 DEF Turn
    <3>5. RunOK(s, g[i])
      BY <3>3, <3>4, ExecOneOK DEF NotifyOne
    <3>. QED
      BY <3>1, <3>5
  <2>. QED
    BY <2>1, <2>3, <2>5
<1>. QED
  BY <1>1, <1>2

LEMMA ExecMessageOK ==
  ASSUME NEW s, NEW m, AmountOK(m), NEW run, RunOK(s, run)
  PROVE  RunOK(s, ExecMessage(run, m))
<1>1. run.ok => RunOK(s, ExecOne(m.code, m, run, FALSE))
  BY ExecOneOK
<1>2. run.ok => RunOK(s, NotifyAll(m, ExecOne(m.code, m, run, FALSE)))
  BY <1>1, NotifyAllOK
<1>. QED
  BY <1>2 DEF ExecMessage

LEMMA ExecAllOK ==
  ASSUME NEW s, NEW ms, Len(ms) \in Nat, \A i \in 1..Len(ms) : AmountOK(ms[i]),
         NEW run, RunOK(s, run)
  PROVE  RunOK(s, ExecAll(ms, run))
<1>. DEFINE n == Len(ms)
<1>1. PICK g : Loop(g, "messages", ms, run, n) /\ ExecAll(ms, run) = g[n]
  BY ExecAllLoop
<1>2. n \in Nat /\ \A i \in 1..n : AmountOK(ms[i])
  OBVIOUS
<1>. HIDE DEF n
<1>3. g[0] = run /\ \A i \in 1..n : g[i] = Turn("messages", ms, g[i - 1], i)
  BY <1>1, <1>2, LoopTurns
<1>. DEFINE Bad == {i \in Nat : i <= n /\ ~RunOK(s, g[i])}
<1>4. ASSUME Bad # {} PROVE FALSE
  <2>0. Bad \subseteq Nat
    OBVIOUS
  <2>1. PICK i \in Bad : \A j \in Bad : ~(j < i)
    <3>. HIDE DEF Bad
    <3>. QED
      BY <1>4, <2>0, Least
  <2>2. i # 0 /\ i \in 1..n /\ i - 1 \in Nat /\ i - 1 <= n /\ i - 1 < i
    BY <1>2, <1>3, <2>1
  <2>3. RunOK(s, g[i - 1])
    BY <2>1, <2>2
  <2>4. g[i] = ExecMessage(g[i - 1], ms[i])
    BY <1>3, <2>2 DEF Turn
  <2>5. RunOK(s, g[i])
    <3>1. AmountOK(ms[i])
      BY <1>2, <2>2
    <3>. QED
      BY <2>3, <2>4, <3>1, ExecMessageOK
  <2>. QED
    BY <2>1, <2>5
<1>. QED
  BY <1>1, <1>2, <1>4

LEMMA TransferGasFollows ==
  ASSUME NEW t, NEW by, NEW s, Sound(s), NEW used \in Nat
  PROVE  Follows(s, TransferGas(t, by, s, used).s)
<1>1. /\ DOMAIN s = Fields /\ AcctOK(s.acct) /\ MainOK(s.acct, s.main)
      /\ ErcOK(s.acct, s.erc, s.hold) /\ \A a \in DOMAIN s.main : s.main[a] \in Nat
  BY SoundParts
<1>. DEFINE main == Moved(s.main, t.payer, by, used)
            r == [s EXCEPT !.main = main]
<1>2. ASSUME {t.payer, by} \subseteq DOMAIN s.main, ~(s.main[t.payer] < used)
      PROVE  Follows(s, r)
  <2>1. used <= s.main[t.payer] /\ t.payer \in DOMAIN s.main /\ by \in DOMAIN s.main
    BY <1>1, <1>2
  <2>2. main = Moved(s.main, t.payer, by, used)
    OBVIOUS
  <2>. HIDE DEF main
  <2>3. MainOK(s.acct, main)
    BY <1>1, <2>1, <2>2, MainMoved
  <2>4. Parts(s, r, s.acct, main, s.erc, s.hold)
    BY <1>1 DEF Parts, Fields
  <2>. QED
    BY <1>1, <2>3, <2>4, FollowsParts
<1>3. CASE used = 0 \/ ~{t.payer, by} \subseteq DOMAIN s.main \/ s.main[t.payer] < used
  <2>1. TransferGas(t, by, s, used).s = s
    BY <1>3 DEF TransferGas, Returns, Throws
  <2>. QED
    BY <2>1, FollowsSame
<1>4. CASE ~(used = 0 \/ ~{t.payer, by} \subseteq DOMAIN s.main \/ s.main[t.payer] < used)
  <2>1. TransferGas(t, by, s, used) = Returns(r)
    BY <1>4 DEF TransferGas
  <2>. HIDE DEF r
  <2>. QED
    BY <1>2, <1>4, <2>1, ReturnsIs
<1>. QED
  BY <1>3, <1>4

\* A transaction.
IsTrx(t) ==
  /\ t.gas \in Nat /\ t.gaslimit \in Nat /\ Len(t.msgs) \in Nat
  /\ \A i \in 1..Len(t.msgs) : AmountOK(t.msgs[i])

\* The contents r have what s has, and transaction t.
Records(s, t, r) ==
  Sound(r) /\ r.done = s.done \cup {t.id} /\ r.trxs = s.trxs + 1

\* A transaction that does not throw keeps the contents sound, and is recorded.
LEMMA EffectRecords ==
  ASSUME NEW t, IsTrx(t), NEW by, NEW s, Sound(s), Effect(t, by, s).ok
  PROVE  Records(s, t, Effect(t, by, s).s)
<1>. DEFINE start == [ok |-> TRUE, s |-> s, gas |-> 0, price |-> t.gas, limit |-> t.gaslimit]
            run == Exec(t, s)
            res == TransferGas(t, by, run.s, run.gas)
            r == [res.s EXCEPT !.done = @ \cup {t.id}, !.trxs = @ + 1]
<1>1. Effect(t, by, s) = Concluded(t, by, run)
  <2>1. ~(~PayerCovers(t, s) \/ ~t.auth)
    BY DEF Effect, Throws
  <2>. QED
    BY <2>1 DEF Effect
<1>2. RunOK(s, run)
  <2>1. /\ DOMAIN start = RunFields /\ start.gas = 0 /\ start.price = t.gas
        /\ start.limit = t.gaslimit /\ start.s = s
    BY DEF RunFields
  <2>2. run = ExecAll(t.msgs, start)
    BY DEF Exec
  <2>. HIDE DEF start
  <2>3. RunOK(s, start)
    BY <2>1, FollowsSame DEF RunOK, IsTrx
  <2>. QED
    BY <2>2, <2>3, ExecAllOK DEF IsTrx
<1>. HIDE DEF run
<1>3. Effect(t, by, s) = Receipt(t, res)
  BY <1>1 DEF Concluded, Throws
<1>4. Follows(s, res.s)
  <2>0. run.ok
    BY <1>1 DEF Concluded, Throws
  <2>1. Sound(run.s) /\ run.gas \in Nat /\ Follows(s, run.s)
    BY <1>2, <2>0 DEF RunOK, Follows
  <2>2. Follows(run.s, res.s)
    BY <2>1, TransferGasFollows
  <2>. QED
    BY <2>1, <2>2, FollowsOn
<1>. HIDE DEF res
<1>5. Effect(t, by, s).s = r
  BY <1>3 DEF Receipt, Returns
<1>6. /\ DOMAIN res.s = Fields /\ res.s.done = s.done /\ res.s.trxs = s.trxs
      /\ AcctOK(res.s.acct) /\ MainOK(res.s.acct, res.s.main)
      /\ ErcOK(res.s.acct, res.s.erc, res.s.hold)
  BY <1>4 DEF Follows, Sound
<1>7. /\ DOMAIN r = Fields /\ r.done = s.done \cup {t.id} /\ r.trxs = s.trxs + 1
      /\ r.acct = res.s.acct /\ r.main = res.s.main /\ r.erc = res.s.erc /\ r.hold = res.s.hold
  BY <1>6 DEF Fields
<1>. HIDE DEF r
<1>8. Sound(r)
  BY <1>6, <1>7 DEF Sound
<1>. QED
  BY <1>5, <1>7, <1>8 DEF Records

-----------------------------------------------------------------------------
(* The genesis block.                                                      *)

LEMMA EmptySound == Sound(Empty) /\ Empty.trxs = 0 /\ Empty.done = {}
<1>. DEFINE acct == [a \in {System} |-> "system"]
            main == [a \in {System} |-> Supply]
<1>1. /\ DOMAIN acct = {System} /\ acct[System] = "system"
      /\ DOMAIN main = {System} /\ main[System] = Supply
  OBVIOUS
<1>2. DOMAIN <<>> = {}
  OBVIOUS
<1>. HIDE DEF acct, main
<1>3. /\ DOMAIN Empty = Fields /\ Empty.acct = acct /\ Empty.main = main /\ Empty.erc = <<>>
      /\ Empty.hold = <<>> /\ Empty.trxs = 0 /\ Empty.done = {}
  BY DEF Empty, Fields, acct, main
<1>4. AcctOK(acct)
  BY <1>1 DEF AcctOK, AccountTypes
<1>5. MainOK(acct, main)
  <2>1. IsFiniteSet({System})
    BY FS_Singleton
  <2>2. Amounts(main)
    BY <1>1, <2>1, AmountsAssumption DEF Amounts, Values
  <2>3. Sum(main, {System}) = main[System] + Sum(main, {System} \ {System})
    <3>1. \A y \in {System} : main[y] \in Int
      BY <1>1, AmountsAssumption
    <3>. QED
      BY <2>1, <3>1, SumTake
  <2>4. {System} \ {System} = {} /\ Sum(main, {}) = 0
    BY SumPick, FS_EmptySet
  <2>5. Sum(main, {System}) = Supply
    <3>1. Sum(main, {System}) = main[System] + Sum(main, {})
      BY <2>3, <2>4, Zenon
    <3>2. Sum(main, {}) = 0
      BY <2>4
    <3>. QED
      BY <1>1, <3>1, <3>2, AmountsAssumption
  <2>. QED
    BY <1>1, <2>2, <2>5 DEF MainOK
<1>6. ErcOK(acct, <<>>, <<>>)
  <2>1. Shares(<<>>)
    BY <1>2, FS_EmptySet DEF Shares, Values
  <2>. QED
    BY <1>2, <2>1 DEF ErcOK
<1>. QED
  BY <1>3, <1>4, <1>5, <1>6 DEF Sound

\* The messages of the genesis transaction.
Allocations ==
  {m \in [code : {System}, type : {"addaccount", "transfer"}, from : {System},
          to : {Accounts[i].name : i \in 1..Len(Accounts)}, amount : ShareType,
          token : {"none"}] : AmountOK(m)}

LEMMA GenesisAmounts == GenesisMessages \in Seq(Allocations)
<1>. DEFINE n == Len(Accounts)
<1>1. n \in Nat
  BY AmountsAssumption
<1>2. PICK g : Loop(g, "genesis", Accounts, <<>>, n) /\ GenesisMessages = g[n]
  BY <1>1, GenesisLoop
<1>3. g[0] = <<>> /\ \A i \in 1..n : g[i] = Turn("genesis", Accounts, g[i - 1], i)
  BY <1>1, <1>2, LoopTurns
<1>4. ASSUME NEW i \in 1..n PROVE Allocation(Accounts[i]) \in Seq(Allocations)
  <2>. DEFINE a == Accounts[i]
              first == SystemMessage("addaccount", a.name, a.staking)
              second == SystemMessage("transfer", a.name, a.tokens)
  <2>1. a.staking \in ShareType /\ a.tokens \in ShareType /\ a.tokens \in Int
    BY AmountsAssumption, ShareTypeIs
  <2>2. first \in Allocations /\ (a.tokens > 0 => second \in Allocations)
    <3>1. AmountOK(first) /\ (a.tokens > 0 => AmountOK(second))
      BY <2>1 DEF AmountOK, SystemMessage
    <3>. QED
      BY <2>1, <3>1 DEF Allocations, SystemMessage
  <2>3. Allocation(a) = <<first>> \o (IF a.tokens > 0 THEN <<second>> ELSE <<>>)
    BY DEF Allocation
  <2>. HIDE DEF first, second, a
  <2>4. Allocation(a) \in Seq(Allocations)
    BY <2>2, <2>3
  <2>. QED
    BY <2>4 DEF a
<1>. HIDE DEF n
<1>. DEFINE Bad == {i \in Nat : i <= n /\ g[i] \notin Seq(Allocations)}
<1>5. ASSUME Bad # {} PROVE FALSE
  <2>0. Bad \subseteq Nat
    OBVIOUS
  <2>1. PICK i \in Bad : \A j \in Bad : ~(j < i)
    <3>. HIDE DEF Bad
    <3>. QED
      BY <1>5, <2>0, Least
  <2>2. i # 0 /\ i \in 1..n /\ i - 1 \in Nat /\ i - 1 <= n /\ i - 1 < i
    <3>1. <<>> \in Seq(Allocations)
      OBVIOUS
    <3>2. i \in Nat /\ i <= n /\ g[i] \notin Seq(Allocations)
      BY <2>1
    <3>3. i # 0
      BY <1>3, <3>1, <3>2
    <3>. QED
      BY <1>1, <3>2, <3>3
  <2>3. g[i - 1] \in Seq(Allocations)
    BY <2>1, <2>2
  <2>4. g[i] = g[i - 1] \o Allocation(Accounts[i])
    BY <1>3, <2>2 DEF Turn
  <2>5. Allocation(Accounts[i]) \in Seq(Allocations)
    BY <1>4, <2>2
  <2>6. g[i] \in Seq(Allocations)
    BY <2>3, <2>4, <2>5
  <2>. QED
    BY <2>1, <2>6
<1>. QED
  BY <1>1, <1>2, <1>5

LEMMA GenesisSound == Sound(Genesis) /\ Genesis.trxs \in Nat
<1>. DEFINE t == [id |-> "genesis", gas |-> 0, gaslimit |-> 0, payer |-> "none", auth |-> TRUE,
                  exp |-> 0, msgs |-> GenesisMessages]
<1>1. GenesisEffect = Effect(t, System, Empty)
  BY DEF GenesisEffect
<1>2. t.gas = 0 /\ t.gaslimit = 0 /\ t.msgs = GenesisMessages
  OBVIOUS
<1>. HIDE DEF t
<1>3. IsTrx(t)
  <2>1. /\ Len(GenesisMessages) \in Nat
        /\ \A i \in 1..Len(GenesisMessages) : GenesisMessages[i] \in Allocations
    BY GenesisAmounts
  <2>2. \A m \in Allocations : AmountOK(m)
    BY DEF Allocations
  <2>. QED
    BY <1>2, <2>1, <2>2 DEF IsTrx
<1>4. ASSUME GenesisEffect.ok PROVE Records(Empty, t, GenesisEffect.s)
  BY <1>1, <1>3, <1>4, EmptySound, EffectRecords
<1>. QED
  BY <1>4, EmptySound DEF Genesis, Records

-----------------------------------------------------------------------------
(* Sequences of sessions and of blocks.                                    *)

LEMMA Appended ==
  ASSUME NEW S, NEW u \in Seq(S), NEW x, NEW v, v = Append(u, x)
  PROVE  /\ v \in Seq(S \cup {x}) /\ Len(v) = Len(u) + 1 /\ v[Len(u) + 1] = x
         /\ \A i \in 1..Len(u) : v[i] = u[i]
         /\ v # <<>> /\ SubSeq(v, 1, Len(u)) = u
<1>1. u \in Seq(S \cup {x}) /\ Len(u) \in Nat /\ \A i \in 1..Len(u) : u[i] \in S
  OBVIOUS
<1>2. /\ v \in Seq(S \cup {x}) /\ Len(v) = Len(u) + 1 /\ v[Len(u) + 1] = x
      /\ \A i \in 1..Len(u) : v[i] = u[i]
  BY <1>1
<1>3. v # <<>>
  BY <1>1, <1>2
<1>4. SubSeq(v, 1, Len(u)) = u
  <2>. DEFINE w == SubSeq(v, 1, Len(u))
              n == Len(u)
  <2>1. n \in Int /\ 1 \in Int /\ \A i \in 1..n : v[i] \in S \cup {x}
    BY <1>1, <1>2
  <2>2. /\ w \in Seq(S \cup {x}) /\ Len(w) = (IF 1 <= n THEN n - 1 + 1 ELSE 0)
        /\ \A i \in 1..(n - 1 + 1) : w[i] = v[1 + i - 1]
    BY ONLY <2>1, SubSeqProperties
  <2>3. Len(w) = n /\ \A i \in 1..n : w[i] = u[i]
    BY <1>1, <1>2, <2>2
  <2>. HIDE DEF w, n
  <2>4. w = u
    BY <1>1, <2>2, <2>3, SeqEqual DEF n
  <2>. QED
    BY <2>4 DEF w
<1>. QED
  BY <1>2, <1>3, <1>4

\* The first k blocks.
Upto(bs, k) == SubSeq(bs, 1, k)

LEMMA UptoIs ==
  ASSUME NEW S, NEW bs \in Seq(S), NEW k \in 0..Len(bs)
  PROVE  /\ Upto(bs, k) \in Seq(S) /\ Len(Upto(bs, k)) = k
         /\ \A i \in 1..k : Upto(bs, k)[i] = bs[i]
<1>1. k \in Int /\ 1 \in Int /\ \A i \in 1..k : bs[i] \in S
  OBVIOUS
<1>2. /\ SubSeq(bs, 1, k) \in Seq(S) /\ Len(SubSeq(bs, 1, k)) = (IF 1 <= k THEN k - 1 + 1 ELSE 0)
      /\ \A i \in 1..(k - 1 + 1) : SubSeq(bs, 1, k)[i] = bs[1 + i - 1]
  BY ONLY <1>1, SubSeqProperties
<1>. QED
  BY <1>1, <1>2 DEF Upto

LEMMA UptoAll ==
  ASSUME NEW S, NEW bs \in Seq(S)
  PROVE  Upto(bs, Len(bs)) = bs
BY SubSeqFull DEF Upto

LEMMA UptoAppend ==
  ASSUME NEW S, NEW bs \in Seq(S), NEW b \in S, NEW k \in 0..Len(bs)
  PROVE  Upto(Append(bs, b), k) = Upto(bs, k)
<1>. DEFINE cs == Append(bs, b)
<1>1. cs \in Seq(S) /\ k \in 0..Len(cs) /\ \A i \in 1..k : cs[i] = bs[i]
  OBVIOUS
<1>. HIDE DEF cs
<1>2. /\ Upto(cs, k) \in Seq(S) /\ Len(Upto(cs, k)) = k /\ \A i \in 1..k : Upto(cs, k)[i] = cs[i]
  BY <1>1, UptoIs
<1>3. /\ Upto(bs, k) \in Seq(S) /\ Len(Upto(bs, k)) = k /\ \A i \in 1..k : Upto(bs, k)[i] = bs[i]
  BY UptoIs
<1>4. \A i \in 1..Len(Upto(cs, k)) : Upto(cs, k)[i] = Upto(bs, k)[i]
  BY <1>1, <1>2, <1>3
<1>5. Upto(cs, k) = Upto(bs, k)
  BY ONLY <1>2, <1>3, <1>4, SeqEqual
<1>. QED
  BY <1>5 DEF cs

LEMMA UptoUpto ==
  ASSUME NEW S, NEW bs \in Seq(S), NEW n \in 0..Len(bs), NEW k \in 0..n
  PROVE  Upto(Upto(bs, n), k) = Upto(bs, k)
<1>. DEFINE cs == Upto(bs, n)
<1>1. cs \in Seq(S) /\ Len(cs) = n /\ \A i \in 1..n : cs[i] = bs[i]
  BY UptoIs
<1>. HIDE DEF cs
<1>2. k \in 0..Len(cs) /\ k \in 0..Len(bs)
  BY <1>1
<1>3. /\ Upto(cs, k) \in Seq(S) /\ Len(Upto(cs, k)) = k /\ \A i \in 1..k : Upto(cs, k)[i] = cs[i]
  BY <1>1, <1>2, UptoIs
<1>4. /\ Upto(bs, k) \in Seq(S) /\ Len(Upto(bs, k)) = k /\ \A i \in 1..k : Upto(bs, k)[i] = bs[i]
  BY <1>2, UptoIs
<1>5. \A i \in 1..Len(Upto(cs, k)) : Upto(cs, k)[i] = Upto(bs, k)[i]
  BY <1>1, <1>3, <1>4
<1>6. Upto(cs, k) = Upto(bs, k)
  BY ONLY <1>3, <1>4, <1>5, SeqEqual
<1>. QED
  BY <1>6 DEF cs

\* A chain without its last block, and that block.
LEMMA UptoLast ==
  ASSUME NEW S, NEW bs \in Seq(S), Len(bs) # 0
  PROVE  bs = Append(Upto(bs, Len(bs) - 1), bs[Len(bs)]) /\ bs[Len(bs)] \in S
<1>. DEFINE n == Len(bs)
            cs == Upto(bs, n - 1)
            ds == Append(cs, bs[n])
<1>1. n \in Nat /\ n - 1 \in 0..Len(bs) /\ n \in 1..Len(bs) /\ bs[n] \in S
  OBVIOUS
<1>2. cs \in Seq(S) /\ Len(cs) = n - 1 /\ \A i \in 1..(n - 1) : cs[i] = bs[i]
  BY ONLY <1>1, bs \in Seq(S), UptoIs
<1>. HIDE DEF n, cs
<1>3. ds \in Seq(S) /\ Len(ds) = n /\ \A i \in 1..n : ds[i] = bs[i]
  BY <1>1, <1>2
<1>. HIDE DEF ds
<1>4. ds = bs
  <2>1. Len(bs) = n
    BY DEF n
  <2>. QED
    BY <1>3, <2>1, SeqEqual
<1>. QED
  BY <1>1, <1>4 DEF ds, cs, n

-----------------------------------------------------------------------------
(* Sessions.                                                               *)

DbFields == {"state", "undo", "rev"}

IsDb(d) == DOMAIN d = DbFields /\ d.rev \in Int /\ \E S : d.undo \in Seq(S)

Like(q, state, undo, rev) ==
  DOMAIN q = DbFields /\ q.state = state /\ q.undo = undo /\ q.rev = rev

LEMMA Begun ==
  ASSUME NEW d, IsDb(d)
  PROVE  Like(StartSession(d), d.state, Append(d.undo, [rev |-> d.rev + 1, to |-> d.state]),
              d.rev + 1)
<1>. DEFINE v == Append(d.undo, [rev |-> d.rev + 1, to |-> d.state])
            e == [d EXCEPT !.undo = v, !.rev = d.rev + 1]
<1>1. StartSession(d) = e
  BY DEF StartSession
<1>. HIDE DEF v
<1>2. Like(e, d.state, v, d.rev + 1)
  BY DEF IsDb, DbFields, Like
<1>. QED
  BY <1>1, <1>2 DEF v

LEMMA Undone ==
  ASSUME NEW e, NEW s, NEW S, NEW u \in Seq(S), NEW r \in Int, NEW x,
         Like(e, s, Append(u, x), r)
  PROVE  Like(UndoSession(e), x.to, u, r - 1)
<1>. DEFINE v == Append(u, x)
            q == [state |-> v[Len(v)].to, undo |-> SubSeq(v, 1, Len(v) - 1), rev |-> r - 1]
<1>1. v # <<>> /\ Len(v) = Len(u) + 1 /\ v[Len(u) + 1] = x /\ SubSeq(v, 1, Len(u)) = u
  BY Appended
<1>2. Len(u) \in Nat
  OBVIOUS
<1>3. e.undo = v /\ e.rev = r
  BY DEF Like
<1>. HIDE DEF v
<1>4. UndoSession(e) = q
  BY <1>1, <1>3 DEF UndoSession
<1>5. Len(v) - 1 = Len(u) /\ v[Len(v)] = x
  BY <1>1, <1>2
<1>. QED
  BY <1>1, <1>4, <1>5 DEF Like, DbFields

LEMMA Squashed ==
  ASSUME NEW e, NEW s, NEW S, NEW u \in Seq(S), u # <<>>, NEW r \in Int, NEW x,
         Like(e, s, Append(u, x), r)
  PROVE  Like(SquashSession(e), s, u, r - 1)
<1>. DEFINE v == Append(u, x)
            w == SubSeq(v, 1, Len(v) - 1)
            q == [e EXCEPT !.undo = w, !.rev = r - 1]
<1>1. v # <<>> /\ Len(v) = Len(u) + 1 /\ SubSeq(v, 1, Len(u)) = u
  BY Appended
<1>2. Len(u) \in Nat /\ Len(u) # 0
  OBVIOUS
<1>3. e.undo = v /\ e.rev = r /\ e.state = s /\ DOMAIN e = DbFields
  BY DEF Like
<1>. HIDE DEF v
<1>4. SquashSession(e) = q
  <2>1. e.undo # <<>> /\ Len(e.undo) # 1
    BY <1>1, <1>2, <1>3
  <2>2. SquashSession(e) = [e EXCEPT !.undo = SubSeq(e.undo, 1, Len(e.undo) - 1), !.rev = e.rev - 1]
    BY <2>1 DEF SquashSession
  <2>. QED
    BY <1>3, <2>2
<1>5. w = u
  BY <1>1, <1>2
<1>. HIDE DEF w
<1>6. Like(q, s, w, r - 1)
  BY <1>3 DEF Like, DbFields
<1>. QED
  BY <1>4, <1>5, <1>6

-----------------------------------------------------------------------------
(* Chains that are sound and recorded, and the database on top of one.     *)

\* The contents s know exactly the transactions rs.
Known(s, rs) ==
  /\ Sound(s) /\ rs \in Seq(Trxs)
  /\ \A i, j \in 1..Len(rs) : rs[i].id = rs[j].id => i = j
  /\ s.done = Genesis.done \cup {rs[i].id : i \in 1..Len(rs)}
  /\ s.trxs = Genesis.trxs + Len(rs)

LEMMA KnownMore ==
  ASSUME NEW s, NEW rs, Known(s, rs), NEW t \in Trxs, t.id \notin s.done, NEW r, Records(s, t, r)
  PROVE  Known(r, Append(rs, t))
<1>. DEFINE n == Len(rs)
            qs == Append(rs, t)
<1>1. /\ rs \in Seq(Trxs) /\ n \in Nat
      /\ \A i, j \in 1..n : rs[i].id = rs[j].id => i = j
      /\ s.done = Genesis.done \cup {rs[i].id : i \in 1..n}
      /\ s.trxs = Genesis.trxs + n
  BY DEF Known
<1>2. qs \in Seq(Trxs) /\ Len(qs) = n + 1 /\ qs[n + 1] = t /\ \A i \in 1..n : qs[i] = rs[i]
  BY <1>1
<1>. HIDE DEF qs, n
<1>3. \A i \in 1..n : rs[i].id \in s.done
  BY <1>1
<1>4. ASSUME NEW i \in 1..(n + 1), NEW j \in 1..(n + 1), qs[i].id = qs[j].id PROVE i = j
  <2>1. CASE i \in 1..n /\ j \in 1..n
    BY <1>1, <1>2, <1>4, <2>1
  <2>2. CASE i = n + 1 /\ j \in 1..n
    BY <1>2, <1>3, <1>4, <2>2
  <2>3. CASE i \in 1..n /\ j = n + 1
    BY <1>2, <1>3, <1>4, <2>3
  <2>4. CASE i = n + 1 /\ j = n + 1
    BY <2>4
  <2>. QED
    BY <1>1, <2>1, <2>2, <2>3, <2>4
<1>5. {qs[i].id : i \in 1..(n + 1)} = {rs[i].id : i \in 1..n} \cup {t.id}
  <2>1. 1..(n + 1) = 1..n \cup {n + 1}
    BY <1>1
  <2>. QED
    BY <1>2, <2>1
<1>6. Sound(r) /\ r.done = s.done \cup {t.id} /\ r.trxs = s.trxs + 1
  BY DEF Records
<1>7. r.done = Genesis.done \cup {qs[i].id : i \in 1..(n + 1)}
  <2>. DEFINE A == {rs[i].id : i \in 1..n}
              B == {qs[i].id : i \in 1..(n + 1)}
  <2>1. s.done = Genesis.done \cup A /\ B = A \cup {t.id}
    BY <1>1, <1>5
  <2>. HIDE DEF A, B
  <2>2. r.done = Genesis.done \cup B
    BY <1>6, <2>1
  <2>. QED
    BY <2>2 DEF B
<1>8. r.trxs = Genesis.trxs + (n + 1)
  BY <1>1, <1>6, GenesisSound
<1>9. Known(r, qs)
  BY <1>2, <1>4, <1>6, <1>7, <1>8 DEF Known
<1>. QED
  BY <1>9 DEF qs

\* Every part of the chain bs, from its first block, is known.
ChainOK(bs) ==
  bs \in Seq(Blocks) /\ \A k \in 0..Len(bs) : Known(Replay(Upto(bs, k)), ReceiptsOf(Upto(bs, k)))

LEMMA ChainAppend ==
  ASSUME NEW bs, ChainOK(bs), NEW b \in Blocks,
         Known(Replay(Append(bs, b)), ReceiptsOf(Append(bs, b)))
  PROVE  ChainOK(Append(bs, b))
<1>. DEFINE cs == Append(bs, b)
            n == Len(bs)
<1>1. bs \in Seq(Blocks) /\ \A k \in 0..n : Known(Replay(Upto(bs, k)), ReceiptsOf(Upto(bs, k)))
  BY DEF ChainOK
<1>2. n \in Nat /\ cs \in Seq(Blocks) /\ Len(cs) = n + 1
  BY <1>1
<1>3. ASSUME NEW k \in 0..(n + 1) PROVE Known(Replay(Upto(cs, k)), ReceiptsOf(Upto(cs, k)))
  <2>1. CASE k \in 0..n
    <3>1. Upto(cs, k) = Upto(bs, k)
      BY <1>1, <2>1, UptoAppend
    <3>. QED
      BY <1>1, <2>1, <3>1
  <2>2. CASE k = n + 1
    <3>1. Upto(cs, k) = cs
      <4>. HIDE DEF cs
      <4>. QED
        BY <1>2, <2>2, UptoAll
    <3>. QED
      BY <3>1
  <2>. QED
    BY <1>2, <2>1, <2>2
<1>. HIDE DEF cs
<1>4. ChainOK(cs)
  BY <1>2, <1>3 DEF ChainOK
<1>. QED
  BY <1>4 DEF cs

LEMMA ChainUpto ==
  ASSUME NEW bs, ChainOK(bs), NEW n \in 0..Len(bs)
  PROVE  ChainOK(Upto(bs, n)) /\ Len(Upto(bs, n)) = n
<1>1. bs \in Seq(Blocks) /\ \A k \in 0..Len(bs) : Known(Replay(Upto(bs, k)), ReceiptsOf(Upto(bs, k)))
  BY DEF ChainOK
<1>2. Upto(bs, n) \in Seq(Blocks) /\ Len(Upto(bs, n)) = n
  BY <1>1, UptoIs
<1>3. ASSUME NEW k \in 0..n PROVE Upto(Upto(bs, n), k) = Upto(bs, k) /\ k \in 0..Len(bs)
  BY <1>1, UptoUpto
<1>. QED
  BY <1>1, <1>2, <1>3 DEF ChainOK

LEMMA ChainLess ==
  ASSUME NEW bs \in Seq(Blocks), NEW b \in Blocks, ChainOK(Append(bs, b))
  PROVE  ChainOK(bs)
<1>1. /\ Len(bs) \in 0..Len(Append(bs, b)) /\ Len(bs) \in 0..Len(bs)
  OBVIOUS
<1>2. Upto(Append(bs, b), Len(bs)) = bs
  BY <1>1, UptoAppend, UptoAll
<1>. QED
  BY <1>1, <1>2, ChainUpto

LEMMA ChainKnown ==
  ASSUME NEW bs, ChainOK(bs)
  PROVE  bs \in Seq(Blocks) /\ Known(Replay(bs), ReceiptsOf(bs))
<1>1. bs \in Seq(Blocks) /\ Len(bs) \in 0..Len(bs)
  BY DEF ChainOK
<1>2. Upto(bs, Len(bs)) = bs
  BY <1>1, UptoAll
<1>. QED
  BY <1>1, <1>2 DEF ChainOK

\* A block without transactions changes nothing.
LEMMA NothingMore ==
  ASSUME NEW bs, ChainOK(bs), NEW b \in Blocks, b.trxs = <<>>
  PROVE  Replay(Append(bs, b)) = Replay(bs) /\ ReceiptsOf(Append(bs, b)) = ReceiptsOf(bs)
<1>1. bs \in Seq(Blocks) /\ ReceiptsOf(bs) \in Seq(Trxs)
  BY ChainKnown DEF Known
<1>2. Replay(Append(bs, b)) = Replay(bs)
  BY <1>1, ReplayAppend, ReplayedEmpty
<1>3. ReceiptsOf(Append(bs, b)) = ReceiptsOf(bs)
  <2>1. ReceiptsOf(Append(bs, b)) = ReceiptsOf(bs) \o <<>>
    BY <1>1, ReceiptsAppend
  <2>. QED
    BY <1>1, <2>1, ConcatEmptySeq
<1>. QED
  BY <1>2, <1>3

\* The database d has the contents after bs, and a session for every block after the
\* first low, from the contents before it.
DbOK(d, bs, low) ==
  /\ IsDb(d) /\ d.state = Replay(bs) /\ d.rev = 1 + Len(bs) /\ Len(d.undo) = Len(bs) - low
  /\ \A i \in 1..(Len(bs) - low) : /\ d.undo[i].rev = low + 1 + i
                                  /\ d.undo[i].to = Replay(Upto(bs, low + i - 1))

Good(d, bs, low) == ChainOK(bs) /\ low \in 0..Len(bs) /\ DbOK(d, bs, low)

LEMMA GoodStart ==
  ASSUME NEW d, NEW bs, NEW low, Good(d, bs, low), NEW b \in Blocks, b.trxs = <<>>
  PROVE  Good(StartSession(d), Append(bs, b), low)
<1>. DEFINE x == [rev |-> d.rev + 1, to |-> d.state]
            v == Append(d.undo, x)
            cs == Append(bs, b)
            n == Len(bs)
<1>1. /\ ChainOK(bs) /\ low \in 0..n /\ IsDb(d) /\ d.state = Replay(bs) /\ d.rev = 1 + n
      /\ Len(d.undo) = n - low
      /\ \A i \in 1..(n - low) : /\ d.undo[i].rev = low + 1 + i
                                /\ d.undo[i].to = Replay(Upto(bs, low + i - 1))
  BY DEF Good, DbOK
<1>2. bs \in Seq(Blocks) /\ Known(Replay(bs), ReceiptsOf(bs)) /\ n \in Nat
  BY <1>1, ChainKnown
<1>3. Replay(cs) = Replay(bs) /\ ReceiptsOf(cs) = ReceiptsOf(bs)
  BY <1>1, NothingMore
<1>4. ChainOK(cs)
  BY <1>1, <1>2, <1>3, ChainAppend
<1>5. Like(StartSession(d), d.state, v, d.rev + 1)
  BY <1>1, Begun
<1>6. x.rev = n + 2 /\ x.to = Replay(bs)
  BY <1>1, <1>2
<1>7. PICK S : d.undo \in Seq(S)
  BY <1>1 DEF IsDb
<1>. HIDE DEF x
<1>8. /\ v \in Seq(S \cup {x}) /\ Len(v) = n - low + 1 /\ v[n - low + 1] = x
      /\ \A i \in 1..(n - low) : v[i] = d.undo[i]
  BY <1>1, <1>7, Appended
<1>9. Len(cs) = n + 1 /\ cs \in Seq(Blocks)
  BY <1>2
<1>10. \A k \in 0..n : Upto(cs, k) = Upto(bs, k)
  BY <1>2, UptoAppend
<1>11. Upto(bs, n) = bs
  BY <1>2, UptoAll
<1>. HIDE DEF v, cs, n
<1>12. ASSUME NEW i \in 1..(n + 1 - low)
       PROVE  v[i].rev = low + 1 + i /\ v[i].to = Replay(Upto(cs, low + i - 1))
  <2>1. CASE i \in 1..(n - low)
    <3>1. low + i - 1 \in 0..n
      BY <1>1, <1>2, <2>1
    <3>2. Upto(cs, low + i - 1) = Upto(bs, low + i - 1)
      BY <1>10, <3>1
    <3>. QED
      BY <1>1, <1>8, <2>1, <3>2
  <2>2. CASE i = n - low + 1
    <3>1. low + i - 1 = n /\ n \in 0..n /\ low + 1 + i = n + 2
      BY <1>1, <1>2, <2>2
    <3>2. Upto(cs, low + i - 1) = bs
      BY <1>10, <1>11, <3>1
    <3>. QED
      BY <1>6, <1>8, <2>2, <3>1, <3>2
  <2>. QED
    BY <1>1, <1>2, <2>1, <2>2
<1>. DEFINE e == StartSession(d)
<1>13. /\ DOMAIN e = DbFields /\ e.state = Replay(cs) /\ e.undo = v /\ e.rev = 1 + (n + 1)
       /\ e.rev \in Int
  BY <1>1, <1>2, <1>3, <1>5 DEF Like
<1>. HIDE DEF e
<1>14. IsDb(e)
  BY <1>8, <1>13 DEF IsDb
<1>15. low \in 0..(n + 1) /\ n - low + 1 = n + 1 - low
  BY <1>1, <1>2
<1>16. DbOK(e, cs, low)
  <2>1. Len(cs) - low = n + 1 - low /\ Len(e.undo) = n + 1 - low /\ e.rev = 1 + Len(cs)
    BY <1>1, <1>2, <1>8, <1>9, <1>13, <1>15
  <2>2. \A i \in 1..(n + 1 - low) : /\ e.undo[i].rev = low + 1 + i
                                    /\ e.undo[i].to = Replay(Upto(cs, low + i - 1))
    BY <1>12, <1>13
  <2>. QED
    BY <1>13, <1>14, <2>1, <2>2 DEF DbOK
<1>17. Good(e, cs, low)
  BY <1>4, <1>9, <1>15, <1>16 DEF Good
<1>. QED
  BY <1>17 DEF e, cs

LEMMA GoodUndo ==
  ASSUME NEW d, NEW bs \in Seq(Blocks), NEW b \in Blocks, NEW low \in 0..Len(bs),
         Good(d, Append(bs, b), low)
  PROVE  Good(UndoSession(d), bs, low)
<1>. DEFINE cs == Append(bs, b)
            n == Len(bs)
            u == Upto(d.undo, n - low)
            e == UndoSession(d)
<1>1. Len(cs) = n + 1 /\ cs \in Seq(Blocks) /\ n \in Nat
  OBVIOUS
<1>2. /\ ChainOK(cs) /\ IsDb(d) /\ d.rev = 1 + (n + 1)
      /\ Len(d.undo) = n + 1 - low
      /\ \A i \in 1..(n + 1 - low) : /\ d.undo[i].rev = low + 1 + i
                                    /\ d.undo[i].to = Replay(Upto(cs, low + i - 1))
  BY <1>1 DEF Good, DbOK
<1>3. ChainOK(bs)
  BY <1>2, ChainLess
<1>4. \A k \in 0..n : Upto(cs, k) = Upto(bs, k)
  BY UptoAppend
<1>5. Upto(bs, n) = bs
  BY UptoAll
<1>6. PICK S : d.undo \in Seq(S)
  BY <1>2 DEF IsDb
<1>7. n + 1 - low \in Nat /\ n + 1 - low # 0 /\ (n + 1 - low) - 1 = n - low
      /\ n - low \in 0..(n + 1 - low) /\ low + (n + 1 - low) - 1 = n /\ n + 1 - low \in 1..(n + 1 - low)
      /\ n \in 0..n
  BY <1>1
<1>. HIDE DEF n, cs
<1>8. d.undo = Append(u, d.undo[n + 1 - low])
  <2>1. Len(d.undo) # 0 /\ Len(d.undo) - 1 = n - low /\ Len(d.undo) = n + 1 - low
    BY <1>2, <1>7
  <2>2. d.undo = Append(Upto(d.undo, Len(d.undo) - 1), d.undo[Len(d.undo)])
    BY <1>6, <2>1, UptoLast
  <2>. QED
    BY <2>1, <2>2
<1>9. u \in Seq(S) /\ Len(u) = n - low /\ \A i \in 1..(n - low) : u[i] = d.undo[i]
  <2>1. n - low \in 0..Len(d.undo)
    BY <1>2, <1>7
  <2>. QED
    BY <1>6, <2>1, UptoIs
<1>10. d.undo[n + 1 - low].to = Replay(bs)
  BY <1>2, <1>4, <1>5, <1>7, ZenonT(60)
<1>. HIDE DEF u
<1>11. Like(d, d.state, Append(u, d.undo[n + 1 - low]), d.rev) /\ d.rev \in Int
  BY <1>2, <1>8 DEF Like, IsDb
<1>12. Like(e, d.undo[n + 1 - low].to, u, d.rev - 1)
  BY ONLY <1>9, <1>11, Undone
<1>. HIDE DEF e
<1>13. DOMAIN e = DbFields /\ e.state = Replay(bs) /\ e.undo = u /\ e.rev = 1 + n /\ e.rev \in Int
  BY <1>1, <1>2, <1>10, <1>12 DEF Like
<1>14. IsDb(e)
  BY <1>9, <1>13 DEF IsDb
<1>15. ASSUME NEW i \in 1..(n - low)
       PROVE  u[i].rev = low + 1 + i /\ u[i].to = Replay(Upto(bs, low + i - 1))
  <2>1. i \in 1..(n + 1 - low) /\ low + i - 1 \in 0..n
    BY <1>1 DEF n
  <2>. QED
    BY <1>2, <1>4, <1>9, <2>1
<1>16. DbOK(e, bs, low)
  BY <1>9, <1>13, <1>14, <1>15 DEF DbOK, n
<1>. QED
  BY <1>3, <1>16 DEF Good, e

\* A block b = [db, build] of by that is being built on the chain bs.
OnTop(b, bs, low, by) ==
  /\ DOMAIN b = {"db", "build"} /\ b.build \in Blocks /\ b.build.by = by
  /\ Good(b.db, Append(bs, b.build), low)

LEMMA ConcatAppend ==
  ASSUME NEW S, NEW rs \in Seq(S), NEW ts \in Seq(S), NEW t \in S
  PROVE  rs \o Append(ts, t) = Append(rs \o ts, t)
<1>. DEFINE a == rs \o Append(ts, t)
            c == Append(rs \o ts, t)
<1>1. /\ a \in Seq(S) /\ c \in Seq(S) /\ Len(a) = Len(rs) + Len(ts) + 1 /\ Len(c) = Len(a)
  OBVIOUS
<1>2. \A i \in 1..Len(a) : a[i] = c[i]
  OBVIOUS
<1>. HIDE DEF a, c
<1>3. a = c
  BY <1>1, <1>2, SeqEqual
<1>. QED
  BY <1>3 DEF a, c

LEMMA GoodLike ==
  ASSUME NEW d, NEW cs, NEW low, Good(d, cs, low), NEW q, Like(q, d.state, d.undo, d.rev)
  PROVE  Good(q, cs, low)
<1>1. IsDb(q) /\ q.state = d.state /\ q.undo = d.undo /\ q.rev = d.rev
  BY DEF Good, DbOK, IsDb, Like
<1>. QED
  BY <1>1 DEF Good, DbOK

\* A transaction more in the last block.
LEMMA GoodMore ==
  ASSUME NEW bs \in Seq(Blocks), NEW low \in 0..Len(bs), NEW a \in Blocks, NEW c \in Blocks,
         NEW t \in Trxs, c.by = a.by, c.trxs = Append(a.trxs, t),
         NEW d, Good(d, Append(bs, a), low), t.id \notin d.state.done,
         NEW res, res = Effect(t, a.by, d.state), res.ok,
         NEW q, Like(q, res.s, d.undo, d.rev)
  PROVE  Good(q, Append(bs, c), low)
<1>. DEFINE cs == Append(bs, a)
            ds == Append(bs, c)
            n == Len(bs)
<1>1. /\ Len(cs) = n + 1 /\ Len(ds) = n + 1 /\ n \in Nat /\ cs \in Seq(Blocks) /\ ds \in Seq(Blocks)
  OBVIOUS
<1>2. /\ ChainOK(cs) /\ IsDb(d) /\ d.state = Replay(cs) /\ d.rev = 1 + (n + 1)
      /\ Len(d.undo) = n + 1 - low
      /\ \A i \in 1..(n + 1 - low) : /\ d.undo[i].rev = low + 1 + i
                                    /\ d.undo[i].to = Replay(Upto(cs, low + i - 1))
  BY <1>1 DEF Good, DbOK
<1>3. ChainOK(bs)
  BY <1>2, ChainLess
<1>4. Known(d.state, ReceiptsOf(cs))
  BY <1>2, ChainKnown
<1>5. a.trxs \in Seq(Trxs) /\ ReceiptsOf(bs) \in Seq(Trxs)
  <2>1. Known(Replay(bs), ReceiptsOf(bs))
    BY <1>3, ChainKnown
  <2>. QED
    BY <2>1 DEF Blocks, Known
<1>6. Replay(ds) = res.s
  <2>1. Replay(cs) = Replayed(Replay(bs), a) /\ Replay(ds) = Replayed(Replay(bs), c)
    BY ReplayAppend
  <2>2. Replayed(Replay(bs), c) = Effect(t, a.by, Replayed(Replay(bs), a)).s
    <3>. DEFINE s == Replay(bs)
    <3>. HIDE DEF s
    <3>1. Replayed(s, c) = Effect(t, a.by, Replayed(s, a)).s
      BY ONLY <1>5, t \in Trxs, c.by = a.by, c.trxs = Append(a.trxs, t), ReplayedAppend
    <3>. QED
      BY <3>1 DEF s
  <2>. QED
    BY <1>2, <2>1, <2>2
<1>7. ReceiptsOf(ds) = Append(ReceiptsOf(cs), t)
  <2>1. ReceiptsOf(cs) = ReceiptsOf(bs) \o a.trxs /\ ReceiptsOf(ds) = ReceiptsOf(bs) \o c.trxs
    BY ReceiptsAppend
  <2>. QED
    BY <1>5, <2>1, ConcatAppend, SMTT(60)
<1>8. Records(d.state, t, res.s)
  <2>1. IsTrx(t)
    BY AmountsAssumption DEF IsTrx
  <2>2. Sound(d.state)
    BY <1>4 DEF Known
  <2>. QED
    BY <2>1, <2>2, EffectRecords
<1>9. Known(res.s, ReceiptsOf(ds))
  BY <1>4, <1>7, <1>8, KnownMore
<1>10. ChainOK(ds)
  BY <1>3, <1>6, <1>9, ChainAppend
<1>11. \A k \in 0..n : Upto(cs, k) = Upto(bs, k) /\ Upto(ds, k) = Upto(bs, k)
  BY UptoAppend
<1>12. IsDb(q) /\ q.state = res.s /\ q.undo = d.undo /\ q.rev = d.rev
  BY <1>2 DEF IsDb, Like
<1>. HIDE DEF cs, ds, n
<1>13. ASSUME NEW i \in 1..(n + 1 - low)
       PROVE  q.undo[i].rev = low + 1 + i /\ q.undo[i].to = Replay(Upto(ds, low + i - 1))
  <2>1. low + i - 1 \in 0..n
    BY <1>1 DEF n
  <2>. QED
    BY <1>2, <1>11, <1>12, <2>1
<1>14. Len(ds) - low = n + 1 - low /\ low \in 0..Len(ds)
  BY <1>1 DEF n
<1>15. DbOK(q, ds, low)
  BY <1>1, <1>2, <1>6, <1>12, <1>13, <1>14 DEF DbOK
<1>. QED
  BY <1>10, <1>14, <1>15 DEF Good, ds

LEMMA BlockWith ==
  ASSUME NEW a \in Blocks, NEW ts \in Seq(Trxs)
  PROVE  /\ [a EXCEPT !.trxs = ts] \in Blocks /\ [a EXCEPT !.trxs = ts].by = a.by
         /\ [a EXCEPT !.trxs = ts].trxs = ts
BY DEF Blocks

LEMMA ApplyImplOnTop ==
  ASSUME NEW bs \in Seq(Blocks), NEW low \in 0..Len(bs), NEW by, NEW b, OnTop(b, bs, low, by),
         NEW t \in Trxs, t.id \notin b.db.state.done
  PROVE  OnTop(ApplyImpl(t, b), bs, low, by)
<1>. DEFINE d == b.db
            a == b.build
            e == StartSession(d)
            res == Effect(t, a.by, d.state)
            x == [rev |-> d.rev + 1, to |-> d.state]
            cs == Append(bs, a)
<1>1. DOMAIN b = {"db", "build"} /\ a \in Blocks /\ a.by = by /\ Good(d, cs, low)
  BY DEF OnTop
<1>2. IsDb(d) /\ d.rev \in Int /\ Len(d.undo) # 0
  <2>1. Len(cs) = Len(bs) + 1 /\ Len(bs) \in Nat
    BY <1>1
  <2>2. IsDb(d) /\ Len(d.undo) = Len(cs) - low
    BY <1>1 DEF Good, DbOK
  <2>. QED
    BY <2>1, <2>2 DEF IsDb
<1>3. PICK S : d.undo \in Seq(S)
  BY <1>2 DEF IsDb
<1>4. d.undo # <<>> /\ d.rev + 1 \in Int /\ (d.rev + 1) - 1 = d.rev
  BY <1>2
<1>5. Like(e, d.state, Append(d.undo, x), d.rev + 1)
  BY <1>2, Begun
<1>6. x.to = d.state
  OBVIOUS
<1>7. ApplyImpl(t, b) = Close(t, [b EXCEPT !.db = e], res)
  BY DEF ApplyImpl
<1>. DEFINE f == [b EXCEPT !.db = e]
<1>8. f.db = e /\ f.build = a /\ DOMAIN f = {"db", "build"}
  BY <1>1
<1>. HIDE DEF d, a, e, x, res, f
<1>9. CASE ~res.ok
  <2>. DEFINE q == UndoSession(e)
              c == [f EXCEPT !.db = q]
  <2>1. Close(t, f, res) = c
    BY <1>8, <1>9 DEF Close
  <2>2. Like(q, d.state, d.undo, d.rev)
    <3>1. Like(q, x.to, d.undo, (d.rev + 1) - 1)
      BY ONLY <1>3, <1>4, <1>5, Undone
    <3>. QED
      BY <1>4, <1>6, <3>1
  <2>. HIDE DEF q
  <2>3. Good(q, cs, low)
    BY <1>1, <2>2, GoodLike
  <2>4. c.db = q /\ c.build = a /\ DOMAIN c = {"db", "build"}
    BY <1>8
  <2>. HIDE DEF c
  <2>5. OnTop(c, bs, low, by)
    BY <1>1, <2>3, <2>4 DEF OnTop
  <2>. QED
    BY <1>7, <2>1, <2>5 DEF f
<1>10. CASE res.ok
  <2>. DEFINE g == [e EXCEPT !.state = res.s]
              q == SquashSession(g)
              build == [a EXCEPT !.trxs = Append(@, t)]
              c == [db |-> q, build |-> build]
  <2>1. Close(t, f, res) = c
    BY <1>8, <1>10 DEF Close
  <2>2. Like(g, res.s, Append(d.undo, x), d.rev + 1)
    BY <1>5 DEF Like, DbFields
  <2>. HIDE DEF g
  <2>3. Like(q, res.s, d.undo, d.rev)
    <3>1. Like(q, res.s, d.undo, (d.rev + 1) - 1)
      BY ONLY <1>3, <1>4, <2>2, Squashed
    <3>. QED
      BY <1>4, <3>1
  <2>4. build \in Blocks /\ build.by = a.by /\ build.trxs = Append(a.trxs, t)
    <3>1. a.trxs \in Seq(Trxs)
      BY <1>1 DEF Blocks
    <3>2. Append(a.trxs, t) \in Seq(Trxs)
      BY <3>1
    <3>. QED
      BY <1>1, <3>2, BlockWith
  <2>5. c.db = q /\ c.build = build /\ DOMAIN c = {"db", "build"}
    OBVIOUS
  <2>. HIDE DEF q, build
  <2>6. res = Effect(t, a.by, d.state) /\ t.id \notin d.state.done
    BY DEF res, d
  <2>7. Good(q, Append(bs, build), low)
    BY ONLY bs \in Seq(Blocks), low \in 0..Len(bs), t \in Trxs, <1>1, <1>10, <2>3, <2>4, <2>6,
            GoodMore DEF cs
  <2>. HIDE DEF c
  <2>8. OnTop(c, bs, low, by)
    BY <1>1, <2>4, <2>5, <2>7 DEF OnTop
  <2>. QED
    BY <1>7, <2>1, <2>8 DEF f
<1>. QED
  BY <1>9, <1>10

LEMMA ApplyTrxOnTop ==
  ASSUME NEW bs \in Seq(Blocks), NEW low \in 0..Len(bs), NEW by, NEW b, OnTop(b, bs, low, by),
         NEW t \in Trxs, NEW height
  PROVE  OnTop(ApplyTrx(t, b, height), bs, low, by)
<1>1. CASE CheckTrx(t, b.db, height)
  <2>1. t.id \notin b.db.state.done
    BY <1>1 DEF CheckTrx
  <2>2. OnTop(ApplyImpl(t, b), bs, low, by)
    BY <2>1, ApplyImplOnTop
  <2>. QED
    BY <1>1, <2>2 DEF ApplyTrx
<1>2. CASE ~CheckTrx(t, b.db, height)
  BY <1>2 DEF ApplyTrx
<1>. QED
  BY <1>1, <1>2

\* A block is built on the chain that is left when the open one is abandoned.
LEMMA BuiltOnTop ==
  ASSUME NEW d, NEW open, NEW bs \in Seq(Blocks), NEW low \in 0..Len(bs),
         Good(Aborted(d, open), bs, low), NEW by \in Builders, NEW ts \in Seq(Trxs), NEW height
  PROVE  OnTop(Built(d, open, by, ts, height), bs, low, by)
<1>. DEFINE n == Len(ts)
            p == <<ts, height>>
            start == Started(d, open, by)
<1>1. n \in Nat /\ \A i \in 1..n : ts[i] \in Trxs
  OBVIOUS
<1>2. p[1] = ts /\ p[2] = height
  OBVIOUS
<1>3. PICK g : Loop(g, "built", p, start, n) /\ Built(d, open, by, ts, height) = g[n]
  BY <1>1, BuiltLoop, SMTT(60)
<1>4. OnTop(start, bs, low, by)
  <2>. DEFINE b == [by |-> by, trxs |-> <<>>]
              e == StartSession(Aborted(d, open))
  <2>1. b \in Blocks /\ b.trxs = <<>> /\ b.by = by
    <3>1. <<>> \in Seq(Trxs)
      OBVIOUS
    <3>. QED
      BY <3>1 DEF Blocks
  <2>2. start.db = e /\ start.build = b /\ DOMAIN start = {"db", "build"}
    BY DEF Started
  <2>. HIDE DEF b
  <2>3. Good(e, Append(bs, b), low)
    BY <2>1, GoodStart
  <2>. HIDE DEF start, e
  <2>. QED
    BY <2>1, <2>2, <2>3 DEF OnTop
<1>. HIDE DEF n, p, start
<1>5. g[0] = start /\ \A i \in 1..n : g[i] = Turn("built", p, g[i - 1], i)
  BY <1>1, <1>3, LoopTurns
<1>. DEFINE Bad == {i \in Nat : i <= n /\ ~OnTop(g[i], bs, low, by)}
<1>6. ASSUME Bad # {} PROVE FALSE
  <2>0. Bad \subseteq Nat
    OBVIOUS
  <2>1. PICK i \in Bad : \A j \in Bad : ~(j < i)
    <3>. HIDE DEF Bad
    <3>. QED
      BY <1>6, <2>0, Least
  <2>2. i # 0 /\ i \in 1..n /\ i - 1 \in Nat /\ i - 1 <= n /\ i - 1 < i
    BY <1>1, <1>4, <1>5, <2>1
  <2>3. OnTop(g[i - 1], bs, low, by)
    BY <2>1, <2>2
  <2>4. g[i] = ApplyTrx(ts[i], g[i - 1], height)
    BY <1>2, <1>5, <2>2 DEF Turn
  <2>5. ts[i] \in Trxs
    BY <1>1, <2>2
  <2>6. OnTop(g[i], bs, low, by)
    BY <2>3, <2>4, <2>5, ApplyTrxOnTop
  <2>. QED
    BY <2>1, <2>6
<1>. QED
  BY <1>1, <1>3, <1>6

\* The oldest session is committed.
LEMMA GoodCommit ==
  ASSUME NEW d, NEW bs, NEW low \in Nat, Good(d, bs, low), low < Len(bs)
  PROVE  Good(CommitSessions(d, low + 2), bs, low + 1)
<1>. DEFINE n == Len(bs)
            u == d.undo
            m == Len(u)
            P(k) == /\ \A i \in 1..k : u[i].rev <= low + 2
                    /\ k < m => u[k + 1].rev > low + 2
            c == Committed(u, low + 2)
            v == SubSeq(u, 2, m)
            e == CommitSessions(d, low + 2)
<1>1. /\ ChainOK(bs) /\ IsDb(d) /\ d.state = Replay(bs) /\ d.rev = 1 + n /\ m = n - low
      /\ \A i \in 1..(n - low) : u[i].rev = low + 1 + i /\ u[i].to = Replay(Upto(bs, low + i - 1))
  BY DEF Good, DbOK
<1>2. n \in Nat /\ low < n
  BY <1>1 DEF ChainOK
<1>3. m \in Nat /\ m >= 1 /\ \A i \in 1..m : u[i].rev = low + 1 + i
  BY <1>1, <1>2
<1>4. PICK S : u \in Seq(S)
  BY <1>1 DEF IsDb
<1>. HIDE DEF n, u, m
<1>5. c = 1
  <2>1. P(1) /\ 1 \in 0..m
    BY <1>3
  <2>2. ASSUME NEW k \in 0..m, P(k) PROVE k = 1
    <3>1. k # 0
      BY <1>3, <2>2
    <3>2. ~(k >= 2)
      <4>1. ASSUME k >= 2 PROVE FALSE
        <5>1. 2 \in 1..k /\ 2 \in 1..m
          BY <1>3, <4>1
        <5>. QED
          BY <1>3, <2>2, <5>1
      <4>. QED
        BY <4>1
    <3>. QED
      BY <1>3, <3>1, <3>2
  <2>3. c = CHOOSE k \in 0..m : P(k)
    BY DEF Committed, m
  <2>. HIDE DEF P, c
  <2>. QED
    BY <2>1, <2>2, <2>3
<1>6. /\ v \in Seq(S) /\ Len(v) = m - 1 /\ \A i \in 1..(m - 1) : v[i] = u[i + 1]
  <2>1. 2 \in Int /\ m \in Int /\ \A i \in 2..m : u[i] \in S
    BY <1>3, <1>4 DEF m
  <2>2. /\ v \in Seq(S) /\ Len(v) = (IF 2 <= m THEN m - 2 + 1 ELSE 0)
        /\ \A i \in 1..(m - 2 + 1) : v[i] = u[2 + i - 1]
    BY ONLY <2>1, SubSeqProperties
  <2>. QED
    BY <1>3, <2>2
<1>. HIDE DEF v
<1>7. e = [d EXCEPT !.undo = v]
  <2>1. c + 1 = 2
    BY <1>5
  <2>2. e = [d EXCEPT !.undo = SubSeq(u, c + 1, m)]
    BY DEF CommitSessions, u, m
  <2>. QED
    BY <2>1, <2>2 DEF v
<1>. HIDE DEF c, e
<1>8. DOMAIN e = DbFields /\ e.undo = v /\ e.state = d.state /\ e.rev = d.rev
  BY <1>1, <1>7 DEF IsDb, DbFields
<1>9. IsDb(e)
  BY <1>1, <1>6, <1>8 DEF IsDb
<1>10. /\ m - 1 = n - (low + 1) /\ low + 1 \in 0..n
  BY <1>1, <1>2
<1>11. ASSUME NEW i \in 1..(n - (low + 1))
       PROVE  v[i].rev = low + 1 + 1 + i /\ v[i].to = Replay(Upto(bs, low + 1 + i - 1))
  <2>1. i + 1 \in 1..(n - low) /\ v[i] = u[i + 1]
    BY <1>2, <1>6, <1>10
  <2>2. low + 1 + (i + 1) = low + 1 + 1 + i /\ low + (i + 1) - 1 = low + 1 + i - 1
    BY <1>2
  <2>. QED
    BY <1>1, <2>1, <2>2
<1>12. DbOK(e, bs, low + 1)
  BY <1>1, <1>6, <1>8, <1>9, <1>10, <1>11 DEF DbOK, n
<1>. QED
  BY <1>1, <1>10, <1>12 DEF Good, e, n

-----------------------------------------------------------------------------
(* The pool.                                                               *)

LEMMA SelectedIs ==
  ASSUME pool \in Seq(Trxs)
  PROVE  Selected \in 0..Len(pool)
<1>. DEFINE n == Len(pool)
            T == {k \in 0..n : MessagesOf(SubSeq(pool, 1, k)) <= MaxMessages}
            R == {k \in Nat : \E j \in T : k = n - j}
<1>1. n \in Nat
  OBVIOUS
<1>2. 0 \in T
  <2>1. SubSeq(pool, 1, 0) = <<>>
    BY SubSeqEmpty
  <2>2. MessagesOf(<<>>) = 0
    <3>1. Len(<<>>) = 0 /\ 0 \in Nat
      OBVIOUS
    <3>2. PICK g : Loop(g, "count", <<>>, 0, 0) /\ MessagesOf(<<>>) = g[0]
      BY <3>1, CountLoop
    <3>. QED
      BY <3>1, <3>2, LoopTurns
  <2>. QED
    <3>1. MessagesOf(SubSeq(pool, 1, 0)) = 0
      BY <2>1, <2>2
    <3>2. 0 <= MaxMessages /\ 0 \in 0..n
      BY <1>1, LedgerAssumption
    <3>. HIDE DEF n
    <3>. QED
      BY <3>1, <3>2
<1>3. T \subseteq 0..n
  OBVIOUS
<1>4. Selected = CHOOSE x \in T : \A y \in T : x >= y
  BY DEF Selected, Max
<1>. HIDE DEF T, n
<1>5. \E x \in T : \A y \in T : x >= y
  <2>1. R \subseteq Nat
    OBVIOUS
  <2>2. n \in R
    BY <1>1, <1>2
  <2>3. PICK r \in R : \A k \in R : ~(k < r)
    <3>. HIDE DEF R
    <3>. QED
      BY <2>1, <2>2, Least
  <2>4. PICK x \in T : r = n - x
    BY <2>3
  <2>5. ASSUME NEW y \in T PROVE x >= y
    <3>1. n - y \in R
      BY <1>1, <1>3
    <3>2. ~(n - y < r)
      BY <2>3, <3>1
    <3>. QED
      BY <1>1, <1>3, <2>4, <3>2
  <2>. QED
    BY <2>5
<1>6. Selected \in T
  BY <1>4, <1>5
<1>. QED
  BY <1>3, <1>6 DEF n

LEMMA Split ==
  ASSUME NEW S, NEW q \in Seq(S), NEW k \in 0..Len(q)
  PROVE  /\ SubSeq(q, 1, k) \in Seq(S) /\ Len(SubSeq(q, 1, k)) = k
         /\ SubSeq(q, k + 1, Len(q)) \in Seq(S) /\ Len(SubSeq(q, k + 1, Len(q))) = Len(q) - k
<1>. DEFINE n == Len(q)
<1>1. n \in Int /\ k \in Int /\ k + 1 \in Int /\ 1 \in Int
      /\ (\A i \in 1..k : q[i] \in S) /\ (\A i \in (k + 1)..n : q[i] \in S)
  OBVIOUS
<1>2. SubSeq(q, 1, k) \in Seq(S) /\ Len(SubSeq(q, 1, k)) = (IF 1 <= k THEN k - 1 + 1 ELSE 0)
  BY ONLY <1>1, SubSeqProperties
<1>3. /\ SubSeq(q, k + 1, n) \in Seq(S)
      /\ Len(SubSeq(q, k + 1, n)) = (IF k + 1 <= n THEN n - (k + 1) + 1 ELSE 0)
  BY ONLY <1>1, SubSeqProperties
<1>. QED
  BY <1>1, <1>2, <1>3

LEMMA InsertedIs ==
  ASSUME pool \in Seq(Trxs), NEW t \in Trxs
  PROVE  Inserted(t) \in Seq(Trxs) /\ Len(Inserted(t)) = Len(pool) + 1
<1>. DEFINE n == Len(pool)
            T == {i \in 1..n : pool[i].gas >= t.gas}
            k == Cardinality(T)
            a == SubSeq(pool, 1, k)
            z == SubSeq(pool, k + 1, n)
<1>1. n \in Nat
  OBVIOUS
<1>2. k \in 0..n
  <2>1. IsFiniteSet(1..n) /\ Cardinality(1..n) = n
    BY <1>1, FS_Interval, SMTT(60)
  <2>2. IsFiniteSet(T) /\ k <= Cardinality(1..n)
    BY <2>1, FS_Subset
  <2>3. k \in Nat
    BY <2>2, FS_CardinalityType
  <2>. QED
    BY <1>1, <2>1, <2>2, <2>3
<1>3. Inserted(t) = a \o <<t>> \o z
  BY DEF Inserted
<1>. HIDE DEF k
<1>4. a \in Seq(Trxs) /\ Len(a) = k /\ z \in Seq(Trxs) /\ Len(z) = n - k
  BY <1>2, Split
<1>. HIDE DEF a, z, n
<1>. QED
  BY <1>1, <1>2, <1>3, <1>4 DEF n

-----------------------------------------------------------------------------
(* The node.                                                               *)

\* The blocks of the chain and the open one.
AllBlocks == IF Open THEN Append(chain, building) ELSE chain

IInv ==
  /\ chain \in Seq(Blocks) /\ building \in Blocks /\ pool \in Seq(Trxs) /\ lib \in 0..Len(chain)
  /\ Open => building.by \in Builders
  /\ Good(db, AllBlocks, lib)

\* The contents are those of the chain and the open block.
LEMMA IInvState ==
  ASSUME IInv
  PROVE  db.state = Replay(Append(chain, building)) /\ Known(db.state, Receipts)
<1>1. ChainOK(AllBlocks) /\ db.state = Replay(AllBlocks)
  BY DEF IInv, Good, DbOK
<1>2. CASE Open
  BY <1>1, <1>2, ChainKnown DEF AllBlocks, Receipts
<1>3. CASE ~Open
  <2>1. building \in Blocks /\ building.trxs = <<>> /\ AllBlocks = chain
    BY <1>3 DEF IInv, Open, NoBuild, AllBlocks
  <2>2. Replay(Append(chain, building)) = Replay(chain) /\ Receipts = ReceiptsOf(chain)
    BY <1>1, <2>1, NothingMore DEF Receipts
  <2>. QED
    BY <1>1, <2>1, <2>2, ChainKnown
<1>. QED
  BY <1>2, <1>3

LEMMA IInvReplay == IInv => StateIsReplay
BY IInvState DEF StateIsReplay

LEMMA IInvRecorded == IInv => RecordedOnce
BY IInvState DEF RecordedOnce, Known

LEMMA IInvConserved == IInv => TokensConserved
<1>. SUFFICES ASSUME IInv PROVE TokensConserved
  OBVIOUS
<1>1. Sound(db.state)
  BY IInvState DEF Known
<1>2. MainTokensConserved
  BY <1>1 DEF Sound, MainOK, MainTokensConserved, SumFunction, Sum
<1>3. SupplyMatches
  <2>. DEFINE s == db.state
  <2>1. ErcOK(s.acct, s.erc, s.hold)
    BY <1>1 DEF Sound
  <2>. HIDE DEF s
  <2>2. ASSUME NEW k \in DOMAIN s.erc, s.erc[k].std = "erc20"
        PROVE  (s.erc[k].supply - Sum(s.hold, Of(s.hold, k))) % (2 * ShareHalf) = 0
    <3>1. s.erc[k].supply \in Int /\ Congruent(s.erc[k].supply, Sum(s.hold, Of(s.hold, k)))
      BY <2>1, <2>2 DEF ErcOK, Matches
    <3>2. Sum(s.hold, Of(s.hold, k)) \in Int
      <4>1. IsFiniteSet(Of(s.hold, k)) /\ \A h \in Of(s.hold, k) : s.hold[h] \in Int
        <5>1. Of(s.hold, k) \subseteq DOMAIN s.hold
          BY DEF Of
        <5>. QED
          BY <2>1, <5>1, FS_Subset, ShareTypeIs DEF ErcOK, Shares, Values
      <4>. QED
        BY <4>1, SumInt
    <3>. QED
      BY <3>1, <3>2, CongruentMod
  <2>. QED
    BY <2>2 DEF Sum, Of, SupplyMatches, s
<1>. QED
  BY <1>2, <1>3 DEF TokensConserved

LEMMA InitInv == Init => IInv
<1>. SUFFICES ASSUME Init PROVE IInv
  OBVIOUS
<1>1. /\ db = [state |-> Genesis, undo |-> <<>>, rev |-> 1] /\ building = NoBuild
      /\ pool = <<>> /\ chain = <<>> /\ lib = 0
  BY DEF Init
<1>2. /\ chain \in Seq(Blocks) /\ Len(chain) = 0 /\ pool \in Seq(Trxs) /\ building \in Blocks
      /\ lib \in 0..Len(chain)
  <2>1. <<>> \in Seq(Trxs) /\ <<>> \in Seq(Blocks) /\ Len(<<>>) = 0
    OBVIOUS
  <2>2. NoBuild \in Blocks
    BY <2>1 DEF NoBuild, Blocks
  <2>. QED
    BY <1>1, <2>1, <2>2
<1>3. ~Open /\ AllBlocks = <<>>
  BY <1>1 DEF Open, AllBlocks
<1>4. Known(Genesis, <<>>)
  <2>1. {<<>>[i].id : i \in 1..Len(<<>>)} = {}
    OBVIOUS
  <2>2. Sound(Genesis) /\ Genesis.trxs = Genesis.trxs + 0
    BY GenesisSound
  <2>. QED
    BY <2>1, <2>2 DEF Known
<1>5. ChainOK(<<>>)
  <2>1. \A k \in 0..0 : Upto(<<>>, k) = <<>>
    BY SubSeqEmpty DEF Upto
  <2>. QED
    BY <1>4, <2>1, ReplayEmpty, ReceiptsEmpty DEF ChainOK
<1>6. DbOK(db, <<>>, 0)
  <2>1. /\ DOMAIN db = DbFields /\ db.state = Genesis /\ db.undo = <<>> /\ db.rev = 1
    BY <1>1 DEF DbFields
  <2>2. IsDb(db)
    <3>1. <<>> \in Seq({})
      OBVIOUS
    <3>. QED
      BY <2>1, <3>1 DEF IsDb
  <2>. QED
    BY <2>1, <2>2, ReplayEmpty DEF DbOK
<1>. QED
  BY <1>1, <1>2, <1>3, <1>5, <1>6 DEF IInv, Good

LEMMA IInvAborted ==
  ASSUME IInv
  PROVE  Good(Aborted(db, Open), chain, lib)
<1>1. /\ chain \in Seq(Blocks) /\ building \in Blocks /\ lib \in 0..Len(chain)
      /\ Good(db, AllBlocks, lib)
  BY DEF IInv
<1>2. CASE Open
  <2>1. Good(db, Append(chain, building), lib)
    BY <1>1, <1>2 DEF AllBlocks
  <2>2. Good(UndoSession(db), chain, lib)
    BY <1>1, <2>1, GoodUndo
  <2>. QED
    BY <1>2, <2>2 DEF Aborted
<1>3. CASE ~Open
  BY <1>1, <1>3 DEF AllBlocks, Aborted
<1>. QED
  BY <1>2, <1>3

LEMMA NoBuildIs == NoBuild \in Blocks /\ NoBuild.by = "none"
<1>1. <<>> \in Seq(Trxs)
  OBVIOUS
<1>. QED
  BY <1>1 DEF NoBuild, Blocks

LEMMA PushesInv ==
  ASSUME IInv, NEW b, NEW by \in Builders, OnTop(b, chain, lib, by), Pushes(b), lib' = lib,
         pool' \in Seq(Trxs)
  PROVE  IInv'
<1>1. chain \in Seq(Blocks) /\ lib \in 0..Len(chain)
  BY DEF IInv
<1>2. b.build \in Blocks /\ Good(b.db, Append(chain, b.build), lib)
  BY DEF OnTop
<1>3. db' = b.db /\ chain' = Append(chain, b.build) /\ building' = NoBuild
  BY DEF Pushes
<1>4. chain' \in Seq(Blocks) /\ Len(chain') = Len(chain) + 1
  BY <1>1, <1>2, <1>3
<1>5. lib' \in 0..Len(chain')
  BY <1>1, <1>4
<1>6. ~Open' /\ AllBlocks' = chain'
  BY <1>3 DEF Open, AllBlocks
<1>7. Good(db', AllBlocks', lib')
  BY <1>2, <1>3, <1>6
<1>8. building' \in Blocks
  BY <1>3, NoBuildIs
<1>. QED
  BY <1>4, <1>5, <1>6, <1>7, <1>8 DEF IInv

LEMMA LeavesOpenInv ==
  ASSUME IInv, NEW b, NEW by \in Builders, OnTop(b, chain, lib, by), LeavesOpen(b), lib' = lib,
         pool' \in Seq(Trxs)
  PROVE  IInv'
<1>1. chain \in Seq(Blocks) /\ lib \in 0..Len(chain)
  BY DEF IInv
<1>2. b.build \in Blocks /\ b.build.by = by /\ Good(b.db, Append(chain, b.build), lib)
  BY DEF OnTop
<1>3. db' = b.db /\ chain' = chain /\ building' = b.build
  BY DEF LeavesOpen
<1>4. Open' /\ AllBlocks' = Append(chain, b.build)
  <2>1. b.build # NoBuild
    BY <1>2, NoBuildIs, AmountsAssumption
  <2>. QED
    BY <1>3, <2>1 DEF Open, AllBlocks
<1>5. Good(db', AllBlocks', lib')
  BY <1>2, <1>3, <1>4
<1>. QED
  BY <1>1, <1>2, <1>3, <1>4, <1>5 DEF IInv

LEMMA PushInv ==
  ASSUME IInv, NEW t \in Trxs, Push(t)
  PROVE  IInv'
<1>1. /\ chain \in Seq(Blocks) /\ building \in Blocks /\ pool \in Seq(Trxs) /\ lib \in 0..Len(chain)
      /\ (Open => building.by \in Builders) /\ Good(db, AllBlocks, lib)
  BY DEF IInv
<1>2. chain' = chain /\ lib' = lib
  BY DEF Push
<1>3. CASE CheckTrx(t, db, Height) /\ ~Open
  <2>1. pool' = Inserted(t) /\ db' = db /\ building' = building
    BY <1>3 DEF Push
  <2>2. pool' \in Seq(Trxs)
    BY <1>1, <2>1, InsertedIs
  <2>. QED
    BY <1>1, <1>2, <2>1, <2>2 DEF IInv, Open, AllBlocks
<1>4. CASE CheckTrx(t, db, Height) /\ Open
  <2>. DEFINE a == [db |-> db, build |-> building]
              b == ApplyImpl(t, a)
              by == building.by
  <2>1. db' = b.db /\ building' = b.build /\ pool' = pool
    BY <1>4 DEF Push
  <2>2. a.db = db /\ a.build = building /\ DOMAIN a = {"db", "build"}
    OBVIOUS
  <2>. HIDE DEF a
  <2>3. OnTop(a, chain, lib, by)
    BY <1>1, <1>4, <2>2 DEF OnTop, AllBlocks
  <2>4. t.id \notin a.db.state.done
    BY <1>4, <2>2 DEF CheckTrx
  <2>5. OnTop(b, chain, lib, by)
    BY <1>1, <2>3, <2>4, ApplyImplOnTop
  <2>6. LeavesOpen(b) /\ pool' \in Seq(Trxs) /\ by \in Builders
    BY <1>1, <1>2, <1>4, <2>1 DEF LeavesOpen
  <2>. HIDE DEF b, by
  <2>. QED
    BY <1>2, <2>5, <2>6, LeavesOpenInv
<1>5. CASE ~CheckTrx(t, db, Height)
  <2>1. pool' = pool /\ db' = db /\ building' = building
    BY <1>5 DEF Push
  <2>. QED
    BY <1>1, <1>2, <2>1 DEF IInv, Open, AllBlocks
<1>. QED
  BY <1>3, <1>4, <1>5

LEMMA ExitsInv ==
  ASSUME IInv, Exits, lib' = lib, pool' \in Seq(Trxs)
  PROVE  IInv'
<1>1. chain \in Seq(Blocks) /\ lib \in 0..Len(chain)
  BY DEF IInv
<1>2. db' = Aborted(db, Open) /\ building' = NoBuild /\ chain' = chain
  BY DEF Exits
<1>3. ~Open' /\ AllBlocks' = chain
  BY <1>2 DEF Open, AllBlocks
<1>4. Good(db', AllBlocks', lib')
  BY <1>2, <1>3, IInvAborted
<1>. QED
  BY <1>1, <1>2, <1>3, <1>4, NoBuildIs DEF IInv

LEMMA BuildBlockInv ==
  ASSUME IInv, NEW by \in Builders, NEW throws \in BOOLEAN, BuildBlock(by, throws)
  PROVE  IInv'
<1>. DEFINE ts == Selection
            b == Built(db, Open, by, ts, Height)
<1>1. chain \in Seq(Blocks) /\ pool \in Seq(Trxs) /\ lib \in 0..Len(chain)
  BY DEF IInv
<1>2. lib' = lib /\ (pool' = <<>> \/ pool' = SubSeq(pool, Selected + 1, Len(pool)))
  BY DEF BuildBlock, TakeSelected
<1>3. ts \in Seq(Trxs) /\ pool' \in Seq(Trxs)
  <2>1. Selected \in 0..Len(pool)
    BY <1>1, SelectedIs
  <2>2. ts \in Seq(Trxs) /\ SubSeq(pool, Selected + 1, Len(pool)) \in Seq(Trxs)
    BY <1>1, <2>1, Split DEF Selection
  <2>3. <<>> \in Seq(Trxs)
    OBVIOUS
  <2>. HIDE DEF ts
  <2>. QED
    BY <1>2, <2>2, <2>3
<1>4. LeavesOpen(b) \/ Pushes(b) \/ Exits
  BY DEF BuildBlock
<1>. HIDE DEF ts
<1>5. OnTop(b, chain, lib, by)
  BY <1>1, <1>3, IInvAborted, BuiltOnTop
<1>. HIDE DEF b
<1>. QED
  BY <1>2, <1>3, <1>4, <1>5, LeavesOpenInv, PushesInv, ExitsInv

LEMMA TrxListsSeq == TrxLists \subseteq Seq(Trxs)
<1>1. ASSUME NEW ts \in TrxLists PROVE ts \in Seq(Trxs)
  <2>1. PICK n \in 0..MaxPeer : ts \in [1..n -> Trxs]
    BY DEF TrxLists
  <2>2. n \in Nat
    BY LedgerAssumption
  <2>. QED
    BY <2>1, <2>2
<1>. QED
  BY <1>1

\* The transactions before one whose exception escapes.
LEMMA BeforeEscape ==
  ASSUME NEW d, NEW open, NEW by, NEW ts \in Seq(Trxs), NEW height, NEW bad,
         bad = EscapesAt(d, open, by, ts, height), bad # {}
  PROVE  SubSeq(ts, 1, Min(bad) - 1) \in Seq(Trxs)
<1>1. bad \subseteq 1..Len(ts) /\ Len(ts) \in Nat
  BY DEF EscapesAt
<1>2. PICK x \in bad : \A y \in bad : ~(y < x)
  <2>1. bad \subseteq Nat
    BY <1>1
  <2>. QED
    BY <2>1, Least
<1>3. \A y \in bad : x <= y
  BY <1>1, <1>2
<1>4. Min(bad) \in bad
  BY <1>2, <1>3 DEF Min
<1>5. Min(bad) - 1 \in 0..Len(ts)
  BY <1>1, <1>4
<1>. QED
  BY <1>5, Split

LEMMA PeerBlockInv ==
  ASSUME IInv, NEW by \in Builders, NEW ts \in TrxLists, PeerBlock(by, ts)
  PROVE  IInv'
<1>. DEFINE bad == EscapesAt(db, Open, by, ts, Height)
            us == SubSeq(ts, 1, Min(bad) - 1)
            b == Built(db, Open, by, ts, Height)
            c == Built(db, Open, by, us, Height)
<1>1. chain \in Seq(Blocks) /\ pool \in Seq(Trxs) /\ lib \in 0..Len(chain) /\ ts \in Seq(Trxs)
  BY TrxListsSeq DEF IInv
<1>2. pool' = pool /\ lib' = lib
  BY DEF PeerBlock
<1>3. LeavesOpen(b) \/ Pushes(b) \/ (bad # {} /\ LeavesOpen(c))
  BY DEF PeerBlock, Validated
<1>4. OnTop(b, chain, lib, by)
  BY <1>1, IInvAborted, BuiltOnTop
<1>5. bad # {} => us \in Seq(Trxs)
  <2>1. bad = EscapesAt(db, Open, by, ts, Height)
    OBVIOUS
  <2>. HIDE DEF bad
  <2>. QED
    BY <1>1, <2>1, BeforeEscape
<1>. HIDE DEF us
<1>6. bad # {} => OnTop(c, chain, lib, by)
  BY <1>1, <1>5, IInvAborted, BuiltOnTop
<1>. HIDE DEF b, c, bad
<1>. QED
  BY <1>1, <1>2, <1>3, <1>4, <1>6, LeavesOpenInv, PushesInv

LEMMA SwitchInv ==
  ASSUME IInv, NEW by \in Builders, NEW ts \in TrxLists, NEW us \in TrxLists, Switch(by, ts, us)
  PROVE  IInv'
<1>. DEFINE n == Len(chain)
            cs == Upto(chain, n - 1)
            b == Built(UndoSession(db), Open, by, ts, Height - 1)
            c == Built(b.db, FALSE, by, us, Height)
            ds == Append(cs, b.build)
            es == Append(ds, c.build)
<1>1. /\ chain \in Seq(Blocks) /\ building \in Blocks /\ pool \in Seq(Trxs) /\ lib \in 0..n
      /\ Good(db, AllBlocks, lib) /\ ts \in Seq(Trxs) /\ us \in Seq(Trxs)
  BY TrxListsSeq DEF IInv
<1>2. /\ db' = c.db /\ chain' = SubSeq(chain, 1, n - 1) \o <<b.build, c.build>>
      /\ building' = NoBuild /\ pool' = pool /\ lib' = lib /\ lib < n
  BY DEF Switch, Switched, Height
<1>3. n \in Nat /\ n # 0 /\ n - 1 \in 0..n /\ lib \in 0..(n - 1)
  BY <1>1, <1>2
<1>4. chain = Append(cs, chain[n]) /\ chain[n] \in Blocks
  BY <1>1, <1>3, UptoLast
<1>5. cs \in Seq(Blocks) /\ Len(cs) = n - 1
  BY <1>1, <1>3, UptoIs
<1>. HIDE DEF n, cs
<1>6. Good(Aborted(UndoSession(db), Open), cs, lib)
  <2>1. lib \in 0..Len(cs)
    BY <1>3, <1>5
  <2>2. ASSUME NEW d, Good(d, chain, lib) PROVE Good(UndoSession(d), cs, lib)
    <3>1. Good(d, Append(cs, chain[n]), lib)
      BY <1>4, <2>2
    <3>. QED
      BY ONLY <1>4, <1>5, <2>1, <3>1, GoodUndo
  <2>3. CASE Open
    <3>1. Good(UndoSession(db), chain, lib)
      BY <2>3, IInvAborted DEF Aborted
    <3>. QED
      BY <2>2, <2>3, <3>1 DEF Aborted
  <2>4. CASE ~Open
    BY <1>1, <2>2, <2>4 DEF Aborted, AllBlocks
  <2>. QED
    BY <2>3, <2>4
<1>7. OnTop(b, cs, lib, by)
  <2>1. lib \in 0..Len(cs)
    BY <1>3, <1>5
  <2>. QED
    BY <1>1, <1>5, <1>6, <2>1, BuiltOnTop
<1>. HIDE DEF b
<1>8. b.build \in Blocks /\ Good(b.db, ds, lib)
  BY <1>7 DEF OnTop
<1>9. ds \in Seq(Blocks) /\ Len(ds) = n /\ lib \in 0..Len(ds)
  BY <1>3, <1>5, <1>8
<1>. HIDE DEF ds
<1>10. OnTop(c, ds, lib, by)
  <2>1. Good(Aborted(b.db, FALSE), ds, lib)
    BY <1>8 DEF Aborted
  <2>. QED
    BY <1>1, <1>9, <2>1, BuiltOnTop
<1>. HIDE DEF c
<1>11. c.build \in Blocks /\ Good(c.db, es, lib)
  BY <1>10 DEF OnTop
<1>12. es \in Seq(Blocks) /\ Len(es) = n + 1
  BY <1>3, <1>9, <1>11
<1>13. chain' = es
  <2>1. chain' = cs \o <<b.build, c.build>>
    BY <1>2 DEF cs, Upto
  <2>. QED
    BY <1>5, <1>8, <1>11, <2>1 DEF ds
<1>. HIDE DEF es
<1>14. ~Open' /\ AllBlocks' = chain'
  BY <1>2 DEF Open, AllBlocks
<1>15. Good(db', AllBlocks', lib')
  BY <1>2, <1>11, <1>13, <1>14
<1>16. lib' \in 0..Len(chain') /\ chain' \in Seq(Blocks) /\ building' \in Blocks /\ pool' \in Seq(Trxs)
  BY <1>1, <1>2, <1>3, <1>12, <1>13, NoBuildIs
<1>. QED
  BY <1>14, <1>15, <1>16 DEF IInv

LEMMA StartFailsInv ==
  ASSUME IInv, StartFails
  PROVE  IInv'
<1>1. chain \in Seq(Blocks) /\ pool \in Seq(Trxs) /\ lib \in 0..Len(chain)
  BY DEF IInv
<1>2. /\ db' = Aborted(db, Open) /\ building' = NoBuild /\ pool' = pool /\ chain' = chain /\ lib' = lib
  BY DEF StartFails
<1>3. ~Open' /\ AllBlocks' = chain
  BY <1>2 DEF Open, AllBlocks
<1>4. Good(db', AllBlocks', lib')
  BY <1>2, <1>3, IInvAborted
<1>. QED
  BY <1>1, <1>2, <1>3, <1>4, NoBuildIs DEF IInv

LEMMA IrreversibleInv ==
  ASSUME IInv, Irreversible
  PROVE  IInv'
<1>1. /\ chain \in Seq(Blocks) /\ building \in Blocks /\ pool \in Seq(Trxs) /\ lib \in 0..Len(chain)
      /\ (Open => building.by \in Builders) /\ Good(db, AllBlocks, lib)
  BY DEF IInv
<1>2. /\ lib < Len(chain) /\ lib' = lib + 1 /\ db' = CommitSessions(db, lib + 2)
      /\ building' = building /\ pool' = pool /\ chain' = chain
  BY DEF Irreversible, Height
<1>3. (Open' <=> Open) /\ AllBlocks' = AllBlocks
  BY <1>2 DEF Open, AllBlocks
<1>4. lib \in Nat /\ lib < Len(AllBlocks) /\ lib' \in 0..Len(chain')
  BY <1>1, <1>2 DEF AllBlocks
<1>5. Good(db', AllBlocks', lib')
  BY <1>1, <1>2, <1>3, <1>4, GoodCommit
<1>. QED
  BY <1>1, <1>2, <1>3, <1>4, <1>5 DEF IInv

LEMMA NextInv == IInv /\ [Next]_vars => IInv'
<1>. SUFFICES ASSUME IInv, [Next]_vars PROVE IInv'
  OBVIOUS
<1>1. CASE \E t \in Trxs : Push(t)
  BY <1>1, PushInv
<1>2. CASE \E by \in Builders, throws \in BOOLEAN : BuildBlock(by, throws)
  BY <1>2, BuildBlockInv
<1>3. CASE \E by \in Builders, ts \in TrxLists : PeerBlock(by, ts)
  BY <1>3, PeerBlockInv
<1>4. CASE \E by \in Builders, ts, us \in TrxLists : Switch(by, ts, us)
  BY <1>4, SwitchInv
<1>5. CASE StartFails
  BY <1>5, StartFailsInv
<1>6. CASE Irreversible
  BY <1>6, IrreversibleInv
<1>7. CASE UNCHANGED vars
  BY <1>7 DEF vars, IInv, Open, AllBlocks
<1>. QED
  BY <1>1, <1>2, <1>3, <1>4, <1>5, <1>6, <1>7 DEF Next

\* The inductive invariant holds of every behaviour of the node.
THEOREM LedgerInvariant == Spec => []IInv
<1>1. Init => IInv
  BY InitInv
<1>2. IInv /\ [Next]_vars => IInv'
  BY NextInv
<1>. QED
  BY <1>1, <1>2, PTL DEF Spec

\* Whatever transactions throw, whichever blocks are abandoned, popped or fail, and
\* however a fork switch undoes the session of an open block in place of that of the
\* head: the contents of the database are what the chain and the open block do to the
\* genesis state.
THEOREM LedgerStateIsReplay == Spec => []StateIsReplay
BY LedgerInvariant, IInvReplay, PTL

\* No transaction is applied twice, and transaction_object exists for exactly the
\* transactions of the chain and the open block (record_transaction, check_trx).
THEOREM LedgerRecordedOnce == Spec => []RecordedOnce
BY LedgerInvariant, IInvRecorded, PTL

\* Main tokens add up to initial_token_supply, and the balances of every erc20 token to
\* its supply in the arithmetic of share_type, whatever native contracts run, wherever
\* they throw and however the compiler treats overflow.
THEOREM LedgerTokensConserved == Spec => []TokensConserved
BY LedgerInvariant, IInvConserved, PTL

\* Counts stay within their bounds.
Bounds == pushes \in 0..MaxPushes /\ Len(pool) <= pushes /\ Len(chain) <= MaxBlocks

LEMMA InitBounds == Init => Bounds
BY LedgerAssumption DEF Init, Bounds

LEMMA NextBounds == IInv /\ Bounds /\ [Next]_vars => Bounds'
<1>. SUFFICES ASSUME IInv, Bounds, [Next]_vars PROVE Bounds'
  OBVIOUS
<1>. DEFINE n == Len(pool)
            m == Len(chain)
<1>1. /\ pool \in Seq(Trxs) /\ chain \in Seq(Blocks) /\ n \in Nat /\ m \in Nat
      /\ pushes \in 0..MaxPushes /\ n <= pushes /\ m <= MaxBlocks
      /\ MaxPushes \in Nat /\ MaxBlocks \in Nat
  BY LedgerAssumption DEF IInv, Bounds
<1>2. ASSUME NEW t \in Trxs, Push(t) PROVE Bounds'
  <2>1. /\ pushes < MaxPushes /\ pushes' = pushes + 1 /\ chain' = chain
        /\ pool' = pool \/ pool' = Inserted(t)
    BY <1>2 DEF Push
  <2>2. Len(Inserted(t)) = n + 1
    BY <1>1, InsertedIs
  <2>3. Len(pool') <= n + 1 /\ Len(chain') = m
    BY <1>1, <2>1, <2>2
  <2>4. pushes' \in 0..MaxPushes /\ n + 1 <= pushes'
    BY <1>1, <2>1
  <2>5. Len(pool') <= pushes'
    BY <1>1, <2>1, <2>2
  <2>. QED
    BY <1>1, <2>3, <2>4, <2>5 DEF Bounds
<1>3. ASSUME NEW by \in Builders, NEW throws \in BOOLEAN, BuildBlock(by, throws) PROVE Bounds'
  <2>. DEFINE b == Built(db, Open, by, Selection, Height)
  <2>1. /\ pool' = <<>> \/ pool' = SubSeq(pool, Selected + 1, Len(pool))
        /\ pushes' = pushes
        /\ throws \/ m < MaxBlocks
        /\ Exits \/ (throws /\ LeavesOpen(b)) \/ (~throws /\ Pushes(b))
    BY <1>3 DEF BuildBlock, TakeSelected, Height
  <2>2. Len(pool') <= n
    <3>1. Selected \in 0..n /\ Len(SubSeq(pool, Selected + 1, Len(pool))) = n - Selected
      BY <1>1, SelectedIs, Split
    <3>2. Len(<<>>) = 0
      OBVIOUS
    <3>. QED
      BY <1>1, <2>1, <3>1, <3>2
  <2>. HIDE DEF b
  <2>3. chain' = chain \/ (m < MaxBlocks /\ chain' = Append(chain, b.build))
    BY <2>1 DEF LeavesOpen, Pushes, Exits
  <2>4. Len(chain') <= MaxBlocks
    BY <1>1, <2>3
  <2>5. Len(pool') <= pushes'
    BY <1>1, <2>1, <2>2
  <2>. QED
    BY <1>1, <2>1, <2>4, <2>5 DEF Bounds
<1>4. ASSUME NEW by \in Builders, NEW ts \in TrxLists, PeerBlock(by, ts) PROVE Bounds'
  <2>. DEFINE bad == EscapesAt(db, Open, by, ts, Height)
              b == Built(db, Open, by, ts, Height)
              c == Built(db, Open, by, SubSeq(ts, 1, Min(bad) - 1), Height)
  <2>1. pool' = pool /\ pushes' = pushes /\ m < MaxBlocks /\ (Validated(b, ts) \/ LeavesOpen(c))
    BY <1>4 DEF PeerBlock, Height
  <2>. HIDE DEF b, c
  <2>2. chain' = chain \/ chain' = Append(chain, b.build)
    BY <2>1 DEF Validated, LeavesOpen, Pushes
  <2>3. Len(chain') <= MaxBlocks
    BY <1>1, <2>1, <2>2
  <2>. QED
    BY <1>1, <2>1, <2>3 DEF Bounds
<1>5. ASSUME NEW by \in Builders, NEW ts \in TrxLists, NEW us \in TrxLists, Switch(by, ts, us)
      PROVE  Bounds'
  <2>. DEFINE b == Built(UndoSession(db), Open, by, ts, Height - 1)
              c == Built(b.db, FALSE, by, us, Height)
              cs == SubSeq(chain, 1, m - 1)
  <2>1. /\ chain' = cs \o <<b.build, c.build>> /\ pool' = pool /\ pushes' = pushes
        /\ m < MaxBlocks /\ lib < m
    BY <1>5 DEF Switch, Switched, Height
  <2>2. m - 1 \in 0..m
    BY <1>1, <2>1 DEF IInv
  <2>3. cs \in Seq(Blocks) /\ Len(cs) = m - 1
    BY <1>1, <2>2, Split
  <2>. HIDE DEF b, c, cs, m
  <2>4. Len(chain') = m + 1
    <3>. DEFINE S == Blocks \cup {b.build, c.build}
                z == <<b.build, c.build>>
    <3>1. cs \in Seq(S) /\ z \in Seq(S) /\ Len(z) = 2
      BY <2>3
    <3>. HIDE DEF S, z
    <3>2. Len(cs \o z) = Len(cs) + Len(z)
      BY <3>1, ConcatProperties
    <3>. QED
      BY <1>1, <2>1, <2>3, <3>1, <3>2 DEF z
  <2>5. Len(chain') <= MaxBlocks
    BY <1>1, <2>1, <2>4
  <2>. QED
    BY <1>1, <2>1, <2>5 DEF Bounds
<1>6. CASE StartFails \/ Irreversible \/ UNCHANGED vars
  BY <1>1, <1>6 DEF StartFails, Irreversible, vars, Bounds
<1>. QED
  BY <1>2, <1>3, <1>4, <1>5, <1>6 DEF Next

LEMMA IInvTypes == IInv /\ Bounds => TypeOK
<1>. SUFFICES ASSUME IInv, Bounds PROVE TypeOK
  OBVIOUS
<1>1. Sound(db.state)
  BY IInvState DEF Known
<1>2. /\ \A a \in DOMAIN db.state.main : db.state.main[a] \in Nat
      /\ \A h \in DOMAIN db.state.hold : db.state.hold[h] \in ShareType
  BY <1>1, SoundParts
<1>3. /\ chain \in Seq(Blocks) /\ building \in Blocks /\ lib \in 0..Len(chain)
      /\ DbOK(db, AllBlocks, lib)
  BY DEF IInv, Good
<1>4. Len(AllBlocks) = Len(chain) + (IF Open THEN 1 ELSE 0)
  BY <1>3 DEF AllBlocks
<1>5. Len(db.undo) = Len(AllBlocks) - lib /\ db.rev = 1 + Len(AllBlocks)
  BY <1>3 DEF DbOK
<1>6. /\ Len(db.undo) = Height - lib + (IF Open THEN 1 ELSE 0)
      /\ db.rev = 1 + Height + (IF Open THEN 1 ELSE 0)
  BY <1>3, <1>4, <1>5 DEF Height
<1>7. Len(pool) <= MaxPushes
  BY LedgerAssumption DEF Bounds, IInv
<1>. QED
  BY <1>2, <1>3, <1>6, <1>7 DEF TypeOK, Bounds, Height

\* A balance of main tokens never falls below zero and one of an erc20 token stays a
\* share_type, and block_db has a session for every block that is not irreversible, and
\* one for the open block.
THEOREM LedgerTypes == Spec => []TypeOK
<1>1. Init => IInv /\ Bounds
  BY InitInv, InitBounds
<1>2. IInv /\ Bounds /\ [Next]_vars => (IInv /\ Bounds)'
  BY NextInv, NextBounds
<1>3. IInv /\ Bounds => TypeOK
  BY IInvTypes
<1>. QED
  BY <1>1, <1>2, <1>3, PTL DEF Spec
=============================================================================
