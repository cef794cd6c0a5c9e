--------------------------- MODULE BlockSyncProofs ---------------------------
(***************************************************************************)
(* Proofs about the way of the blocks from a node to a peer that is behind, *)
(* for every length of the chain, size of the batches and number of         *)
(* sessions.                                                                *)
(***************************************************************************)
EXTENDS BlockSync, SequenceTheorems, TLAPS

\* From place k + 1 on, w has the blocks after f up to o, one after the other.
Runs(w, f, o, k) ==
  /\ k + (o - f) <= Len(w)
  /\ \A i \in 1..(o - f) : w[k + i] = f + i

\* The blocks the follower misses of the list and the broadcasts that close up
\* with it are on the way together; and, as long as nothing was sent after a
\* block that the source took from elsewhere, at its end.
WayHolds ==
  ~stuck /\ fol.head < owed =>
    \E k \in Nat : /\ Runs(Way, fol.head, owed, k)
                   /\ owed = src.head => k + (owed - fol.head) = Len(Way)

\* A handshake under way names a block that the follower has, and a list is sent
\* in a session that is open and greeted.
Session ==
  /\ hello # NoHello => sock = "open" /\ hello \in 1..MaxHead /\ hello <= fol.head
  /\ owed > 0 => greeted
  /\ owed <= src.head
  /\ greeted => sock = "open"
  /\ fol.lib <= fol.head /\ src.lib <= src.head /\ fol.head <= src.head

\* Every block under way is one of the source's.
Known ==
  /\ \A i \in 1..Len(wire) : wire[i] <= src.head
  /\ \A i \in 1..Len(pending) : pending[i] <= src.head

\* The inductive invariant.
Inv == TypeOK /\ Session /\ Known /\ WayHolds

-----------------------------------------------------------------------------
(* Sequences of block numbers.                                             *)

LEMMA ConcatThree ==
  ASSUME NEW s \in Seq(Nat), NEW t \in Seq(Nat), NEW u \in Seq(Nat)
  PROVE  (s \o t) \o u = s \o (t \o u)
BY ConcatAssociative, SMTT(60)

LEMMA ConcatAppend ==
  ASSUME NEW s \in Seq(Nat), NEW t \in Seq(Nat), NEW e \in Nat
  PROVE  s \o Append(t, e) = Append(s \o t, e)
<1>1. <<e>> \in Seq(Nat) /\ s \o t \in Seq(Nat)
  OBVIOUS
<1>2. Append(t, e) = t \o <<e>> /\ Append(s \o t, e) = (s \o t) \o <<e>>
  BY <1>1, AppendIsConcat
<1>3. (s \o t) \o <<e>> = s \o (t \o <<e>>)
  BY <1>1, ConcatAssociative, SMTT(60)
<1>. QED
  BY <1>2, <1>3

LEMMA TailConcat ==
  ASSUME NEW s \in Seq(Nat), NEW t \in Seq(Nat), s # <<>>
  PROVE  Tail(s \o t) = Tail(s) \o t
<1>. DEFINE l == Tail(s \o t)
            r == Tail(s) \o t
<1>1. Len(s) \in Nat /\ Len(s) >= 1 /\ Len(t) \in Nat /\ Len(s \o t) = Len(s) + Len(t)
      /\ s \o t \in Seq(Nat) /\ Tail(s) \in Seq(Nat) /\ Len(Tail(s)) = Len(s) - 1
  OBVIOUS
<1>2. /\ l \in Seq(Nat) /\ r \in Seq(Nat)
      /\ Len(l) = Len(s) + Len(t) - 1 /\ Len(r) = Len(s) - 1 + Len(t)
  BY <1>1
<1>3. ASSUME NEW i \in 1..Len(l) PROVE l[i] = r[i]
  <2>1. l[i] = (s \o t)[i + 1] /\ i \in Int
    BY <1>1, <1>2
  <2>2. CASE i <= Len(s) - 1
    <3>1. (s \o t)[i + 1] = s[i + 1]
      BY <1>1, <1>2, <2>1, <2>2
    <3>2. r[i] = Tail(s)[i]
      BY <1>1, <1>2, <2>1, <2>2
    <3>3. Tail(s)[i] = s[i + 1]
      BY <1>1, <1>2, <2>1, <2>2
    <3>. QED
      BY <2>1, <3>1, <3>2, <3>3
  <2>3. CASE i > Len(s) - 1
    <3>1. (s \o t)[i + 1] = t[i + 1 - Len(s)]
      BY <1>1, <1>2, <2>1, <2>3
    <3>2. r[i] = t[i - (Len(s) - 1)]
      BY <1>1, <1>2, <2>1, <2>3
    <3>3. i + 1 - Len(s) = i - (Len(s) - 1)
      BY <1>1, <2>1
    <3>. QED
      BY <2>1, <3>1, <3>2, <3>3
  <2>. QED
    BY <1>1, <2>1, <2>2, <2>3
<1>4. Len(l) = Len(r)
  BY <1>1, <1>2
<1>. HIDE DEF l, r
<1>5. l = r
  BY <1>2, <1>3, <1>4, SeqEqual
<1>. QED
  BY <1>5 DEF l, r

\* A sequence is cut after n of its elements.
LEMMA Slice ==
  ASSUME NEW S, NEW s \in Seq(S), NEW n \in 0..Len(s)
  PROVE  LET a == SubSeq(s, 1, n)
             b == SubSeq(s, n + 1, Len(s))
         IN  /\ a \in Seq(S) /\ Len(a) = n /\ \A i \in 1..n : a[i] = s[i]
             /\ b \in Seq(S) /\ Len(b) = Len(s) - n
             /\ \A i \in 1..(Len(s) - n) : b[i] = s[n + i]
             /\ s = a \o b
<1>. DEFINE a == SubSeq(s, 1, n)
            b == SubSeq(s, n + 1, Len(s))
<1>0. Len(s) \in Nat /\ n \in Nat /\ n <= Len(s)
  OBVIOUS
<1>1. a \in Seq(S) /\ Len(a) = n /\ \A i \in 1..n : a[i] = s[i]
  BY <1>0
<1>2. b \in Seq(S) /\ Len(b) = Len(s) - n
  BY <1>0
<1>3. \A i \in 1..(Len(s) - n) : b[i] = s[n + i]
  <2>. SUFFICES ASSUME NEW i \in 1..(Len(s) - n) PROVE b[i] = s[n + i]
    OBVIOUS
  <2>1. b[i] = s[(n + 1) + i - 1]
    BY <1>0, <1>2
  <2>2. (n + 1) + i - 1 = n + i
    BY <1>0
  <2>. QED
    BY <2>1, <2>2
<1>. HIDE DEF a, b
<1>4. s = a \o b
  <2>. DEFINE c == a \o b
  <2>1. c \in Seq(S) /\ Len(c) = Len(s)
    BY <1>0, <1>1, <1>2
  <2>2. ASSUME NEW i \in 1..Len(s) PROVE s[i] = c[i]
    <3>1. CASE i <= n
      BY <1>0, <1>1, <1>2, <3>1
    <3>2. CASE i > n
      <4>1. c[i] = b[i - n] /\ i - n \in 1..(Len(s) - n) /\ n + (i - n) = i
        BY <1>0, <1>1, <1>2, <3>2
      <4>. QED
        BY <1>3, <4>1
    <3>3. i <= n \/ i > n
      BY <1>0
    <3>. QED
      BY <3>1, <3>2, <3>3
  <2>. HIDE DEF c
  <2>3. s = c
    BY <2>1, <2>2, SeqEqual
  <2>. QED
    BY <2>3 DEF c
<1>. QED
  BY <1>1, <1>2, <1>3, <1>4 DEF a, b

LEMMA ListType ==
  ASSUME NEW h \in Nat, NEW b \in Nat, NEW m \in Nat, b <= h, h <= m
  PROVE  [i \in 1..(h - b) |-> b + i] \in Seq(1..m)
<1>1. h - b \in Nat /\ \A i \in 1..(h - b) : b + i \in 1..m
  OBVIOUS
<1>. QED
  BY <1>1

LEMMA WayFacts ==
  ASSUME TypeOK
  PROVE  /\ wire \in Seq(Nat) /\ pending \in Seq(Nat) /\ Way \in Seq(Nat)
         /\ Len(Way) = Len(wire) + Len(pending)
         /\ Len(Way) \in Nat /\ Len(wire) \in Nat /\ Len(pending) \in Nat
         /\ src.head \in Nat /\ fol.head \in Nat /\ owed \in Nat
         /\ src.lib \in Nat /\ fol.lib \in Nat
         /\ src.head \in 1..MaxHead /\ fol.head \in 1..MaxHead /\ MaxHead \in Nat
<1>1. MaxHead \in Nat
  BY BlockSyncAssumption
<1>2. wire \in Seq(Nat) /\ pending \in Seq(Nat)
  BY <1>1 DEF TypeOK
<1>3. /\ src.head \in 1..MaxHead /\ fol.head \in 1..MaxHead
      /\ src.lib \in 0..MaxHead /\ fol.lib \in 0..MaxHead /\ owed \in 0..MaxHead
  BY DEF TypeOK
<1>. QED
  BY <1>1, <1>2, <1>3 DEF Way

\* Something is sent after a run.
LEMMA RunsAppend ==
  ASSUME NEW w \in Seq(Nat), NEW e \in Nat, NEW f \in Nat, NEW o \in Nat, NEW k \in Nat,
         Runs(w, f, o, k)
  PROVE  Runs(Append(w, e), f, o, k)
<1>. DEFINE v == Append(w, e)
<1>1. /\ Len(v) = Len(w) + 1 /\ Len(w) \in Nat
      /\ \A i \in 1..Len(w) : v[i] = w[i]
  OBVIOUS
<1>. HIDE DEF v
<1>2. k + (o - f) <= Len(w)
  BY DEF Runs
<1>3. ASSUME NEW i \in 1..(o - f) PROVE v[k + i] = f + i
  <2>1. k + i \in 1..Len(w)
    BY <1>1, <1>2
  <2>2. w[k + i] = f + i
    BY DEF Runs
  <2>. QED
    BY <1>1, <2>1, <2>2
<1>4. k + (o - f) <= Len(v)
  BY <1>1, <1>2
<1>. QED
  BY <1>3, <1>4 DEF Runs, v

\* A run at the end grows by a broadcast of the next block.
LEMMA RunsLonger ==
  ASSUME NEW w \in Seq(Nat), NEW f \in Nat, NEW o \in Nat, NEW k \in Nat, f <= o,
         Runs(w, f, o, k), k + (o - f) = Len(w)
  PROVE  /\ Runs(Append(w, o + 1), f, o + 1, k)
         /\ k + ((o + 1) - f) = Len(Append(w, o + 1))
<1>. DEFINE v == Append(w, o + 1)
<1>1. /\ Len(v) = Len(w) + 1 /\ Len(w) \in Nat /\ v[Len(w) + 1] = o + 1
      /\ \A i \in 1..Len(w) : v[i] = w[i]
  OBVIOUS
<1>. HIDE DEF v
<1>2. ASSUME NEW i \in 1..((o + 1) - f) PROVE v[k + i] = f + i
  <2>0. i \in Int
    OBVIOUS
  <2>1. CASE i = (o + 1) - f
    <3>1. k + i = Len(w) + 1 /\ f + i = o + 1
      BY <1>1, <2>1
    <3>. QED
      BY <1>1, <3>1
  <2>2. CASE i # (o + 1) - f
    <3>1. i \in 1..(o - f) /\ k + i \in 1..Len(w)
      BY <1>1, <2>0, <2>2
    <3>2. w[k + i] = f + i
      BY <3>1 DEF Runs
    <3>. QED
      BY <1>1, <3>1, <3>2
  <2>. QED
    BY <2>1, <2>2
<1>3. k + ((o + 1) - f) = Len(v)
  BY <1>1
<1>4. k + ((o + 1) - f) <= Len(v)
  BY <1>1, <1>3
<1>5. Runs(v, f, o + 1, k)
  BY <1>2, <1>4 DEF Runs
<1>. QED
  BY <1>3, <1>5 DEF v

\* The follower takes the first message: when it is not the next block, the run
\* lies behind it; when it is, one block less is missing.
LEMMA RunsTail ==
  ASSUME NEW w \in Seq(Nat), w # <<>>, NEW f \in Nat, NEW o \in Nat, NEW k \in Nat, f < o,
         Runs(w, f, o, k)
  PROVE  /\ Head(w) # f + 1 => k - 1 \in Nat /\ Runs(Tail(w), f, o, k - 1)
         /\ Runs(Tail(w), f + 1, o, k)
         /\ Len(Tail(w)) = Len(w) - 1
<1>. DEFINE v == Tail(w)
<1>1. /\ Len(v) = Len(w) - 1 /\ Len(w) \in Nat /\ Len(w) >= 1 /\ Head(w) = w[1]
      /\ \A i \in 1..Len(v) : v[i] = w[i + 1]
  OBVIOUS
<1>. HIDE DEF v
<1>2. k + (o - f) <= Len(w)
  BY DEF Runs
<1>3. ASSUME Head(w) # f + 1 PROVE k - 1 \in Nat /\ Runs(v, f, o, k - 1)
  <2>1. k # 0
    <3>. SUFFICES ASSUME k = 0 PROVE FALSE
      OBVIOUS
    <3>1. 1 \in 1..(o - f) /\ k + 1 = 1
      OBVIOUS
    <3>2. w[1] = f + 1
      BY <3>1 DEF Runs
    <3>. QED
      BY <1>1, <1>3, <3>2
  <2>2. ASSUME NEW i \in 1..(o - f) PROVE v[(k - 1) + i] = f + i
    <3>1. (k - 1) + i \in 1..Len(v) /\ ((k - 1) + i) + 1 = k + i
      BY <1>1, <1>2, <2>1
    <3>2. w[k + i] = f + i
      BY DEF Runs
    <3>. QED
      BY <1>1, <3>1, <3>2
  <2>3. (k - 1) + (o - f) <= Len(v) /\ k - 1 \in Nat
    BY <1>1, <1>2, <2>1
  <2>. QED
    BY <2>2, <2>3 DEF Runs
<1>4. Runs(v, f + 1, o, k)
  <2>1. ASSUME NEW i \in 1..(o - (f + 1)) PROVE v[k + i] = (f + 1) + i
    <3>1. k + i \in 1..Len(v) /\ (k + i) + 1 = k + (i + 1) /\ i + 1 \in 1..(o - f)
      BY <1>1, <1>2
    <3>2. w[k + (i + 1)] = f + (i + 1)
      BY <3>1 DEF Runs
    <3>. QED
      BY <1>1, <3>1, <3>2
  <2>2. k + (o - (f + 1)) <= Len(v)
    BY <1>1, <1>2
  <2>. QED
    BY <2>1, <2>2 DEF Runs
<1>. QED
  BY <1>1, <1>3, <1>4 DEF v

\* The follower has one more of the blocks.
LEMMA RunsLess ==
  ASSUME NEW w \in Seq(Nat), NEW f \in Nat, NEW o \in Nat, NEW k \in Nat, f < o,
         Runs(w, f, o, k)
  PROVE  Runs(w, f + 1, o, k + 1)
<1>1. Len(w) \in Nat /\ k + (o - f) <= Len(w)
  BY DEF Runs
<1>2. ASSUME NEW i \in 1..(o - (f + 1)) PROVE w[(k + 1) + i] = (f + 1) + i
  <2>1. i + 1 \in 1..(o - f) /\ (k + 1) + i = k + (i + 1)
    OBVIOUS
  <2>2. w[k + (i + 1)] = f + (i + 1)
    BY <2>1 DEF Runs
  <2>. QED
    BY <2>1, <2>2
<1>3. (k + 1) + (o - (f + 1)) <= Len(w)
  BY <1>1
<1>. QED
  BY <1>2, <1>3 DEF Runs

\* The items of two sequences, one after the other.
LEMMA ConcatParts ==
  ASSUME NEW S, NEW s \in Seq(S), NEW t \in Seq(S)
  PROVE  /\ s \o t \in Seq(S) /\ Len(s \o t) = Len(s) + Len(t)
         /\ \A i \in 1..(Len(s) + Len(t)) :
              (s \o t)[i] = IF i <= Len(s) THEN s[i] ELSE t[i - Len(s)]
  OBVIOUS

\* A list of all blocks after one that the follower has.
LEMMA RunsList ==
  ASSUME NEW w \in Seq(Nat), NEW h \in Nat, NEW b \in Nat, NEW f \in Nat, b <= f, f <= h
  PROVE  LET l == [i \in 1..(h - b) |-> b + i]
         IN  /\ l \in Seq(Nat) /\ Len(l) = h - b
             /\ Len(w) + (f - b) \in Nat
             /\ Runs(w \o l, f, h, Len(w) + (f - b))
             /\ (Len(w) + (f - b)) + (h - f) = Len(w \o l)
<1>. DEFINE l == [i \in 1..(h - b) |-> b + i]
<1>1. l \in Seq(Nat) /\ Len(l) = h - b /\ h - b \in Nat
  OBVIOUS
<1>2. \A i \in 1..(h - b) : l[i] = b + i
  OBVIOUS
<1>. HIDE DEF l
<1>. DEFINE v == w \o l
            k == Len(w) + (f - b)
<1>3. /\ Len(v) = Len(w) + (h - b) /\ Len(w) \in Nat
      /\ \A i \in 1..Len(l) : v[Len(w) + i] = l[i]
  <2>1. Len(v) = Len(w) + Len(l) /\ Len(w) \in Nat
    BY <1>1
  <2>2. ASSUME NEW i \in 1..Len(l) PROVE v[Len(w) + i] = l[i]
    <3>1. l \in Seq(Nat) /\ Len(l) \in Nat /\ Len(w) \in Nat
      BY <1>1
    <3>2. Len(w) + i \in 1..(Len(w) + Len(l)) /\ Len(w) + i > Len(w) /\ (Len(w) + i) - Len(w) = i
      BY <3>1
    <3>. QED
      BY <3>1, <3>2
  <2>. QED
    BY <1>1, <2>1, <2>2
<1>4. k \in Nat /\ k + (h - f) = Len(v)
  BY <1>3
<1>5. ASSUME NEW i \in 1..(h - f) PROVE v[k + i] = f + i
  <2>1. (f - b) + i \in 1..(h - b) /\ Len(w) + ((f - b) + i) = k + i /\ b + ((f - b) + i) = f + i
    BY <1>3
  <2>2. v[Len(w) + ((f - b) + i)] = l[(f - b) + i]
    BY <1>1, <1>3, <2>1
  <2>. QED
    BY <1>2, <2>1, <2>2
<1>. HIDE DEF v, k
<1>6. Runs(v, f, h, k)
  <2>1. Len(v) \in Nat
    BY <1>1, <1>3
  <2>. QED
    BY <1>4, <1>5, <2>1 DEF Runs
<1>. QED
  BY <1>1, <1>4, <1>6 DEF v, k, l

-----------------------------------------------------------------------------
LEMMA InitInv == Init => Inv
<1>. SUFFICES ASSUME Init PROVE Inv
  OBVIOUS
<1>1. TypeOK
  <2>1. GenesisChain \in [head : 1..MaxHead, lib : 0..MaxHead] /\ 0 \in 0..MaxSessions
    BY BlockSyncAssumption DEF GenesisChain
  <2>2. <<>> \in Seq(1..MaxHead) /\ <<>> \in Seq(0..MaxHead)
    OBVIOUS
  <2>3. 0 \in 0..MaxHead
    BY BlockSyncAssumption
  <2>. QED
    BY <2>1, <2>2, <2>3 DEF Init, TypeOK, NoHello
<1>. QED
  BY <1>1 DEF Init, Inv, Session, Known, WayHolds, GenesisChain, NoHello

LEMMA HelloLibKnown ==
  ASSUME TypeOK, Session
  PROVE  HelloLib \in 1..MaxHead /\ HelloLib <= fol.head
BY WayFacts DEF Session, HelloLib

LEMMA NextInv == Inv /\ [Next]_vars => Inv'
<1>. SUFFICES ASSUME Inv, [Next]_vars PROVE Inv'
  OBVIOUS
<1>0. TypeOK /\ Session /\ Known /\ WayHolds
  BY DEF Inv
<1>f. /\ wire \in Seq(Nat) /\ pending \in Seq(Nat) /\ Way \in Seq(Nat)
      /\ Len(Way) \in Nat /\ Len(wire) \in Nat /\ Len(pending) \in Nat
      /\ src.head \in Nat /\ fol.head \in Nat /\ owed \in Nat
      /\ src.lib \in Nat /\ fol.lib \in Nat
      /\ src.head \in 1..MaxHead /\ fol.head \in 1..MaxHead /\ MaxHead \in Nat
  BY <1>0, WayFacts
<1>1. CASE Dial
  <2>1. TypeOK'
    <3>1. sessions' \in 0..MaxSessions
      BY <1>0, <1>1, BlockSyncAssumption DEF TypeOK, Dial
    <3>2. hello' \in Nat \cup {NoHello}
      <4>1. HelloLib \in Nat
        BY <1>0, <1>f, HelloLibKnown
      <4>. QED
        BY <1>0, <1>1, <4>1 DEF TypeOK, Dial
    <3>3. pending' \in Seq(1..MaxHead) /\ stuck' \in BOOLEAN
      <4>1. <<>> \in Seq(1..MaxHead)
        OBVIOUS
      <4>. QED
        BY <1>0, <1>1, <4>1 DEF TypeOK, Dial
    <3>4. sock' \in {"closed", "dialing", "open"}
      BY <1>1 DEF Dial
    <3>5. UNCHANGED <<chains, dialer, wire, greeted, owed>>
      BY <1>1 DEF Dial
    <3>. QED
      BY <1>0, <3>1, <3>2, <3>3, <3>4, <3>5 DEF TypeOK, chains
  <2>2. Session'
    BY <1>0, <1>1, HelloLibKnown DEF Session, Dial, chains, NoHello
  <2>3. Known'
    BY <1>0, <1>1, <1>f DEF Known, Dial, chains
  <2>4. WayHolds'
    <3>1. owed' = 0 /\ fol' = fol
      BY <1>0, <1>1, <1>f DEF Session, Dial, chains
    <3>. QED
      BY <1>f, <3>1 DEF WayHolds
  <2>. QED
    BY <2>1, <2>2, <2>3, <2>4 DEF Inv
<1>2. CASE DialOk
  <2>0. wire' = wire \/ wire' = wire \o <<0>>
    BY <1>2 DEF DialOk, Sent, Handshake
  <2>1. wire' \in Seq(0..MaxHead) /\ \A i \in 1..Len(wire') : wire'[i] <= src.head
    <3>1. CASE wire' = wire
      BY <1>0, <3>1 DEF TypeOK, Known
    <3>2. CASE wire' = wire \o <<0>>
      <4>1. wire \in Seq(0..MaxHead) /\ <<0>> \in Seq(0..MaxHead)
        BY <1>0, <1>f DEF TypeOK
      <4>2. /\ wire' \in Seq(0..MaxHead) /\ Len(wire') = Len(wire) + 1
            /\ \A i \in 1..Len(wire) : wire'[i] = wire[i]
            /\ wire'[Len(wire) + 1] = 0
        BY <3>2, <4>1
      <4>3. ASSUME NEW i \in 1..Len(wire') PROVE wire'[i] <= src.head
        <5>1. CASE i = Len(wire) + 1
          BY <1>f, <4>2, <5>1
        <5>2. CASE i # Len(wire) + 1
          <6>1. i \in 1..Len(wire)
            BY <1>f, <4>2, <5>2
          <6>. QED
            BY <1>0, <4>2, <6>1 DEF Known
        <5>. QED
          BY <5>1, <5>2
      <4>. QED
        BY <4>2, <4>3
    <3>. QED
      BY <2>0, <3>1, <3>2
  <2>2. TypeOK'
    BY <1>0, <1>2, <2>1 DEF TypeOK, DialOk, chains
  <2>3. Session'
    BY <1>0, <1>2 DEF Session, DialOk, chains
  <2>4. Known'
    BY <1>0, <1>2, <2>1 DEF Known, DialOk, chains
  <2>5. WayHolds'
    <3>1. owed' = 0 /\ fol' = fol
      BY <1>0, <1>2, <1>f DEF Session, DialOk, chains
    <3>. QED
      BY <1>f, <3>1 DEF WayHolds
  <2>. QED
    BY <2>2, <2>3, <2>4, <2>5 DEF Inv
<1>3. CASE Break
  <2>1. TypeOK'
    <3>1. <<>> \in Seq(0..MaxHead) /\ 0 \in 0..MaxHead
      BY <1>f
    <3>. QED
      BY <1>0, <1>3, <3>1 DEF TypeOK, Break, chains, NoHello
  <2>2. Session' /\ WayHolds'
    <3>1. owed' = 0 /\ fol' = fol /\ src' = src
      BY <1>3 DEF Break, chains
    <3>2. WayHolds'
      BY <1>f, <3>1 DEF WayHolds
    <3>3. Session'
      BY <1>0, <1>3, <1>f, <3>1 DEF Session, Break, chains, NoHello
    <3>. QED
      BY <3>2, <3>3
  <2>3. Known'
    BY <1>0, <1>3 DEF Known, Break, chains
  <2>. QED
    BY <2>1, <2>2, <2>3 DEF Inv
<1>4. CASE SourceHandshake
  <2>0. hello \in 1..MaxHead /\ hello <= fol.head /\ fol.head <= src.head /\ hello \in Nat
    BY <1>0, <1>4, <1>f DEF SourceHandshake, Session
  <2>. DEFINE l == SyncList(hello)
  <2>1. l \in Seq(1..MaxHead) /\ \A i \in 1..Len(l) : l[i] <= src.head
    <3>1. src.head - hello \in Nat /\ \A i \in 1..(src.head - hello) : hello + i \in 1..MaxHead
          /\ hello + i <= src.head
      BY <1>f, <2>0
    <3>2. l = [i \in 1..(src.head - hello) |-> hello + i]
      BY DEF SyncList
    <3>3. Len(l) = src.head - hello
      BY <3>1, <3>2
    <3>4. \A i \in 1..(src.head - hello) : l[i] = hello + i
      BY <3>1, <3>2
    <3>5. l \in Seq(1..MaxHead)
      <4>1. src.head <= MaxHead /\ hello <= src.head
        BY <1>f, <2>0
      <4>. QED
        BY <1>f, <2>0, <3>2, <4>1, ListType, ZenonT(60)
    <3>. QED
      BY <3>1, <3>3, <3>4, <3>5
  <2>2. PICK k \in Nat : /\ Runs(wire \o l, fol.head, src.head, k)
                         /\ k + (src.head - fol.head) = Len(wire \o l)
    <3>1. /\ wire \in Seq(Nat) /\ src.head \in Nat /\ hello \in Nat /\ fol.head \in Nat
          /\ hello <= fol.head /\ fol.head <= src.head
      BY <1>f, <2>0
    <3>2. /\ Len(wire) + (fol.head - hello) \in Nat
          /\ Runs(wire \o l, fol.head, src.head, Len(wire) + (fol.head - hello))
          /\ (Len(wire) + (fol.head - hello)) + (src.head - fol.head) = Len(wire \o l)
      BY <3>1, RunsList, ZenonT(60) DEF SyncList
    <3>. HIDE DEF l
    <3>. QED
      BY ONLY <3>2, Zenon
  <2>. HIDE DEF l
  <2>3. TypeOK'
    <3>1. owed' \in 0..MaxHead
      BY <1>4, <1>f DEF SourceHandshake
    <3>. QED
      BY <1>0, <1>4, <2>1, <3>1 DEF TypeOK, SourceHandshake, chains, NoHello, l
  <2>4. Session'
    <3>1. owed' <= src.head /\ src' = src /\ fol' = fol /\ greeted' = TRUE
      BY <1>4, <1>f DEF SourceHandshake, chains
    <3>. QED
      BY <1>0, <1>4, <3>1 DEF Session, SourceHandshake, NoHello
  <2>5. Known'
    BY <1>0, <1>4, <2>1 DEF Known, SourceHandshake, chains, l
  <2>6. WayHolds'
    <3>1. /\ src' = src /\ fol' = fol /\ owed' \in {0, src.head}
          /\ owed' # 0 => Way' = wire \o l
      BY <1>4 DEF SourceHandshake, Way, chains, l
    <3>2. CASE owed' = 0
      BY <1>f, <3>1, <3>2 DEF WayHolds
    <3>3. CASE owed' = src.head /\ owed' # 0
      BY <2>2, <3>1, <3>3 DEF WayHolds
    <3>. QED
      BY <3>1, <3>2, <3>3
  <2>. QED
    BY <2>3, <2>4, <2>5, <2>6 DEF Inv
<1>5. CASE Build
  <2>0. /\ src.head < MaxHead /\ src' = [src EXCEPT !.head = src.head + 1] /\ pending' = Broadcast
        /\ owed' = IF owed = src.head THEN owed + 1 ELSE owed
        /\ UNCHANGED <<fol, dialer, sock, wire, hello, greeted, stuck, sessions>>
    BY <1>5 DEF Build
  <2>a. src \in [head : 1..MaxHead, lib : 0..MaxHead]
    BY <1>0 DEF TypeOK
  <2>1. /\ src'.head = src.head + 1 /\ src'.lib = src.lib
        /\ src' \in [head : 1..MaxHead, lib : 0..MaxHead]
    <3>1. src.head + 1 \in 1..MaxHead
      BY <1>f, <2>0
    <3>. QED
      BY <2>0, <2>a, <3>1
  <2>2. pending' = pending \/ pending' = Append(pending, src.head + 1)
    BY <2>0 DEF Broadcast
  <2>3. pending' \in Seq(1..MaxHead) /\ \A i \in 1..Len(pending') : pending'[i] <= src.head + 1
    <3>0. pending \in Seq(1..MaxHead) /\ src.head + 1 \in 1..MaxHead
          /\ \A i \in 1..Len(pending) : pending[i] <= src.head /\ pending[i] \in Nat
      <4>1. \A i \in 1..Len(pending) : pending[i] \in Nat
        BY <1>f, SMTT(60)
      <4>2. pending \in Seq(1..MaxHead) /\ src.head + 1 \in 1..MaxHead
        BY <1>0, <1>f, <2>0 DEF TypeOK
      <4>. QED
        BY <1>0, <4>1, <4>2 DEF Known
    <3>1. CASE pending' = pending
      BY <1>f, <3>0, <3>1, SMTT(60)
    <3>2. CASE pending' = Append(pending, src.head + 1)
      <4>1. /\ pending' \in Seq(1..MaxHead) /\ Len(pending') = Len(pending) + 1
            /\ \A i \in 1..Len(pending) : pending'[i] = pending[i]
            /\ pending'[Len(pending) + 1] = src.head + 1
        BY <3>0, <3>2
      <4>2. ASSUME NEW i \in 1..Len(pending') PROVE pending'[i] <= src.head + 1
        <5>1. CASE i = Len(pending) + 1
          BY <1>f, <4>1, <5>1
        <5>2. CASE i # Len(pending) + 1
          <6>1. i \in 1..Len(pending)
            BY <1>f, <4>1, <5>2
          <6>. QED
            BY <1>f, <3>0, <4>1, <6>1, SMTT(60)
        <5>. QED
          BY <5>1, <5>2
      <4>. QED
        BY <4>1, <4>2
    <3>. QED
      BY <2>2, <3>1, <3>2
  <2>b. /\ owed' \in 0..MaxHead /\ owed' <= src.head + 1 /\ (owed' > 0 => owed > 0)
        /\ owed <= src.head
    <3>1. owed <= src.head
      BY <1>0 DEF Session
    <3>. QED
      BY <1>f, <2>0, <3>1
  <2>4. TypeOK'
    BY <1>0, <2>0, <2>1, <2>3, <2>b DEF TypeOK
  <2>5. Session'
    BY <1>0, <1>f, <2>0, <2>1, <2>b, SMTT(60) DEF Session
  <2>6. Known'
    <3>1. \A i \in 1..Len(wire) : wire[i] <= src.head + 1
      <4>1. \A i \in 1..Len(wire) : wire[i] \in Nat /\ wire[i] <= src.head
        BY <1>0, <1>f, SMTT(60) DEF Known
      <4>. QED
        BY <1>f, <4>1, SMTT(60)
    <3>. QED
      BY <2>0, <2>1, <2>3, <3>1 DEF Known
  <2>7. WayHolds'
    <3>. SUFFICES ASSUME ~stuck, fol.head < owed'
         PROVE  \E k \in Nat : /\ Runs(Way', fol.head, owed', k)
                               /\ owed' = src'.head => k + (owed' - fol.head) = Len(Way')
      BY <2>0 DEF WayHolds
    <3>1. pending' = Append(pending, src.head + 1)
      BY <1>0, <1>f, <2>0, <2>b DEF Session, Broadcast
    <3>2. Way' = Append(Way, src.head + 1) /\ src.head + 1 \in Nat
      <4>1. src.head + 1 \in Nat
        BY <1>f
      <4>2. wire \o Append(pending, src.head + 1) = Append(wire \o pending, src.head + 1)
        BY <1>f, <4>1, ConcatAppend, ZenonT(60)
      <4>. QED
        BY <2>0, <3>1, <4>1, <4>2 DEF Way
    <3>3. CASE owed = src.head
      <4>1. owed' = owed + 1 /\ src'.head = owed + 1 /\ fol.head <= owed
            /\ Way' = Append(Way, owed + 1)
        BY <1>0, <1>f, <2>0, <2>1, <3>2, <3>3 DEF Session
      <4>2. PICK k \in Nat : Runs(Way, fol.head, owed, k) /\ k + (owed - fol.head) = Len(Way)
        <5>1. CASE fol.head < owed
          BY <1>0, <3>3, <5>1 DEF WayHolds
        <5>2. CASE fol.head = owed
          <6>1. Runs(Way, fol.head, owed, Len(Way)) /\ Len(Way) + (owed - fol.head) = Len(Way)
            BY <1>f, <5>2 DEF Runs
          <6>. QED
            BY <1>f, <6>1
        <5>. QED
          BY <1>f, <4>1, <5>1, <5>2
      <4>3. /\ Runs(Append(Way, owed + 1), fol.head, owed + 1, k)
            /\ k + ((owed + 1) - fol.head) = Len(Append(Way, owed + 1))
        <5>1. Way \in Seq(Nat) /\ fol.head \in Nat /\ owed \in Nat /\ fol.head <= owed
          BY <1>f, <4>1
        <5>. QED
          BY ONLY <4>2, <5>1, k \in Nat, RunsLonger, Zenon
      <4>. QED
        BY <4>1, <4>3
    <3>4. CASE owed # src.head
      <4>1. owed' = owed /\ owed' # src'.head
        BY <1>f, <2>0, <2>1, <2>b, <3>4
      <4>2. PICK k \in Nat : Runs(Way, fol.head, owed, k)
        BY <1>0, <4>1 DEF WayHolds
      <4>3. Runs(Way', fol.head, owed, k)
        BY <1>f, <3>2, <4>2, RunsAppend
      <4>. QED
        BY <4>1, <4>3
    <3>. QED
      BY <3>3, <3>4
  <2>. QED
    BY <2>4, <2>5, <2>6, <2>7 DEF Inv
<1>11. CASE Hear
  <2>0. /\ src.head < MaxHead /\ src' = [src EXCEPT !.head = src.head + 1]
        /\ UNCHANGED <<fol, dialer, sock, pending, wire, hello, greeted, owed, stuck, sessions>>
    BY <1>11 DEF Hear
  <2>a. src \in [head : 1..MaxHead, lib : 0..MaxHead]
    BY <1>0 DEF TypeOK
  <2>1. /\ src'.head = src.head + 1 /\ src'.lib = src.lib
        /\ src' \in [head : 1..MaxHead, lib : 0..MaxHead]
    <3>1. src.head + 1 \in 1..MaxHead
      BY <1>f, <2>0
    <3>. QED
      BY <2>0, <2>a, <3>1
  <2>2. TypeOK'
    BY <1>0, <2>0, <2>1 DEF TypeOK
  <2>3. Session'
    BY <1>0, <1>f, <2>0, <2>1, SMTT(60) DEF Session
  <2>4. Known'
    <3>1. /\ \A i \in 1..Len(wire) : wire[i] \in Nat /\ wire[i] <= src.head
          /\ \A i \in 1..Len(pending) : pending[i] \in Nat /\ pending[i] <= src.head
      BY <1>0, <1>f, SMTT(60) DEF Known
    <3>2. /\ \A i \in 1..Len(wire) : wire[i] <= src.head + 1
          /\ \A i \in 1..Len(pending) : pending[i] <= src.head + 1
      BY <1>f, <3>1, SMTT(60)
    <3>. QED
      BY <2>0, <2>1, <3>2 DEF Known
  <2>5. WayHolds'
    <3>1. owed' # src'.head /\ Way' = Way
      BY <1>0, <1>f, <2>0, <2>1 DEF Session, Way
    <3>. QED
      BY <1>0, <2>0, <3>1 DEF WayHolds
  <2>. QED
    BY <2>2, <2>3, <2>4, <2>5 DEF Inv
<1>6. CASE SendPending
  <2>. DEFINE n == Sending
              a == SubSeq(pending, 1, n)
              b == SubSeq(pending, n + 1, Len(pending))
  <2>0. n \in 0..Len(pending)
    BY <1>f, BlockSyncAssumption DEF Sending
  <2>. HIDE DEF n
  <2>1. /\ pending \in Seq(1..MaxHead) /\ a \in Seq(1..MaxHead) /\ b \in Seq(1..MaxHead)
        /\ a \in Seq(0..MaxHead) /\ wire \in Seq(0..MaxHead)
        /\ Len(a) = n /\ Len(b) = Len(pending) - n
        /\ \A i \in 1..Len(a) : a[i] = pending[i]
        /\ \A i \in 1..Len(b) : b[i] = pending[n + i]
    <3>1. pending \in Seq(1..MaxHead) /\ wire \in Seq(0..MaxHead)
      BY <1>0 DEF TypeOK
    <3>2. /\ a \in Seq(1..MaxHead) /\ Len(a) = n
          /\ \A i \in 1..n : a[i] = pending[i]
      BY <1>f, <2>0, <3>1, Slice, SMTT(60)
    <3>3. /\ b \in Seq(1..MaxHead) /\ Len(b) = Len(pending) - n
          /\ \A i \in 1..(Len(pending) - n) : b[i] = pending[n + i]
      BY <1>f, <2>0, <3>1, Slice, ZenonT(60)
    <3>. HIDE DEF a, b
    <3>4. a \in Seq(0..MaxHead)
      BY <1>f, <3>2
    <3>. QED
      BY <3>1, <3>2, <3>3, <3>4
  <2>2. /\ pending' = b /\ (wire' = wire \/ wire' = wire \o a)
        /\ (sock # "closed" /\ ~stuck => wire' = wire \o a)
        /\ (stuck => stuck') /\ stuck' \in BOOLEAN
        /\ UNCHANGED <<chains, dialer, sock, hello, greeted, owed, sessions>>
    BY <1>0, <1>6 DEF SendPending, Sent, n, TypeOK
  <2>. HIDE DEF a, b
  <2>3. TypeOK'
    <3>1. wire \o a \in Seq(0..MaxHead)
      BY <2>1
    <3>. QED
      BY <1>0, <2>1, <2>2, <3>1 DEF TypeOK, chains
  <2>4. Session'
    BY <1>0, <2>2 DEF Session, chains
  <2>5. Known'
    <3>0. \A i \in 1..Len(pending) : pending[i] <= src.head
      BY <1>0 DEF Known
    <3>1. ASSUME NEW i \in 1..Len(b) PROVE b[i] <= src.head
      <4>1. n + i \in 1..Len(pending)
        BY <1>f, <2>0, <2>1
      <4>. QED
        BY <2>1, <3>0, <4>1
    <3>2. ASSUME NEW i \in 1..Len(a) PROVE a[i] <= src.head
      <4>1. i \in 1..Len(pending)
        BY <1>f, <2>0, <2>1
      <4>. QED
        BY <2>1, <3>0, <4>1
    <3>3. \A i \in 1..Len(wire \o a) : (wire \o a)[i] <= src.head
      <4>1. /\ Len(wire \o a) = Len(wire) + Len(a)
            /\ \A i \in 1..(Len(wire) + Len(a)) :
                 (wire \o a)[i] = IF i <= Len(wire) THEN wire[i] ELSE a[i - Len(wire)]
        BY <2>1, ConcatParts, ZenonT(60)
      <4>. HIDE DEF a
      <4>2. ASSUME NEW i \in 1..(Len(wire) + Len(a)) PROVE (wire \o a)[i] <= src.head
        <5>0. Len(a) \in Nat /\ i \in Int
          BY <2>1
        <5>1. CASE i <= Len(wire)
          <6>1. i \in 1..Len(wire) /\ (wire \o a)[i] = wire[i]
            BY <1>f, <4>1, <5>0, <5>1
          <6>. QED
            BY <1>0, <6>1 DEF Known
        <5>2. CASE ~(i <= Len(wire))
          <6>1. i - Len(wire) \in 1..Len(a) /\ (wire \o a)[i] = a[i - Len(wire)]
            BY <1>f, <4>1, <5>0, <5>2
          <6>. QED
            BY <3>2, <6>1
        <5>. QED
          BY <5>1, <5>2
      <4>. QED
        BY <4>1, <4>2
    <3>. QED
      BY <1>0, <2>2, <3>1, <3>3 DEF Known, chains
  <2>6. WayHolds'
    <3>. SUFFICES ASSUME ~stuck, fol.head < owed PROVE Way' = Way
      BY <1>0, <2>2 DEF WayHolds, chains
    <3>1. wire' = wire \o a
      BY <1>0, <1>f, <2>2 DEF Session
    <3>2. Way' = Way
      <4>1. pending = a \o b
        BY <1>f, <2>0, Slice, Zenon DEF a, b
      <4>2. a \in Seq(Nat) /\ b \in Seq(Nat)
        <5>1. 1..MaxHead \subseteq Nat
          BY <1>f
        <5>. QED
          BY <2>1, <5>1, SeqMonotonic
      <4>3. (wire \o a) \o b = wire \o (a \o b)
        BY <1>f, <4>2, ConcatThree, ZenonT(60)
      <4>. QED
        BY <2>2, <3>1, <4>1, <4>3 DEF Way
    <3>. QED
      BY <3>2
  <2>. QED
    BY <2>3, <2>4, <2>5, <2>6 DEF Inv
<1>7. CASE Receive
  <2>0. /\ sock = "open" /\ wire # <<>> /\ wire' = Tail(wire)
        /\ UNCHANGED <<src, dialer, sock, pending, greeted, owed, stuck, sessions>>
    BY <1>7 DEF Receive
  <2>1. /\ Tail(wire) \in Seq(0..MaxHead) /\ Len(Tail(wire)) = Len(wire) - 1 /\ Len(wire) >= 1
        /\ Head(wire) = wire[1] /\ Head(wire) \in Nat
        /\ \A i \in 1..Len(Tail(wire)) : Tail(wire)[i] = wire[i + 1]
    BY <1>0, <1>f, <2>0, SMTT(60) DEF TypeOK
  <2>2. Head(wire) <= src.head
    BY <1>0, <1>f, <2>1 DEF Known
  <2>3. Known'
    BY <1>0, <1>f, <2>0, <2>1 DEF Known
  <2>4. /\ Way # <<>> /\ Head(Way) = Head(wire) /\ Way' = Tail(Way)
    <3>1. Way' = Tail(wire) \o pending
      BY <2>0 DEF Way
    <3>2. Len(Way) >= 1 /\ Way[1] = wire[1]
      BY <1>f, <2>1 DEF Way
    <3>3. Tail(wire \o pending) = Tail(wire) \o pending
      BY <1>f, <2>0, TailConcat
    <3>4. Head(Way) = Way[1] /\ Way # <<>>
      BY <1>f, <3>2
    <3>. QED
      BY <2>1, <3>1, <3>2, <3>3, <3>4 DEF Way
  <2>5. CASE fol' = fol /\ Head(wire) # fol.head + 1 /\ hello' \in {hello, HelloLib}
    <3>1. TypeOK'
      BY <1>0, <2>0, <2>1, <2>5, HelloLibKnown DEF TypeOK
    <3>2. Session'
      BY <1>0, <2>0, <2>5, HelloLibKnown DEF Session
    <3>3. WayHolds'
      <4>. SUFFICES ASSUME ~stuck, fol.head < owed
           PROVE  \E k \in Nat : /\ Runs(Way', fol.head, owed, k)
                                 /\ owed = src.head => k + (owed - fol.head) = Len(Way')
        BY <2>0, <2>5 DEF WayHolds
      <4>1. PICK k \in Nat : /\ Runs(Way, fol.head, owed, k)
                             /\ owed = src.head => k + (owed - fol.head) = Len(Way)
        BY <1>0 DEF WayHolds
      <4>2. k - 1 \in Nat /\ Runs(Way', fol.head, owed, k - 1) /\ Len(Way') = Len(Way) - 1
        <5>1. /\ Way \in Seq(Nat) /\ Way # <<>> /\ fol.head \in Nat /\ owed \in Nat
              /\ fol.head < owed /\ Head(Way) # fol.head + 1 /\ Way' = Tail(Way)
          BY <1>f, <2>4, <2>5
        <5>2. /\ k - 1 \in Nat /\ Runs(Tail(Way), fol.head, owed, k - 1)
              /\ Len(Tail(Way)) = Len(Way) - 1
          BY ONLY <4>1, <5>1, k \in Nat, RunsTail, Zenon
        <5>. QED
          BY ONLY <5>1, <5>2, Zenon
      <4>3. ASSUME owed = src.head PROVE (k - 1) + (owed - fol.head) = Len(Way')
        <5>1. k + (owed - fol.head) = Len(Way) /\ Len(Way') = Len(Way) - 1
          BY <4>1, <4>2, <4>3, Zenon
        <5>2. Len(Way) \in Nat /\ owed \in Nat /\ fol.head \in Nat
          BY <1>f
        <5>. QED
          BY ONLY <5>1, <5>2, k \in Nat
      <4>. QED
        BY <4>2, <4>3
    <3>. QED
      BY <2>3, <3>1, <3>2, <3>3 DEF Inv
  <2>6. CASE fol' = [fol EXCEPT !.head = fol.head + 1] /\ hello' = hello
             /\ Head(wire) = fol.head + 1
    <3>0. /\ fol'.head = fol.head + 1 /\ fol'.lib = fol.lib
          /\ fol' \in [head : 1..MaxHead, lib : 0..MaxHead]
      <4>1. fol \in [head : 1..MaxHead, lib : 0..MaxHead] /\ fol.head + 1 \in 1..MaxHead
        <5>1. fol \in [head : 1..MaxHead, lib : 0..MaxHead]
          BY <1>0, Zenon DEF TypeOK
        <5>2. fol.head + 1 <= src.head
          BY <2>2, <2>6
        <5>3. fol.head + 1 \in 1..MaxHead
          BY <1>f, <5>2
        <5>. QED
          BY <5>1, <5>3
      <4>2. ASSUME NEW x \in 1..MaxHead, fol' = [fol EXCEPT !.head = x]
            PROVE  /\ fol'.head = x /\ fol'.lib = fol.lib
                   /\ fol' \in [head : 1..MaxHead, lib : 0..MaxHead]
        BY <4>1, <4>2, Zenon
      <4>. QED
        BY <2>6, <4>1, <4>2, Zenon
    <3>1. TypeOK'
      BY <1>0, <2>0, <2>1, <2>6, <3>0 DEF TypeOK
    <3>2. Session'
      BY <1>0, <1>f, <2>0, <2>2, <2>6, <3>0, SMTT(60) DEF Session
    <3>3. WayHolds'
      <4>. SUFFICES ASSUME ~stuck, fol.head + 1 < owed
           PROVE  \E k \in Nat : /\ Runs(Way', fol.head + 1, owed, k)
                                 /\ owed = src.head => k + (owed - (fol.head + 1)) = Len(Way')
        BY <2>0, <3>0 DEF WayHolds
      <4>0. fol.head < owed
        BY <1>f
      <4>1. PICK k \in Nat : /\ Runs(Way, fol.head, owed, k)
                             /\ owed = src.head => k + (owed - fol.head) = Len(Way)
        BY <1>0, <4>0 DEF WayHolds
      <4>2. Runs(Way', fol.head + 1, owed, k) /\ Len(Way') = Len(Way) - 1
        <5>1. /\ Way \in Seq(Nat) /\ Way # <<>> /\ fol.head \in Nat /\ owed \in Nat
              /\ fol.head < owed /\ Way' = Tail(Way)
          BY <1>f, <2>4, <4>0
        <5>2. Runs(Tail(Way), fol.head + 1, owed, k) /\ Len(Tail(Way)) = Len(Way) - 1
          BY ONLY <4>1, <5>1, k \in Nat, RunsTail, Zenon
        <5>. QED
          BY ONLY <5>1, <5>2, Zenon
      <4>3. ASSUME owed = src.head PROVE k + (owed - (fol.head + 1)) = Len(Way')
        <5>1. k + (owed - fol.head) = Len(Way) /\ Len(Way') = Len(Way) - 1
          BY <4>1, <4>2, <4>3, Zenon
        <5>2. Len(Way) \in Nat /\ owed \in Nat /\ fol.head \in Nat
          BY <1>f
        <5>. QED
          BY ONLY <5>1, <5>2, k \in Nat
      <4>. QED
        BY <4>2, <4>3
    <3>. QED
      BY <2>3, <3>1, <3>2, <3>3 DEF Inv
  <2>. QED
    BY <1>7, <1>f, <2>5, <2>6, SMTT(60) DEF Receive, Handshake
<1>8. CASE Learn
  <2>0. /\ fol.head < src.head /\ fol' = [fol EXCEPT !.head = fol.head + 1]
        /\ UNCHANGED <<src, dialer, sock, pending, wire, hello, greeted, owed, stuck, sessions>>
    BY <1>8 DEF Learn
  <2>1. /\ fol'.head = fol.head + 1 /\ fol'.lib = fol.lib
        /\ fol' \in [head : 1..MaxHead, lib : 0..MaxHead]
    <3>1. fol \in [head : 1..MaxHead, lib : 0..MaxHead] /\ fol.head + 1 \in 1..MaxHead
      BY <1>0, <1>f, <2>0 DEF TypeOK
    <3>. QED
      BY <2>0, <3>1
  <2>2. TypeOK'
    BY <1>0, <2>0, <2>1 DEF TypeOK
  <2>3. Session' /\ Known'
    BY <1>0, <1>f, <2>0, <2>1 DEF Session, Known
  <2>4. WayHolds'
    <3>. SUFFICES ASSUME ~stuck, fol.head + 1 < owed
         PROVE  \E k \in Nat : /\ Runs(Way, fol.head + 1, owed, k)
                               /\ owed = src.head => k + (owed - (fol.head + 1)) = Len(Way)
      BY <2>0, <2>1 DEF WayHolds, Way
    <3>0. fol.head < owed
      BY <1>f
    <3>1. PICK k \in Nat : /\ Runs(Way, fol.head, owed, k)
                           /\ owed = src.head => k + (owed - fol.head) = Len(Way)
      BY <1>0, <3>0 DEF WayHolds
    <3>2. Runs(Way, fol.head + 1, owed, k + 1) /\ k + 1 \in Nat
      <4>1. Way \in Seq(Nat) /\ fol.head \in Nat /\ owed \in Nat
        BY <1>f
      <4>2. Runs(Way, fol.head + 1, owed, k + 1)
        BY ONLY <3>0, <3>1, <4>1, k \in Nat, RunsLess, Zenon
      <4>. QED
        BY <4>2
    <3>3. ASSUME owed = src.head PROVE (k + 1) + (owed - (fol.head + 1)) = Len(Way)
      <4>1. k + (owed - fol.head) = Len(Way)
        BY <3>1, <3>3, Zenon
      <4>2. Len(Way) \in Nat /\ owed \in Nat /\ fol.head \in Nat
        BY <1>f
      <4>. QED
        BY ONLY <4>1, <4>2, k \in Nat
    <3>. QED
      BY <3>2, <3>3
  <2>. QED
    BY <2>2, <2>3, <2>4 DEF Inv
<1>9. CASE Finalize
  <2>0. /\ \/ src.lib < src.head /\ src' = [src EXCEPT !.lib = src.lib + 1] /\ fol' = fol
           \/ fol.lib < fol.head /\ fol' = [fol EXCEPT !.lib = fol.lib + 1] /\ src' = src
        /\ UNCHANGED <<dialer, sock, pending, wire, hello, greeted, owed, stuck, sessions>>
    BY <1>9 DEF Finalize
  <2>1. /\ src \in [head : 1..MaxHead, lib : 0..MaxHead]
        /\ fol \in [head : 1..MaxHead, lib : 0..MaxHead]
    BY <1>0 DEF TypeOK
  <2>2. /\ src'.head = src.head /\ fol'.head = fol.head
        /\ src' \in [head : 1..MaxHead, lib : 0..MaxHead]
        /\ fol' \in [head : 1..MaxHead, lib : 0..MaxHead]
        /\ src'.lib <= src.head /\ fol'.lib <= fol.head
    <3>1. CASE src.lib < src.head /\ src' = [src EXCEPT !.lib = src.lib + 1] /\ fol' = fol
      <4>1. src.lib + 1 \in 0..MaxHead /\ src.lib + 1 <= src.head
        BY <1>f, <3>1, SMTT(60)
      <4>. QED
        BY <1>0, <2>1, <3>1, <4>1 DEF Session
    <3>2. CASE fol.lib < fol.head /\ fol' = [fol EXCEPT !.lib = fol.lib + 1] /\ src' = src
      <4>1. fol.lib + 1 \in 0..MaxHead /\ fol.lib + 1 <= fol.head
        BY <1>f, <3>2
      <4>. QED
        BY <1>0, <2>1, <3>2, <4>1 DEF Session
    <3>. QED
      BY <2>0, <3>1, <3>2
  <2>3. TypeOK'
    BY <1>0, <2>0, <2>2 DEF TypeOK
  <2>4. Session' /\ Known' /\ WayHolds'
    BY <1>0, <2>0, <2>2 DEF Session, Known, WayHolds, Way
  <2>. QED
    BY <2>3, <2>4 DEF Inv
<1>10. CASE UNCHANGED vars
  BY <1>0, <1>10 DEF Inv, vars, chains, TypeOK, Session, Known, WayHolds, Way
<1>. QED
  BY <1>1, <1>2, <1>3, <1>4, <1>5, <1>6, <1>7, <1>8, <1>9, <1>10, <1>11 DEF Next

-----------------------------------------------------------------------------
LEMMA InvAlways == Spec => []Inv
BY InitInv, NextInv, PTL DEF Spec

\* The lists, the messages and the heads keep their types; no block beyond the
\* last one of the source is ever under way.
THEOREM TypeCorrect == Spec => []TypeOK
<1>1. Inv => TypeOK
  BY DEF Inv
<1>. QED
  BY <1>1, InvAlways, PTL

\* After get_syncblock_from_lastnum answered a handshake, the blocks of the list
\* and of the broadcasts that close up with it which the peer misses are all under
\* way and in their order, through further broadcasts, batches and blocks that
\* source and peer get elsewhere.
THEOREM NoGap == Spec => []NoGapAfterList
<1>1. Inv => NoGapAfterList
  <2>. SUFFICES ASSUME Inv, ~stuck, NEW n \in Missing
       PROVE  \E i \in 1..Len(Way) :
                /\ Way[i] = n
                /\ \A m \in (fol.head + 1)..(n - 1) : \E j \in 1..(i - 1) : Way[j] = m
    BY DEF NoGapAfterList
  <2>1. /\ Len(Way) \in Nat /\ owed \in Nat /\ fol.head \in Nat
    BY WayFacts DEF Inv
  <2>2. n \in Int /\ n >= fol.head + 1 /\ n <= owed /\ fol.head < owed
    BY <2>1 DEF Missing
  <2>3. PICK k \in Nat : Runs(Way, fol.head, owed, k)
    BY <2>2 DEF Inv, WayHolds
  <2>4. ASSUME NEW m \in Int, fol.head + 1 <= m, m <= owed
        PROVE  k + (m - fol.head) \in 1..Len(Way) /\ Way[k + (m - fol.head)] = m
    <3>1. m - fol.head \in 1..(owed - fol.head) /\ fol.head + (m - fol.head) = m
      BY <2>1, <2>4
    <3>2. Way[k + (m - fol.head)] = fol.head + (m - fol.head) /\ k + (owed - fol.head) <= Len(Way)
      BY <2>3, <3>1 DEF Runs
    <3>. QED
      BY <2>1, <3>1, <3>2
  <2>5. k + (n - fol.head) \in 1..Len(Way) /\ Way[k + (n - fol.head)] = n
    BY <2>2, <2>4
  <2>6. ASSUME NEW m \in (fol.head + 1)..(n - 1)
        PROVE  \E j \in 1..((k + (n - fol.head)) - 1) : Way[j] = m
    <3>1. m \in Int /\ fol.head + 1 <= m /\ m <= owed /\ m < n
      BY <2>1, <2>2
    <3>2. k + (m - fol.head) \in 1..((k + (n - fol.head)) - 1) /\ Way[k + (m - fol.head)] = m
      BY <2>1, <2>2, <2>4, <2>5, <3>1, SMTT(60)
    <3>. QED
      BY <3>2
  <2>. QED
    BY <2>5, <2>6
<1>. QED
  BY <1>1, InvAlways, PTL

=============================================================================
