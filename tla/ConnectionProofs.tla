--------------------------- MODULE ConnectionProofs ---------------------------
(***************************************************************************)
(* Proofs about the write queues of a node's connections, for any set of   *)
(* peers and clients and any sizes of the queues.                          *)
(***************************************************************************)
EXTENDS Connection, FiniteSetTheorems, TLAPS

Out1 == [kind : Message, up : BOOLEAN]

\* A queue q, the writes o in flight and the depth d of one connection: the write
\* in flight, if any, is of the front, and the depth counts the queue and it.
Writer(q, o, d) ==
  /\ Len(o) <= 1
  /\ o # <<>> => q # <<>> /\ Head(q) = Head(o).kind
  /\ d >= Len(q) + Len(o)

Good(r) == r \in ConnectionState /\ Writer(r.queue, r.out, r.write_depth)

\* The inductive invariant.
Inv == TypeOK /\ \A c \in Out \cup In : Good(conn[c])

-----------------------------------------------------------------------------
(* The methods of connection_xmax.                                         *)

LEMMA Fields ==
  ASSUME NEW r \in ConnectionState
  PROVE  /\ r.queue \in Seq(Message) /\ r.out \in Seq(Out1) /\ r.write_depth \in Nat
         /\ r.sent \in Nat /\ r.pending \in Nat /\ r.reading \in BOOLEAN
         /\ r.connecting \in BOOLEAN /\ r.greeted \in BOOLEAN /\ r.no_retry \in BOOLEAN
         /\ r.sock \in {"closed", "resolving", "dialing", "open"}
BY DEF ConnectionState, Out1

LEMMA EmptyFacts ==
  ASSUME NEW S, NEW s \in Seq(S)
  PROVE  /\ Len(s) \in Nat
         /\ s # <<>> => Len(s) > 0
         /\ s = <<>> => Len(s) = 0
OBVIOUS

LEMMA TailFacts ==
  ASSUME NEW S, NEW s \in Seq(S), s # <<>>
  PROVE  /\ Len(s) \in Nat /\ Len(s) > 0 /\ Head(s) \in S /\ Tail(s) \in Seq(S)
         /\ Len(Tail(s)) = Len(s) - 1
         /\ Len(s) = 1 => Tail(s) = <<>>
OBVIOUS

\* A write that waited for the connection goes on.
LEMMA UpFacts ==
  ASSUME NEW s \in Seq(Out1)
  PROVE  LET o == [i \in DOMAIN s |-> [s[i] EXCEPT !.up = TRUE]]
         IN /\ o \in Seq(Out1) /\ Len(o) = Len(s)
            /\ \A i \in 1..Len(s) : o[i].kind = s[i].kind
<1>. DEFINE o == [i \in DOMAIN s |-> [s[i] EXCEPT !.up = TRUE]]
<1>1. DOMAIN s = 1..Len(s) /\ Len(s) \in Nat /\ \A i \in 1..Len(s) : s[i] \in Out1
  OBVIOUS
<1>2. \A w \in Out1 : [w EXCEPT !.up = TRUE] \in Out1
  BY Zenon DEF Out1
<1>3. \A w \in Out1 : [w EXCEPT !.up = TRUE].kind = w.kind
  BY DEF Out1
<1>4. o = [i \in 1..Len(s) |-> o[i]] /\ \A i \in 1..Len(s) : o[i] = [s[i] EXCEPT !.up = TRUE]
  BY <1>1, Zenon
<1>. HIDE DEF o
<1>5. \A i \in 1..Len(s) : o[i] \in Out1 /\ o[i].kind = s[i].kind
  BY <1>1, <1>2, <1>3, <1>4, Zenon
<1>6. o \in Seq(Out1) /\ Len(o) = Len(s)
  BY <1>1, <1>4, <1>5
<1>. QED
  BY <1>5, <1>6 DEF o

LEMMA FreshGood == Good(Fresh) /\ Good([Fresh EXCEPT !.sock = "resolving"])
<1>1. <<>> \in Seq(Message) /\ <<>> \in Seq(Out1) /\ Len(<<>>) = 0
  OBVIOUS
<1>2. Fresh \in ConnectionState
  BY <1>1 DEF Fresh, ConnectionState, Out1
<1>3. [Fresh EXCEPT !.sock = "resolving"] \in ConnectionState
  BY <1>2 DEF ConnectionState
<1>4. Writer(<<>>, <<>>, 0)
  BY <1>1 DEF Writer
<1>. QED
  BY <1>2, <1>3, <1>4 DEF Good, Fresh

\* The properties of one connection are what Writer says of it.
LEMMA WriterMeans ==
  ASSUME NEW r \in ConnectionState, Writer(r.queue, r.out, r.write_depth)
  PROVE  /\ Len(r.out) <= 1
         /\ r.out # <<>> => r.queue # <<>> /\ Head(r.queue) = Head(r.out).kind
         /\ Lost(r) >= 0
         /\ r.queue # <<>> /\ Lost(r) = 0 => r.out # <<>>
<1>. r.queue \in Seq(Message) /\ r.out \in Seq(Out1) /\ r.write_depth \in Nat
  BY Fields
<1>. Len(r.queue) \in Nat /\ Len(r.out) \in Nat
     /\ (r.queue # <<>> => Len(r.queue) > 0) /\ (r.queue = <<>> => Len(r.queue) = 0)
     /\ (r.out # <<>> => Len(r.out) > 0) /\ (r.out = <<>> => Len(r.out) = 0)
  BY EmptyFacts
<1>1. /\ Len(r.out) <= 1
      /\ r.out # <<>> => r.queue # <<>> /\ Head(r.queue) = Head(r.out).kind
      /\ r.write_depth >= Len(r.queue) + Len(r.out)
  BY DEF Writer
<1>2. CASE r.queue # <<>> /\ r.out = <<>>
  BY <1>1, <1>2 DEF Lost
<1>3. CASE r.queue = <<>>
  BY <1>1, <1>3 DEF Lost
<1>4. CASE r.out # <<>>
  <2>1. Lost(r) = r.write_depth - Len(r.queue) - Len(r.out) + 0
    BY <1>4, Zenon DEF Lost
  <2>2. \A d, l, o \in Nat : d >= l + o => d - l - o + 0 >= 0
    OBVIOUS
  <2>3. r.write_depth - Len(r.queue) - Len(r.out) + 0 >= 0
    BY <1>1, <2>2
  <2>4. Lost(r) >= 0
    BY <2>1, <2>3, Zenon
  <2>. QED
    BY <1>1, <1>4, <2>4, Zenon
<1>. QED
  BY <1>2, <1>3, <1>4

\* A method that leaves the queue, the writes and the depth alone.
LEMMA SameWriter ==
  ASSUME NEW r, Good(r), NEW t \in ConnectionState,
         t.queue = r.queue, t.out = r.out, t.write_depth = r.write_depth
  PROVE  Good(t)
BY DEF Good

LEMMA AppendFacts ==
  ASSUME NEW S, NEW s \in Seq(S), NEW e \in S
  PROVE  /\ Append(s, e) \in Seq(S) /\ Append(s, e) # <<>>
         /\ Len(Append(s, e)) = Len(s) + 1
         /\ Head(Append(s, e)) = IF s = <<>> THEN e ELSE Head(s)
<1>1. Append(s, e) \in Seq(S) /\ Len(Append(s, e)) = Len(s) + 1 /\ Len(s) \in Nat
  OBVIOUS
<1>2. Append(s, e) # <<>>
  <2>1. Len(<<>>) = 0
    OBVIOUS
  <2>. QED BY <1>1, <2>1
<1>3. CASE s = <<>>
  BY <1>1, <1>2, <1>3
<1>4. CASE s # <<>>
  BY <1>1, <1>2, <1>4
<1>. QED
  BY <1>1, <1>2, <1>3, <1>4

LEMMA WriterPush ==
  ASSUME NEW q \in Seq(Message), NEW o \in Seq(Out1), NEW d \in Nat, NEW k \in Message,
         Writer(q, o, d), q # <<>>
  PROVE  Writer(Append(q, k), o, d + 1)
BY AppendFacts, EmptyFacts DEF Writer

LEMMA WriterStart ==
  ASSUME NEW q \in Seq(Message), NEW o \in Seq(Out1), NEW d \in Nat, NEW k \in Message,
         Writer(q, o, d), q = <<>>, NEW w \in Out1, w.kind = k
  PROVE  Writer(Append(q, k), Append(o, w), d + 2)
BY AppendFacts, EmptyFacts DEF Writer

LEMMA EnqueueGood ==
  ASSUME NEW r, Good(r), NEW kind \in Message
  PROVE  Good(Enqueue(r, kind)) /\ Enqueue(r, kind).queue = Append(r.queue, kind)
         /\ Enqueue(r, kind).reading = r.reading
<1>. r \in ConnectionState /\ Writer(r.queue, r.out, r.write_depth)
  BY DEF Good
<1>. r.queue \in Seq(Message) /\ r.out \in Seq(Out1) /\ r.write_depth \in Nat
     /\ r.sock \in {"closed", "resolving", "dialing", "open"}
  BY Fields
<1>. Len(r.queue) \in Nat /\ Len(r.out) \in Nat
  OBVIOUS
<1>1. /\ Append(r.queue, kind) \in Seq(Message)
      /\ Len(Append(r.queue, kind)) = Len(r.queue) + 1
      /\ Append(r.queue, kind) # <<>>
      /\ Head(Append(r.queue, kind)) = IF r.queue = <<>> THEN kind ELSE Head(r.queue)
  BY AppendFacts
<1>. DEFINE q == [r EXCEPT !.write_depth = @ + 1, !.queue = Append(@, kind)]
<1>2. /\ q \in ConnectionState /\ q.queue = Append(r.queue, kind) /\ q.out = r.out
      /\ q.write_depth = r.write_depth + 1 /\ q.sock = r.sock /\ q.reading = r.reading
  <2>1. r.write_depth + 1 \in Nat
    OBVIOUS
  <2>. QED BY <1>1, <2>1 DEF ConnectionState
<1>3. CASE r.queue = <<>>
  <2>. DEFINE w == [kind |-> Head(q.queue), up |-> q.sock = "open"]
  <2>1. r.out = <<>> /\ Len(r.out) = 0 /\ Len(r.queue) = 0
    BY <1>3 DEF Writer
  <2>2. Enqueue(r, kind) = [q EXCEPT !.write_depth = @ + 1, !.out = Append(@, w)]
    <3>1. Enqueue(r, kind) = DoWrite(q)
      BY <1>1, <1>2, <2>1 DEF Enqueue
    <3>. QED
      BY <3>1, <1>1, <1>2 DEF DoWrite
  <2>3. w \in Out1 /\ w.kind = kind
    BY <1>1, <1>2, <1>3 DEF Out1
  <2>4. /\ Append(q.out, w) \in Seq(Out1) /\ Len(Append(q.out, w)) = 1
        /\ Head(Append(q.out, w)) = w
    BY <1>2, <2>1, <2>3
  <2>. HIDE DEF w
  <2>5. /\ Enqueue(r, kind) \in ConnectionState
        /\ Enqueue(r, kind).queue = q.queue
        /\ Enqueue(r, kind).reading = q.reading
        /\ Enqueue(r, kind).out = Append(q.out, w)
        /\ Enqueue(r, kind).write_depth = r.write_depth + 2
    <3>. HIDE DEF q
    <3>1. q.write_depth + 1 \in Nat /\ q.write_depth + 1 = r.write_depth + 2
      BY <1>2
    <3>. QED BY <1>2, <2>2, <2>4, <3>1 DEF ConnectionState, Out1
  <2>. HIDE DEF q
  <2>6. Writer(Enqueue(r, kind).queue, Enqueue(r, kind).out, Enqueue(r, kind).write_depth)
    <3>1. Writer(Append(r.queue, kind), Append(r.out, w), r.write_depth + 2)
      BY <1>3, <2>3, WriterStart
    <3>. QED BY <1>2, <2>5, <3>1
  <2>. QED
    BY <1>2, <2>5, <2>6 DEF Good
<1>4. CASE r.queue # <<>>
  <2>1. Len(r.queue) > 0
    BY <1>4
  <2>2. Enqueue(r, kind) = q
    BY <1>1, <1>2, <2>1 DEF Enqueue
  <2>. HIDE DEF q
  <2>3. Writer(q.queue, q.out, q.write_depth)
    <3>1. Writer(Append(r.queue, kind), r.out, r.write_depth + 1)
      BY <1>4, WriterPush
    <3>. QED BY <1>2, <3>1
  <2>. QED
    BY <1>2, <2>2, <2>3 DEF Good
<1>. QED
  BY <1>3, <1>4

LEMMA DoWriteGood ==
  ASSUME NEW r \in ConnectionState, r.out = <<>>, r.write_depth >= Len(r.queue)
  PROVE  Good(DoWrite(r))
<1>. r.queue \in Seq(Message) /\ r.out \in Seq(Out1) /\ r.write_depth \in Nat
     /\ r.sock \in {"closed", "resolving", "dialing", "open"}
  BY Fields
<1>. Len(r.queue) \in Nat /\ Len(r.out) = 0
  OBVIOUS
<1>1. CASE r.queue = <<>>
  <2>1. Writer(r.queue, r.out, r.write_depth)
    BY <1>1 DEF Writer
  <2>. QED
    BY <1>1, <2>1 DEF DoWrite, Good
<1>2. CASE r.queue # <<>>
  <2>. DEFINE w == [kind |-> Head(r.queue), up |-> r.sock = "open"]
  <2>1. Head(r.queue) \in Message
    BY <1>2
  <2>2. w \in Out1 /\ w.kind = Head(r.queue)
    BY <2>1 DEF Out1
  <2>3. Append(r.out, w) \in Seq(Out1) /\ Len(Append(r.out, w)) = 1 /\ Head(Append(r.out, w)) = w
    BY <2>2
  <2>4. DoWrite(r) = [r EXCEPT !.write_depth = @ + 1, !.out = Append(@, w)]
    BY <1>2 DEF DoWrite
  <2>. HIDE DEF w
  <2>5. r.write_depth + 1 \in Nat
    OBVIOUS
  <2>6. /\ DoWrite(r) \in ConnectionState /\ DoWrite(r).queue = r.queue
        /\ DoWrite(r).out = Append(r.out, w) /\ DoWrite(r).write_depth = r.write_depth + 1
    BY <2>3, <2>4, <2>5 DEF ConnectionState, Out1
  <2>7. Writer(r.queue, Append(r.out, w), r.write_depth + 1)
    BY <1>2, <2>2, <2>3 DEF Writer
  <2>. QED
    BY <2>6, <2>7 DEF Good
<1>. QED
  BY <1>1, <1>2

\* flush_queues keeps the message that is being written.
LEMMA FlushedQueue ==
  ASSUME NEW r \in ConnectionState, r.out = <<>> \/ Writer(r.queue, r.out, r.write_depth)
  PROVE  /\ Flushed(r) \in ConnectionState
         /\ Flushed(r).out = r.out /\ Flushed(r).write_depth = r.write_depth
         /\ Flushed(r).reading = r.reading
         /\ Flushed(r).sock = r.sock
         /\ r.queue # <<>> /\ r.write_depth > 0 => Flushed(r).queue = <<Head(r.queue)>>
         /\ Writer(Flushed(r).queue, r.out, r.write_depth)
<1>. r.queue \in Seq(Message) /\ r.out \in Seq(Out1) /\ r.write_depth \in Nat
  BY Fields
<1>. DEFINE q == IF r.write_depth > 0 /\ r.queue # <<>> THEN <<Head(r.queue)>> ELSE <<>>
<1>1. Flushed(r) = [r EXCEPT !.queue = q]
  BY DEF Flushed
<1>2. q \in Seq(Message)
  <2>1. CASE r.queue = <<>>
    BY <2>1
  <2>2. CASE r.queue # <<>>
    BY <2>2
  <2>. QED BY <2>1, <2>2
<1>3. Writer(q, r.out, r.write_depth)
  <2>1. CASE r.out = <<>>
    <3>1. Len(q) <= r.write_depth /\ Len(q) \in Nat /\ Len(r.out) = 0
      BY <2>1
    <3>. HIDE DEF q
    <3>. QED
      BY <2>1, <3>1 DEF Writer
  <2>2. CASE r.out # <<>>
    <3>1. r.queue # <<>> /\ Head(r.queue) = Head(r.out).kind
      BY <2>2 DEF Writer
    <3>2. Len(r.queue) > 0 /\ Len(r.out) > 0 /\ Len(r.queue) \in Nat /\ Len(r.out) \in Nat
      BY <2>2, <3>1, EmptyFacts
    <3>3. r.write_depth >= 1 + Len(r.out) /\ r.write_depth > 0 /\ Len(r.out) <= 1
      <4>1. r.write_depth >= Len(r.queue) + Len(r.out) /\ Len(r.out) <= 1
        BY <2>2, Zenon DEF Writer
      <4>2. \A d, l, o \in Nat : d >= l + o /\ l > 0 => d >= 1 + o /\ d > 0
        OBVIOUS
      <4>. QED
        BY <3>2, <4>1, <4>2, Zenon
    <3>4. q = <<Head(r.queue)>>
      BY <3>1, <3>3
    <3>5. q # <<>> /\ Head(q) = Head(r.queue) /\ Len(q) = 1
      BY <3>4
    <3>. HIDE DEF q
    <3>. QED
      BY <3>1, <3>3, <3>5 DEF Writer
  <2>. QED BY <2>1, <2>2
<1>4. r.queue # <<>> /\ r.write_depth > 0 => q = <<Head(r.queue)>>
  OBVIOUS
<1>. HIDE DEF q
<1>5. /\ Flushed(r) \in ConnectionState /\ Flushed(r).queue = q
      /\ Flushed(r).out = r.out /\ Flushed(r).write_depth = r.write_depth
      /\ Flushed(r).reading = r.reading /\ Flushed(r).sock = r.sock
  BY <1>1, <1>2 DEF ConnectionState
<1>. QED
  BY <1>3, <1>4, <1>5

LEMMA ClosedGood ==
  ASSUME NEW r \in ConnectionState, r.out = <<>> \/ Writer(r.queue, r.out, r.write_depth)
  PROVE  /\ Good(Closed(r)) /\ Closed(r) \in ConnectionState
         /\ Closed(r).out = r.out /\ Closed(r).write_depth = r.write_depth
         /\ r.queue # <<>> /\ r.write_depth > 0 => Closed(r).queue = <<Head(r.queue)>>
<1>. DEFINE f == Flushed(r)
<1>1. /\ f \in ConnectionState /\ f.out = r.out /\ f.write_depth = r.write_depth
      /\ r.queue # <<>> /\ r.write_depth > 0 => f.queue = <<Head(r.queue)>>
      /\ Writer(f.queue, r.out, r.write_depth)
  BY FlushedQueue
<1>. DEFINE sk == IF f.sock = "resolving" THEN f.sock ELSE "closed"
<1>2. Closed(r) = [f EXCEPT !.sock = sk, !.connecting = FALSE, !.sent = 0, !.greeted = FALSE]
  BY DEF Closed
<1>. HIDE DEF f
<1>a. sk \in {"closed", "resolving", "dialing", "open"}
  OBVIOUS
<1>. HIDE DEF sk
<1>3. /\ Closed(r) \in ConnectionState /\ Closed(r).queue = f.queue
      /\ Closed(r).out = f.out /\ Closed(r).write_depth = f.write_depth
  <2>1. f \in ConnectionState
    BY <1>1
  <2>2. [f EXCEPT !.sock = sk, !.connecting = FALSE, !.sent = 0, !.greeted = FALSE]
          \in ConnectionState
    BY <2>1, <1>a, Zenon DEF ConnectionState
  <2>3. Closed(r).queue = f.queue
    BY <2>1, <1>2 DEF ConnectionState
  <2>4. Closed(r).out = f.out /\ Closed(r).write_depth = f.write_depth
    BY <2>1, <1>2 DEF ConnectionState
  <2>. QED
    BY <1>2, <2>2, <2>3, <2>4
<1>4. Writer(Closed(r).queue, Closed(r).out, Closed(r).write_depth)
  BY <1>1, <1>3, Zenon
<1>5. r.queue # <<>> /\ r.write_depth > 0 => Closed(r).queue = <<Head(r.queue)>>
  BY <1>1, <1>3, Zenon
<1>. QED
  BY <1>1, <1>3, <1>4, <1>5, Zenon DEF Good

\* Fields that no queue depends on.
LEMMA OtherFields ==
  ASSUME NEW r, Good(r), NEW n \in Nat, NEW b \in BOOLEAN,
         NEW sk \in {"closed", "resolving", "dialing", "open"}
  PROVE  /\ Good([r EXCEPT !.sock = sk]) /\ Good([r EXCEPT !.pending = n])
         /\ Good([r EXCEPT !.sent = n]) /\ Good([r EXCEPT !.reading = b])
         /\ Good([r EXCEPT !.greeted = b]) /\ Good([r EXCEPT !.connecting = b])
         /\ Good([r EXCEPT !.no_retry = b])
         /\ Good([r EXCEPT !.sock = sk, !.connecting = b])
<1>. r \in ConnectionState
  BY DEF Good
<1>1. /\ [r EXCEPT !.sock = sk] \in ConnectionState
      /\ [r EXCEPT !.pending = n] \in ConnectionState
      /\ [r EXCEPT !.sent = n] \in ConnectionState
      /\ [r EXCEPT !.reading = b] \in ConnectionState
      /\ [r EXCEPT !.greeted = b] \in ConnectionState
      /\ [r EXCEPT !.connecting = b] \in ConnectionState
      /\ [r EXCEPT !.no_retry = b] \in ConnectionState
      /\ [r EXCEPT !.sock = sk, !.connecting = b] \in ConnectionState
  BY Zenon DEF ConnectionState
<1>2. Good([r EXCEPT !.sock = sk]) /\ Good([r EXCEPT !.sock = sk, !.connecting = b])
  BY <1>1, SameWriter DEF ConnectionState
<1>3. Good([r EXCEPT !.pending = n]) /\ Good([r EXCEPT !.sent = n])
  BY <1>1, SameWriter DEF ConnectionState
<1>4. Good([r EXCEPT !.reading = b]) /\ Good([r EXCEPT !.greeted = b])
  BY <1>1, SameWriter DEF ConnectionState
<1>5. Good([r EXCEPT !.connecting = b]) /\ Good([r EXCEPT !.no_retry = b])
  BY <1>1, SameWriter DEF ConnectionState
<1>. QED
  BY <1>2, <1>3, <1>4, <1>5

LEMMA SendHandshakeGood ==
  ASSUME NEW r, Good(r)
  PROVE  Good(SendHandshake(r))
<1>1. r \in ConnectionState /\ r.sent + 1 \in Nat
  BY Fields DEF Good
<1>2. Good([r EXCEPT !.sent = r.sent + 1])
  BY <1>1, OtherFields
<1>. QED
  BY <1>2, EnqueueGood DEF SendHandshake, Message

\* send_pending_block: what follows the first block waits behind it.
LEMMA SendPendingBlockGood ==
  ASSUME NEW r, Good(r), r.pending > 0
  PROVE  Good(SendPendingBlock(r))
<1>. DEFINE n == Sending(r)
            more == [i \in 1..(n - 1) |-> "msg"]
            first == Enqueue([r EXCEPT !.pending = r.pending - n], "msg")
<1>1. r \in ConnectionState /\ r.pending \in Nat
  BY Fields DEF Good
<1>2. n \in Nat /\ n >= 1 /\ r.pending - n \in Nat
  BY <1>1, ConnectionAssumption DEF Sending
<1>3. Good(first) /\ first.queue # <<>>
  <2>1. Good([r EXCEPT !.pending = r.pending - n])
    BY <1>2, OtherFields
  <2>2. [r EXCEPT !.pending = r.pending - n].queue \in Seq(Message)
    BY <2>1, Fields DEF Good
  <2>. QED
    BY <2>1, <2>2, EnqueueGood, AppendFacts, SMTT(60) DEF Message
<1>4. SendPendingBlock(r) = [first EXCEPT !.queue = @ \o more, !.write_depth = @ + (n - 1)]
  BY DEF SendPendingBlock
<1>. HIDE DEF first
<1>5. more \in Seq(Message) /\ Len(more) = n - 1
  BY <1>2 DEF Message
<1>. HIDE DEF more, n
<1>6. /\ first \in ConnectionState /\ first.queue \in Seq(Message) /\ first.out \in Seq(Out1)
      /\ first.write_depth \in Nat /\ Writer(first.queue, first.out, first.write_depth)
  BY <1>3, Fields DEF Good
<1>. DEFINE q == first.queue \o more
            d == first.write_depth + (n - 1)
<1>7. /\ q \in Seq(Message) /\ Len(q) = Len(first.queue) + (n - 1) /\ q # <<>>
      /\ Head(q) = Head(first.queue) /\ d \in Nat
  <2>1. q \in Seq(Message) /\ Len(q) = Len(first.queue) + (n - 1)
    BY <1>5, <1>6, SMTT(60)
  <2>2. Len(first.queue) > 0 /\ Len(first.queue) \in Nat
    BY <1>3, <1>6, EmptyFacts
  <2>3. q[1] = first.queue[1] /\ Len(q) > 0
    BY <1>2, <1>5, <1>6, <2>2
  <2>4. q # <<>>
    BY <2>1, <2>3
  <2>. QED
    BY <1>2, <1>3, <1>6, <2>1, <2>3, <2>4, SMTT(60)
<1>8. Writer(q, first.out, d)
  <2>1. d >= Len(q) + Len(first.out)
    <3>1. first.write_depth >= Len(first.queue) + Len(first.out)
      BY <1>6, Zenon DEF Writer
    <3>2. Len(first.queue) \in Nat /\ Len(first.out) \in Nat
      BY <1>6
    <3>3. \A e, l, o \in Nat : e >= l + o => e + (n - 1) >= (l + (n - 1)) + o
      BY <1>2
    <3>. QED
      BY <1>6, <1>7, <3>1, <3>2, <3>3, Zenon
  <2>. HIDE DEF q, d
  <2>. QED
    BY <1>6, <1>7, <2>1, Zenon DEF Writer
<1>. HIDE DEF q, d
<1>9. [first EXCEPT !.queue = q, !.write_depth = d] \in ConnectionState
  BY <1>6, <1>7, Zenon DEF ConnectionState
<1>10. /\ [first EXCEPT !.queue = q, !.write_depth = d].queue = q
       /\ [first EXCEPT !.queue = q, !.write_depth = d].out = first.out
       /\ [first EXCEPT !.queue = q, !.write_depth = d].write_depth = d
  BY <1>6 DEF ConnectionState
<1>11. Good([first EXCEPT !.queue = q, !.write_depth = d])
  BY <1>8, <1>9, <1>10, Zenon DEF Good
<1>. QED
  BY <1>4, <1>11 DEF q, d

\* The callback of a write.
LEMMA WriteDoneGood ==
  ASSUME NEW r, Good(r), r.out # <<>>
  PROVE  LET leaving == r.queue # <<>> /\ Head(r.queue) = "leave"
             done == [r EXCEPT !.out = Tail(@)]
             counted == IF r.queue = <<>> THEN done ELSE [done EXCEPT !.write_depth = @ - 1]
             called == IF leaving THEN Closed(counted) ELSE counted
             ended == [called EXCEPT !.write_depth = @ - 1]
         IN  Good(DoWrite([ended EXCEPT !.queue = Tail(@)])) /\ Good(Closed(ended))
<1>. DEFINE leaving == r.queue # <<>> /\ Head(r.queue) = "leave"
            done == [r EXCEPT !.out = Tail(@)]
            counted == IF r.queue = <<>> THEN done ELSE [done EXCEPT !.write_depth = @ - 1]
            called == IF leaving THEN Closed(counted) ELSE counted
            ended == [called EXCEPT !.write_depth = @ - 1]
<1>1. /\ r \in ConnectionState /\ r.queue \in Seq(Message) /\ r.out \in Seq(Out1)
      /\ r.write_depth \in Nat /\ Writer(r.queue, r.out, r.write_depth)
  BY Fields DEF Good
<1>2. r.queue # <<>> /\ Len(r.out) <= 1 /\ r.write_depth >= Len(r.queue) + Len(r.out)
  BY <1>1, Zenon DEF Writer
<1>3. /\ Len(r.queue) \in Nat /\ Len(r.queue) > 0 /\ Len(r.out) = 1
      /\ Tail(r.queue) \in Seq(Message) /\ Len(Tail(r.queue)) = Len(r.queue) - 1
      /\ Head(r.queue) \in Message
      /\ Tail(r.out) = <<>> /\ Tail(r.out) \in Seq(Out1)
  <2>1. Len(r.out) > 0 /\ Len(r.out) \in Nat
    BY <1>1, EmptyFacts
  <2>2. \A o \in Nat : o > 0 /\ o <= 1 => o = 1
    OBVIOUS
  <2>3. Len(r.out) = 1
    BY <1>2, <2>1, <2>2, Zenon
  <2>. QED
    BY <1>1, <1>2, <2>3, TailFacts, Zenon
<1>4. /\ Tail(r.out) = <<>> /\ Tail(r.out) \in Seq(Out1)
      /\ r.write_depth - 1 \in Nat /\ r.write_depth - 2 \in Nat
      /\ r.write_depth - 1 > 0
      /\ r.write_depth - 2 >= Len(r.queue) - 1
      /\ (r.write_depth - 1) - 1 = r.write_depth - 2
  <2>1. Tail(r.out) = <<>> /\ Tail(r.out) \in Seq(Out1)
    BY <1>3
  <2>2. \A d, l, o \in Nat : d >= l + o /\ l > 0 /\ o = 1 =>
          /\ d - 1 \in Nat /\ d - 2 \in Nat /\ d - 1 > 0 /\ d - 2 >= l - 1
          /\ (d - 1) - 1 = d - 2
    OBVIOUS
  <2>3. Len(r.out) \in Nat
    BY <1>1
  <2>. QED
    BY <1>1, <1>2, <1>3, <2>1, <2>2, <2>3, Zenon
<1>. DEFINE d1 == r.write_depth - 1
            d2 == r.write_depth - 2
<1>5. /\ counted \in ConnectionState /\ counted.queue = r.queue /\ counted.out = <<>>
      /\ counted.write_depth = d1
  <2>1. done \in ConnectionState /\ done.queue = r.queue /\ done.out = <<>>
        /\ done.write_depth = r.write_depth
    <3>1. [r EXCEPT !.out = Tail(r.out)] \in ConnectionState
      BY <1>1, <1>4, Zenon DEF ConnectionState, Out1
    <3>. QED
      BY <1>1, <1>4, <3>1 DEF ConnectionState
  <2>. HIDE DEF done
  <2>2. counted = [done EXCEPT !.write_depth = d1]
    BY <1>2, <2>1
  <2>3. d1 \in Nat
    BY <1>4
  <2>. HIDE DEF d1, counted
  <2>4. [done EXCEPT !.write_depth = d1] \in ConnectionState
    BY <2>1, <2>3, Zenon DEF ConnectionState
  <2>. QED
    BY <2>1, <2>2, <2>4 DEF ConnectionState
<1>. HIDE DEF counted
<1>6. /\ called \in ConnectionState /\ called.out = <<>> /\ called.write_depth = d1
      /\ called.queue \in Seq(Message) /\ called.queue # <<>>
      /\ Tail(called.queue) \in Seq(Message) /\ Len(Tail(called.queue)) <= Len(r.queue) - 1
  <2>1. CASE leaving
    <3>1. /\ Closed(counted) \in ConnectionState /\ Closed(counted).out = <<>>
          /\ Closed(counted).write_depth = d1 /\ Closed(counted).queue = <<Head(r.queue)>>
      BY <1>2, <1>4, <1>5, ClosedGood, Zenon
    <3>2. LET s == <<Head(r.queue)>> IN s # <<>> /\ s \in Seq(Message)
            /\ Tail(s) \in Seq(Message) /\ Len(Tail(s)) = 0
      BY <1>3
    <3>3. 0 <= Len(r.queue) - 1
      BY <1>3
    <3>. QED
      BY <2>1, <3>1, <3>2, <3>3
  <2>2. CASE ~leaving
    <3>1. Len(r.queue) - 1 <= Len(r.queue) - 1
      BY <1>3
    <3>2. called = counted
      BY <2>2, Zenon
    <3>. QED
      BY <3>2, <1>1, <1>2, <1>3, <1>5, <3>1
  <2>. QED
    BY <2>1, <2>2
<1>. HIDE DEF called
<1>7. ended = [called EXCEPT !.write_depth = d2]
  BY <1>4, <1>6
<1>8. d2 \in Nat /\ d2 >= Len(r.queue) - 1
  BY <1>4
<1>. HIDE DEF d1, d2, ended, leaving
<1>9. /\ ended \in ConnectionState /\ ended.out = <<>> /\ ended.write_depth = d2
      /\ ended.queue = called.queue
  <2>1. [called EXCEPT !.write_depth = d2] \in ConnectionState
    BY <1>6, <1>8, Zenon DEF ConnectionState
  <2>. QED
    BY <1>6, <1>7, <2>1 DEF ConnectionState
<1>10. Good(Closed(ended))
  BY <1>9, ClosedGood
<1>. DEFINE popped == [ended EXCEPT !.queue = Tail(called.queue)]
<1>11. popped \in ConnectionState
  BY <1>6, <1>9, Zenon DEF ConnectionState
<1>12. popped.out = <<>> /\ popped.write_depth = d2 /\ popped.queue = Tail(called.queue)
  BY <1>9 DEF ConnectionState
<1>13. d2 >= Len(Tail(called.queue))
  <2>1. \A d, l, m \in Nat : d >= l - 1 /\ m <= l - 1 => d >= m
    OBVIOUS
  <2>2. Len(Tail(called.queue)) \in Nat
    BY <1>6
  <2>. QED
    BY <1>3, <1>6, <1>8, <2>1, <2>2, Zenon
<1>14. Good(DoWrite(popped))
  <2>. HIDE DEF popped
  <2>1. popped.write_depth >= Len(popped.queue)
    BY <1>12, <1>13, Zenon
  <2>. QED
    BY <1>11, <1>12, <2>1, DoWriteGood
<1>. QED
  BY <1>9, <1>10, <1>14 DEF ended, called, counted, done, leaving

-----------------------------------------------------------------------------
(* The handlers.                                                           *)

AllGood(f) == f \in [Out \cup In -> ConnectionState] /\ \A c \in Out \cup In : Good(f[c])

LEMMA InvMeans ==
  Inv <=> /\ AllGood(conn) /\ connections \in SUBSET (Out \cup In)
          /\ num_clients \in Nat /\ started_sessions \in Nat
BY DEF Inv, TypeOK, AllGood, Good

LEMMA AllGoodExcept ==
  ASSUME AllGood(conn), NEW c \in Out \cup In, NEW t, Good(t)
  PROVE  AllGood([conn EXCEPT ![c] = t])
BY DEF AllGood, Good

LEMMA BecomesGood ==
  ASSUME AllGood(conn), NEW c \in Out \cup In, NEW t, Good(t), Becomes(c, t)
  PROVE  AllGood(conn')
<1>1. Good(IF c \notin connections /\ ~t.reading THEN Fresh ELSE t)
  BY FreshGood
<1>. QED
  BY <1>1, AllGoodExcept DEF Becomes

LEMMA ForEachGood ==
  ASSUME AllGood(conn), NEW new, ForEach(new), \A c \in DOMAIN new : Good(new[c])
  PROVE  AllGood(conn')
BY DEF AllGood, ForEach, Good

\* num_clients is an unsigned counter that wraps.
LEMMA CountAfterType ==
  ASSUME num_clients \in Nat, NEW c, NEW n \in Nat
  PROVE  CountAfter(c, n) \in Nat
<1>1. \A i \in Int : i % CounterSize \in Nat
  BY ConnectionAssumption
<1>. QED
  BY <1>1 DEF CountAfter

LEMMA FiniteClients ==
  ASSUME NEW S, S \subseteq In
  PROVE  Cardinality(S) \in Nat
BY ConnectionAssumption, FS_Subset, FS_CardinalityType

LEMMA NetCloseGood ==
  ASSUME AllGood(conn), num_clients \in Nat, NEW c \in Out \cup In, NEW t, Good(t), NetClose(c, t)
  PROVE  AllGood(conn') /\ num_clients' \in Nat
<1>1. Good(Closed(t))
  BY ClosedGood DEF Good
<1>. QED
  BY <1>1, BecomesGood, CountAfterType DEF NetClose

LEMMA InitInv == Init => Inv
<1>. SUFFICES ASSUME Init PROVE Inv
  OBVIOUS
<1>1. AllGood(conn)
  BY FreshGood DEF Init, AllGood, Good
<1>. QED
  BY <1>1, InvMeans DEF Init

LEMMA StepInv ==
  ASSUME Inv, NEW c \in Out \cup In, Step(c)
  PROVE  Inv'
<1>. DEFINE r == conn[c]
<1>0. /\ AllGood(conn) /\ connections \in SUBSET (Out \cup In)
      /\ num_clients \in Nat /\ started_sessions \in Nat /\ Good(r) /\ r \in ConnectionState
      /\ r.reading \in BOOLEAN
  BY InvMeans, Fields DEF AllGood, Good
<1>. SUFFICES /\ AllGood(conn') /\ connections' \in SUBSET (Out \cup In)
              /\ num_clients' \in Nat /\ started_sessions' \in Nat
  BY InvMeans DEF Inv, TypeOK, AllGood, Good
<1>1. CASE Accept(c)
  <2>. DEFINE t == [Fresh EXCEPT !.sock = "open", !.connecting = TRUE, !.reading = TRUE]
  <2>1. Good(t)
    <3>1. Good([Fresh EXCEPT !.sock = "open", !.connecting = TRUE])
      BY FreshGood, OtherFields, ZenonT(60)
    <3>2. Good([[Fresh EXCEPT !.sock = "open", !.connecting = TRUE] EXCEPT !.reading = TRUE])
      BY <3>1, OtherFields
    <3>3. [[Fresh EXCEPT !.sock = "open", !.connecting = TRUE] EXCEPT !.reading = TRUE] = t
      BY Zenon DEF Fresh
    <3>. QED
      BY <3>2, <3>3, SMTT(60)
  <2>2. AllGood(conn')
    BY <1>0, <1>1, <2>1, AllGoodExcept DEF Accept
  <2>3. Cardinality(Visitors) \in Nat
    BY FiniteClients DEF Visitors
  <2>. QED
    BY <1>0, <1>1, <2>2, <2>3 DEF Accept
<1>2. CASE Resolved(c)
  <2>1. Good([r EXCEPT !.sock = "closed"])
        /\ Good([r EXCEPT !.sock = "dialing", !.connecting = TRUE])
    BY <1>0, OtherFields
  <2>2. AllGood([conn EXCEPT ![c] = [r EXCEPT !.sock = "closed"]])
        /\ AllGood([conn EXCEPT ![c] = [r EXCEPT !.sock = "dialing", !.connecting = TRUE]])
    BY <1>0, <2>1, AllGoodExcept
  <2>3. conn' = [conn EXCEPT ![c] = [r EXCEPT !.sock = "closed"]]
        \/ conn' = [conn EXCEPT ![c] = [r EXCEPT !.sock = "dialing", !.connecting = TRUE]]
    <3>1. \/ conn' = [conn EXCEPT ![c].sock = "closed"]
          \/ conn' = [conn EXCEPT ![c].sock = "dialing", ![c].connecting = TRUE]
      BY <1>2 DEF Resolved
    <3>2. conn \in [Out \cup In -> ConnectionState]
      BY <1>0 DEF AllGood
    <3>. QED
      BY <3>1, <3>2
  <2>. QED
    BY <1>0, <1>2, <2>2, <2>3 DEF Resolved
<1>3. CASE DialOk(c)
  <2>. DEFINE o == [i \in DOMAIN r.out |-> [r.out[i] EXCEPT !.up = TRUE]]
              t == [r EXCEPT !.sock = "open", !.reading = TRUE, !.out = o]
  <2>1. Good(t)
    <3>1. r.out \in Seq(Out1) /\ r.queue \in Seq(Message) /\ r.write_depth \in Nat
      BY <1>0, Fields
    <3>2. /\ o \in Seq(Out1) /\ Len(o) = Len(r.out)
          /\ \A i \in 1..Len(r.out) : o[i].kind = r.out[i].kind
      BY <3>1, UpFacts, Zenon
    <3>3. t \in ConnectionState
      <4>. HIDE DEF o
      <4>. QED
        BY <1>0, <3>2, Zenon DEF ConnectionState, Out1
    <3>4. t.queue = r.queue /\ t.out = o /\ t.write_depth = r.write_depth
      BY <1>0 DEF ConnectionState
    <3>5. Writer(r.queue, o, r.write_depth)
      <4>1. Writer(r.queue, r.out, r.write_depth)
        BY <1>0 DEF Good
      <4>2. o # <<>> => r.out # <<>> /\ Head(o).kind = Head(r.out).kind
        <5>. HIDE DEF o
        <5>. SUFFICES ASSUME o # <<>> PROVE r.out # <<>> /\ Head(o).kind = Head(r.out).kind
          OBVIOUS
        <5>1. Len(o) > 0 /\ Len(o) \in Nat
          BY <3>2, EmptyFacts
        <5>2. r.out # <<>>
          BY <3>1, <3>2, <5>1, EmptyFacts
        <5>3. Head(o) = o[1] /\ Head(r.out) = r.out[1] /\ 1 \in 1..Len(r.out)
          BY <3>1, <3>2, <5>1, <5>2
        <5>. QED
          BY <3>2, <5>2, <5>3
      <4>. HIDE DEF o
      <4>. QED
        BY <3>2, <4>1, <4>2, Zenon DEF Writer
    <3>. QED
      BY <3>3, <3>4, <3>5 DEF Good
  <2>2. Good(SendHandshake(t))
    BY <2>1, SendHandshakeGood
  <2>3. conn' = [conn EXCEPT ![c] = SendHandshake(t)] /\ started_sessions' = started_sessions + 1
        /\ UNCHANGED <<connections, num_clients>>
    BY <1>3 DEF DialOk
  <2>. HIDE DEF t
  <2>4. AllGood(conn')
    BY <1>0, <2>2, <2>3, AllGoodExcept
  <2>. QED
    BY <1>0, <2>3, <2>4
<1>4. CASE DialFails(c)
  BY <1>0, <1>4, NetCloseGood DEF DialFails
<1>5. CASE \E ok \in BOOLEAN : WriteDone(c, ok)
  <2>. PICK ok \in BOOLEAN : WriteDone(c, ok)
    BY <1>5
  <2>. DEFINE leaving == r.queue # <<>> /\ Head(r.queue) = "leave"
              done == [r EXCEPT !.out = Tail(@)]
              counted == IF r.queue = <<>> THEN done ELSE [done EXCEPT !.write_depth = @ - 1]
              called == IF leaving THEN Closed(counted) ELSE counted
              ended == [called EXCEPT !.write_depth = @ - 1]
  <2>1. /\ r.out # <<>>
        /\ \/ /\ Becomes(c, DoWrite([ended EXCEPT !.queue = Tail(@)]))
              /\ num_clients' = CountAfter(c, IF leaving THEN 1 ELSE 0)
           \/ /\ Becomes(c, Closed(ended))
              /\ num_clients' = CountAfter(c, IF leaving THEN 2 ELSE 1)
        /\ UNCHANGED <<connections, started_sessions>>
    BY DEF WriteDone
  <2>2. Good(DoWrite([ended EXCEPT !.queue = Tail(@)])) /\ Good(Closed(ended))
    BY <1>0, <2>1, WriteDoneGood, Zenon
  <2>. HIDE DEF ended
  <2>3. AllGood(conn')
    BY <1>0, <2>1, <2>2, BecomesGood
  <2>4. num_clients' \in Nat
    BY <1>0, <2>1, CountAfterType
  <2>. QED
    BY <1>0, <2>1, <2>3, <2>4
<1>6. CASE \E what \in Kinds, sends \in BOOLEAN : RecvHandshake(c, what, sends)
  <2>. PICK what \in Kinds, sends \in BOOLEAN : RecvHandshake(c, what, sends)
    BY <1>6, SMTT(60)
  <2>. DEFINE g == [r EXCEPT !.greeted = TRUE]
              met == [g EXCEPT !.connecting = FALSE]
              listed == IF sends THEN [met EXCEPT !.pending = MaxPending] ELSE met
  <2>1. Good(g) /\ Good(met)
    <3>1. Good(g)
      BY <1>0, OtherFields
    <3>. HIDE DEF g
    <3>. QED
      BY <3>1, OtherFields, ZenonT(60)
  <2>2. /\ \/ Becomes(c, Enqueue(g, "leave"))
           \/ Becomes(c, Enqueue(met, "leave"))
           \/ Becomes(c, [Enqueue(met, "leave") EXCEPT !.no_retry = TRUE])
           \/ Becomes(c, IF g.sent = 0 THEN SendHandshake(listed) ELSE listed)
        /\ UNCHANGED <<connections, num_clients, started_sessions>>
    BY SMTT(60) DEF RecvHandshake
  <2>3. Good(listed)
    <3>. HIDE DEF met
    <3>. QED
      BY <2>1, OtherFields, ConnectionAssumption
  <2>. HIDE DEF g, met, listed
  <2>4. Good(Enqueue(g, "leave")) /\ Good(Enqueue(met, "leave"))
    BY <2>1, EnqueueGood, SMTT(60) DEF Message
  <2>5. Good([Enqueue(met, "leave") EXCEPT !.no_retry = TRUE])
    BY <2>4, OtherFields
  <2>6. Good(IF g.sent = 0 THEN SendHandshake(listed) ELSE listed)
    BY <2>3, SendHandshakeGood
  <2>7. AllGood(conn')
    BY <1>0, <2>2, <2>4, <2>5, <2>6, BecomesGood
  <2>. QED
    BY <1>0, <2>2, <2>7
<1>7. CASE RecvLeave(c)
  <2>. DEFINE t == [Flushed(r) EXCEPT !.no_retry = TRUE]
  <2>1. Good(Flushed(r))
    BY <1>0, FlushedQueue, SMTT(60) DEF Good
  <2>2. Good(t)
    BY <2>1, OtherFields
  <2>. QED
    BY <1>0, <1>7, <2>2, NetCloseGood DEF RecvLeave
<1>8. CASE RecvTime(c)
  BY <1>0, <1>8, EnqueueGood, BecomesGood DEF RecvTime, Message
<1>9. CASE ReadFails(c)
  <2>1. Good([r EXCEPT !.reading = FALSE])
    BY <1>0, OtherFields
  <2>. QED
    BY <1>0, <1>9, <2>1, NetCloseGood, SMTT(60) DEF ReadFails
<1>. QED
  BY <1>1, <1>2, <1>3, <1>4, <1>5, <1>6, <1>7, <1>8, <1>9 DEF Step

LEMMA NextInv == Inv /\ [Next]_vars => Inv'
<1>. SUFFICES ASSUME Inv, [Next]_vars PROVE Inv'
  OBVIOUS
<1>0. /\ AllGood(conn) /\ connections \in SUBSET (Out \cup In)
      /\ num_clients \in Nat /\ started_sessions \in Nat
      /\ \A c \in connections : Good(conn[c])
  BY InvMeans DEF AllGood
<1>. SUFFICES ASSUME ~\E c \in Out \cup In : Step(c)
     PROVE  /\ AllGood(conn') /\ connections' \in SUBSET (Out \cup In)
            /\ num_clients' \in Nat /\ started_sessions' \in Nat
  BY StepInv, InvMeans DEF Inv, TypeOK, AllGood, Good
<1>1. CASE Refuse
  <2>1. Cardinality(Visitors) \in Nat
    BY FiniteClients DEF Visitors
  <2>. QED
    BY <1>0, <1>1, <2>1 DEF Refuse
<1>2. CASE Monitor
  <2>. DEFINE discards == {c \in connections \cap In : Dead(c)}
  <2>1. Cardinality((connections \cap In) \ discards) \in Nat
    BY FiniteClients
  <2>2. AllGood(conn')
    <3>1. \A c \in Out \cup In : Good([conn[c] EXCEPT !.sock = "resolving"])
      BY <1>0, OtherFields DEF AllGood
    <3>2. conn' = [c \in Out \cup In |->
                     IF c \in Out /\ Dead(c) /\ ~conn[c].no_retry
                     THEN [conn[c] EXCEPT !.sock = "resolving"]
                     ELSE IF c \in discards /\ ~conn[c].reading THEN Fresh
                     ELSE conn[c]]
      BY <1>0, <1>2 DEF Monitor, AllGood
    <3>3. \A c \in Out \cup In : Good(conn'[c])
      BY <1>0, <3>1, <3>2, FreshGood DEF AllGood
    <3>. QED
      BY <3>2, <3>3 DEF AllGood, Good
  <2>3. connections' = connections \ discards
    BY <1>2 DEF Monitor
  <2>. QED
    BY <1>0, <1>2, <2>1, <2>2, <2>3 DEF Monitor
<1>3. CASE SendAll
  <2>1. \A c \in Live : Good(Enqueue(conn[c], "msg"))
    BY <1>0, EnqueueGood DEF Live, Message
  <2>2. ForEach([c \in Live |-> Enqueue(conn[c], "msg")])
    BY <1>3 DEF SendAll
  <2>3. AllGood(conn')
    BY <1>0, <2>1, <2>2, ForEachGood
  <2>. QED
    BY <1>0, <2>2, <2>3 DEF ForEach
<1>4. CASE BroadcastBlock
  <2>. DEFINE new == [c \in Live |-> [conn[c] EXCEPT !.pending = @ + 1]]
  <2>1. \A c \in Live : Good([conn[c] EXCEPT !.pending = @ + 1])
    <3>. SUFFICES ASSUME NEW c \in Live PROVE Good([conn[c] EXCEPT !.pending = @ + 1])
      OBVIOUS
    <3>1. Good(conn[c]) /\ conn[c].pending + 1 \in Nat
      BY <1>0, Fields DEF Live, Good
    <3>. QED
      BY <3>1, OtherFields
  <2>2. ForEach(new)
    BY <1>4 DEF BroadcastBlock
  <2>3. AllGood(conn')
    BY <1>0, <2>1, <2>2, ForEachGood
  <2>. QED
    BY <1>0, <2>2, <2>3, SMTT(60) DEF ForEach
<1>5. CASE SendPending
  <2>. DEFINE some == {k \in connections : conn[k].pending > 0}
              new == [c \in some |-> SendPendingBlock(conn[c])]
  <2>1. \A c \in some : Good(SendPendingBlock(conn[c]))
    BY <1>0, SendPendingBlockGood
  <2>2. ForEach(new)
    BY <1>5 DEF SendPending
  <2>3. AllGood(conn')
    BY <1>0, <2>1, <2>2, ForEachGood
  <2>. QED
    BY <1>0, <2>2, <2>3 DEF ForEach
<1>6. CASE UNCHANGED vars
  BY <1>0, <1>6 DEF vars
<1>. QED
  BY <1>1, <1>2, <1>3, <1>4, <1>5, <1>6 DEF Next

-----------------------------------------------------------------------------
LEMMA InvAlways == Spec => []Inv
BY InitInv, NextInv, PTL DEF Spec

\* The variables of every connection keep their types: the depth and the counter
\* of the clients never go below zero.
THEOREM TypeCorrect == Spec => []TypeOK
<1>1. Inv => TypeOK
  BY DEF Inv
<1>. QED
  BY <1>1, InvAlways, PTL

\* One write at most is in flight on a connection, of the front of its queue: the
\* callback of do_queue_write pops the message that was sent.
THEOREM WritesTheFront == Spec => []WritesFront
<1>1. Inv => WritesFront
  BY WriterMeans, Zenon DEF Inv, Good, WritesFront
<1>. QED
  BY <1>1, InvAlways, PTL

\* A queue that nobody writes lost messages to flush_queues before.
THEOREM WriterKeepsRunning == Spec => []WriterRuns
<1>1. Inv => WriterRuns
  BY WriterMeans, Zenon DEF Inv, Good, WriterRuns
<1>. QED
  BY <1>1, InvAlways, PTL

=============================================================================
