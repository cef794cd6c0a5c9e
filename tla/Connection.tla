------------------------------ MODULE Connection ------------------------------
(***************************************************************************)
(* The connections of one node: chainnet_plugin.cpp and connection_xmax.cpp *)
(* (plugins/chainnet_plugin).  One thread runs the handlers of the sockets, *)
(* the acceptor and the timers, in any order; the peers are the            *)
(* environment.  An operator on a record r is a method of connection_xmax. *)
(*                                                                         *)
(* A host name resolves to one endpoint, and within a period of the        *)
(* connection monitor.                                                     *)
(***************************************************************************)
EXTENDS Integers, Sequences, FiniteSets

CONSTANTS Out,          \* connections to the configured peers
          In,           \* connections that clients may open
          MaxClients,   \* max_client_count
          Batch,        \* max_sending_num of send_pending_block, 10 in the code
          CounterSize,  \* values of num_clients, 2^32 in the code
          MaxQueue,     \* bound: messages in a write queue
          MaxPending,   \* bound: blocks in a pending list
          MaxSessions   \* bound: started sessions

ASSUME ConnectionAssumption ==
  /\ Out \cap In = {} /\ IsFiniteSet(In)
  /\ MaxClients \in Nat /\ Batch \in Nat \ {0} /\ CounterSize \in Nat \ {0}
  /\ MaxQueue \in Nat /\ MaxPending \in Nat /\ MaxSessions \in Nat

VARIABLES conn,             \* the state of each connection
          connections,
          num_clients,
          started_sessions

vars == <<conn, connections, num_clients, started_sessions>>

\* A connection without a socket and with nothing to do.  The messages of the
\* queue are a handshake "hs", a leave message "leave", or another one "msg".
\* out holds the writes in flight; up says that the socket accepts the bytes.
Fresh == [sock |-> "closed", connecting |-> FALSE, reading |-> FALSE,
          queue |-> <<>>, out |-> <<>>, write_depth |-> 0,
          sent |-> 0, greeted |-> FALSE, no_retry |-> FALSE, pending |-> 0]

\* start_net: the peers are resolved first.
Init ==
  /\ conn = [c \in Out \cup In |->
               IF c \in Out THEN [Fresh EXCEPT !.sock = "resolving"] ELSE Fresh]
  /\ connections = Out
  /\ num_clients = 0 /\ started_sessions = 0

-----------------------------------------------------------------------------
\* connected; syncing is never set, so that current is the same.
Connected(r) == r.sock \in {"dialing", "open"} /\ ~r.connecting

\* do_queue_write up to the write.
DoWrite(r) ==
  IF r.queue = <<>> THEN r
  ELSE [r EXCEPT !.write_depth = @ + 1,
                 !.out = Append(@, [kind |-> Head(r.queue), up |-> r.sock = "open"])]

\* Mutant: a message that is queued behind another is not counted.
EnqueueUncounted(r, kind) ==
  LET q == [r EXCEPT !.queue = Append(@, kind)]
  IN IF Len(q.queue) = 1 THEN DoWrite([q EXCEPT !.write_depth = @ + 1]) ELSE q

\* msg_enqueue and queue_write
Enqueue(r, kind) ==
  LET q == [r EXCEPT !.write_depth = @ + 1, !.queue = Append(@, kind)]
  IN IF Len(q.queue) = 1 THEN DoWrite(q) ELSE q

\* send_handshake
SendHandshake(r) == Enqueue([r EXCEPT !.sent = @ + 1], "hs")

\* Mutant: the message that is being written goes too.
FlushAll(r) == [r EXCEPT !.queue = <<>>]

\* flush_queues: write_depth still counts what is taken out.
Flushed(r) ==
  [r EXCEPT !.queue = IF r.write_depth > 0 /\ @ # <<>> THEN <<Head(@)>> ELSE <<>>]

\* Mutant: a client that did not get to its handshake stays connecting.
ClosedConnecting(r) ==
  [Flushed(r) EXCEPT !.sock = IF @ = "resolving" THEN @ ELSE "closed",
                     !.sent = 0, !.greeted = FALSE]

\* close
Closed(r) ==
  [Flushed(r) EXCEPT !.sock = IF @ = "resolving" THEN @ ELSE "closed",
                     !.connecting = FALSE, !.sent = 0, !.greeted = FALSE]

\* The count after n calls of chainnet_plugin_impl::close for c.
CountAfter(c, n) == IF c \in In THEN (num_clients - n) % CounterSize ELSE num_clients

\* Connection c becomes r; without a handler and an owner it is destroyed.
Becomes(c, r) ==
  conn' = [conn EXCEPT ![c] =
             IF c \notin connections /\ ~r.reading THEN Fresh ELSE r]

\* chainnet_plugin_impl::close
NetClose(c, r) ==
  /\ Becomes(c, Closed(r))
  /\ num_clients' = CountAfter(c, 1)

HasRoom(r, n) == Len(r.queue) + n <= MaxQueue
-----------------------------------------------------------------------------
Visitors == {c \in connections \cap In : Connected(conn[c])}

\* The check of start_listen_loop.
Admits == MaxClients = 0 \/ Cardinality(Visitors) < MaxClients

\* start_listen_loop accepts a client.
Accept(c) ==
  /\ c \in In \ connections /\ conn[c] = Fresh
  /\ started_sessions < MaxSessions
  /\ Admits
  /\ num_clients' = Cardinality(Visitors) + 1
  /\ connections' = connections \cup {c}
  /\ conn' = [conn EXCEPT ![c] = [Fresh EXCEPT !.sock = "open", !.connecting = TRUE,
                                               !.reading = TRUE]]
  /\ started_sessions' = started_sessions + 1

\* start_listen_loop turns a client away.
Refuse ==
  /\ ~Admits
  /\ num_clients' = Cardinality(Visitors)
  /\ UNCHANGED <<conn, connections, started_sessions>>

\* The callback of async_resolve.  The handlers that a close aborted were posted
\* before it.
Resolved(c) ==
  /\ conn[c].sock = "resolving" /\ conn[c].out = <<>> /\ ~conn[c].reading
  /\ \/ conn' = [conn EXCEPT ![c].sock = "closed"]
     \/ /\ ~conn[c].no_retry /\ started_sessions < MaxSessions
        /\ conn' = [conn EXCEPT ![c].sock = "dialing", ![c].connecting = TRUE]
  /\ UNCHANGED <<connections, num_clients, started_sessions>>

\* The callback of async_connect: start_session and send_handshake.  A write that
\* waited for the connection goes on.
DialOk(c) ==
  LET r == conn[c]
  IN /\ r.sock = "dialing" /\ HasRoom(r, 1)
     /\ conn' = [conn EXCEPT ![c] = SendHandshake(
                   [r EXCEPT !.sock = "open", !.reading = TRUE,
                             !.out = [i \in DOMAIN @ |-> [@[i] EXCEPT !.up = TRUE]]])]
     /\ started_sessions' = started_sessions + 1
     /\ UNCHANGED <<connections, num_clients>>

DialFails(c) ==
  /\ conn[c].sock = "dialing"
  /\ NetClose(c, conn[c])
  /\ UNCHANGED <<connections, started_sessions>>

\* connection_monitor
Dead(c) == conn[c].sock = "closed" /\ ~conn[c].connecting

Monitor ==
  LET discards == {c \in connections \cap In : Dead(c)}
  IN /\ num_clients' = Cardinality((connections \cap In) \ discards)
     /\ connections' = connections \ discards
     /\ conn' = [c \in DOMAIN conn |->
                   IF c \in Out /\ Dead(c) /\ ~conn[c].no_retry
                   THEN [conn[c] EXCEPT !.sock = "resolving"]
                   ELSE IF c \in discards /\ ~conn[c].reading THEN Fresh
                   ELSE conn[c]]
     /\ UNCHANGED started_sessions

-----------------------------------------------------------------------------
\* Mutant: a write that fails is tried again.
WriteRetried(c, ok) ==
  LET r == conn[c]
      done == [r EXCEPT !.out = Tail(@), !.write_depth = @ - 1]
  IN /\ r.out # <<>>
     /\ \/ /\ ok /\ Head(r.out).up
           /\ Becomes(c, DoWrite([done EXCEPT !.write_depth = @ - 1, !.queue = Tail(@)]))
        \/ ~ok /\ Becomes(c, DoWrite(done))
     /\ UNCHANGED <<connections, num_clients, started_sessions>>

\* The callback of do_queue_write; ok: there was no error.
WriteDone(c, ok) ==
  LET r == conn[c]
      leaving == r.queue # <<>> /\ Head(r.queue) = "leave"
      done == [r EXCEPT !.out = Tail(@)]
      counted == IF r.queue = <<>> THEN done ELSE [done EXCEPT !.write_depth = @ - 1]
      called == IF leaving THEN Closed(counted) ELSE counted
      ended == [called EXCEPT !.write_depth = @ - 1]
  IN /\ r.out # <<>>
     /\ \/ /\ ok /\ Head(r.out).up
           /\ Becomes(c, DoWrite([ended EXCEPT !.queue = Tail(@)]))
           /\ num_clients' = CountAfter(c, IF leaving THEN 1 ELSE 0)
        \/ /\ ~ok
           /\ Becomes(c, Closed(ended))
           /\ num_clients' = CountAfter(c, IF leaving THEN 2 ELSE 1)
     /\ UNCHANGED <<connections, started_sessions>>

\* handle_message for a handshake, of which a peer sends one: it is not valid, or
\* refused (the node itself, another chain, another version), or a duplicate of
\* a connection, or good.  sends: the peer is behind and its list is replaced.
RecvHandshake(c, what, sends) ==
  LET r == [conn[c] EXCEPT !.greeted = TRUE]
      met == [r EXCEPT !.connecting = FALSE]
      listed == IF sends THEN [met EXCEPT !.pending = MaxPending] ELSE met
  IN /\ r.reading /\ r.sock = "open" /\ ~conn[c].greeted /\ HasRoom(r, 1)
     /\ \/ what = "invalid" /\ Becomes(c, Enqueue(r, "leave"))
        \/ what = "refused" /\ Becomes(c, Enqueue(met, "leave"))
        \/ /\ what = "duplicate"
           /\ \E d \in connections \ {c} : Connected(conn[d])
           /\ Becomes(c, [Enqueue(met, "leave") EXCEPT !.no_retry = TRUE])
        \/ /\ what = "good"
           /\ Becomes(c, IF r.sent = 0 THEN SendHandshake(listed) ELSE listed)
     /\ UNCHANGED <<connections, num_clients, started_sessions>>

\* handle_message for a leave message; the read is started again.
RecvLeave(c) ==
  /\ conn[c].reading /\ conn[c].sock = "open"
  /\ NetClose(c, [Flushed(conn[c]) EXCEPT !.no_retry = TRUE])
  /\ UNCHANGED <<connections, started_sessions>>

\* handle_message for a first time message.
RecvTime(c) ==
  /\ conn[c].reading /\ conn[c].sock = "open" /\ HasRoom(conn[c], 1)
  /\ Becomes(c, Enqueue(conn[c], "msg"))
  /\ UNCHANGED <<connections, num_clients, started_sessions>>

\* start_read_message: an error, the end of the stream, a message that cannot be
\* read, or a read that a close aborted.
ReadFails(c) ==
  /\ conn[c].reading
  /\ NetClose(c, [conn[c] EXCEPT !.reading = FALSE])
  /\ UNCHANGED <<connections, started_sessions>>

Live == {c \in connections : Connected(conn[c])}

\* What a loop over the connections makes of those it changes.
ForEach(new) ==
  /\ DOMAIN new # {}
  /\ conn' = [c \in DOMAIN conn |-> IF c \in DOMAIN new THEN new[c] ELSE conn[c]]
  /\ UNCHANGED <<connections, num_clients, started_sessions>>

\* ticker, broadcast_block_confirm_impl
SendAll ==
  /\ \A c \in Live : HasRoom(conn[c], 1)
  /\ ForEach([c \in Live |-> Enqueue(conn[c], "msg")])

\* broadcast_block_impl
BroadcastBlock ==
  /\ \A c \in connections : conn[c].pending < MaxPending
  /\ ForEach([c \in Live |-> [conn[c] EXCEPT !.pending = @ + 1]])

Sending(r) == IF r.pending < Batch THEN r.pending ELSE Batch

\* send_pending_block of a list that is not empty: each block is enqueued, and
\* those after the first find a queue that is not empty.
SendPendingBlock(r) ==
  LET n == Sending(r)
      first == Enqueue([r EXCEPT !.pending = @ - n], "msg")
  IN [first EXCEPT !.queue = @ \o [i \in 1..(n - 1) |-> "msg"],
                   !.write_depth = @ + (n - 1)]

\* start_pending_blocks_timer
SendPending ==
  /\ \A c \in connections : HasRoom(conn[c], Sending(conn[c]))
  /\ ForEach([c \in {k \in connections : conn[k].pending > 0} |-> SendPendingBlock(conn[c])])

-----------------------------------------------------------------------------
Kinds == {"invalid", "refused", "duplicate", "good"}

Step(c) ==
  \/ Accept(c) \/ Resolved(c) \/ DialOk(c) \/ DialFails(c)
  \/ \E ok \in BOOLEAN : WriteDone(c, ok)
  \/ \E what \in Kinds, sends \in BOOLEAN : RecvHandshake(c, what, sends)
  \/ RecvLeave(c) \/ RecvTime(c) \/ ReadFails(c)

Next ==
  \/ \E c \in Out \cup In : Step(c)
  \/ Refuse \/ Monitor \/ SendAll \/ BroadcastBlock \/ SendPending

Spec == Init /\ [][Next]_vars

\* The io_service runs every posted handler and every timer: a write ends, as the
\* network accepts the bytes or gives up, a dial ends, and an aborted read is
\* reported.  The peers need not do anything.
Fairness ==
  /\ WF_vars(Monitor)
  /\ \A c \in Out \cup In :
       /\ WF_vars(\E ok \in BOOLEAN : WriteDone(c, ok))
       /\ WF_vars(DialOk(c) \/ DialFails(c))
       /\ WF_vars(ReadFails(c) /\ conn[c].sock # "open")

FairSpec == Spec /\ Fairness

-----------------------------------------------------------------------------
Message == {"hs", "leave", "msg"}

ConnectionState ==
  [sock : {"closed", "resolving", "dialing", "open"}, connecting : BOOLEAN,
   reading : BOOLEAN, queue : Seq(Message), out : Seq([kind : Message, up : BOOLEAN]),
   write_depth : Nat, sent : Nat, greeted : BOOLEAN, no_retry : BOOLEAN, pending : Nat]

\* The types of the variables.
TypeOK ==
  /\ conn \in [Out \cup In -> ConnectionState]
  /\ connections \in SUBSET (Out \cup In)
  /\ num_clients \in Nat
  /\ started_sessions \in Nat

\* At most one write of a connection is in flight, however closes, flushes and
\* sends interleave, and it is the write of the front of the queue: the callback
\* pops and completes the message that was sent, and bytes never mix.
WritesFront ==
  \A c \in Out \cup In :
    LET r == conn[c]
    IN /\ Len(r.out) <= 1
       /\ r.out # <<>> => r.queue # <<>> /\ Head(r.queue) = Head(r.out).kind

\* The messages flush_queues dropped that write_depth still counts; a front whose
\* write failed is not counted any more.
Lost(r) ==
  r.write_depth - Len(r.queue) - Len(r.out)
    + (IF r.queue # <<>> /\ r.out = <<>> THEN 1 ELSE 0)

\* A message waits in a queue that nobody writes only after flush_queues dropped
\* others of that connection, and write_depth never counts too few.
WriterRuns ==
  \A c \in Out \cup In :
    LET r == conn[c]
    IN /\ Lost(r) >= 0
       /\ r.queue # <<>> /\ Lost(r) = 0 => r.out # <<>>

\* A client's connection that was closed, at any point of its life, is dropped.
DeadDropped ==
  \A c \in In :
    c \in connections /\ conn[c].sock = "closed" ~> c \notin connections

Queued(r, kind) == \E i \in 1..Len(r.queue) : r.queue[i] = kind

\* A handshake leaves the queue, sent or dropped with its connection, unless the
\* connection lost messages before.
HandshakeLeaves ==
  \A c \in Out \cup In :
    Queued(conn[c], "hs") /\ Lost(conn[c]) = 0 ~>
      ~Queued(conn[c], "hs") \/ Lost(conn[c]) > 0

\* A handshake leaves the queue.
EveryHandshakeLeaves ==
  \A c \in Out \cup In : Queued(conn[c], "hs") ~> ~Queued(conn[c], "hs")

\* There are never more than max-clients clients, as the help of the option says.
\* Clients that have connected and not sent a handshake yet refute it.
ClientsLimited == MaxClients > 0 => Cardinality(Visitors) <= MaxClients

=============================================================================
