# Verification of support-chain

TLA+ models of the node of support-chain (XMax), TLC configurations that check
them on small instances, and TLAPS proofs. Paths are relative to `src/`.

    tlc -workers 2 -config NodeForks.cfg MCChainNode     # one run
    tlapm UndoDbProofs.tla                               # the proofs

`PROJECT.json` lists the components, the runs, for every modelling definition
the source lines it stands for, the hazards, and for every property a mutation
of the model that breaks it.

## 1. The system

A node is one process. It keeps the contract state in a memory-mapped object
database with undo sessions, the reversible blocks in an in-memory fork
database, and the irreversible ones in a file. Builders take turns by slots; a
slot's builder makes a block on its head, the others apply it or, if it does
not extend their head, keep it as a fork and switch when it becomes longer.

| component | state | operations | talks to |
|---|---|---|---|
| undo database, `foundation/basechain` | objects, next id, stack of undo states, revision | emplace, modify, remove; start, undo, undo_all, squash, commit, set_revision | called by the chain controller and by every contract |
| fork database, `chain/forkchain.cpp`, `chain/block_pack.cpp` | packs under four indices, head | add_block, add_confirmation, set_last_confirmed, remove_chain, fetch_branch, load, close | signals `irreversible` to the controller |
| chain controller, `chain/chain_xmax.cpp` | block_head, building_block, last_irreversible_block_num, pending transactions | build_block, push_fork, _apply_block, _push_block, _commit_block, _check_fork, _pop_block, on_irreversible, initialize | owns the three stores below it |
| block log, `chain/chain_stream.cpp` | block file, index file | append_block, read_head, read_block | written on irreversible, read at start |
| builder schedule, `chain/chain_utils.*`, `chain/builder_rule.hpp`, parts of block_pack and chain_xmax | current and announced rule, slot in the round, signing keys, missed blocks; in the packs and in the database | select_builder, next_round, _update_final_state, refresh | read by the builder plugin |
| voting contract, `native_contract/xmax_voting.cpp` | builder_info, voter objects | regbuilder, unregbuilder, vote, proxies, next_round | run by the first block of a round |
| block builder plugin | keys held, timer | next_block, recieve_block, confirm_block, fork_block, confirmation_block_self | drives the controller |
| peer-to-peer plugin, `plugins/chainnet_plugin` | connections with write queue, pending blocks and state of the handshake; count of clients; timers | connect, accept, do_queue_write, handle_message, close, connection_monitor, broadcast | posts blocks to the builder plugin, broadcasts its blocks |
| transaction pipeline, parts of chain_xmax, `chain/transaction_context_xmax.cpp` | pool ordered by gas, gas used, receipts | push_transaction, apply_transaction, select_transactions_by_gas, exec_message, transfer_gas | nested undo sessions; calls contracts |
| native contracts, `native_contract/xmax_contract.cpp` | accounts, main tokens, ERC20, ERC721 | addaccount, addcontract, transfer, lock, mint, transferfrom, ... | undo database |
| authority, `chain/authority_utls.cpp` | authority and link objects | check_authorization; updateauth, deleteauth, linkauth, unlinkauth | before every transaction |
| virtual machines; wallet, http, mongodb plugins | - | - | - |

What is hard, and what makes each part correct:

* **Undo database.** A session keeps differences, not a copy, and nested
  sessions are merged by a table of cases. Correct: undo gives back exactly what
  the session saw, after any history.
* **Fork database and controller.** Adding a block can change the head, raise
  the irreversible event inside the insertion, erase blocks and fail half way,
  and an exception keeps what was done before it. Correct: between two handlers
  database, sessions, head, fork database and log describe the same branch.
* **Restart.** Three stores are written independently. Correct: whatever is
  found at the start, they agree again.
* **Schedule.** The same schedule is kept in the packs and in the database, over
  blocks built, received, switched to, popped, and restarts. Correct: both name
  the same builder and key, and a slot does not change hands.
* **Block log.** An append is four writes to two files. Correct: open tells a
  whole log from a torn one, and what was indexed is never lost.
* **Peer-to-peer.** Callbacks, timers and closes of a connection interleave, and
  each path must keep the write queue and its writer together. Correct: what is
  written is the front of the queue, and somebody writes while there is something
  to write; a follower gets every block, in order.
* **Transactions.** A transaction's session lies inside the block's, and a block
  may be left open by an exception, abandoned or popped. Correct: the database is
  what the blocks of the chain do to the genesis state, and nothing else.
* **Authority.** Authorities refer to their parents and, in circles, to each
  other. Correct: walks end, and what passes the given keys really satisfy.

## 2. Modules

| module | what it is |
|---|---|
| `UndoStack` | the operations on undo sessions a client of basechain relies on, with whole contents per session |
| `UndoDbAbs` | the state machine of `UndoStack` |
| `UndoDb` | `generic_index`: differences per session; implements `UndoDbAbs` |
| `UndoDbProofs` | the proofs about `UndoDb` |
| `ForkDb` | blocks, packs and the operations of the fork database |
| `ChainNode` | a node: EXTENDS `ForkDb` and `UndoStack`, adds controller, log and builder plugin |
| `ChainNodeProofs` | the proofs about `ChainNode` |
| `BuilderSchedule` | who builds which slot |
| `BuilderScheduleProofs` | the proofs about `BuilderSchedule` |
| `BlockLogAbs` | a log that only grows |
| `BlockLog` | `chain_stream`: two files, kills, open and reads; implements `BlockLogAbs` |
| `BlockLogProofs` | the proofs about `BlockLog` |
| `Connection` | the connections of one node |
| `ConnectionProofs` | the proofs about `Connection` |
| `BlockSync` | how blocks of one node reach another over connections that break |
| `BlockSyncProofs` | the proofs about `BlockSync` |
| `Tokens` | native token contracts and the execution of a message, as operators |
| `Ledger` | transactions: pool, open block, sessions, fork switch; EXTENDS `Tokens` and `UndoStack` |
| `LedgerProofs` | the proofs about `Ledger` and `Tokens` |
| `Authority` | authorities of accounts, and the check of a transaction's keys |
| `AuthorityProofs` | the proofs about `Authority` |
| `MCChainNode`, `MCBuilderSchedule`, `MCLedger`, `MCAuthority` | values for TLC |

So the undo database is checked once, in detail, and `ChainNode` uses its
abstract form, as `Ledger` does; `BuilderSchedule` and `Ledger` use in turn what
`ChainNode` shows (a pop returns to the database before the block). `ChainNode`
has the log as the sequence that `BlockLog` implements, and blocks arriving in any
order and repeatedly for what `Connection` and `BlockSync` do in detail.

### UndoDb

`indices` is `_indices` (id to value or `None`), `next_id`, `stack` and
`revision` are the members of the same names. `saved` is history: the table each
session began with. `unwinding` cuts `undo_all` into its calls of `undo`.
`damaged` becomes true when an undo throws half way; nothing happens after that,
since the caller cannot go on. `UniqueIndex` adds a second unique index: a
colliding `modify` erases the object and throws, as
`boost::multi_index::modify` does, and `undo` restores with `modify`.

| action | code (`basechain.hpp`) |
|---|---|
| `Emplace`, `Modify`, `Remove` with `OnCreate`, `OnModify`, `OnRemove` | emplace, modify, remove, on_create, on_modify, on_remove |
| start, undo, undo_all, squash, commit, set_revision | the functions of those names |

### ForkDb and ChainNode

A block is a number, its index in `blocks`; `path` is its ancestry. A pack keeps
`main_chain`, `last_confirmed_id`, `dpos_irreversible_id`, the DPoS window,
`irreversible_confirmed` and whether a confirmation is stored. Of the hash in a
block id only its order matters, to `remove_chain`, hence `rank`. Transactions are
abstracted to the block they are in: the contents of the database are the
sequence of blocks executed on it, and a block that fails is one with
`good = FALSE`. It fails by an fc::exception, or, if its builder is in `Uncaught`, by
either that or another one: `db.get` throws std::out_of_range, which neither
`apply_transaction_impl` nor `_check_fork` catches. In a fork switch the first removes the
bad branch and the loop goes on; the second leaves the switch where it is, with the bad
branch still the longest, and ends in the log of push_fork.

The process has one thread for all of this and handlers run to their end, but a
kill can fall anywhere and an exception leaves what was done before it. A handler
is therefore cut into steps:

| step | code |
|---|---|
| `Receive`, `ReceiveAgain`, `RecieveBlock` | a block arrives; recieve_block, confirm_block, push_fork, _apply_block, _validate_block |
| `Build`, `BuildBlock` | next_block_impl, build_block |
| `Confirm` | a confirmation of another builder |
| `AddBlock` (inside the steps above) | forkdatabase::add_block |
| `Irreversible`, `Commit`, `Erase` | on_last_confirmed_grow, on_irreversible, _irreversible_block |
| `Pushed` | the rest of _push_block, _commit_block, confirmation_block_self |
| `CheckFork`, `Pop`, `Apply` | _check_fork, _pop_block, _apply_block for the new branch |
| `Shutdown`, `Kill`, `Start` | ~chain_context and forkdatabase::close; a kill; initialize_impl |

Where two packs are equal in an index, the container orders them by the last
modification; the model lets either come first. `ReceiveAgain` and `Receive` in
any order stand for the peer-to-peer plugin: lost, repeated and reordered blocks.

### BuilderSchedule

`packs` is the node's chain, `dbs[i]` the database after block `i`, `log` how many
blocks are irreversible. Time is a slot number.

| action | code |
|---|---|
| `BuildBlock` | next_block_impl's turn by the database, build_block, _generate_next_builders, _update_final_state |
| `ConfirmBlock` | confirm_block: _validate_block_desc, init_by_pre_pack, _validate_block |
| `SwitchTo` | add_block(signed block) of the fork database, then _check_fork's apply |
| `PopBlock`, `Irreversible` | _pop_block, the irreversible event |
| `Kill` | start without `fork_memory.bin`: initialize_impl and block_pack::refresh |

A restart with the file changes nothing here: packs are written and read whole
(`block_pack.hpp`, the reflected members). Stakes, votes and proxies are left out
because they cannot take effect: `lock` reads a `resource_token_object` that no
code creates (`xmax_contract.cpp:442`), so every `total_votes` is 0 and
`next_round` takes the builders registered last.

### BlockLog

`block_stream` is blocks.log as a sequence of items, three for each block (data,
desc, eof); `index_stream` is blocks.index. `pc` and `job` are the append in
progress, `bad` is the fail bit of the index stream, `Queries` the numbers that
`read_by_num` is asked for. A kill (`End` with `pc` not "idle") leaves what was
written.

| action | code (`chain_stream.cpp`) |
|---|---|
| `AppendBlock`, `WriteData`, `WriteDesc`, `WriteEof`, `WriteIndex` | append_block, write_block |
| `End`, `Open` | the destructor or a kill; open with its checks, read_head |
| `ReadByNum` | read_by_num, with the seek that may set the fail bit |

`read_indices` and `last_block_num` are operators on the index.

### Connection

`conn[c]` is one `connection_xmax`: `Out` are the configured peers, `In` the
clients that may come. `out` holds the asynchronous writes in flight, `sock` the
socket (a socket that dials is open for `is_open`). Every callback is an action.

| action | code |
|---|---|
| `Resolved`, `DialOk`, `DialFails` | connect, the callbacks of async_resolve and async_connect, start_session |
| `Accept`, `Refuse` | start_listen_loop |
| `WriteDone` | the callback of do_queue_write, with the callback of msg_enqueue inside |
| `RecvHandshake`, `RecvLeave`, `RecvTime`, `ReadFails` | handle_message, start_read_message |
| `Monitor`, `SendAll`, `BroadcastBlock`, `SendPending` | connection_monitor, ticker and broadcast_block_confirm_impl, broadcast_block_impl, start_pending_blocks_timer |

### BlockSync

Two nodes on one branch: the source has the blocks, the follower wants them. Of
`Connection` remains that a connection that lost several queued messages writes no
more (`stuck`). `SourceHandshake` sends a list when the follower's last
irreversible block is lower, `Build` broadcasts, `SendPending` sends a batch,
`Receive` is recieve_block, which ignores a block that does not follow the head.
`Hear` is a block that the source takes from a third node, which it does not relay: only
next_block_impl broadcasts. `Learn` is a block that the follower has from a third node,
`Finalize` the growth of either last irreversible block. `owed` is history: the blocks
that the source has sent, or is going to send, in this session, in a row from the list on.

### Tokens and Ledger

`Tokens` is the handlers of the native contracts and `exec_message` as operators
on the contents of the database; one returns what it had changed when it threw,
since that is what an outer session must take back. `Ledger` is the node around
it: `db` with its undo sessions (`UndoStack`), `building` the open block, `pool` the
heap of pending transactions, `chain` the blocks. `Genesis` is computed by running
the genesis messages through the same operators.

Deposits and erc20 amounts are `share_type`, a signed integer of `2 * ShareHalf` values:
adderc20 takes any supply, and a sum that overflows, which is undefined, wraps (`Wrap`).
`CanAdd` is the assertion of SafeMath::add, which a compiler may reduce to the sign of the
second operand because of that (`TestFolded`).

A transaction whose gas payer, or whose block's builder, has no token object throws a
std::out_of_range of `db.get` (`Escapes`). The session of the transaction is undone, but
the exception goes on: in a block of another builder it leaves the block open with the
transactions before it, in an own block it ends the process (`Exits`; `main` catches it
and the shutdown is an ordinary one).

| action | code (`chain_xmax.cpp`) |
|---|---|
| `Push` | push_transaction |
| `BuildBlock` | build_block, which may throw from _push_block after it took its transactions |
| `PeerBlock` | _apply_block |
| `Switch` | _check_fork with one block popped and two good ones applied; failing ones are in `ChainNode` |
| `StartFails` | _abort_build, then _start_build throws |
| `Irreversible` | _irreversible_block |

Contract code is abstracted to two changes of a table and a number of
instructions; it may throw between the changes, and what it throws is swallowed.

### Authority

`accounts` are the account objects with their types, `auths` the authority objects under
their ids, `links` the linked permissions. addaccount makes a personal account with its
owner and active authority; addcontract, adderc20 and adderc721 make accounts without any
(`AddContract`), and so does create_native_account for the system contract. A threshold is
read as an int by the check (`AsInt`), and a link to "sys.any", for which
min_linked_permission returns an empty optional that its caller reads, allows any name
(`MinLinked`).

An action is a message together with the check that precedes it. `CheckImpl` is
auth_checker with its depth limit and cache, `ParentPermissionValid` the walk to the
parents. addaccount and the handlers that make contracts and tokens are registered in
`native_contract_chain_init.cpp`; the handlers of updateauth, deleteauth, linkauth
and unlinkauth are exported and check_authorization has cases for them, but nothing
dispatches to them yet. The module takes them as they are written, so its results
are about the handlers, to be kept when they are registered.

## 3. Runs

| run | cfg | shows |
|---|---|---|
| undo_sessions | UndoDb | after any sequence of writes and nested sessions, undo restores, never fails, and the table cannot be told apart from one that copies (`ImplementsAbs`) |
| undo_collisions | UndoDbCollisions | with a second unique index neither the table nor what an open session returns to ever has a value twice, through failed writes and undos |
| node_forks | NodeForks | between handlers the stores agree (`StoresAgree`: database, undo sessions, fork database, log and head); finality neither lags nor runs ahead; only linked blocks become irreversible; the pushed block is the head; every handler ends |
| node_restarts | NodeRestarts | the stores agree when blocks fail by an fc::exception, alone or inside a fork switch, and across one shutdown or kill anywhere except inside a commit; the node can start |
| node_anything | NodeAnything | confirmations, blocks that fail by any exception, deep forks and a kill inside a commit: no irreversible block is popped |
| node_sibling | NodeSibling | violation, see 6 |
| schedule | Schedule | packs and database agree on every coming slot; rules come into force one round after they are announced; the key of a signer that keeps it is known; no slot is booked twice; slots keep their builders |
| block_log | BlockLog | with a kill between any two writes: index entries point at whole blocks, open refuses exactly the torn logs, reads give the block asked for, and the files implement a log that only grows |
| connection | Connection | in every order of callbacks and timers: writes are the front of their queue, no queue is without a writer, dead connections are dropped, a queued handshake leaves or its connection closes |
| block_sync | BlockSync | after a list every block that the follower misses, up to the first one that the source takes from another node, is on its way in order, and arrives while the connection lasts |
| ledger | Ledger | the database is a replay of the chain and the open block; a transaction counts once; main tokens and erc20 supplies are conserved (`TokensConserved`); the pool drains |
| authority | Authority | every personal account keeps owner and active and no other has an authority, parents are older and found exactly, and the check of keys is sound against the least fixed point of "reaches its threshold", the threshold as the check reads it |

Each module also states a type invariant `TypeOK`. The runs do not list them: those of
`UndoDb`, `BlockLog`, `BuilderSchedule`, `Connection`, `BlockSync`, `Ledger` and
`Authority` are proved, with `StackConsistent`, `RevisionsConsecutive` and `HeadIsLogged`
(section 4), and that of `ChainNode`, most of which is in the proved invariant `Base`,
holds in the same runs when it is added to the cfg by hand. They are there to read the
state by.

Bounds, and why they are enough for what each run asks:

* `UndoDb`: two ids, two values and three sessions. A squash involves two
  sessions, and the third is one that it must leave alone; each of the merge's
  cases is about one object, and the second object shows that it stays alone.
  Collisions need a third id (a created object that takes a removed one's value
  while another is changed). The proofs of section 4 remove the bounds.
* `ChainNode`: four to six blocks besides genesis give two branches of two or
  three blocks. `DposNeed` is the width of the window, 1 to 3, where the code has
  a fraction of the builders in a round: narrow windows make blocks irreversible
  within the bound. `ForkDepth` is how far a fork may reach above the branch of
  the head. Builders the node has no key of are symmetric.
* `ForkDepth` and `Confirmers` limit `node_forks` in a way that matters: a fork
  reaches at most two blocks above the meeting point (three break
  `BranchesFound`, `NodeDeepFork.cfg`), and finality comes from the DPoS window
  alone. With fewer than three builders, where one confirmation is enough,
  `PushedIsHead` and `IrreversibleLinks` fail among forks (section 6); with three or
  more, confirmations change nothing, and the theorems of section 4 allow them.
  Failing blocks are in `node_restarts`; with them `HandlerEnds` is false, because the
  loop of _check_fork takes the first block of an empty branch (`NodeFailedSwitch.cfg`).
  Blocks that throw what _check_fork does not catch are in `node_anything` only: with
  them `PushedIsHead`, `StoresAgree` and `CanStart` fail (`NodeUncaught.cfg`).
* `NodeTorn.cfg`, run by hand, passes: without failing blocks the node can start also
  after a kill inside a commit, with two restarts and every kind of end.
* `BuilderSchedule`: three names for a round of two slots, so that a round
  cannot hold everybody; slots 0 to 5 are three rounds: the genesis rule, its
  announced one, and the one after. Blocks at most three slots apart: a slot, a
  missed one, and a whole round missed. Two keys, which builders exchange by registering
  again.
* `BlockLog`: three blocks of two bodies and three restarts: a log that is empty, of
  one block and longer, torn and opened again more than once. The proofs remove
  the bounds; `Queries` are the numbers 1 to 4, one more than is there.
* `Connection`: one peer that is dialled, one client, a queue of two and two
  sessions. The connections only share the count of clients and the check for
  duplicates; two messages are one being written and one behind it, which is
  where closing and writing meet. `CounterSize = 3` lets the unsigned count wrap.
* `BlockSync`: five blocks in batches of two, two sessions, either side dialling.
* `Ledger`: eight transactions that between them run every function, fail in the
  second message, run out of funds or gas, expire, go wrong in a contract and have a
  contract without tokens as payer; three pushes, two blocks above genesis, one transaction
  in a block of another builder. `MaxMessages = 4` is the largest transaction, so that no
  two of the others with three messages fit together. `ShareHalf = 64` is near the amounts:
  a supply is negative, and a mint goes over the end. `TestFolded = TRUE` is the build in
  which such a mint passes; the proofs have both.
* `Authority`: one initial and one added account, two keys, two named authorities with the
  names of the accounts, one of which is "sys.any", one link at a time, and candidates that
  close a circle; eight values of a threshold, of which a new account may bring 6, which is
  negative as an int; `MaxDepth` as in the code.

`CHECK_DEADLOCK FALSE` appears where the system may stop: in `UndoDb` after a
failed undo or at the bounds, in `NodeAnything` because a node may be unable to
start, in `BuilderSchedule` at the bound on time, in `BlockLog` when a torn log
cannot be opened, in `BlockSync` and `Authority` at the bounds. In the other runs of
`ChainNode` a block can always arrive again, in `Connection` the monitor runs and
in `Ledger` a build may throw.

**Fairness.** `FairSpec` adds `WF_vars(Step)`: a running handler goes on. The code
justifies it since handlers run on one thread and none of their steps waits.
`Connection` assumes that the io_service runs what is posted: each write ends, well
or not, a dial ends, an aborted read is reported, and the monitor's timer fires.
`BlockSync` assumes the timer of pending blocks, and that what was written is
received or the connection breaks. `Ledger` assumes only that build_block is called
again and again, whether it throws or not; no block has to succeed. So `PoolDrains` is
about a node that is a scheduled builder: the timer runs in every slot, but calls
build_block only in the node's own. No fairness is assumed of the environment: nobody
has to send, connect or restart.

## 4. Proofs

All for any values of the constants, from the named assumptions of the modules.

`UndoDbProofs` (in this order):

* `TypeCorrect`, `RevisionsAreConsecutive`. The inductive invariant `RevInv` joins
  the types, one saved table per session, and consecutive revisions ending at
  `revision`. Consecutiveness is what lets `commit(n)`, which stops at the first
  session above `n`, drop exactly the sessions up to `n`.
* `UndoRestores`, `SessionsAreConsistent`. The invariant is `RevInv` with
  `UndoInv`: what a session keeps is disjoint and agrees with the tables around
  it (`StackFits`), and applying a session's undo state to the table after it
  (the next session's saved table, or `indices`) gives the session's saved table.
  The first part is needed because a creation, change or removal keeps the
  second only if the object is in at most one of the session's three sets. That it
  is stated for every session and not only the newest is what makes it inductive,
  since squash and undo uncover older ones. `UndoRestores` holds with a second
  unique index too: a collision erases an object that the session has kept, and an
  undo that stops half way (`PartlyRestores`) has set some objects to what it
  would set them to again. `SessionsAreConsistent`, which says more, needs that
  nothing collides.
  One lemma per operation (`CreateRestores`, `ModifyRestores`, `RemoveRestores`,
  `MergedRestores`) says what it does to this equation; `MergedRestores` is the
  case table of squash.
* `UndoIsTotal`: without a second unique index no undo fails.
* `KeepsWholeTables`: without a second unique index `UndoDb` implements
  `UndoDbAbs`. The mapping takes `saved` as the abstract sessions; each operation
  maps to its abstract counterpart, a write to an abstract write.

* `ValuesStayUnique`: with a second unique index, neither the table nor one that
  an open session returns to ever has a value twice, not even where an undo stopped:
  `StuckDistinct` shows that the objects restored before that point did not collide.

`SessionsAreConsistent`, `UndoIsTotal` and `KeepsWholeTables` assume `~UniqueIndex`: with
a second unique index an undo can fail (section 6).

`BuilderScheduleProofs`:

* `AgreesAlways`: if the process does not die with open sessions, then
  `ScheduleAgrees` always holds: plugin and pack name the same builder with the
  same key. The invariant `Paired` is that *every* pack of the chain, not only the
  head, agrees with its database on rule, announced rule and slot: a pop uncovers
  an older pair. `ForkedIsBuilt` shows that the pack from the fork database equals
  the pack made by executing the block, once the headers are equal;
  `RefreshedAgrees` that a restart at rest makes a pack of the same schedule.
* `TypeCorrect`, `AnnouncedAlways`, `SignersAlwaysKnown`, `OwnersAlwaysKept`, under the
  same condition (with open sessions `ScheduleRestart.cfg` breaks it). The invariant
  `Sound` adds to `Paired`: the types of every pack and database; that the database
  of every block has the keys of the announced rule, and of the rule in force for the
  builders to whom the announced one gives no other; and that
  a pack is linked to the one below it: within a round nothing of the rules changes,
  and the first block of a round takes the rule announced before. `SignersAlwaysKnown`
  is for any keys: `SignersKnown` speaks of the signers to whom the announced rule gives no
  other key, since for the others it fails (`ScheduleKeys.cfg`). `OwnersKept` itself
  speaks of rules whose builders divide the round.
* `SlotsAlwaysAccounted`, whenever the process dies: no slot is booked twice. The
  invariant `Tallied` says it of the database of every block of the chain, with the
  number of blocks up to that one: a pop, a switch or a restart goes back to an older
  block and its database together.

`BlockLogProofs`, for any blocks, queries and number of restarts:

* `TypeCorrect`, `IndexIsSound`, `HeadIsSound`, `OpenIsExact`. The inductive
  invariant adds to them what the log holds beyond the indexed blocks at each point
  of an append: nothing, or one, two or three items of the block in `job`, whose
  number is the next one. It is needed because what open finds after a kill is
  what the append had written: open is exact since every proper prefix lacks the eof
  or has a desc whose position is not that of the last entry.
* `AppendsAccepted`: if nobody asks for block 0, the fail bit is never set and the
  assertion of write_block holds. With 0 it fails (`BlockLogReads.cfg`), hence the
  condition.
* `BlockLogImplementsLog`: the files implement `BlockLogAbs`. The abstract log is
  the indexed blocks; `WriteIndex` is the append, every other step a stutter, open
  included.

* `ReadersAreRight`: reads by number, `read_indices` and `last_block_num` of a log of
  two blocks or more give what was appended.

`ConnectionProofs`, for any peers, clients, queue lengths and number of sessions:

* `TypeCorrect`, `WritesTheFront`, `WriterKeepsRunning`. The invariant says of every
  connection that at most one write is in flight, that it is of the front of the queue,
  and that `write_depth` is at least the number of messages and writes. The last is
  what forbids a second write: `do_queue_write` is called by whoever finds the depth
  at zero. Each method of a connection keeps it, whatever state the connection is in.

`BlockSyncProofs`, for any chain length, batch size and number of sessions:

* `TypeCorrect`, `NoGap`. The invariant says more than `NoGapAfterList`: the missing
  blocks up to `owed` are consecutive messages on the way, and while `owed` is the source's
  head they are the last ones. So a broadcast extends them or comes behind a block that
  the source did not relay, a batch moves them, and a block that arrives is either one
  that the follower has or the next one.

`ChainNodeProofs`, for any builders, blocks, forks, blocks that fail, confirmations,
widths of the window, ends of the process and depths of forks:

* `LogIsChain`: the log is a chain. The invariant `Base` has the tree of the blocks
  (a block's `path` is its ancestors), that what is known, a head or in the log has a
  pack, and where a running fork switch is: between the place where the branches meet and
  their heads, on blocks that are known.
* `NeverPopsIrreversible`: a fork switch never takes back a block of the log. It pops
  down to a block that the fork database knows, so it must know none below the end of the
  log then. In between it may: when the irreversible event throws, nothing is erased.
  `Final` says that some block at or above the end of the log is the largest
  `last_confirmed_id` of all; the head of the fork database has it, because the packs are
  ordered by it, so every `add_block` tries the growth again before a switch begins.
  It assumes three builders or more. The code has 21 (`blockchain_config.hpp:27`); with
  one or two, the one confirmation that a pack can store makes a block irreversible
  at once, and the order of the events is another.
* `StoresAlwaysAgree`, `CanAlwaysStart`, `IrreversibleAlwaysLinks`, `PushedAlwaysHead`,
  `BranchesAlwaysFound`, `FinalityAlwaysNeedsTurns`: under `Calm` the places that keep the
  chain agree after every handler, a restart finds a head that the database has, and what
  the handlers assert of the blocks holds. `Calm` is three builders or more, forks that
  end at most `DposNeed + 1` blocks above the node's branch, no kill between the log
  and the undo database, and `Uncaught = {}`: a block that fails does so by an
  fc::exception. Blocks may fail, alone or in a switch, handlers may throw,
  confirmations may come, and the process may be killed or shut down anywhere else, any
  number of times. Each condition is needed: `NodeConfirmedFork.cfg` and `NodeSibling.cfg`
  have two builders, `NodeDeepFork.cfg` forks of `DposNeed + 2` blocks,
  `NodeTornCommit.cfg` the kill, and `NodeUncaught.cfg` the other exceptions.
  `LogIsChain` and `NeverPopsIrreversible` need neither of the last two.

  The invariant `Agreed` has a block `l`, the last irreversible one or the one that
  `on_last_confirmed_grow` works towards, on the branch of `block_head`. What is known is
  *settled* with respect to `l`: nothing below `l`, all the ancestors above it; every
  block on `l` has it as `last_confirmed_id`; `dpos_irreversible_id` rises along a
  branch and is not above a known block, so that the next insertion is the only thing that
  can make a block irreversible; and nothing above `l` was announced. The head is the
  best of what is known, the flags mark the branch of `block_head`, and the undo
  sessions reach from it down to the log. `Windows` counts the turns of builders above
  each block of a DPoS window: what left it has `DposNeed` of them.
  This is where the depth of forks comes in (`DposDeep`, `ForkGrowth`): a fork that
  short cannot bring a block to irreversibility that is not below the place where it
  leaves the branch. That `l` itself may be unknown, after a start without
  `fork_memory.bin`, is a case of its own.
* `OriginAlwaysThere`, `FinalityIsPrompt`: under `Calm` and when no block fails,
  `_check_fork` never takes the first block of an empty branch. The invariant
  `Straight` is that it is never called for a fork on top of `block_head`; a failed
  switch makes one (`NodeFailedSwitch.cfg`). If in addition the process is only shut
  down, `FinalityKeepsUp` holds: the fork database is never lost, so it knows the end of
  the log (`Unbroken`).

`AuthorityProofs`, for any accounts, names, keys and messages:

* `TypeCorrect`, `AlwaysRooted`. The invariant is that an account has each name at
  most once, that personal accounts have "owner" and "active" and only they have
  authorities (`Rooted`), and that a parent has a lower id.
  Uniqueness is what makes a deletion remove the object that was asked for and no other.
  What the check of keys lets pass is not used: the handlers keep it for any signer.
* `AncestorsFound`: the loop of `parent_permission_valid` finds exactly the authorities
  above another. The invariant needs also that a parent, while it exists, is of the same
  account (`Kin`): ids are never used again, so a deleted parent leaves a gap and not
  somebody else's authority. Then the loop and `Above` take the same way down the ids.
* `CheckedAreSatisfied`: what `auth_checker` lets pass is in `Satisfied`, the least set
  that contains every authority that reaches its threshold, read as an int, with the keys
  and the set. A threshold that is negative so is reached by nothing (section 6). For
  any set closed under that, by the depth that is left: a call that passes returns a cache
  inside the set if it got one inside it, and is about a member. Circles end at the depth
  limit, and the cache holds only what has passed.

`LedgerProofs`, for any transactions, accounts, builders, genesis file, and bounds:

* `LedgerInvariant`, and from it `LedgerStateIsReplay`, `LedgerRecordedOnce`,
  `LedgerTokensConserved` and `LedgerTypes`. The invariant `IInv` says of *every prefix*
  of the chain and the open block that its replay is sound (main tokens are natural
  numbers that add up to `Supply`, erc20 balances and supplies are values of `share_type`,
  and the balances of a token add up to its supply modulo the size of that type)
  and knows exactly the transactions of the prefix, and that the undo session of each block
  that is not irreversible holds the replay of the blocks below it. Prefixes are needed
  because popping, abandoning and failing blocks all go back to one. Sessions are needed
  because `_pop_block` undoes the newest one, which may be that of an open block in place
  of that of the head; the first `_abort_build` of the switch then undoes the other.
  Under it are one lemma per native function (a transfer moves an amount between two
  balances, also of an account to itself; what a function changed before it threw keeps
  the sums too), one for a message with its notified recipients, one for a transaction,
  and one for replaying a block. Each sum or difference of `share_type` is the true one plus
  a multiple of the size of the type, so balances and supply stay congruent whatever
  wraps. Assumptions: `LedgerAssumption`, `TokensAssumption`, and `AmountsAssumption`, that
  gas is unsigned and every amount has the type it has in its message.

What a recursive function computes is proved without induction over a predicate: the
statement is negated, the least counterexample taken (`Least`, `Smallest`, from the
well-founded order of the naturals), and one step of the recursion contradicts it.

Only model-checked, and why:

* Liveness under fairness, which is out of the prover's reach: `HandlerEnds`,
  `DeadDropped`, `HandshakeLeaves`, `CatchesUpAfterList`, `PoolDrains`.

## 5. Not modelled

* A switch that stops half way, with the contents of transactions: `ChainNode` has it
  with blocks as contents; `Switch` of `Ledger` applies good blocks.
* Block number 0 of a read in the passing run of `BlockLog`: a client can ask for it over
  http, and `BlockLogReads.cfg` shows what it does.
* A write to the log that is cut in the middle: a kill leaves whole items. A cut
  item ends the file as a missing one does, without an eof.
* Peer-to-peer: notice, request and sync_request messages, because no node sends
  the first of them (`sync_main` is never instantiated); relaying of transactions,
  which is a TODO in the code; the wire format.
* Transactions: inline messages, which only contract code sends; the reference to
  an earlier block; the order of transactions with equal gas.
* Contracts: setcode, which stores code; unlock, votes and proxies, which need a
  stake that `lock` cannot make; `cash_contract.cpp`, which is not registered.
* Authority: transactions with several messages; `check_key_used` and
  `check_auth_op`, which are never called.
* Wall-clock time: a block may be built in any later slot.
* `force_confirm`: only used for genesis, whose pack `Init` gives.
* Signature checks as cryptography: a key either matches or does not.
* The mapped file's allocator and locks, virtual machines, wallet, http and
  mongodb plugins: engines and I/O without protocol state of their own.
* Most of the repository's lines are vendored libraries (v8 headers, fc, the mongo
  driver, the wasm engine) and word lists, which are not the program's own logic.

## 6. Where code and its own statements disagree

Listed as a violation run:

* **node_sibling.** `on_last_confirmed_grow` announces every block whose
  `last_confirmed_id` is the confirmed one; a sibling that copied the id from the
  common parent is announced too and fails the asserts of `on_irreversible` (the one on
  the number, and then that on the previous block). The exception leaves the insertion
  half done.

Others met while modelling. Each cfg shows one and is run by hand:

| cfg | what TLC shows |
|---|---|
| UndoDbSquash | squash of the only session drops it and keeps the revision |
| UndoDbUnique | with a second unique index undo throws half way when the value it restores is still held by another object |
| NodeFailedSwitch | after a failed switch the head is an ancestor of the next fork head; `_check_fork` then takes the first block of an empty branch |
| NodeDeepFork | a fork makes a block irreversible and erases the common block before the switch, which then cannot walk its branch |
| NodeLib | after a start `last_irreversible_block_num` is the revision before the roll-back |
| NodeConfirmedFork | a confirmation makes a fork the longest without `_check_fork`; the next pushed block is not the head |
| NodeUncaught | `_check_fork` removes a bad branch only for an fc::exception (`chain_xmax.cpp:811`). A gas payer or a builder without a token object makes `db.get` throw std::out_of_range, which passes it: block_head stays at the fork point, the bad branch stays the head of the fork database, and the next pushed block fails the assertion "error new head in fork database" |
| NodeStart | a shutdown after a failed irreversible event leaves a file whose head is above the database: the node cannot start |
| NodeTornCommit | the log is appended before the undo database is committed; after a kill between the two the start takes its head from the log and rolls the database back below it |
| ScheduleKeys | after a builder registers a new key, its blocks for the rest of the round are signed with the key of the rule in force, which the fork database accepts, and checked, when they are applied, with the key of the next rule |
| ScheduleRestart | a start without the file reads the schedule before it undoes the open sessions, so the head has the schedule of a later block |
| BlockLogReads | a read of block 0 sets the fail bit of the index stream; the next append fails the assertion on its position |
| ConnectionLimit | clients that have not sent a handshake are not counted, so there are more than max-clients, "Maximum clients from which connections are accepted" (`chainnet_plugin.cpp:1064`) |
| ConnectionStuck | a close with two or more queued messages leaves `write_depth` too high: after the next close the front of the queue stays, and the connection, dialled again, never writes its handshake |
| BlockSyncBehind | a follower with the source's last irreversible block and a lower head gets no list, and ignores the broadcasts |
| LedgerBlocked | a transaction with more messages than a block may have stays at the top of the pool and blocks it |
| LedgerGenesis | the native handler of a notified personal account runs again, so a genesis allocation counts twice |
| AuthorityLinks | linkauth looks for an account with the name of the required authority, so a link may name an authority that does not exist |
| AuthorityRooted | validate_authority says "all account has owner and active permissions." (`xmax_contract.cpp:55`); the accounts that addcontract, adderc20 and adderc721 make have none |
| AuthorityThreshold | a threshold of 2^31 or more is negative where it is compared (`authority_utls.cpp:227`), and addaccount does not validate it: its authorization passes with no key |

And without a run: when the builders of a rule do not divide the round, a slot
of the next round changes its builder once the round has begun, because the index
is counted from the old round (`chain_utils.hpp:45`); `OwnersKept` states the case
that holds. The genesis builder `xmax` has no builder object, so its blocks
dereference a null pointer at `chain_xmax.cpp:946`; `SignersKnown` leaves it out.
An update of an authority adds its keys and accounts to those that are there instead of
replacing them (`Assigned`), and keys that reach a threshold do not pass when an account of
the same authority does not (`Visit`). A block that a node takes from another one after it
sent a list is not relayed to the follower (`Hear`), which gets it from somebody else or
with the next list. An owner authority can never be updated: check_updateauth needs a
parent, and the handler needs it to be empty. `last_block_num` takes a log of one block for an empty
one (`chain_stream.cpp:340`); `ReadsRight` states longer logs.
`FinalityKeepsUp` is checked without restarts and proved without kills: after a start
without the file the log's last block is not in the fork database.

A pop without a session to undo is possible too: after a deep fork as in
`NodeDeepFork.cfg`, with a failure of `PushedIsHead`, the sessions no longer cover the
blocks above the log. `NeverPopIrreversible` speaks of the blocks alone; that there is
a session for each is `UndoSpansLog`, a part of `StoresAgree`.

## 7. Plan

Done: all the components of section 2 are modelled and model-checked, and every safety
property of a passing run is proved (section 4).

Left, if the code comes to use them: the notice and request messages, the votes, and the
handlers of the authorities as dispatched functions. And `Ledger` on top of `ChainNode`:
the first has the contents of blocks and the second the stores that keep them, and the
theorem that the contents of the database are a replay of the log and of the branch of
`block_head` now follows from both only in words.
