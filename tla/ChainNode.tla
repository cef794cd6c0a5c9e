------------------------------ MODULE ChainNode ------------------------------
(***************************************************************************)
(* One node: chain_xmax (blockchain/chain/chain_xmax.cpp) with its fork    *)
(* database, undo database and block log, driven by the block builder      *)
(* plugin (plugins/blockbuilder_plugin/blockbuilder_plugin.cpp).           *)
(*                                                                         *)
(* The process has one thread and a handler runs to its end, but it can be *)
(* killed anywhere, and it can throw half way: what it changed before that *)
(* stays.  A handler is therefore cut into the steps a kill can fall       *)
(* between; pc says which step is next and job what it works on.           *)
(*                                                                         *)
(*  Receive, Build, Confirm, Shutdown, Kill, Start     what can happen     *)
(*  RecieveBlock, BuildBlock              recieve_block, build_block       *)
(*  Irreversible, Commit, Erase           on_last_confirmed_grow           *)
(*  Pushed                                the rest of _push_block          *)
(*  CheckFork, Pop, Apply                 _check_fork                      *)
(***************************************************************************)
EXTENDS ForkDb, UndoStack

CONSTANTS Own,          \* the builders whose keys this node holds
          MaxBlocks,    \* bound: blocks that ever exist
          MaxRestarts,  \* bound: kills and shutdowns
          Faulty,       \* builders whose blocks may fail when applied
          Uncaught,     \* those among them whose blocks may throw something
                        \*   else than fc::exception: the std::out_of_range
                        \*   of db.get for a gas payer without token object
          ForkDepth,    \* how far above the node's own branch a fork may reach
          Confirmers,   \* other builders whose confirmations may arrive
          Ends          \* how the process may end: "stop" for a shutdown, "kill",
                        \*   and "torn" for a kill between log and undo database

ASSUME ChainNodeAssumption ==
  /\ Own \subseteq Builders
  /\ Faulty \subseteq Builders \ Own /\ Uncaught \subseteq Faulty
  /\ Confirmers \subseteq Builders \ Own
  /\ MaxBlocks \in Nat \ {0} /\ MaxRestarts \in Nat /\ ForkDepth \in Nat
  /\ Ends \subseteq {"stop", "kill", "torn"}

VARIABLES block_head,  \* _context->block_head
          db,          \* block_db: the blocks whose effects it holds, and
                       \*   its undo sessions
          building,    \* _context->building_block holds a session
          log,         \* chain_log: the irreversible blocks
          lib,         \* last_irreversible_block_num
          pc, job,     \* where the running handler is
          file,        \* fork_memory.bin exists; while the node is down the
                       \*   fork database variables are its contents
          restarts

nodeVars == <<block_head, db, building, log, lib, pc, job, file, restarts>>
vars == <<blocks, forkVars, nodeVars>>

\* A running handler: the block it is about, the builders of this node that
\* confirm it in the end, what follows add_block ("pushed" or "check"), the
\* blocks left to confirm and to erase, and the number of the block where a
\* fork switch leaves the old branch.
NoJob ==
  [blk |-> NoBlock, by |-> {}, then |-> "check", todo |-> {}, erase |-> {}, meet |-> 0]

\* first_initialize
Init ==
  \E bld \in Builders :
    /\ blocks = <<GenesisBlock(bld)>>
    /\ known = {Genesis}
    /\ pack = [b \in {Genesis} |-> RootPack(b, TRUE)]
    /\ fork_head = Genesis
    /\ block_head = Genesis
    /\ db = [state |-> <<Genesis>>, undo |-> <<>>, rev |-> 1]
    /\ building = FALSE
    /\ log = <<Genesis>>
    /\ lib = 0
    /\ pc = "idle"
    /\ job = NoJob
    /\ file = FALSE
    /\ restarts = 0

-----------------------------------------------------------------------------
\* The handler is over, by return or by an exception that is caught and logged.
Done == pc' = "idle" /\ job' = NoJob

\* Mutant: the session is dropped without an undo.
NotAborted == db

\* _abort_build: the destructor of the session undoes it.
Aborted == IF building THEN UndoSession(db) ELSE db

\* _abort_build and _start_build, and the transactions of block b.
Started(b) == [StartSession(Aborted) EXCEPT !.state = Append(@, b)]

\* fork_context::add_block(pack): insert block b, update the head and see
\* whether a block became irreversible; then says who called.
AddBlock(b, q, then) ==
  \/ /\ b \in known                                 \* duplicate state detected
     /\ Done
     /\ UNCHANGED forkVars
  \/ /\ b \notin known
     /\ known' = known \cup {b}
     /\ LET P == Inserted(b, q, pack) IN \E h \in Longest(known', P) :
          LET next == [job EXCEPT !.then = then]
              Grow(l, Q) ==
                /\ pack' = Q
                /\ pc' = "grow"
                /\ job' = [next EXCEPT !.todo = ToConfirm(l, known', Q),
                                       !.erase = ToErase(l, known', Q)]
          IN /\ fork_head' = h
             /\ \/ /\ GrowsByConfirmation(h, known', P)
                   /\ Grow(P[h].lc, P)
                \/ /\ GrowsByDpos(h, known', P) /\ P[h].dpos \in known'
                   /\ Grow(P[h].dpos, Confirming(P[h].dpos, known', P))
                \/ /\ GrowsByDpos(h, known', P) /\ P[h].dpos \notin known'
                   /\ pack' = P                     \* unknown block id
                   /\ Done
                \/ /\ ~GrowsByConfirmation(h, known', P) /\ ~GrowsByDpos(h, known', P)
                   /\ pack' = P
                   /\ pc' = then /\ job' = next

\* _apply_block throws for block b: before _abort_build, in _start_build, or
\* after it, and then the session of the block stays open.
Failed(b) ==
  \/ UNCHANGED <<db, building>>
  \/ db' = Aborted /\ building' = FALSE
  \/ db' = Started(b) /\ building' = TRUE

\* _apply_block(b, true) and build_block up to fork_db.add_block: b is built
\* on block_head.
PushNext(b, good) ==
  /\ \/ /\ good
        /\ db' = Started(b) /\ building' = TRUE
        /\ AddBlock(b, PackOn(block_head, pack[block_head], TRUE), "pushed")
     \/ ~good /\ Failed(b) /\ Done /\ UNCHANGED forkVars
  /\ UNCHANGED <<block_head, log, lib>>

\* push_fork(b) up to _check_fork: the previous block must be known.
PushFork(b) ==
  /\ \/ Prev(b) \in known /\ AddBlock(b, PackOn(Prev(b), pack[Prev(b)], FALSE), "check")
     \/ Prev(b) \notin known /\ Done /\ UNCHANGED forkVars
  /\ UNCHANGED <<block_head, db, building, log, lib>>

\* Environment: a block with path q arrives only while it is at most ForkDepth
\* blocks above the branch of block_head.
NearHead(q) ==
  \E n \in 1..Len(q) :
    /\ n <= Num(block_head) /\ q[n] = Path(block_head)[n]
    /\ n = Num(block_head) \/ Len(q) - n <= ForkDepth

\* Block b reaches a handler, after which the node confirms it by its keys.
Deliver(b, handler, keys) ==
  /\ pc = "idle"
  /\ pc' = handler
  /\ job' = [NoJob EXCEPT !.blk = b, !.by = keys]
  /\ UNCHANGED <<forkVars, block_head, db, building, log, lib, file, restarts>>

\* Somebody else built a block on p and it arrives.  Blocks whose previous
\* block this node does not know have no effect and are left out.
Receive(p, bld, rank, good) ==
  /\ Len(blocks) < MaxBlocks
  /\ p \in known \cup {block_head}
  /\ good \/ bld \in Faulty
  /\ NearHead(Append(Path(p), Len(blocks) + 1))
  /\ blocks' = Append(blocks, NewBlock(p, bld, rank, good))
  /\ Deliver(Len(blocks) + 1, "recv", Own)

\* A block arrives again (from another peer, or during a sync).
ReceiveAgain(b) ==
  /\ NearHead(Path(b))
  /\ Deliver(b, "recv", Own)
  /\ UNCHANGED blocks

\* recieve_block
RecieveBlock ==
  LET b == job.blk
  IN /\ pc = "recv"
     /\ \/ Prev(b) = block_head /\ PushNext(b, blocks[b].good)
        \/ Prev(b) # block_head /\ lib < Num(b) /\ PushFork(b)
        \/ /\ Prev(b) # block_head /\ lib >= Num(b)
           /\ Done
           /\ UNCHANGED <<forkVars, block_head, db, building, log, lib>>
     /\ UNCHANGED <<blocks, file, restarts>>

\* next_block_impl: the slot belongs to a builder whose key the node holds.
Build(bld, rank) ==
  /\ Len(blocks) < MaxBlocks
  /\ blocks' = Append(blocks, NewBlock(block_head, bld, rank, TRUE))
  /\ Deliver(Len(blocks) + 1, "build", Own \ {bld})

\* build_block, for transactions whose exceptions it catches; any other one
\* ends the process as Shutdown does, before the block is added.
BuildBlock ==
  /\ pc = "build"
  /\ PushNext(job.blk, TRUE)
  /\ UNCHANGED <<blocks, file, restarts>>

\* A confirmation of block b by another builder arrives (add_confirmation
\* throws for a block the fork database does not know).
Confirm(b) ==
  /\ pc = "idle"
  /\ Confirmers # {}
  /\ b \in known
  /\ pack' = Confirmed(b, known, pack)
  /\ UNCHANGED <<blocks, known, fork_head, nodeVars>>

-----------------------------------------------------------------------------
\* The two asserts of on_irreversible.
LinksToLog(b) == Num(b) - 1 = Num(Last(log)) /\ Prev(b) = Last(log)

\* The next block of confiremdlist.
NextConfirmed(b) == b \in job.todo /\ \A c \in job.todo : ~NumberLess(c, b, pack)

\* on_irreversible and _irreversible_block up to the block log.
Irreversible(b) ==
  /\ pc = "grow"
  /\ NextConfirmed(b)
  /\ \/ /\ LinksToLog(b)
        /\ lib' = Num(b)
        /\ log' = Append(log, b)
        /\ pc' = "commit"
        /\ UNCHANGED job
     \/ /\ ~LinksToLog(b)
        /\ Done
        /\ UNCHANGED <<lib, log>>
  /\ UNCHANGED <<blocks, forkVars, block_head, db, building, file, restarts>>

\* The rest of _irreversible_block and of the irreversible event: the undo
\* sessions up to the block are dropped.
Commit ==
  LET b == Last(log)
  IN /\ pc = "commit"
     /\ db' = CommitSessions(db, Num(b))
     /\ pack' = [pack EXCEPT ![b].irr = TRUE]
     /\ pc' = "grow"
     /\ job' = [job EXCEPT !.todo = @ \ {b}]
     /\ UNCHANGED <<blocks, known, fork_head, block_head, building, log, lib,
                    file, restarts>>

\* The end of on_last_confirmed_grow.
Erase ==
  /\ pc = "grow" /\ job.todo = {}
  /\ known' = known \ job.erase
  /\ pc' = job.then
  /\ job' = [job EXCEPT !.erase = {}]
  /\ UNCHANGED <<blocks, pack, fork_head, block_head, db, building, log, lib,
                 file, restarts>>

-----------------------------------------------------------------------------
\* confirmation_block_self, and the end of confirm_block for a received block:
\* the node confirms the head with its keys.
OwnConfirmed(b) ==
  IF job.by # {} /\ b \in known THEN Confirmed(b, known, pack) ELSE pack

\* _push_block after add_block, _commit_block, and the node's own confirmations.
Pushed ==
  LET b == job.blk
  IN /\ pc = "pushed"
     /\ block_head' = fork_head
     /\ \/ /\ fork_head # b               \* error new head in fork database
           /\ UNCHANGED <<building, pack>>
        \/ /\ fork_head = b
           /\ building' = FALSE
           /\ pack' = OwnConfirmed(b)
     /\ Done
     /\ UNCHANGED <<blocks, known, fork_head, db, log, lib, file, restarts>>

-----------------------------------------------------------------------------
\* The head of the loop in _check_fork.  With an empty branch to undo it
\* dereferences the end of the branch.
CheckFork ==
  /\ pc = "check"
  /\ LET n == MeetNum(block_head, fork_head)
         found == BranchesKnown(block_head, fork_head, known)
         fork == ~pack[fork_head].main
     IN \/ ~fork /\ Done
        \/ fork /\ ~found /\ Done
        \/ /\ fork /\ found /\ n < Num(block_head)
           /\ pc' = "pop" /\ job' = [job EXCEPT !.meet = n]
        \/ /\ fork /\ found /\ n = Num(block_head)
           /\ pc' = "down" /\ job' = NoJob
  /\ UNCHANGED <<blocks, forkVars, block_head, db, building, log, lib, file, restarts>>

\* _pop_block, as often as the old branch has blocks; then the new branch, if
\* it has any.
Pop ==
  /\ pc = "pop"
  /\ pack' = [pack EXCEPT ![block_head].main = FALSE]
  /\ block_head' = Prev(block_head)
  /\ db' = UndoSession(db)
  /\ pc' = IF Num(block_head') # job.meet THEN "pop"
           ELSE IF block_head' = fork_head THEN "check" ELSE "apply"
  /\ UNCHANGED <<blocks, known, fork_head, building, log, lib, job, file, restarts>>

\* One block of the new branch.  A bad one ends the branch and is removed, when
\* the loop catches what it throws.  Any other exception leaves _check_fork in
\* the middle of the switch and is only logged by push_fork: the session of
\* the block stays open and the bad branch stays the longest.
Apply ==
  /\ pc = "apply"
  /\ LET b == Path(fork_head)[Num(block_head) + 1]
     IN \/ /\ blocks[b].good
           /\ db' = Started(b) /\ building' = FALSE
           /\ block_head' = b
           /\ pack' = [pack EXCEPT ![b].main = TRUE]
           /\ pc' = IF b = fork_head THEN "check" ELSE "apply"
           /\ UNCHANGED <<known, fork_head, job>>
        \/ /\ ~blocks[b].good
           /\ Failed(b)
           /\ known' = known \ RemovedWith(b, known)
           /\ fork_head' \in Longest(known', pack)
           /\ pc' = "check"
           /\ UNCHANGED <<block_head, pack, job>>
        \/ /\ ~blocks[b].good /\ blocks[b].bld \in Uncaught
           /\ db' = Started(b) /\ building' = TRUE
           /\ Done
           /\ UNCHANGED <<forkVars, block_head>>
  /\ UNCHANGED <<blocks, log, lib, file, restarts>>

-----------------------------------------------------------------------------
\* The process is killed: the fork database, which lives in memory, is lost;
\* the mapped file of the undo database and the log stay as they are.
Kill ==
  /\ (IF pc = "commit" THEN "torn" ELSE "kill") \in Ends
  /\ pc # "down" /\ restarts < MaxRestarts
  /\ pc' = "down" /\ job' = NoJob
  /\ building' = FALSE
  /\ file' = FALSE
  /\ restarts' = restarts + 1
  /\ UNCHANGED <<blocks, forkVars, block_head, db, log, lib>>

\* forkdatabase::close writes the file unless there is no pack.
ForkDbSaved == known # {}

\* ~chain_context: drop an open session and write the fork database.
Shutdown ==
  /\ "stop" \in Ends
  /\ pc = "idle" /\ restarts < MaxRestarts
  /\ pc' = "down"
  /\ db' = Aborted /\ building' = FALSE
  /\ file' = ForkDbSaved
  /\ restarts' = restarts + 1
  /\ UNCHANGED <<blocks, forkVars, block_head, log, lib, job>>

\* Mutant: the head is that of the lost fork database.
HeadWithoutFile == fork_head

\* The head initialize_impl finds: that of the fork database file, or the last
\* block of the log.
RestartHead == IF file THEN fork_head ELSE Last(log)

\* The constructor of the fork database reads the file; without one it is
\* empty, and initialize_impl makes a pack for the log's last block.
ForkDbLoaded(h) ==
  \/ file /\ UNCHANGED forkVars
  \/ /\ ~file
     /\ pack' = [pack EXCEPT ![h] = RootPack(h, FALSE)]
     /\ fork_head' = NoBlock /\ known' = {}

\* The constructors and initialize_impl.
Start ==
  /\ pc = "down"
  /\ LET h == RestartHead
     IN /\ Num(h) <= db.rev
        /\ block_head' = h
        /\ ForkDbLoaded(h)
        /\ db' = IF Num(h) = db.rev THEN db
                 ELSE [UndoAllSessions(db) EXCEPT !.rev = Num(h)]
        /\ lib' = db.rev
  /\ building' = FALSE
  /\ file' = FALSE
  /\ Done
  /\ UNCHANGED <<blocks, log, restarts>>

-----------------------------------------------------------------------------
\* The steps of a running handler.
Step ==
  \/ RecieveBlock \/ BuildBlock
  \/ \E b \in BlockIds : Irreversible(b)
  \/ Commit \/ Erase
  \/ Pushed
  \/ CheckFork \/ Pop \/ Apply

Next ==
  \/ \E p \in BlockIds, bld \in Builders \ Own, rank \in Ranks, good \in BOOLEAN :
       Receive(p, bld, rank, good)
  \/ \E b \in BlockIds : ReceiveAgain(b)
  \/ \E bld \in Own, rank \in Ranks : Build(bld, rank)
  \/ \E b \in BlockIds : Confirm(b)
  \/ Step
  \/ Kill \/ Shutdown \/ Start

Spec == Init /\ [][Next]_vars

\* A handler that runs goes on: nothing in it waits.
FairSpec == Spec /\ WF_vars(Step)

-----------------------------------------------------------------------------
Idle == pc = "idle"

PackType ==
  [main : BOOLEAN, lc : BlockIds \cup {NoBlock}, dpos : BlockIds \cup {NoBlock},
   win : Seq(BlockIds), irr : BOOLEAN, conf : BOOLEAN]

\* The types of the variables; a block_pack exists for every known block and
\* for block_head, and no DPoS window is longer than dpos_irreversible_need.
TypeOK ==
  /\ blocks \in Seq([prev : Nat, num : Nat, bld : Builders, rank : Nat,
                     good : BOOLEAN, path : Seq(Nat)])
  /\ known \subseteq BlockIds
  /\ known \cup {block_head} \subseteq DOMAIN pack /\ DOMAIN pack \subseteq BlockIds
  /\ \A b \in DOMAIN pack : pack[b] \in PackType /\ Len(pack[b].win) <= DposNeed
  /\ fork_head \in BlockIds \cup {NoBlock} /\ block_head \in BlockIds
  /\ db.state \in Seq(BlockIds) /\ db.rev \in Nat
  /\ db.undo \in Seq([rev : Nat, to : Seq(BlockIds)])
  /\ building \in BOOLEAN /\ file \in BOOLEAN
  /\ log \in Seq(BlockIds) /\ lib \in Nat
  /\ pc \in {"idle", "recv", "build", "grow", "commit", "pushed", "check", "pop",
             "apply", "down"}
  /\ job.blk \in BlockIds \cup {NoBlock} /\ job.by \subseteq Own /\ job.then \in {"pushed", "check"}
  /\ job.todo \subseteq BlockIds /\ job.erase \subseteq BlockIds /\ job.meet \in Nat
  /\ restarts \in 0..MaxRestarts

\* Between two handlers the undo database holds the effects of block_head and
\* the blocks it is built on, in their order, and of no other block, once the
\* session a failed handler left open is dropped.
DbFollowsHead == Idle => Aborted.state = Path(block_head)

\* The revision of the undo database is the number of the head, and one
\* session is left for each block above the log: every block that may still be
\* popped can be undone, and initialize_impl finds the right revision.
UndoSpansLog ==
  Idle => /\ Aborted.rev = Num(block_head)
          /\ Len(Aborted.undo) = Num(block_head) - Num(Last(log))

\* The main_chain flags of the fork database mark the branch of block_head.
MainIsHeadBranch ==
  Idle => \A b \in known : pack[b].main <=> b \in Range(Path(block_head))

\* Each block of the log is built on the one before it.
LogLinked ==
  \A i \in 1..(Len(log) - 1) :
    Prev(log[i + 1]) = log[i] /\ Num(log[i + 1]) = Num(log[i]) + 1

\* What was made irreversible is on the branch of block_head.
LogOnHead == Idle => IsPrefix(log, Path(block_head))

\* chain_xmax and the fork database agree on the head, unless the fork database
\* was lost and no block has arrived since.
HeadIsForkHead == Idle /\ known # {} => block_head = fork_head /\ block_head \in known

\* After every handler, whether it succeeded or threw, the places that keep the
\* chain agree: database, undo sessions, flags and head of the fork database, and log.
StoresAgree ==
  DbFollowsHead /\ UndoSpansLog /\ MainIsHeadBranch /\ LogOnHead /\ HeadIsForkHead

\* No block that fell out of the DPoS window of the head misses from the log.
FinalityKeepsUp == Idle => Num(pack[block_head].dpos) <= Num(Last(log))

\* Without confirmations a block becomes irreversible only after builders took
\* turns on top of it at least dpos_irreversible_need times.
Turns(q, n) == Cardinality({m \in n..(Len(q) - 2) : blocks[q[m]].bld # blocks[q[m + 1]].bld})

FinalityNeedsTurns ==
  [][Len(log') > Len(log) => Turns(Path(fork_head), Num(Last(log'))) >= DposNeed]_vars

\* _pop_block never takes a block back that is in the log.
NeverPopIrreversible == [][Pop => block_head \notin Range(log)]_vars

\* Every handler comes to its end: _check_fork neither loops forever nor takes
\* the process down.
HandlerEnds == pc # "idle" ~> pc = "idle"

\* on_irreversible: no block that fails its asserts reaches it.
IrreversibleLinks == [][\A b \in BlockIds : Irreversible(b) => LinksToLog(b)]_vars

\* _push_block: the block that was pushed is the head of the fork database.
PushedIsHead == [][Pushed => fork_head = job.blk]_vars

\* fetch_branch_from_fork finds the whole of both branches.
BranchesFound ==
  [][CheckFork => pack[fork_head].main \/ BranchesKnown(block_head, fork_head, known)]_vars

\* _check_fork: the first block of the branch to undo is block_head, so there is one.
OriginBranch == [][CheckFork => pc' # "down"]_vars

\* last_irreversible_block_num is the number of the last block of the log.
LibIsLog == Idle /\ Len(log) > 1 => lib = Num(Last(log))

\* initialize_impl: the head that a restart finds is not above the database.
CanStart == pc = "down" => Num(RestartHead) <= db.rev

=============================================================================
