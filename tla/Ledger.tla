-------------------------------- MODULE Ledger --------------------------------
(***************************************************************************)
(* The way of a transaction through a node: the pool, the block that is    *)
(* being built, the database and its undo sessions, blocks of others, and  *)
(* a switch of the fork (chain/chain_xmax.cpp).  ChainNode has the fork     *)
(* database and the log; here a chain is the sequence of its blocks above   *)
(* the genesis block, and a block its builder and its transactions.         *)
(*                                                                         *)
(* A transaction is [id, gas, gaslimit, payer, auth, exp, msgs]: auth says  *)
(* whether check_authorization accepts it (Authority), and exp is the last *)
(* height at which validate_expiration does.                               *)
(***************************************************************************)
EXTENDS Tokens, UndoStack, SequencesExt, Functions

CONSTANTS Trxs,         \* the transactions
          Builders,
          Supply,       \* initial_token_supply
          Accounts,     \* initial_accounts: their names, staking_balance and main_token
          MaxMessages,  \* block_max_message_count, 500 in the code
          MaxPushes,    \* bound: calls of push_transaction
          MaxBlocks,    \* bound: blocks of the chain
          MaxPeer       \* bound: transactions of a block of another builder

\* The order of transactions with the same gas in the heap is not modelled.
ASSUME LedgerAssumption ==
  /\ \A t, u \in Trxs : t.gas = u.gas => t = u
  /\ MaxMessages \in Nat /\ MaxPushes \in Nat /\ MaxBlocks \in Nat /\ MaxPeer \in Nat

\* Gas is unsigned and every amount has its type; "none" is no builder.
ASSUME AmountsAssumption ==
  /\ \A t \in Trxs : /\ t.gas \in Nat /\ t.gaslimit \in Nat /\ Len(t.msgs) \in Nat
                     /\ \A i \in 1..Len(t.msgs) : AmountOK(t.msgs[i])
  /\ Supply \in Nat /\ Len(Accounts) \in Nat
  /\ \A i \in 1..Len(Accounts) :
        Accounts[i].staking \in ShareType /\ Accounts[i].tokens \in ShareType
  /\ "none" \notin Builders

VARIABLES db,        \* block_db
          building,  \* building_block: who builds, and the receipts
          pool,      \* pending_transactions, from the top of the heap
          chain,
          lib,       \* blocks of the chain that are irreversible
          pushes

vars == <<db, building, pool, chain, lib, pushes>>

System == "xmax"

\* The contents before the genesis transaction: prepare_data creates the system
\* account.
Empty == [acct |-> [a \in {System} |-> "system"], main |-> [a \in {System} |-> Supply],
          erc |-> <<>>, hold |-> <<>>, nft |-> <<>>, data |-> 0, msgs |-> 0,
          done |-> {}, trxs |-> 0]

SystemMessage(type, to, amount) ==
  [code |-> System, type |-> type, from |-> System, to |-> to, amount |-> amount,
   token |-> "none"]

\* prepare_data: the messages of the genesis transaction that move tokens; those
\* that register builders are in BuilderSchedule.
Allocation(a) ==
  <<SystemMessage("addaccount", a.name, a.staking)>>
    \o (IF a.tokens > 0 THEN <<SystemMessage("transfer", a.name, a.tokens)>> ELSE <<>>)

GenesisMessages ==
  LET after[i \in 0..Len(Accounts)] ==
        IF i = 0 THEN <<>> ELSE after[i - 1] \o Allocation(Accounts[i])
  IN after[Len(Accounts)]

NoBuild == [by |-> "none", trxs |-> <<>>]

-----------------------------------------------------------------------------
\* validate_referenced_accounts
ReferencedKnown(t, s) ==
  \A i \in 1..Len(t.msgs) : {t.msgs[i].code, t.msgs[i].from} \subseteq DOMAIN s.acct

\* Mutant: a transaction may come again.
CheckOnce(t, d, height) ==
  t.msgs # <<>> /\ height <= t.exp /\ ReferencedKnown(t, d.state)

\* check_trx, with a chain of a height.
CheckTrx(t, d, height) ==
  /\ t.msgs # <<>> /\ height <= t.exp
  /\ ReferencedKnown(t, d.state)
  /\ t.id \notin d.state.done

\* check_gaspayer; without a token object of the payer it throws (see Escapes).
PayerCovers(t, s) ==
  t.gaslimit = 0 \/ (t.payer \in DOMAIN s.main /\ s.main[t.payer] >= t.gaslimit)

\* transfer_gas; without a token object of the payer or the builder it throws (see
\* Escapes).
TransferGas(t, by, s, used) ==
  IF used = 0 THEN Returns(s)
  ELSE IF ~{t.payer, by} \subseteq DOMAIN s.main \/ s.main[t.payer] < used THEN Throws(s)
  ELSE Returns([s EXCEPT !.main = Moved(s.main, t.payer, by, used)])

\* record_transaction and apply_transaction_receipt
Receipt(t, res) ==
  IF res.ok THEN Returns([res.s EXCEPT !.done = @ \cup {t.id}, !.trxs = @ + 1]) ELSE res

\* What apply_transaction_impl does with the messages that have run.
Concluded(t, by, run) ==
  IF ~run.ok THEN Throws(run.s) ELSE Receipt(t, TransferGas(t, by, run.s, run.gas))

\* Impl.exec
Exec(t, s) ==
  ExecAll(t.msgs, [ok |-> TRUE, s |-> s, gas |-> 0, price |-> t.gas, limit |-> t.gaslimit])

\* The body of apply_transaction_impl on contents s, for builder by.
Effect(t, by, s) ==
  IF ~PayerCovers(t, s) \/ ~t.auth THEN Throws(s) ELSE Concluded(t, by, Exec(t, s))

\* What it throws is a std::out_of_range of db.get, which it does not catch: the
\* session of the transaction is undone as for any exception, but the exception
\* goes on to the caller.
Escapes(t, by, s) ==
  \/ t.gaslimit > 0 /\ t.payer \notin DOMAIN s.main
  \/ /\ PayerCovers(t, s) /\ t.auth
     /\ LET run == Exec(t, s)
        IN run.ok /\ run.gas > 0 /\ ~{t.payer, by} \subseteq DOMAIN run.s.main

\* What the genesis transaction does.
GenesisEffect ==
  Effect([id |-> "genesis", gas |-> 0, gaslimit |-> 0, payer |-> "none", auth |-> TRUE,
          exp |-> 0, msgs |-> GenesisMessages], System, Empty)

\* The contents after the genesis block; a node starts also when the genesis
\* transaction throws, without what it did.
Genesis == IF GenesisEffect.ok THEN GenesisEffect.s ELSE Empty

Init ==
  /\ db = [state |-> Genesis, undo |-> <<>>, rev |-> 1]
  /\ building = NoBuild
  /\ pool = <<>>
  /\ chain = <<>> /\ lib = 0 /\ pushes = 0

\* Mutant: the session of a transaction that throws is squashed as well.
CloseKeeping(t, b, res) ==
  [db |-> SquashSession([b.db EXCEPT !.state = res.s]),
   build |-> IF res.ok THEN [b.build EXCEPT !.trxs = Append(@, t)] ELSE b.build]

\* The end of apply_transaction_impl, on a block b = [db, build] with the session
\* of the transaction open: it is squashed into that of the block, or undone when
\* something threw.
Close(t, b, res) ==
  IF res.ok
  THEN [db |-> SquashSession([b.db EXCEPT !.state = res.s]),
        build |-> [b.build EXCEPT !.trxs = Append(@, t)]]
  ELSE [b EXCEPT !.db = UndoSession(@)]

\* apply_transaction_impl
ApplyImpl(t, b) ==
  Close(t, [b EXCEPT !.db = StartSession(@)], Effect(t, b.build.by, b.db.state))

\* apply_transaction
ApplyTrx(t, b, height) == IF CheckTrx(t, b.db, height) THEN ApplyImpl(t, b) ELSE b

\* _abort_build
Aborted(d, open) == IF open THEN UndoSession(d) ELSE d

\* _abort_build, _start_build and the transactions ts of a block of by.
Built(d, open, by, ts, height) ==
  LET start == [db |-> StartSession(Aborted(d, open)), build |-> [by |-> by, trxs |-> <<>>]]
      after[i \in 0..Len(ts)] == IF i = 0 THEN start ELSE ApplyTrx(ts[i], after[i - 1], height)
  IN after[Len(ts)]

\* The transactions of ts that end the block: their exception escapes.
EscapesAt(d, open, by, ts, height) ==
  {i \in 1..Len(ts) :
     LET b == Built(d, open, by, SubSeq(ts, 1, i - 1), height)
     IN CheckTrx(ts[i], b.db, height) /\ Escapes(ts[i], by, b.db.state)}

Open == building # NoBuild
Height == Len(chain)

-----------------------------------------------------------------------------
\* pending_transactions.push: the heap is ordered by gas_sort.
Inserted(t) ==
  LET before == Cardinality({i \in 1..Len(pool) : pool[i].gas >= t.gas})
  IN SubSeq(pool, 1, before) \o <<t>> \o SubSeq(pool, before + 1, Len(pool))

\* push_transaction: with a block left open by a handler that threw, the
\* transaction is applied to it; the caller logs any exception.
Push(t) ==
  /\ pushes < MaxPushes
  /\ pushes' = pushes + 1
  /\ \/ /\ CheckTrx(t, db, Height) /\ ~Open
        /\ pool' = Inserted(t)
        /\ UNCHANGED <<db, building>>
     \/ /\ CheckTrx(t, db, Height) /\ Open
        /\ LET b == ApplyImpl(t, [db |-> db, build |-> building])
           IN db' = b.db /\ building' = b.build
        /\ UNCHANGED pool
     \/ ~CheckTrx(t, db, Height) /\ UNCHANGED <<db, building, pool>>
  /\ UNCHANGED <<chain, lib>>

MessagesOf(ts) ==
  LET after[i \in 0..Len(ts)] == IF i = 0 THEN 0 ELSE after[i - 1] + Len(ts[i].msgs)
  IN after[Len(ts)]

\* Mutant: a block that is full does not fit.
SelectedBelow ==
  Max({0} \cup {n \in 0..Len(pool) : MessagesOf(SubSeq(pool, 1, n)) < MaxMessages})

\* select_transactions_by_gas: how many it takes; it stops at the first one that
\* does not fit.
Selected ==
  Max({n \in 0..Len(pool) : MessagesOf(SubSeq(pool, 1, n)) <= MaxMessages})

\* A block is pushed: the session of b stays as that of the block.
Pushes(b) ==
  /\ db' = b.db
  /\ chain' = Append(chain, b.build)
  /\ building' = NoBuild

\* The handler throws with block b open.
LeavesOpen(b) ==
  /\ db' = b.db
  /\ building' = b.build
  /\ UNCHANGED chain

\* What build_block selects, and the transactions in it whose exception escapes.
Selection == SubSeq(pool, 1, Selected)
SelectedEscape(by) == EscapesAt(db, Open, by, Selection, Height) # {}

\* The first half of build_block takes what it selects out of the pool.  An
\* exception that escapes takes the process down, and the pool with it.
TakeSelected(by) ==
  pool' = IF SelectedEscape(by) THEN <<>> ELSE SubSeq(pool, Selected + 1, Len(pool))

\* The process ends and starts again: ~chain_context drops the open block and
\* writes the fork database (ChainNode).
Exits ==
  /\ db' = Aborted(db, Open)
  /\ building' = NoBuild
  /\ UNCHANGED chain

\* build_block; it may throw after the transactions, from _push_block.  The
\* builder plugin catches the exceptions of fc, not those of std.
BuildBlock(by, throws) ==
  /\ throws \/ Height < MaxBlocks
  /\ TakeSelected(by)
  /\ LET b == Built(db, Open, by, Selection, Height)
     IN \/ SelectedEscape(by) /\ Exits
        \/ ~SelectedEscape(by) /\ throws /\ LeavesOpen(b)
        \/ ~SelectedEscape(by) /\ ~throws /\ Pushes(b)
  /\ UNCHANGED <<lib, pushes>>

\* The end of _apply_block: _validate_block throws unless the block that was built
\* has the transactions ts.
Validated(b, ts) == IF b.build.trxs = ts THEN Pushes(b) ELSE LeavesOpen(b)

\* _apply_block of a block of another builder.  An exception that escapes leaves
\* the block open with the transactions before; chainnet_plugin logs it.
PeerBlock(by, ts) ==
  LET bad == EscapesAt(db, Open, by, ts, Height)
  IN /\ Height < MaxBlocks
     /\ \/ bad = {} /\ Validated(Built(db, Open, by, ts, Height), ts)
        \/ bad # {} /\ LeavesOpen(Built(db, Open, by, SubSeq(ts, 1, Min(bad) - 1), Height))
     /\ UNCHANGED <<pool, lib, pushes>>

\* The end of a switch to two good blocks.
Switched(b, c, ts, us) ==
  /\ b.build.trxs = ts /\ c.build.trxs = us
  /\ db' = c.db
  /\ chain' = SubSeq(chain, 1, Height - 1) \o <<b.build, c.build>>
  /\ building' = NoBuild
  /\ UNCHANGED <<pool, lib, pushes>>

\* _check_fork: the head is popped and two good blocks are applied.  _pop_block
\* undoes the newest session, which may be that of an open block; the first
\* _abort_build undoes the other.
Switch(by, ts, us) ==
  LET b == Built(UndoSession(db), Open, by, ts, Height - 1)
  IN /\ lib < Height /\ Height < MaxBlocks
     /\ Switched(b, Built(b.db, FALSE, by, us, Height), ts, us)

\* _start_build throws, because the block is not later than the head: the block
\* that was open has been abandoned.
StartFails ==
  /\ Open
  /\ db' = Aborted(db, Open)
  /\ building' = NoBuild
  /\ UNCHANGED <<pool, chain, lib, pushes>>

\* _irreversible_block
Irreversible ==
  /\ lib < Height
  /\ lib' = lib + 1
  /\ db' = CommitSessions(db, lib + 2)
  /\ UNCHANGED <<building, pool, chain, pushes>>

TrxLists == UNION {[1..n -> Trxs] : n \in 0..MaxPeer}

Next ==
  \/ \E t \in Trxs : Push(t)
  \/ \E by \in Builders, throws \in BOOLEAN : BuildBlock(by, throws)
  \/ \E by \in Builders, ts \in TrxLists : PeerBlock(by, ts)
  \/ \E by \in Builders, ts, us \in TrxLists : Switch(by, ts, us)
  \/ StartFails
  \/ Irreversible

Spec == Init /\ [][Next]_vars

\* The timer of the block builder fires in every slot, and in those of this node
\* calls build_block, the only action that takes transactions out of the pool,
\* whether it throws or not.
Taken == Selected > 0 /\ pool' \in {<<>>, SubSeq(pool, Selected + 1, Len(pool))}

FairSpec == Spec /\ WF_pool(Taken)

-----------------------------------------------------------------------------
\* The shape of the state: balances have their types, a session is open for every
\* block that is not irreversible and for the open one, and every count is
\* within its bound.
TypeOK ==
  /\ \A a \in DOMAIN db.state.main : db.state.main[a] \in Nat
  /\ \A h \in DOMAIN db.state.hold : db.state.hold[h] \in ShareType
  /\ Len(db.undo) = Height - lib + (IF Open THEN 1 ELSE 0)
  /\ db.rev = 1 + Height + (IF Open THEN 1 ELSE 0)
  /\ Len(pool) <= MaxPushes
  /\ Height <= MaxBlocks /\ lib \in 0..Height /\ pushes \in 0..MaxPushes

\* The transactions of the chain and of the open block, oldest first.
ReceiptsOf(bs) ==
  LET after[i \in 0..Len(bs)] == IF i = 0 THEN <<>> ELSE after[i - 1] \o bs[i].trxs
  IN after[Len(bs)]

Receipts == ReceiptsOf(Append(chain, building))

\* What a node has that applies block b, and nothing else, to contents s.
Replayed(s, b) ==
  LET after[i \in 0..Len(b.trxs)] ==
        IF i = 0 THEN s ELSE Effect(b.trxs[i], b.by, after[i - 1]).s
  IN after[Len(b.trxs)]

\* What a node has that applies the blocks bs, one after the other.
Replay(bs) ==
  LET after[i \in 0..Len(bs)] == IF i = 0 THEN Genesis ELSE Replayed(after[i - 1], bs[i])
  IN after[Len(bs)]

\* The contents of the database are what the blocks of the chain, and the open
\* block, do to the genesis state: neither a transaction that threw, nor a block
\* that was abandoned or popped, nor one that was pushed while another was open
\* leaves a trace, and every node that applies the blocks has the same contents.
StateIsReplay == db.state = Replay(Append(chain, building))

\* No transaction is twice in the chain and the open block, and the database
\* knows exactly those that are there, and the genesis transaction if it applied.
RecordedOnce ==
  /\ \A i, j \in 1..Len(Receipts) : Receipts[i].id = Receipts[j].id => i = j
  /\ db.state.done = Genesis.done \cup {Receipts[i].id : i \in 1..Len(Receipts)}
  /\ db.state.trxs = Genesis.trxs + Len(Receipts)

\* Allocations, transfers, deposits and gas neither make nor lose main tokens.
MainTokensConserved == SumFunction(db.state.main) = Supply

\* The balances of an erc20 token add up to its supply, in the arithmetic of
\* share_type.
SupplyMatches ==
  LET s == db.state
  IN \A k \in DOMAIN s.erc :
       s.erc[k].std = "erc20" =>
         (s.erc[k].supply - SumFunctionOnSet(s.hold, {h \in DOMAIN s.hold : h[1] = k}))
           % (2 * ShareHalf) = 0

\* Whatever is allocated, transferred, deposited, paid for gas, minted, run again
\* for a recipient or left half done by a throw, no token is made or lost.
TokensConserved == MainTokensConserved /\ SupplyMatches

\* A transaction in the pool leaves it, when transactions stop coming and none is
\* too large for a block.
PoolDrains == \A t \in Trxs : Contains(pool, t) ~> ~Contains(pool, t)

\* An initial account starts with what the genesis file gives it.
AllocatedOnce ==
  \A i \in 1..Len(Accounts) :
    Genesis.main[Accounts[i].name] = Accounts[i].staking + Accounts[i].tokens

=============================================================================
