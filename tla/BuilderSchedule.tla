-------------------------- MODULE BuilderSchedule --------------------------
(***************************************************************************)
(* Who builds which slot.  Time is a sequence of slots, a round is         *)
(* RoundSlots of them.  The first block of a round announces, in its       *)
(* header, the rule (list of builders) of the round after it.  A node      *)
(* keeps the schedule twice: in the packs of its chain, from which         *)
(* block_pack::init_by_pre_pack names the builder of a new block, and in   *)
(* the database (static_config, dynamic_states), from which the builder    *)
(* plugin decides whether it is its turn and with which key to sign.       *)
(*                                                                         *)
(* The rules come from the registered builders (xmax_voting).  A stake     *)
(* would order them by votes, but no code creates the resource_token       *)
(* object that lock needs, so every total_votes is 0 and next_round takes  *)
(* the builders registered last.                                           *)
(*                                                                         *)
(* The chain of the node is the sequence packs; dbs[i] is the database     *)
(* after block i, so popping a block is dropping the last of both (that    *)
(* undo gives the earlier database back is what UndoDb shows).  Fork       *)
(* choice and finality belong to ChainNode: here a block may be popped     *)
(* until it is irreversible, and becomes irreversible at any time.         *)
(***************************************************************************)
EXTENDS Integers, FiniteSets, Functions, Sequences, SequencesExt

CONSTANTS
    Names,              \* accounts that may register as builders (numbers: ordered)
    Keys,               \* public keys
    XMax, XMaxKey,      \* the builder of the genesis rule
    NoKey,              \* empty_public_key
    Genesis,            \* the builders registered by genesis.json, in order
    Own,                \* builders whose names and keys this node holds
    BuildersPerRound,   \* Config::builders_per_round
    BlocksPerBuilder,   \* Config::blocks_per_builder
    Kills,              \* when the process may die: "rest", "open"
    MaxTime,            \* bound on the slots of a behaviour
    MaxDelta            \* bound on the slots between two blocks

ASSUME NumbersAssumption ==
    /\ Names \subseteq Nat /\ IsFiniteSet(Names) /\ XMax \in Nat
    /\ BuildersPerRound \in Nat \ {0} /\ BlocksPerBuilder \in Nat \ {0}
    /\ MaxTime \in Nat /\ MaxDelta \in Nat
ASSUME KeysAssumption == NoKey \notin Keys /\ XMaxKey # NoKey
ASSUME GenesisAssumption ==
    /\ Genesis \in Seq([name : Names, key : Keys])
    /\ \A i, j \in DOMAIN Genesis : Genesis[i].name = Genesis[j].name => i = j

VARIABLES
    packs,  \* the packs of the node's chain, genesis first
    dbs,    \* the database after each of them
    log     \* how many of them are irreversible

vars == <<packs, dbs, log>>

RoundSlots == BlocksPerBuilder * BuildersPerRound
Builders == Names \cup {XMax}
Tip == packs[Len(packs)]
Db == dbs[Len(dbs)]

NoRule == [version |-> 0, builders |-> <<>>]
IsEmpty(rule) == rule.builders = <<>>

(***************************************************************************)
(* Choosing a builder.                                                     *)
(***************************************************************************)
select_builder_rule(current, next, order_slot) ==
    IF order_slot < RoundSlots \/ IsEmpty(next) THEN current ELSE next

\* Mutant: the bias counts from the end of the current list.
SelectByDelta(current, next, index) ==
    LET list == select_builder_rule(current, next, index).builders
        from == IF list = current.builders THEN index ELSE index - Len(current.builders)
    IN  list[((from \div BlocksPerBuilder) % Len(list)) + 1]

select_builder(current, next, index) ==
    LET list == select_builder_rule(current, next, index).builders
    IN  list[((index \div BlocksPerBuilder) % Len(list)) + 1]

\* The builder the database names for the slot delta slots after the head.
get_order_builder(db, order_slot) == select_builder(db.cur, db.next, order_slot)
get_block_builder(db, delta) == get_order_builder(db, db.slot + delta)

\* builders, whose names differ, in the order of their names
SortedByName(builders) ==
    LET D == 1..Cardinality(builders)
    IN  CHOOSE s \in [D -> builders] : \A i, j \in D : i < j => s[i].name < s[j].name

\* infos: the builder_info objects in the order of their ids, all with no
\* votes.  The newest first, at most a round of them, then sorted by name.
next_round(infos) ==
    LET Active == {i \in DOMAIN infos : infos[i].key # NoKey}
        Top == {i \in Active : Cardinality({j \in Active : j > i}) < RoundSlots}
        Chosen == {infos[i] : i \in Top}
    IN  IF Active = {} THEN <<[name |-> XMax, key |-> XMaxKey]>> ELSE SortedByName(Chosen)

(***************************************************************************)
(* Packs.                                                                  *)
(***************************************************************************)
\* Mutant: the announced rule is used for the first block only.
RuleNotTaken(pre, delta) ==
    LET index == pre.slot + delta
    IN  [time |-> pre.time + delta,
         builder |-> select_builder(pre.cur, pre.new, index),
         slot |-> index % RoundSlots,
         cur |-> pre.cur,
         new |-> IF index >= RoundSlots THEN NoRule ELSE pre.new,
         newRound |-> index >= RoundSlots,
         next |-> NoRule,
         stored |-> TRUE]

InitByPrePack(pre, delta) ==
    LET index == pre.slot + delta
        newRound == index >= RoundSlots
    IN  [time |-> pre.time + delta,
         builder |-> select_builder(pre.cur, pre.new, index),
         slot |-> index % RoundSlots,
         cur |-> IF newRound /\ ~IsEmpty(pre.new) THEN pre.new ELSE pre.cur,
         new |-> IF newRound THEN NoRule ELSE pre.new,
         newRound |-> newRound,
         next |-> NoRule,       \* next_builders of the header, NoRule if absent
         stored |-> TRUE]       \* the pack is in the fork database

GenerateNextBuilders(pack, infos) ==
    LET rule == [version |-> pack.cur.version + 1, builders |-> next_round(infos)]
    IN  IF pack.newRound THEN [pack EXCEPT !.new = rule, !.next = rule] ELSE pack

GenerateByBlock(pack, next) ==
    [pack EXCEPT !.next = next, !.new = IF next = NoRule THEN @ ELSE next]

\* The pack a node makes when it builds or applies a block.
Built(pre, delta, infos) ==
    GenerateNextBuilders(InitByPrePack(pre, delta), infos)

\* The pack of the same block when it came in through the fork database.
Forked(pre, delta, next) == GenerateByBlock(InitByPrePack(pre, delta), next)

\* block_pack::refresh: a pack for the log's last block out of a database.
Refreshed(pack, db) ==
    GenerateByBlock(
        [time |-> pack.time, builder |-> select_builder(db.cur, db.next, db.slot),
         slot |-> db.slot, cur |-> db.cur, new |-> db.next, newRound |-> FALSE,
         next |-> NoRule, stored |-> FALSE], pack.next)

(***************************************************************************)
(* The database side of a block.                                           *)
(***************************************************************************)
Nothing == [op |-> "none"]
Trxs == {Nothing}
        \cup [op : {"regbuilder"}, name : Names, key : Keys]
        \cup [op : {"unregbuilder"}, name : Names]

IndexOf(infos, name) == {i \in DOMAIN infos : infos[i].name = name}

regbuilder(infos, name, key) ==
    LET info == [name |-> name, key |-> key]
    IN  IF IndexOf(infos, name) = {} THEN Append(infos, info)
        ELSE [i \in DOMAIN infos |-> IF infos[i].name = name THEN info ELSE infos[i]]

unregbuilder(infos, name) ==
    [i \in DOMAIN infos |->
        IF infos[i].name = name THEN [infos[i] EXCEPT !.key = NoKey] ELSE infos[i]]

\* A transaction that fails changes nothing.
Ran(infos, trx) ==
    CASE trx.op = "regbuilder" -> regbuilder(infos, trx.name, trx.key)
      [] trx.op = "unregbuilder" -> unregbuilder(infos, trx.name)
      [] OTHER -> infos

\* Mutant: the slot of the block itself counts as missed.
MissedWithBlock(db, delta) == (db.slot + 1)..(db.slot + (delta % RoundSlots))

\* The slots between the head and the block, by the schedule before it.
MissedSlots(db, delta) == (db.slot + 1)..(db.slot + ((delta - 1) % RoundSlots))

MissedBy(db, delta, name) ==
    IF db.signing[name] = NoKey THEN 0
    ELSE Cardinality({s \in MissedSlots(db, delta) : get_order_builder(db, s).name = name})

\* Mutant: a builder that has an object already keeps its old key.
CreateBuilders(signing, rule) ==
    [n \in Builders |->
        IF signing[n] = NoKey /\ \E i \in DOMAIN rule.builders : rule.builders[i].name = n
        THEN rule.builders[CHOOSE i \in DOMAIN rule.builders :
                               rule.builders[i].name = n].key
        ELSE signing[n]]

update_or_create_builders(signing, rule) ==
    [n \in Builders |->
        IF \E i \in DOMAIN rule.builders : rule.builders[i].name = n
        THEN rule.builders[CHOOSE i \in DOMAIN rule.builders :
                               rule.builders[i].name = n].key
        ELSE signing[n]]

\* Mutant: the slot of the round is not saved.
SlotNotSaved(db, pack, delta, trx) ==
    [cur |-> IF pack.newRound THEN pack.cur ELSE db.cur,
     next |-> IF pack.newRound THEN pack.new ELSE db.next,
     slot |-> db.slot,
     total |-> db.total + delta,
     infos |-> Ran(db.infos, trx),
     signing |-> IF pack.newRound THEN update_or_create_builders(db.signing, pack.next)
                 ELSE db.signing,
     missed |-> [n \in Builders |-> db.missed[n] + MissedBy(db, delta, n)]]

\* A block's transactions and then _update_final_state.
Executed(db, pack, delta, trx) ==
    [cur |-> IF pack.newRound THEN pack.cur ELSE db.cur,
     next |-> IF pack.newRound THEN pack.new ELSE db.next,
     slot |-> pack.slot,
     total |-> db.total + delta,
     infos |-> Ran(db.infos, trx),
     signing |-> IF pack.newRound THEN update_or_create_builders(db.signing, pack.next)
                 ELSE db.signing,
     missed |-> [n \in Builders |-> db.missed[n] + MissedBy(db, delta, n)]]

----------------------------------------------------------------------------
GenesisRule == [version |-> 1, builders |-> <<[name |-> XMax, key |-> XMaxKey]>>]

GenesisPack ==
    GenerateNextBuilders(
        [time |-> 0, builder |-> GenesisRule.builders[1], slot |-> 0,
         cur |-> GenesisRule, new |-> NoRule, newRound |-> TRUE,
         next |-> NoRule, stored |-> TRUE], Genesis)

\* No builder object exists yet, so the slots that genesis counts as missed
\* (delta 0 minus 1, unsigned) are booked to nobody.
GenesisDb ==
    [cur |-> GenesisPack.cur, next |-> GenesisPack.new, slot |-> 0, total |-> 0,
     infos |-> Genesis,
     signing |-> update_or_create_builders([n \in Builders |-> NoKey], GenesisPack.next),
     missed |-> [n \in Builders |-> 0]]

Init == packs = <<GenesisPack>> /\ dbs = <<GenesisDb>> /\ log = 1

Deltas == {d \in 1..MaxDelta : Tip.time + d <= MaxTime}

\* The block is executed with the pack made for it; pack becomes the head.
Push(pack, delta, trx) ==
    /\ packs' = Append(packs, pack)
    /\ dbs' = Append(dbs, Executed(Db, Built(Tip, delta, Db.infos), delta, trx))
    /\ UNCHANGED log

\* blockbuilder_plugin build_block: a turn of this node by its database.
BuildBlock ==
    \E delta \in Deltas, trx \in Trxs :
        /\ get_block_builder(Db, delta).name \in Own
        /\ Push(Built(Tip, delta, Db.infos), delta, trx)

\* What another node with this chain builds in its turn: the plugin there
\* signs with the key that its database, equal to this one, names.
OtherBlock(delta) ==
    LET there == [Tip EXCEPT !.slot = Db.slot, !.cur = Db.cur, !.new = Db.next]
        pack == Built(there, delta, Db.infos)
    IN  [builder |-> pack.builder, next |-> pack.next]

\* _validate_block_desc.  A builder without an object is a null pointer and
\* takes the process down (Kill).
SignerValid(db, builder) == db.signing[builder.name] = builder.key

\* _validate_block compares ids, hence builder and next_builders.
SameHeader(pack, block) ==
    pack.builder.name = block.builder.name /\ pack.next = block.next

\* confirm_block: the next block of another builder, straight onto the head.
ConfirmBlock ==
    \E delta \in Deltas, trx \in Trxs :
        LET block == OtherBlock(delta)
            pack == Built(Tip, delta, Db.infos)
        IN  /\ SignerValid(Db, block.builder)
            /\ SameHeader(pack, block)
            /\ Push(pack, delta, trx)

\* The fork database's add_block: the scheduled builder and its key.
ForkAccepts(pre, delta, block) == InitByPrePack(pre, delta).builder = block.builder

\* One block of a new branch in _check_fork: the pack made when the block
\* came in becomes the head.
SwitchTo ==
    \E delta \in Deltas, trx \in Trxs :
        LET block == OtherBlock(delta)
        IN  /\ Tip.stored
            /\ ForkAccepts(Tip, delta, block)
            /\ SignerValid(Db, block.builder)
            /\ SameHeader(Built(Tip, delta, Db.infos), block)
            /\ Push(Forked(Tip, delta, block.next), delta, trx)

\* _pop_block, while the old branch is undone.
PopBlock ==
    /\ log < Len(packs)
    /\ packs' = Front(packs) /\ dbs' = Front(dbs)
    /\ UNCHANGED log

Irreversible ==
    /\ log < Len(packs)
    /\ log' = log + 1
    /\ UNCHANGED <<packs, dbs>>

\* The process dies and starts without fork_memory.bin: initialize_impl
\* makes a pack for the log's last block and then undoes the open sessions.
Kill ==
    /\ IF log = Len(packs) THEN "rest" \in Kills ELSE "open" \in Kills
    /\ packs' = Append(SubSeq(packs, 1, log - 1), Refreshed(packs[log], Db))
    /\ dbs' = SubSeq(dbs, 1, log)
    /\ UNCHANGED log

Next == BuildBlock \/ ConfirmBlock \/ SwitchTo \/ PopBlock \/ Irreversible \/ Kill

Spec == Init /\ [][Next]_vars

----------------------------------------------------------------------------
(***************************************************************************)
(* Properties.                                                             *)
(***************************************************************************)
Rules == [version : Nat, builders : Seq([name : Builders, key : Keys \cup {XMaxKey}])]

\* The packs and databases of the chain go together, every rule in use has
\* a builder and every slot lies in its round.
TypeOK ==
    /\ Len(dbs) = Len(packs)
    /\ log \in 1..Len(packs)
    /\ \A i \in DOMAIN packs :
        /\ packs[i].time \in 0..MaxTime
        /\ packs[i].slot \in 0..RoundSlots - 1
        /\ packs[i].cur \in Rules /\ ~IsEmpty(packs[i].cur)
        /\ packs[i].new \in Rules /\ ~IsEmpty(packs[i].new)
        /\ dbs[i].signing \in [Builders -> Keys \cup {NoKey, XMaxKey}]
        /\ dbs[i].missed \in [Builders -> Nat]

\* The plugin, which asks the database, and the pack of a new block, which
\* is made from the head, name the same builder with the same key for every
\* slot to come: a node never builds or signs in somebody else's name,
\* whatever was built, switched, popped or restarted before.
ScheduleAgrees ==
    \A delta \in 1..MaxDelta :
        get_block_builder(Db, delta) = InitByPrePack(Tip, delta).builder

\* The rule of a round is the one that the first block of the round before
\* announced: between two first blocks without another in between, what the
\* earlier one announced is in force from the later one on.
AnnouncedRules ==
    \A i, j \in DOMAIN packs :
        /\ i < j
        /\ packs[i].next # NoRule /\ packs[j].next # NoRule
        /\ \A k \in i + 1..j - 1 : packs[k].next = NoRule
        => packs[j].cur = packs[i].next

\* The rule does not give builder another key than the one it signs with.
KeepsKey(rule, builder) ==
    \A i \in DOMAIN rule.builders :
        rule.builders[i].name = builder.name => rule.builders[i].key = builder.key

\* Every block whose builder and signature the fork database accepts for
\* the coming slots also passes _validate_block_desc when it is applied, if
\* the announced rule leaves its builder the key: the builder objects hold
\* the keys of the rule in force, those of builders that the next rule drops
\* or that registered again since included.  (The genesis rule is left out:
\* the builder xmax has no object.)
SignersKnown ==
    \A delta \in 1..MaxDelta :
        LET block == OtherBlock(delta)
        IN  /\ ForkAccepts(Tip, delta, block)
            /\ block.builder.name # XMax
            /\ KeepsKey(Db.next, block.builder)
            => SignerValid(Db, block.builder)

\* The same of every builder: the signature that forkchain's add_block takes
\* is the one that the assertion of _validate_block_desc asks for.  A builder
\* that registers another key refutes it: the first block of a round records
\* the keys of the round after it.
SignersAccepted ==
    \A delta \in 1..MaxDelta :
        LET block == OtherBlock(delta)
        IN  ForkAccepts(Tip, delta, block) /\ block.builder.name # XMax
            => SignerValid(Db, block.builder)

\* A slot of this round or the next keeps its builder when a block is
\* added, if the rule's builders share the round evenly: nodes that have not
\* seen that block yet expect the same builder.
SlotKept(old, new, time) ==
    LET index == old.slot + (time - old.time)
        rule == select_builder_rule(old.cur, old.new, index)
    IN  index < 2 * RoundSlots /\ BuildersPerRound % Len(rule.builders) = 0
        => select_builder(old.cur, old.new, index)
           = InitByPrePack(new, time - new.time).builder

OwnersKept ==
    [][Len(packs') = Len(packs) + 1
       => \A time \in Tip'.time + 1..Tip'.time + MaxDelta :
              SlotKept(Tip, Tip', time)]_vars

\* No slot is booked twice: the slots that have passed are enough for the
\* blocks of the chain and everything the builders are said to have missed.
SlotsAccounted ==
    Db.total >= Len(packs) - 1 + SumFunctionOnSet(Db.missed, Builders)
============================================================================
