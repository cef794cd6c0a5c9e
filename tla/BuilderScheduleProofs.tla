----------------------- MODULE BuilderScheduleProofs -----------------------
(***************************************************************************)
(* For every number of builders, slots and keys: as long as the process    *)
(* does not die with open sessions, the schedule in the database and the   *)
(* schedule in the head pack name the same builder for every slot.         *)
(*                                                                         *)
(* ScheduleAgrees speaks of the head alone and is not inductive: a pop     *)
(* uncovers an older pack and an older database, a restart rebuilds the    *)
(* pack of the log's last block.  Paired says that every pack of the chain *)
(* agrees with the database saved for it, and that a pack that announces a *)
(* rule has it as its own next rule, which is what refresh relies on.      *)
(*                                                                         *)
(* Sound, the second invariant, adds the types, the keys on record and the *)
(* rule that a round holds for the next one; from it follow AnnouncedRules,*)
(* SignersKnown and OwnersKept.                                            *)
(***************************************************************************)
EXTENDS BuilderSchedule, FiniteSetTheorems, WellFoundedInduction, TLAPS

\* The fields of a pack, so that EXCEPT has something to update.
IsPack(p) ==
    p = [time |-> p.time, builder |-> p.builder, slot |-> p.slot, cur |-> p.cur,
         new |-> p.new, newRound |-> p.newRound, next |-> p.next, stored |-> p.stored]

Agree(p, db) ==
    /\ IsPack(p)
    /\ p.cur = db.cur /\ p.new = db.next /\ p.slot = db.slot
    /\ p.next = NoRule \/ p.next = p.new
    /\ p.cur.version \in Nat /\ p.new.version \in Nat

IsSeq(s) == \E S : s \in Seq(S)

Paired ==
    /\ IsSeq(packs) /\ IsSeq(dbs)
    /\ Len(dbs) = Len(packs)
    /\ log \in 1..Len(packs)
    /\ \A i \in 1..Len(packs) : Agree(packs[i], dbs[i])

(***************************************************************************)
(* Sequences.                                                              *)
(***************************************************************************)
\* Appending keeps what is there and puts the new element last.
LEMMA AppendIsSeq ==
    ASSUME NEW s, IsSeq(s), NEW e
    PROVE  /\ IsSeq(Append(s, e))
           /\ Len(s) \in Nat
           /\ Len(Append(s, e)) = Len(s) + 1
           /\ \A i \in 1..Len(s) : Append(s, e)[i] = s[i]
           /\ Append(s, e)[Len(s) + 1] = e
<1>1. PICK S : s \in Seq(S)
  BY DEF IsSeq
<1>2. s \in Seq(S \cup {e}) /\ e \in S \cup {e}
  BY <1>1
<1>3. Append(s, e) \in Seq(S \cup {e})
  BY <1>2
<1>4. QED
  BY <1>2, <1>3 DEF IsSeq

\* A prefix keeps what is in it.
LEMMA PrefixIsSeq ==
    ASSUME NEW s, IsSeq(s), NEW n \in Nat, n <= Len(s)
    PROVE  /\ IsSeq(SubSeq(s, 1, n))
           /\ Len(SubSeq(s, 1, n)) = n
           /\ \A i \in 1..n : SubSeq(s, 1, n)[i] = s[i]
<1>1. PICK S : s \in Seq(S)
  BY DEF IsSeq
<1>2. SubSeq(s, 1, n) \in Seq(S)
  BY <1>1
<1>3. QED
  BY <1>1, <1>2 DEF IsSeq

(***************************************************************************)
(* One block.                                                              *)
(***************************************************************************)
\* What building on a pack keeps and changes.
LEMMA BuiltPack ==
    ASSUME NEW pre, NEW delta, NEW infos,
           pre.cur.version \in Nat, pre.new.version \in Nat
    PROVE  LET b == Built(pre, delta, infos)
           IN  /\ IsPack(b)
               /\ b.next = NoRule \/ b.next = b.new
               /\ b.cur.version \in Nat /\ b.new.version \in Nat
               /\ ~b.newRound => b.cur = pre.cur /\ b.new = pre.new
<1> DEFINE p == InitByPrePack(pre, delta)
           rule == [version |-> p.cur.version + 1, builders |-> next_round(infos)]
<1>1. /\ IsPack(p) /\ p.next = NoRule
      /\ p.cur.version \in Nat
      /\ ~p.newRound => p.cur = pre.cur /\ p.new = pre.new
      /\ p.newRound = (pre.slot + delta >= RoundSlots)
  BY DEF InitByPrePack, IsPack
<1>2. CASE p.newRound
  <2>1. Built(pre, delta, infos) = [p EXCEPT !.new = rule, !.next = rule]
    BY <1>2 DEF Built, GenerateNextBuilders
  <2>2. rule.version \in Nat
    BY <1>1
  <2> HIDE DEF p, rule
  <2>3. QED
    BY <1>1, <1>2, <2>1, <2>2 DEF IsPack
<1>3. CASE ~p.newRound
  <2>1. Built(pre, delta, infos) = p
    BY <1>3 DEF Built, GenerateNextBuilders
  <2>2. p.new.version \in Nat
    BY <1>1, <1>3
  <2> HIDE DEF p
  <2>3. QED
    BY <1>1, <1>3, <2>1, <2>2
<1>4. QED
  BY <1>2, <1>3

\* A block announces a rule with a version, so a present rule is never
\* taken for an absent one: the pack that the fork database makes out of the
\* block is the pack that executing it makes.
LEMMA ForkedIsBuilt ==
    ASSUME NEW pre, NEW delta, NEW infos,
           pre.cur.version \in Nat, pre.new.version \in Nat
    PROVE  Forked(pre, delta, Built(pre, delta, infos).next) = Built(pre, delta, infos)
<1> DEFINE p == InitByPrePack(pre, delta)
           rule == [version |-> p.cur.version + 1, builders |-> next_round(infos)]
<1>1. IsPack(p) /\ p.next = NoRule /\ p.cur.version \in Nat
  BY DEF InitByPrePack, IsPack
<1>2. rule.version # 0
  BY <1>1
<1>3. rule # NoRule
  BY <1>2 DEF NoRule
<1>4. CASE p.newRound
  <2>1. Built(pre, delta, infos) = [p EXCEPT !.new = rule, !.next = rule]
    BY <1>4 DEF Built, GenerateNextBuilders
  <2> HIDE DEF rule
  <2>2. Built(pre, delta, infos).next = rule
    <3> HIDE DEF p
    <3>1. QED
      BY <1>1, <2>1 DEF IsPack
  <2>3. Forked(pre, delta, rule) = [p EXCEPT !.next = rule, !.new = rule]
    BY <1>3 DEF Forked, GenerateByBlock
  <2> HIDE DEF p
  <2>4. QED
    BY <1>1, <2>1, <2>2, <2>3 DEF IsPack
<1>5. CASE ~p.newRound
  <2>1. Built(pre, delta, infos) = p
    BY <1>5 DEF Built, GenerateNextBuilders
  <2>2. Forked(pre, delta, NoRule) = [p EXCEPT !.next = NoRule, !.new = p.new]
    BY DEF Forked, GenerateByBlock
  <2> HIDE DEF p
  <2>3. QED
    BY <1>1, <2>1, <2>2 DEF IsPack
<1>6. QED
  BY <1>4, <1>5

\* The database after a block agrees with the pack made for it.
LEMMA ExecutedAgrees ==
    ASSUME NEW pre, NEW db, Agree(pre, db), NEW delta, NEW trx
    PROVE  LET b == Built(pre, delta, db.infos)
           IN  Agree(b, Executed(db, b, delta, trx))
<1> DEFINE b == Built(pre, delta, db.infos)
           e == Executed(db, b, delta, trx)
<1>1. /\ IsPack(b)
      /\ b.next = NoRule \/ b.next = b.new
      /\ b.cur.version \in Nat /\ b.new.version \in Nat
      /\ ~b.newRound => b.cur = pre.cur /\ b.new = pre.new
  BY BuiltPack DEF Agree
<1>2. /\ e.cur = IF b.newRound THEN b.cur ELSE db.cur
      /\ e.next = IF b.newRound THEN b.new ELSE db.next
      /\ e.slot = b.slot
  BY DEF Executed
<1>3. pre.cur = db.cur /\ pre.new = db.next
  BY DEF Agree
<1> HIDE DEF b, e
<1>4. Agree(b, e)
  BY <1>1, <1>2, <1>3 DEF Agree
<1>5. QED
  BY <1>4 DEF b, e

\* A pack refreshed from the database it agrees with agrees with it.
LEMMA RefreshedAgrees ==
    ASSUME NEW p, NEW db, Agree(p, db)
    PROVE  Agree(Refreshed(p, db), db)
<1> DEFINE sel == select_builder(db.cur, db.next, db.slot)
           q == [time |-> p.time, builder |-> sel, slot |-> db.slot, cur |-> db.cur,
                 new |-> db.next, newRound |-> FALSE, next |-> NoRule, stored |-> FALSE]
<1>1. Refreshed(p, db) = GenerateByBlock(q, p.next)
  BY DEF Refreshed
<1> HIDE DEF sel
<1>2. IsPack(q) /\ q.cur = db.cur /\ q.new = db.next /\ q.slot = db.slot
  BY DEF IsPack
<1> HIDE DEF q
<1>3. QED
  BY <1>1, <1>2 DEF GenerateByBlock, Agree, IsPack

(***************************************************************************)
(* The invariant.                                                          *)
(***************************************************************************)
\* The genesis pack agrees with the genesis database.
LEMMA InitPaired == Init => Paired
<1> SUFFICES ASSUME Init PROVE Paired
  OBVIOUS
<1> DEFINE g == [time |-> 0, builder |-> GenesisRule.builders[1], slot |-> 0,
                 cur |-> GenesisRule, new |-> NoRule, newRound |-> TRUE,
                 next |-> NoRule, stored |-> TRUE]
           rule == [version |-> 2, builders |-> next_round(Genesis)]
<1>1. GenesisPack = [g EXCEPT !.new = rule, !.next = rule]
  <2>1. g.newRound /\ g.cur.version + 1 = 2
    BY DEF GenesisRule
  <2>2. GenesisPack = GenerateNextBuilders(g, Genesis)
    BY DEF GenesisPack
  <2> HIDE DEF g
  <2>3. QED
    BY <2>1, <2>2 DEF GenerateNextBuilders
<1>2. /\ IsPack(GenesisPack)
      /\ GenesisPack.next = GenesisPack.new
      /\ GenesisPack.cur = GenesisRule /\ GenesisPack.new = rule
      /\ GenesisPack.slot = 0
  <2> HIDE DEF rule
  <2>1. QED
    BY <1>1 DEF IsPack
<1>3. GenesisPack.cur.version \in Nat /\ GenesisPack.new.version \in Nat
  BY <1>2 DEF GenesisRule
<1>4. Agree(GenesisPack, GenesisDb)
  BY <1>2, <1>3 DEF Agree, GenesisDb
<1>5. packs = <<GenesisPack>> /\ dbs = <<GenesisDb>> /\ log = 1
  BY DEF Init
<1>6. packs \in Seq({GenesisPack}) /\ dbs \in Seq({GenesisDb})
  BY <1>5
<1>7. IsSeq(packs) /\ IsSeq(dbs)
  BY <1>6 DEF IsSeq
<1>8. /\ Len(packs) = 1 /\ Len(dbs) = 1
      /\ packs[1] = GenesisPack /\ dbs[1] = GenesisDb
  BY <1>5
<1>9. QED
  BY <1>4, <1>5, <1>7, <1>8 DEF Paired

\* A pushed block: the new pack and the new database agree.
LEMMA PushPaired ==
    ASSUME Paired, NEW pack, NEW delta, NEW trx, Push(pack, delta, trx),
           pack = Built(Tip, delta, Db.infos)
    PROVE  Paired'
<1> DEFINE n == Len(packs)
           e == Executed(Db, Built(Tip, delta, Db.infos), delta, trx)
<1>1. packs' = Append(packs, pack) /\ dbs' = Append(dbs, e) /\ log' = log
  BY DEF Push
<1>2. IsSeq(packs) /\ IsSeq(dbs) /\ Len(dbs) = n /\ log \in 1..n
      /\ \A i \in 1..n : Agree(packs[i], dbs[i])
  BY DEF Paired
<1>3. n \in Nat /\ n >= 1
  BY <1>2, AppendIsSeq
<1>4. Agree(Tip, Db)
  BY <1>2, <1>3 DEF Tip, Db
<1>5. Agree(pack, e)
  BY <1>4, ExecutedAgrees
<1> HIDE DEF e, n
<1>6. /\ IsSeq(packs') /\ Len(packs') = n + 1
      /\ \A i \in 1..n : packs'[i] = packs[i]
      /\ packs'[n + 1] = pack
  BY <1>1, <1>2, AppendIsSeq DEF n
<1>7. /\ IsSeq(dbs') /\ Len(dbs') = n + 1
      /\ \A i \in 1..n : dbs'[i] = dbs[i]
      /\ dbs'[n + 1] = e
  BY <1>1, <1>2, AppendIsSeq, SMTT(60)
<1>8. \A i \in 1..n + 1 : Agree(packs'[i], dbs'[i])
  <2> SUFFICES ASSUME NEW i \in 1..n + 1 PROVE Agree(packs'[i], dbs'[i])
    OBVIOUS
  <2>1. CASE i = n + 1
    BY <2>1, <1>5, <1>6, <1>7
  <2>2. CASE i \in 1..n
    BY <2>2, <1>2, <1>6, <1>7
  <2>3. QED
    BY <2>1, <2>2, <1>3
<1>9. log' \in 1..n + 1
  BY <1>1, <1>2, <1>3
<1>10. QED
  BY <1>6, <1>7, <1>8, <1>9 DEF Paired

\* Cutting the chain back keeps what is left.
LEMMA CutPaired ==
    ASSUME Paired, NEW n \in Nat, log <= n, n <= Len(packs), log' = log,
           packs' = SubSeq(packs, 1, n), dbs' = SubSeq(dbs, 1, n)
    PROVE  Paired'
<1>1. IsSeq(packs) /\ IsSeq(dbs) /\ Len(dbs) = Len(packs) /\ log \in 1..Len(packs)
      /\ \A i \in 1..Len(packs) : Agree(packs[i], dbs[i])
  BY DEF Paired
<1>2. IsSeq(packs') /\ Len(packs') = n /\ \A i \in 1..n : packs'[i] = packs[i]
  BY <1>1, PrefixIsSeq
<1>3. IsSeq(dbs') /\ Len(dbs') = n /\ \A i \in 1..n : dbs'[i] = dbs[i]
  BY <1>1, PrefixIsSeq
<1>4. Len(packs) \in Nat
  BY <1>1, AppendIsSeq
<1>5. \A i \in 1..n : Agree(packs'[i], dbs'[i])
  BY <1>1, <1>2, <1>3, <1>4
<1>6. log' \in 1..n
  BY <1>1, <1>4
<1>7. QED
  BY <1>2, <1>3, <1>5, <1>6 DEF Paired

\* A restart with no open session: the pack of the log's last block is
\* rebuilt from the database that belongs to it.
LEMMA KillPaired ==
    ASSUME Paired, "open" \notin Kills, Kill
    PROVE  Paired'
<1> DEFINE n == Len(packs)
           q == Refreshed(packs[n], dbs[n])
           front == SubSeq(packs, 1, n - 1)
<1>1. IsSeq(packs) /\ IsSeq(dbs) /\ Len(dbs) = n /\ log \in 1..n
      /\ \A i \in 1..n : Agree(packs[i], dbs[i])
  BY DEF Paired
<1>2. n \in Nat /\ n >= 1
  BY <1>1, AppendIsSeq
<1>3. /\ log = n
      /\ packs' = Append(front, q)
      /\ dbs' = SubSeq(dbs, 1, n)
      /\ log' = n
  BY <1>1 DEF Kill, Db
<1>4. Agree(q, dbs[n])
  BY <1>1, <1>2, RefreshedAgrees
<1>5. IsSeq(front) /\ Len(front) = n - 1 /\ \A i \in 1..n - 1 : front[i] = packs[i]
  <2>1. n - 1 \in Nat /\ n - 1 <= Len(packs)
    BY <1>2
  <2> HIDE DEF n
  <2>2. QED
    BY <2>1, <1>1, PrefixIsSeq
<1> HIDE DEF q, front, n
<1>6. /\ IsSeq(packs') /\ Len(packs') = n
      /\ \A i \in 1..n - 1 : packs'[i] = packs[i]
      /\ packs'[n] = q
  <2>1. /\ IsSeq(packs') /\ Len(packs') = (n - 1) + 1
        /\ \A i \in 1..n - 1 : packs'[i] = front[i]
        /\ packs'[(n - 1) + 1] = q
    BY <1>3, <1>5, AppendIsSeq
  <2>2. (n - 1) + 1 = n
    BY <1>2
  <2>3. QED
    BY <2>1, <2>2, <1>5
<1>7. IsSeq(dbs') /\ Len(dbs') = n /\ \A i \in 1..n : dbs'[i] = dbs[i]
  BY <1>1, <1>2, <1>3, PrefixIsSeq
<1>8. \A i \in 1..n : Agree(packs'[i], dbs'[i])
  <2> SUFFICES ASSUME NEW i \in 1..n PROVE Agree(packs'[i], dbs'[i])
    OBVIOUS
  <2>1. CASE i = n
    BY <2>1, <1>2, <1>4, <1>6, <1>7
  <2>2. CASE i \in 1..n - 1
    BY <2>2, <1>1, <1>2, <1>6, <1>7
  <2>3. QED
    BY <2>1, <2>2, <1>2
<1>9. log' \in 1..n
  BY <1>2, <1>3
<1>10. QED
  BY <1>6, <1>7, <1>8, <1>9 DEF Paired

\* Every step keeps the pairs.
LEMMA NextPaired ==
    ASSUME Paired, "open" \notin Kills, [Next]_vars
    PROVE  Paired'
<1>1. Tip.cur.version \in Nat /\ Tip.new.version \in Nat
  <2>1. Len(packs) \in Nat
    BY AppendIsSeq DEF Paired
  <2>2. Agree(Tip, Db)
    BY <2>1 DEF Paired, Tip, Db
  <2>3. QED
    BY <2>2 DEF Agree
<1>2. CASE BuildBlock
  BY <1>2, PushPaired DEF BuildBlock
<1>3. CASE ConfirmBlock
  BY <1>3, PushPaired DEF ConfirmBlock
<1>4. CASE SwitchTo
  <2>1. PICK delta \in Deltas, trx \in Trxs :
            LET block == OtherBlock(delta)
            IN  /\ SameHeader(Built(Tip, delta, Db.infos), block)
                /\ Push(Forked(Tip, delta, block.next), delta, trx)
    BY <1>4 DEF SwitchTo
  <2>2. OtherBlock(delta).next = Built(Tip, delta, Db.infos).next
    BY <2>1 DEF SameHeader
  <2>3. Push(Built(Tip, delta, Db.infos), delta, trx)
    BY <2>1, <2>2, <1>1, ForkedIsBuilt
  <2>4. QED
    BY <2>3, PushPaired
<1>5. CASE PopBlock
  <2>1. Len(packs) \in Nat /\ log \in 1..Len(packs) /\ Len(dbs) = Len(packs)
    BY AppendIsSeq DEF Paired
  <2>2. /\ log < Len(packs) /\ log' = log
        /\ packs' = SubSeq(packs, 1, Len(packs) - 1)
        /\ dbs' = SubSeq(dbs, 1, Len(packs) - 1)
    BY <1>5, <2>1 DEF PopBlock, Front
  <2>3. Len(packs) - 1 \in Nat /\ log <= Len(packs) - 1 /\ Len(packs) - 1 <= Len(packs)
    BY <2>1, <2>2
  <2>4. QED
    BY <2>2, <2>3, CutPaired
<1>6. CASE Irreversible
  <2>1. Len(packs) \in Nat
    BY AppendIsSeq DEF Paired
  <2>2. QED
    BY <1>6, <2>1 DEF Irreversible, Paired
<1>7. CASE Kill
  BY <1>7, KillPaired
<1>8. CASE UNCHANGED vars
  BY <1>8 DEF vars, Paired
<1>9. QED
  BY <1>2, <1>3, <1>4, <1>5, <1>6, <1>7, <1>8 DEF Next

\* Agreement of the last pair is agreement about every coming slot.
LEMMA PairedAgrees == Paired => ScheduleAgrees
<1> SUFFICES ASSUME Paired, NEW delta \in 1..MaxDelta
             PROVE  get_block_builder(Db, delta) = InitByPrePack(Tip, delta).builder
  BY DEF ScheduleAgrees
<1>1. Len(packs) \in Nat
  BY AppendIsSeq DEF Paired
<1>2. Tip.cur = Db.cur /\ Tip.new = Db.next /\ Tip.slot = Db.slot
  BY <1>1 DEF Paired, Tip, Db, Agree
<1>3. InitByPrePack(Tip, delta).builder = select_builder(Tip.cur, Tip.new, Tip.slot + delta)
  BY DEF InitByPrePack
<1>4. QED
  BY <1>2, <1>3 DEF get_block_builder, get_order_builder

\* The plugin and the pack of a new block agree on the builder and the key
\* of every slot, for any builders, keys, round length and registrations and
\* any interleaving of building, confirming, switching forks, popping and
\* restarting, unless the process dies with open sessions.
THEOREM AgreesAlways ==
    ASSUME "open" \notin Kills
    PROVE  Spec => []ScheduleAgrees
<1>1. Init => Paired
  BY InitPaired
<1>2. Paired /\ [Next]_vars => Paired'
  BY NextPaired
<1>3. Paired => ScheduleAgrees
  BY PairedAgrees
<1>4. QED
  BY <1>1, <1>2, <1>3, PTL DEF Spec
(***************************************************************************)
(* Numbers and sorting.                                                    *)
(***************************************************************************)
\* A set of natural numbers has a least element.
LEMMA LeastNumber ==
    ASSUME NEW S \in SUBSET Nat, S # {}
    PROVE  \E x \in S : \A y \in S : x <= y
<1> DEFINE R == OpToRel(<, Nat)
<1>1. IsWellFoundedOn(R, Nat)
  BY NatLessThanWellFounded
<1>2. \A x, y \in Nat : x < y => <<x, y>> \in R
  BY DEF OpToRel
<1> HIDE DEF R
<1>3. PICK x \in S : \A y \in S : ~(<<y, x>> \in R)
  BY <1>1, WFMin
<1>4. ASSUME NEW y \in S PROVE x <= y
  <2>1. ~(y < x)
    BY <1>2, <1>3
  <2>2. x \in Nat /\ y \in Nat
    OBVIOUS
  <2>3. QED
    BY <2>1, <2>2
<1>5. QED
  BY <1>4

\* The builders that come before b.
Below(B, b) == {c \in B : c.name < b.name}

\* Sorting by name exists: the place of a builder is the number of builders
\* before it.  It lists every builder, none of them twice.
LEMMA SortExists ==
    ASSUME NEW B, IsFiniteSet(B), \A b \in B : b.name \in Nat,
           \A b, c \in B : b.name = c.name => b = c
    PROVE  /\ SortedByName(B) \in [1..Cardinality(B) -> B]
           /\ \A b \in B : \E i \in 1..Cardinality(B) : SortedByName(B)[i] = b
           /\ \A i, j \in 1..Cardinality(B) :
                  SortedByName(B)[i].name = SortedByName(B)[j].name => i = j
<1> DEFINE n == Cardinality(B)
           rank == [b \in B |-> Cardinality(Below(B, b)) + 1]
<1>1. n \in Nat /\ IsFiniteSet(1..n) /\ Cardinality(1..n) = n
  <2>1. n \in Nat
    BY FS_CardinalityType
  <2>2. QED
    BY <2>1, FS_Interval
<1>2. ASSUME NEW b \in B
      PROVE  /\ IsFiniteSet(Below(B, b))
             /\ Cardinality(Below(B, b)) \in Nat /\ Cardinality(Below(B, b)) < n
  <2>1. Below(B, b) \in SUBSET B /\ b \notin Below(B, b)
    BY DEF Below
  <2>2. /\ IsFiniteSet(Below(B, b)) /\ Cardinality(Below(B, b)) <= n
        /\ n = Cardinality(Below(B, b)) => B = Below(B, b)
    BY <2>1, FS_Subset
  <2>3. Cardinality(Below(B, b)) \in Nat
    BY <2>2, FS_CardinalityType
  <2>4. QED
    BY <1>1, <2>1, <2>2, <2>3
<1>3. rank \in [B -> 1..n]
  <2>1. \A b \in B : Cardinality(Below(B, b)) + 1 \in 1..n
    BY <1>1, <1>2
  <2>2. QED
    BY <2>1
<1>4. ASSUME NEW b \in B, NEW c \in B, b.name < c.name
      PROVE  rank[b] < rank[c]
  <2>1. Below(B, b) \in SUBSET Below(B, c) /\ b \in Below(B, c) /\ b \notin Below(B, b)
    BY <1>4 DEF Below
  <2>2. /\ Cardinality(Below(B, b)) <= Cardinality(Below(B, c))
        /\ Cardinality(Below(B, c)) = Cardinality(Below(B, b)) => Below(B, c) = Below(B, b)
    BY <2>1, <1>2, FS_Subset
  <2>3. Cardinality(Below(B, b)) < Cardinality(Below(B, c))
    BY <2>1, <2>2, <1>2
  <2>4. QED
    BY <2>3, <1>2
<1>5. ASSUME NEW b \in B, NEW c \in B, rank[b] = rank[c]
      PROVE  b = c
  <2>1. rank[b] \in Nat /\ rank[c] \in Nat
    BY <1>1, <1>3
  <2>2. ~(b.name < c.name) /\ ~(c.name < b.name)
    BY <1>4, <1>5, <2>1
  <2>3. QED
    BY <2>2
<1> HIDE DEF rank
<1>6. rank \in Injection(B, 1..n)
  BY <1>3, <1>5 DEF Injection, IsInjective
<1>7. rank \in Surjection(B, 1..n)
  BY <1>1, <1>6, FS_Injection
<1>8. \A i \in 1..n : \E b \in B : rank[b] = i
  BY <1>7 DEF Surjection
<1> DEFINE s == [i \in 1..n |-> CHOOSE b \in B : rank[b] = i]
<1>9. ASSUME NEW i \in 1..n PROVE s[i] \in B /\ rank[s[i]] = i
  BY <1>8
<1>10. s \in [1..n -> B]
  BY <1>9
<1> HIDE DEF s
<1>11. ASSUME NEW i \in 1..n, NEW j \in 1..n, i < j PROVE s[i].name < s[j].name
  <2>1. rank[s[i]] < rank[s[j]] /\ s[i] \in B /\ s[j] \in B
    BY <1>9, <1>11
  <2>2. ~(s[j].name < s[i].name) /\ s[j] # s[i]
    BY <1>4, <2>1, <1>3, <1>1
  <2>3. QED
    BY <2>1, <2>2
<1>12. /\ SortedByName(B) \in [1..n -> B]
       /\ \A i, j \in 1..n : i < j => SortedByName(B)[i].name < SortedByName(B)[j].name
  BY <1>10, <1>11 DEF SortedByName
<1> DEFINE t == SortedByName(B)
<1> HIDE DEF t
<1>13. t \in Injection(1..n, B)
  <2>1. t \in [1..n -> B]
    BY <1>12 DEF t
  <2>2. ASSUME NEW i \in 1..n, NEW j \in 1..n, t[i] = t[j] PROVE i = j
    <3>1. ~(i < j) /\ ~(j < i)
      BY <1>12, <2>1, <2>2 DEF t
    <3>2. QED
      BY <1>1, <3>1
  <2>3. QED
    BY <2>1, <2>2 DEF Injection, IsInjective
<1>14. t \in Surjection(1..n, B)
  BY <1>1, <1>13, FS_Injection
<1>15. ASSUME NEW i \in 1..n, NEW j \in 1..n, t[i].name = t[j].name PROVE i = j
  <2>1. t[i] = t[j]
    BY <1>12, <1>15 DEF t
  <2>2. QED
    BY <1>13, <2>1 DEF Injection, IsInjective
<1>16. QED
  BY <1>12, <1>14, <1>15 DEF Surjection, t


\* Taking p blocks of b slots away takes p builders away.
LEMMA DivShift ==
    ASSUME NEW x \in Nat, NEW b \in Nat \ {0}, NEW p \in Nat, x >= b * p
    PROVE  (x - b * p) \div b = (x \div b) - p
<1> DEFINE q == x \div b
           y == x - b * p
           r == y \div b
<1>1. q \in Int /\ b * q <= x /\ x < b * q + b
  OBVIOUS
<1>2. y \in Nat /\ r \in Int /\ b * r <= y /\ y < b * r + b
  OBVIOUS
<1>3. b * (r + p) <= x /\ x < b * (r + p) + b
  BY <1>2
<1>4. QED
  BY <1>1, <1>3

\* Taking a multiple away leaves the remainder.
LEMMA ModShift ==
    ASSUME NEW x \in Nat, NEW l \in Nat \ {0}, NEW p \in Nat, p <= x, p % l = 0
    PROVE  (x - p) % l = x % l
<1> DEFINE k == p \div l
           q == x \div l
           r == x % l
           d == (x - p) \div l
           e == (x - p) % l
<1>1. p = l * k /\ k \in Int
  OBVIOUS
<1>2. x = l * q + r /\ q \in Int /\ r \in 0..(l - 1)
  OBVIOUS
<1>3. x - p = l * d + e /\ d \in Int /\ e \in 0..(l - 1)
  OBVIOUS
<1> HIDE DEF k, q, r, d, e
<1>4. l * d + e = l * (q - k) + r
  BY <1>1, <1>2, <1>3
<1>5. \A m \in Int : l * m = r - e => m = 0
  BY <1>2, <1>3
<1>6. l * (d - (q - k)) = r - e /\ d - (q - k) \in Int
  BY <1>1, <1>2, <1>3, <1>4
<1>7. d - (q - k) = 0
  BY <1>5, <1>6
<1>8. r = e
  BY <1>1, <1>2, <1>3, <1>6, <1>7
<1>9. QED
  BY <1>8 DEF r, e

(***************************************************************************)
(* The rule of the coming round.                                           *)
(***************************************************************************)
\* The builder_info objects of a database: their names differ.
Infos == [name : Names, key : Keys \cup {NoKey}]
InfosOK(infos) ==
    /\ infos \in Seq(Infos)
    /\ \A i, j \in 1..Len(infos) : infos[i].name = infos[j].name => i = j

\* The lists of builders that make a rule: somebody builds, nobody is listed
\* twice, and only the builder of the genesis rule has its key.
Members == [name : Builders, key : Keys \cup {XMaxKey}]
ListOK(list) ==
    /\ list \in Seq(Members) /\ list # <<>>
    /\ \A i, j \in 1..Len(list) : list[i].name = list[j].name => i = j
    /\ \A i \in 1..Len(list) : list[i].name # XMax => list[i].key \in Keys

\* However many builders are registered, unregistered or left out by the
\* limit, the rule that next_round makes has a builder.
LEMMA NextRound ==
    ASSUME NEW infos, InfosOK(infos)
    PROVE  ListOK(next_round(infos))
<1> DEFINE n == Len(infos)
           Active == {i \in DOMAIN infos : infos[i].key # NoKey}
           After(i) == {j \in Active : j > i}
           Top == {i \in Active : Cardinality(After(i)) < RoundSlots}
           Chosen == {infos[i] : i \in Top}
<1>1. n \in Nat /\ DOMAIN infos = 1..n /\ \A i \in 1..n : infos[i] \in Infos
  BY DEF InfosOK
<1>2. RoundSlots \in Nat /\ RoundSlots > 0
  <2>1. \A x, y \in Nat \ {0} : x * y \in Nat /\ x * y > 0
    OBVIOUS
  <2>2. QED
    BY <2>1, NumbersAssumption DEF RoundSlots
<1>3. CASE Active = {}
  <2>1. next_round(infos) = <<[name |-> XMax, key |-> XMaxKey]>>
    BY <1>3 DEF next_round
  <2>2. [name |-> XMax, key |-> XMaxKey] \in Members
    BY DEF Members, Builders
  <2> DEFINE m == [name |-> XMax, key |-> XMaxKey]
  <2>3. m.name = XMax /\ m \in Members
    BY <2>2
  <2> HIDE DEF m
  <2>4. ListOK(<<m>>)
    BY <2>3 DEF ListOK
  <2>5. QED
    BY <2>1, <2>4 DEF m
<1>4. CASE Active # {}
  <2>1. PICK m \in Active : \A i \in Active : i <= m
    <3> DEFINE Back == {n - i : i \in Active}
    <3>1. Back \in SUBSET Nat /\ Back # {}
      BY <1>1, <1>4
    <3>2. PICK b \in Back : \A c \in Back : b <= c
      <4> HIDE DEF Back
      <4>1. QED
        BY <3>1, LeastNumber
    <3>3. PICK m \in Active : b = n - m
      OBVIOUS
    <3>4. \A i \in Active : n - m <= n - i
      BY <3>2, <3>3
    <3>5. QED
      BY <3>4, <1>1, SMTT(60)
  <2>2. After(m) = {}
    BY <2>1, <1>1
  <2>3. m \in Top
    BY <2>2, <1>2, FS_EmptySet
  <2>4. Chosen # {}
    BY <2>3
  <2>5. IsFiniteSet(Chosen)
    <3>1. IsFiniteSet(1..n)
      BY <1>1, FS_Interval
    <3>2. IsFiniteSet(Top)
      <4>1. Top \in SUBSET (1..n)
        BY <1>1
      <4> HIDE DEF Top
      <4>2. QED
        BY <3>1, <4>1, FS_Subset
    <3> DEFINE f == [i \in Top |-> infos[i]]
    <3> HIDE DEF Top
    <3>3. f \in Surjection(Top, Chosen)
      BY DEF Surjection
    <3> HIDE DEF Chosen, f
    <3>4. QED
      BY <3>2, <3>3, FS_Surjection
  <2>6. \A b \in Chosen : b \in Infos /\ b.key # NoKey
    BY <1>1
  <2>7. \A b, c \in Chosen : b.name = c.name => b = c
    BY <1>1 DEF InfosOK
  <2>8. \A b \in Chosen : b.name \in Nat /\ b.key \in Keys /\ b \in Members
    <3> SUFFICES ASSUME NEW b \in Chosen
                 PROVE  b.name \in Nat /\ b.key \in Keys /\ b \in Members
      OBVIOUS
    <3>1. b \in Infos /\ b.key # NoKey
      BY <2>6
    <3> HIDE DEF Chosen
    <3>2. b.name \in Names /\ b.key \in Keys /\ b = [name |-> b.name, key |-> b.key]
      BY <3>1 DEF Infos
    <3>3. b.name \in Nat
      BY <3>2, NumbersAssumption
    <3>4. QED
      BY <3>2, <3>3 DEF Members, Builders
  <2>9. next_round(infos) = SortedByName(Chosen)
    BY <1>4 DEF next_round
  <2> HIDE DEF Chosen, Top, Active
  <2>10. /\ SortedByName(Chosen) \in [1..Cardinality(Chosen) -> Chosen]
         /\ \A i, j \in 1..Cardinality(Chosen) :
                SortedByName(Chosen)[i].name = SortedByName(Chosen)[j].name => i = j
    BY <2>5, <2>7, <2>8, SortExists
  <2>11. Cardinality(Chosen) \in Nat /\ Cardinality(Chosen) # 0
    BY <2>4, <2>5, FS_CardinalityType, FS_EmptySet
  <2>12. QED
    <3> DEFINE s == SortedByName(Chosen)
               k == Cardinality(Chosen)
    <3> HIDE DEF s, k
    <3>1. k \in Nat /\ k # 0 /\ s \in [1..k -> Chosen]
      BY <2>10, <2>11 DEF s, k
    <3>2. s \in [1..k -> Members]
      BY <3>1, <2>8
    <3>3. s \in Seq(Members) /\ Len(s) = k
      BY <3>1, <3>2
    <3>4. s # <<>>
      BY <3>1, <3>3
    <3>5. \A i, j \in 1..k : s[i].name = s[j].name => i = j
      BY <2>10 DEF s, k
    <3>6. \A i \in 1..k : s[i].key \in Keys
      BY <3>1, <2>8
    <3>7. ListOK(s)
      BY <3>3, <3>4, <3>5, <3>6 DEF ListOK
    <3>8. QED
      BY <3>7, <2>9 DEF s
<1>5. QED
  BY <1>3, <1>4

(***************************************************************************)
(* Types.  A pack and the database saved for it, field by field.           *)
(***************************************************************************)
RuleOK(rule) ==
    /\ rule = [version |-> rule.version, builders |-> rule.builders]
    /\ rule.version \in Nat
    /\ ListOK(rule.builders)

PackOK(p) ==
    /\ p.time \in 0..MaxTime
    /\ p.slot \in 0..RoundSlots - 1
    /\ RuleOK(p.cur) /\ RuleOK(p.new)

\* Every builder of the announced rule has its key on record, and so has
\* every builder of the rule in force (unless it is the genesis rule) that
\* is not on the announced one.
KeysOK(db) ==
    /\ \A i \in 1..Len(db.next.builders) :
          db.signing[db.next.builders[i].name] = db.next.builders[i].key
    /\ \A i \in 1..Len(db.cur.builders) :
          LET b == db.cur.builders[i]
          IN  \/ b.name = XMax
              \/ db.signing[b.name] = b.key
              \/ \E j \in 1..Len(db.next.builders) : db.next.builders[j].name = b.name

DbOK(db) ==
    /\ InfosOK(db.infos)
    /\ db.signing \in [Builders -> Keys \cup {NoKey, XMaxKey}]
    /\ \A n \in Builders : n # XMax => db.signing[n] \in Keys \cup {NoKey}
    /\ db.missed \in [Builders -> Nat]
    /\ KeysOK(db)

\* A round has a slot.
LEMMA RoundPositive == RoundSlots \in Nat /\ RoundSlots > 0
<1>1. \A x, y \in Nat \ {0} : x * y \in Nat /\ x * y > 0
  OBVIOUS
<1>2. QED
  BY <1>1, NumbersAssumption DEF RoundSlots

\* A sound rule has the type of a rule and a builder.
LEMMA RuleType ==
    ASSUME NEW rule, RuleOK(rule)
    PROVE  rule \in Rules /\ ~IsEmpty(rule)
BY DEF RuleOK, ListOK, Rules, Members, IsEmpty

\* What a new pack takes from the one before it.
LEMMA BuiltOn ==
    ASSUME NEW pre, PackOK(pre), NEW delta \in 1..MaxDelta, pre.time + delta <= MaxTime,
           NEW infos, InfosOK(infos)
    PROVE  LET b == Built(pre, delta, infos)
               index == pre.slot + delta
           IN  /\ PackOK(b)
               /\ b.time = pre.time + delta
               /\ b.slot = index % RoundSlots
               /\ b.newRound = (index >= RoundSlots)
               /\ b.newRound => /\ b.cur = pre.new
                                /\ b.next = b.new /\ b.new.version # 0
               /\ ~b.newRound => b.cur = pre.cur /\ b.new = pre.new /\ b.next = NoRule
<1> DEFINE index == pre.slot + delta
           p == InitByPrePack(pre, delta)
           rule == [version |-> p.cur.version + 1, builders |-> next_round(infos)]
           b == Built(pre, delta, infos)
<1>1. ~IsEmpty(pre.new) /\ pre.cur.version \in Nat /\ pre.new.version \in Nat
  BY RuleType DEF PackOK, RuleOK
<1>2. /\ IsPack(p) /\ p.next = NoRule
      /\ p.time = pre.time + delta
      /\ p.slot = index % RoundSlots
      /\ p.newRound = (index >= RoundSlots)
      /\ p.newRound => p.cur = pre.new
      /\ ~p.newRound => p.cur = pre.cur /\ p.new = pre.new
  BY <1>1 DEF InitByPrePack, IsPack
<1>3. p.slot \in 0..RoundSlots - 1 /\ p.time \in 0..MaxTime
  <2>1. pre.slot \in Nat /\ pre.time \in Nat /\ delta \in Nat
    BY RoundPositive, NumbersAssumption DEF PackOK
  <2>2. index \in Nat
    BY <2>1
  <2>3. index % RoundSlots \in 0..RoundSlots - 1
    BY <2>2, RoundPositive
  <2>4. QED
    BY <2>1, <2>3, <1>2, NumbersAssumption
<1>4. RuleOK(p.cur)
  BY <1>2 DEF PackOK
<1>5. RuleOK(rule) /\ rule.version # 0
  <2>1. p.cur.version \in Nat
    BY <1>4 DEF RuleOK
  <2>2. ListOK(next_round(infos))
    BY NextRound
  <2> HIDE DEF p
  <2>3. QED
    BY <2>1, <2>2 DEF RuleOK
<1>6. CASE p.newRound
  <2>1. b = [p EXCEPT !.new = rule, !.next = rule]
    BY <1>6 DEF Built, GenerateNextBuilders
  <2> HIDE DEF p, rule
  <2>2. /\ b.time = p.time /\ b.slot = p.slot /\ b.cur = p.cur
        /\ b.newRound = p.newRound /\ b.new = rule /\ b.next = rule
    BY <2>1, <1>2 DEF IsPack
  <2> HIDE DEF b, index
  <2>3. PackOK(b)
    BY <2>2, <1>3, <1>4, <1>5 DEF PackOK
  <2>4. QED
    BY <2>2, <2>3, <1>2, <1>5, <1>6 DEF b, index
<1>7. CASE ~p.newRound
  <2>1. b = p
    BY <1>7 DEF Built, GenerateNextBuilders
  <2> HIDE DEF p, b, index
  <2>2. PackOK(b)
    BY <2>1, <1>2, <1>3, <1>4, <1>7 DEF PackOK
  <2>3. QED
    BY <2>1, <2>2, <1>2, <1>7 DEF b, index
<1>8. QED
  BY <1>6, <1>7

\* Registering and unregistering keep the names apart.
LEMMA RanOK ==
    ASSUME NEW infos, InfosOK(infos), NEW trx \in Trxs
    PROVE  InfosOK(Ran(infos, trx))
<1>1. /\ infos \in Seq(Infos) /\ Len(infos) \in Nat /\ DOMAIN infos = 1..Len(infos)
      /\ \A i, j \in 1..Len(infos) : infos[i].name = infos[j].name => i = j
      /\ \A i \in 1..Len(infos) : infos[i] \in Infos
  BY DEF InfosOK
<1>2. ASSUME NEW name \in Names, NEW key \in Keys
      PROVE  InfosOK(regbuilder(infos, name, key))
  <2> DEFINE info == [name |-> name, key |-> key]
             r == [i \in DOMAIN infos |-> IF infos[i].name = name THEN info ELSE infos[i]]
  <2>1. info \in Infos /\ info.name = name
    BY DEF Infos
  <2> HIDE DEF info
  <2>2. CASE IndexOf(infos, name) = {}
    <3>1. regbuilder(infos, name, key) = Append(infos, info)
      BY <2>2 DEF regbuilder, info
    <3>2. \A i \in 1..Len(infos) : infos[i].name # name
      BY <2>2, <1>1 DEF IndexOf
    <3>3. Append(infos, info) \in Seq(Infos) /\ Len(Append(infos, info)) = Len(infos) + 1
          /\ Append(infos, info)[Len(infos) + 1] = info
          /\ \A i \in 1..Len(infos) : Append(infos, info)[i] = infos[i]
      BY <1>1, <2>1
    <3> DEFINE a == Append(infos, info)
    <3> HIDE DEF a
    <3>4. \A i, j \in 1..Len(infos) + 1 : a[i].name = a[j].name => i = j
      BY <1>1, <2>1, <3>2, <3>3 DEF a
    <3>5. QED
      BY <3>1, <3>3, <3>4 DEF InfosOK, a
  <2>3. CASE IndexOf(infos, name) # {}
    <3>1. regbuilder(infos, name, key) = r
      BY <2>3 DEF regbuilder, info
    <3>2. \A i \in 1..Len(infos) : r[i] \in Infos /\ r[i].name = infos[i].name
      BY <1>1, <2>1
    <3>3. r \in [1..Len(infos) -> Infos]
      BY <1>1, <3>2
    <3> HIDE DEF r
    <3>4. r \in Seq(Infos) /\ Len(r) = Len(infos)
      BY <1>1, <3>3
    <3>5. QED
      BY <1>1, <3>1, <3>2, <3>4 DEF InfosOK
  <2>4. QED
    BY <2>2, <2>3
<1>3. ASSUME NEW name \in Names
      PROVE  InfosOK(unregbuilder(infos, name))
  <2> DEFINE r == unregbuilder(infos, name)
  <2>1. \A i \in 1..Len(infos) : r[i] \in Infos /\ r[i].name = infos[i].name
    BY <1>1 DEF unregbuilder, Infos
  <2>2. r \in [1..Len(infos) -> Infos]
    BY <1>1, <2>1 DEF unregbuilder
  <2> HIDE DEF r
  <2>3. r \in Seq(Infos) /\ Len(r) = Len(infos)
    BY <1>1, <2>2
  <2>4. QED
    BY <1>1, <2>1, <2>3 DEF InfosOK, r
<1>4. CASE trx = Nothing
  BY <1>4 DEF Ran, Nothing
<1>5. CASE trx \in [op : {"regbuilder"}, name : Names, key : Keys]
  <2>1. trx.op = "regbuilder" /\ trx.name \in Names /\ trx.key \in Keys
    BY <1>5
  <2>2. QED
    BY <2>1, <1>2 DEF Ran
<1>6. CASE trx \in [op : {"unregbuilder"}, name : Names]
  <2>1. trx.op = "unregbuilder" /\ trx.name \in Names
    BY <1>6
  <2>2. QED
    BY <2>1, <1>3 DEF Ran
<1>7. QED
  BY <1>4, <1>5, <1>6 DEF Trxs

\* What update_or_create_builders leaves: the key of the list for whoever is
\* on it, the old one for everybody else.
LEMMA UpdateKeys ==
    ASSUME NEW signing, NEW rule, ListOK(rule.builders),
           signing \in [Builders -> Keys \cup {NoKey, XMaxKey}],
           \A n \in Builders : n # XMax => signing[n] \in Keys \cup {NoKey}
    PROVE  LET new == update_or_create_builders(signing, rule)
           IN  /\ new \in [Builders -> Keys \cup {NoKey, XMaxKey}]
               /\ \A n \in Builders : n # XMax => new[n] \in Keys \cup {NoKey}
               /\ \A i \in 1..Len(rule.builders) :
                      new[rule.builders[i].name] = rule.builders[i].key
               /\ \A n \in Builders :
                      new[n] = signing[n] \/ \E i \in 1..Len(rule.builders) :
                                                  rule.builders[i].name = n
<1> DEFINE list == rule.builders
           On(n) == \E i \in DOMAIN list : list[i].name = n
           at(n) == CHOOSE i \in DOMAIN list : list[i].name = n
           new == update_or_create_builders(signing, rule)
<1>1. /\ DOMAIN list = 1..Len(list)
      /\ \A i \in 1..Len(list) : list[i] \in Members
      /\ \A i, j \in 1..Len(list) : list[i].name = list[j].name => i = j
      /\ \A i \in 1..Len(list) : list[i].name # XMax => list[i].key \in Keys
  BY DEF ListOK
<1>2. \A n \in Builders : new[n] = IF On(n) THEN list[at(n)].key ELSE signing[n]
  BY DEF update_or_create_builders
<1>3. \A n : On(n) => at(n) \in 1..Len(list) /\ list[at(n)].name = n
  BY <1>1
<1>4. \A i \in 1..Len(list) : list[i].name \in Builders /\ list[i].key \in Keys \cup {XMaxKey}
  BY <1>1 DEF Members
<1>5. DOMAIN new = Builders /\ new = [n \in Builders |-> new[n]]
  BY DEF update_or_create_builders
<1>6. \A i \in 1..Len(list) : On(list[i].name) /\ at(list[i].name) = i
  BY <1>1, <1>3
<1> HIDE DEF new, list, On, at
<1>7. ASSUME NEW n \in Builders
      PROVE  /\ new[n] \in Keys \cup {NoKey, XMaxKey}
             /\ n # XMax => new[n] \in Keys \cup {NoKey}
             /\ new[n] = signing[n] \/ \E i \in 1..Len(list) : list[i].name = n
  <2>1. CASE On(n)
    <3>1. new[n] = list[at(n)].key /\ at(n) \in 1..Len(list) /\ list[at(n)].name = n
      BY <1>2, <1>3, <2>1
    <3>2. new[n] \in Keys \cup {XMaxKey} /\ (n # XMax => new[n] \in Keys)
      BY <3>1, <1>1, <1>4
    <3>3. QED
      BY <3>1, <3>2
  <2>2. CASE ~On(n)
    BY <2>2, <1>2
  <2>3. QED
    BY <2>1, <2>2
<1>8. \A i \in 1..Len(list) : new[list[i].name] = list[i].key
  BY <1>2, <1>4, <1>6
<1>9. new \in [Builders -> Keys \cup {NoKey, XMaxKey}]
  BY <1>5, <1>7
<1>10. QED
  BY <1>7, <1>8, <1>9 DEF new, list

\* A pack and its database before a block, and after it.
Good(p, db) == Agree(p, db) /\ PackOK(p) /\ DbOK(db)

\* Executing a block keeps the types and the keys on record.
LEMMA ExecutedGood ==
    ASSUME NEW pre, NEW db, Good(pre, db), NEW delta \in 1..MaxDelta,
           pre.time + delta <= MaxTime, NEW trx \in Trxs
    PROVE  LET b == Built(pre, delta, db.infos)
           IN  Good(b, Executed(db, b, delta, trx))
<1> DEFINE b == Built(pre, delta, db.infos)
           e == Executed(db, b, delta, trx)
           signing == IF b.newRound THEN update_or_create_builders(db.signing, b.next)
                      ELSE db.signing
<1>1. Agree(pre, db) /\ PackOK(pre) /\ InfosOK(db.infos)
  BY DEF Good, DbOK
<1>2. Agree(b, e)
  BY <1>1, ExecutedAgrees
<1>3. PackOK(b)
  BY <1>1, BuiltOn
<1>4. /\ b.newRound => b.cur = pre.new /\ b.next = b.new
      /\ ~b.newRound => b.cur = pre.cur /\ b.new = pre.new
  BY <1>1, BuiltOn
<1>5. /\ e.infos = Ran(db.infos, trx)
      /\ e.signing = signing
      /\ e.missed = [n \in Builders |-> db.missed[n] + MissedBy(db, delta, n)]
  BY DEF Executed
<1>6. InfosOK(e.infos)
  BY <1>1, <1>5, RanOK
<1>7. e.missed \in [Builders -> Nat]
  <2>1. \A n \in Builders : MissedBy(db, delta, n) \in Nat
    <3> SUFFICES ASSUME NEW n \in Builders PROVE MissedBy(db, delta, n) \in Nat
      OBVIOUS
    <3> DEFINE M == {s \in MissedSlots(db, delta) : get_order_builder(db, s).name = n}
    <3>1. db.slot \in Nat /\ delta \in Nat
      BY <1>1, RoundPositive, NumbersAssumption DEF Agree, PackOK
    <3>2. (delta - 1) % RoundSlots \in Nat
      BY <3>1, RoundPositive
    <3>3. IsFiniteSet(MissedSlots(db, delta))
      <4>1. db.slot + 1 \in Int /\ db.slot + ((delta - 1) % RoundSlots) \in Int
        BY <3>1, <3>2
      <4>2. QED
        BY <4>1, FS_Interval, Zenon DEF MissedSlots
    <3>4. IsFiniteSet(M)
      BY <3>3, FS_Subset
    <3>5. Cardinality(M) \in Nat
      BY <3>4, FS_CardinalityType
    <3>6. QED
      BY <3>5 DEF MissedBy
  <2>2. db.missed \in [Builders -> Nat]
    BY DEF Good, DbOK
  <2>3. \A n \in Builders : db.missed[n] + MissedBy(db, delta, n) \in Nat
    BY <2>1, <2>2
  <2>4. QED
    BY <2>3, <1>5
<1>8. /\ db.signing \in [Builders -> Keys \cup {NoKey, XMaxKey}]
      /\ \A n \in Builders : n # XMax => db.signing[n] \in Keys \cup {NoKey}
      /\ KeysOK(db)
  BY DEF Good, DbOK
<1>9. /\ pre.cur = db.cur /\ pre.new = db.next
      /\ b.cur = e.cur /\ b.new = e.next
  BY <1>1, <1>2 DEF Agree
<1>10. RuleOK(b.cur) /\ RuleOK(b.new) /\ RuleOK(pre.new)
  BY <1>1, <1>3 DEF PackOK
<1> HIDE DEF b, e, signing
<1>11. CASE b.newRound
  <2>1. signing = update_or_create_builders(db.signing, b.next) /\ b.next = e.next
        /\ e.cur = db.next
    BY <1>4, <1>9, <1>11 DEF signing
  <2>2. ListOK(e.next.builders) /\ ListOK(e.cur.builders)
    BY <1>9, <1>10 DEF RuleOK
  <2>3. /\ signing \in [Builders -> Keys \cup {NoKey, XMaxKey}]
        /\ \A n \in Builders : n # XMax => signing[n] \in Keys \cup {NoKey}
        /\ \A i \in 1..Len(e.next.builders) :
              signing[e.next.builders[i].name] = e.next.builders[i].key
        /\ \A n \in Builders :
              signing[n] = db.signing[n]
              \/ \E j \in 1..Len(e.next.builders) : e.next.builders[j].name = n
    BY <1>8, <2>1, <2>2, UpdateKeys
  <2>4. ASSUME NEW i \in 1..Len(e.cur.builders)
        PROVE  LET m == e.cur.builders[i]
               IN  \/ signing[m.name] = m.key
                   \/ \E j \in 1..Len(e.next.builders) : e.next.builders[j].name = m.name
    <3> DEFINE m == e.cur.builders[i]
    <3>1. m.name \in Builders
      <4>1. e.cur.builders \in Seq(Members)
        BY <2>2 DEF ListOK
      <4>2. m \in Members
        BY <4>1
      <4>3. QED
        BY <4>2 DEF Members
    <3>2. db.signing[m.name] = m.key
      BY <1>8, <2>1 DEF KeysOK
    <3> HIDE DEF m
    <3>3. \/ signing[m.name] = m.key
          \/ \E j \in 1..Len(e.next.builders) : e.next.builders[j].name = m.name
      BY <3>1, <3>2, <2>3
    <3>4. QED
      BY <3>3 DEF m
  <2>5. KeysOK(e)
    BY <1>5, <2>3, <2>4 DEF KeysOK
  <2>6. DbOK(e)
    BY <1>5, <1>6, <1>7, <2>3, <2>5 DEF DbOK
  <2>7. QED
    BY <1>2, <1>3, <2>6 DEF Good, b, e
<1>12. CASE ~b.newRound
  <2>1. signing = db.signing /\ e.cur = db.cur /\ e.next = db.next
    BY <1>4, <1>9, <1>12 DEF signing
  <2>2. KeysOK(e)
    BY <1>5, <1>8, <2>1 DEF KeysOK
  <2>3. DbOK(e)
    BY <1>5, <1>6, <1>7, <1>8, <2>1, <2>2 DEF DbOK
  <2>4. QED
    BY <1>2, <1>3, <2>3 DEF Good, b, e
<1>13. QED
  BY <1>11, <1>12

\* The genesis block: nobody but the builders it announces has a key.
LEMMA GenesisGood == Good(GenesisPack, GenesisDb)
<1> DEFINE g == [time |-> 0, builder |-> GenesisRule.builders[1], slot |-> 0,
                 cur |-> GenesisRule, new |-> NoRule, newRound |-> TRUE,
                 next |-> NoRule, stored |-> TRUE]
           rule == [version |-> 2, builders |-> next_round(Genesis)]
           none == [n \in Builders |-> NoKey]
<1>1. GenesisPack = [g EXCEPT !.new = rule, !.next = rule]
  <2>1. g.newRound /\ g.cur.version + 1 = 2
    BY DEF GenesisRule
  <2>2. GenesisPack = GenerateNextBuilders(g, Genesis)
    BY DEF GenesisPack
  <2> HIDE DEF g
  <2>3. QED
    BY <2>1, <2>2 DEF GenerateNextBuilders
<1>2. InfosOK(Genesis)
  <2> DEFINE Given == [name : Names, key : Keys]
  <2>1. Genesis \in Seq(Given)
    BY GenesisAssumption
  <2>2. \A m \in Given : m \in Infos
    BY DEF Infos
  <2> HIDE DEF Given
  <2>3. Genesis \in Seq(Infos) /\ DOMAIN Genesis = 1..Len(Genesis)
    BY <2>1, <2>2
  <2>4. QED
    BY <2>3, GenesisAssumption DEF InfosOK
<1>3. ListOK(next_round(Genesis))
  BY <1>2, NextRound
<1>4. RuleOK(rule) /\ rule.version \in Nat
  BY <1>3 DEF RuleOK
<1>5. RuleOK(GenesisRule)
  <2> DEFINE m == [name |-> XMax, key |-> XMaxKey]
  <2>1. m.name = XMax /\ m \in Members
    BY DEF Members, Builders
  <2>2. GenesisRule = [version |-> 1, builders |-> <<m>>]
    BY DEF GenesisRule
  <2> HIDE DEF m
  <2>3. ListOK(<<m>>)
    BY <2>1 DEF ListOK
  <2>4. QED
    BY <2>2, <2>3 DEF RuleOK
<1>6. \A i \in 1..Len(GenesisRule.builders) : GenesisRule.builders[i].name = XMax
  BY DEF GenesisRule
<1> HIDE DEF rule
<1>7. /\ IsPack(GenesisPack)
      /\ GenesisPack.next = rule /\ GenesisPack.new = rule
      /\ GenesisPack.cur = GenesisRule
      /\ GenesisPack.slot = 0 /\ GenesisPack.time = 0
  BY <1>1 DEF IsPack
<1>8. /\ GenesisDb.cur = GenesisRule /\ GenesisDb.next = rule /\ GenesisDb.slot = 0
      /\ GenesisDb.infos = Genesis
      /\ GenesisDb.signing = update_or_create_builders(none, rule)
      /\ GenesisDb.missed = [n \in Builders |-> 0]
  BY <1>7 DEF GenesisDb
<1>9. Agree(GenesisPack, GenesisDb)
  BY <1>4, <1>5, <1>7, <1>8 DEF Agree, RuleOK
<1>10. PackOK(GenesisPack)
  BY <1>4, <1>5, <1>7, RoundPositive, NumbersAssumption DEF PackOK
<1>11. ListOK(rule.builders)
  BY <1>4 DEF RuleOK
<1>12. /\ none \in [Builders -> Keys \cup {NoKey, XMaxKey}]
       /\ \A n \in Builders : n # XMax => none[n] \in Keys \cup {NoKey}
  OBVIOUS
<1> HIDE DEF none
<1>13. /\ GenesisDb.signing \in [Builders -> Keys \cup {NoKey, XMaxKey}]
       /\ \A n \in Builders : n # XMax => GenesisDb.signing[n] \in Keys \cup {NoKey}
       /\ \A i \in 1..Len(rule.builders) :
              GenesisDb.signing[rule.builders[i].name] = rule.builders[i].key
  BY <1>8, <1>11, <1>12, UpdateKeys
<1>14. KeysOK(GenesisDb)
  BY <1>6, <1>8, <1>13 DEF KeysOK
<1>15. GenesisDb.missed \in [Builders -> Nat]
  BY <1>8
<1>16. DbOK(GenesisDb)
  BY <1>2, <1>8, <1>13, <1>14, <1>15 DEF DbOK
<1>17. QED
  BY <1>9, <1>10, <1>16 DEF Good

(***************************************************************************)
(* Every step either cuts the chain back, keeping what the packs say, or   *)
(* adds the pack that building on the head makes.                          *)
(***************************************************************************)
Same(p, q) ==
    /\ p.time = q.time /\ p.slot = q.slot
    /\ p.cur = q.cur /\ p.new = q.new /\ p.next = q.next

CutBack ==
    /\ Len(packs') <= Len(packs)
    /\ \A i \in 1..Len(packs') : Same(packs'[i], packs[i]) /\ dbs'[i] = dbs[i]

Pushed ==
    \E delta \in Deltas, trx \in Trxs : Push(Built(Tip, delta, Db.infos), delta, trx)

\* block_pack::refresh gives a pack that says what the lost one said.
LEMMA RefreshedSame ==
    ASSUME NEW p, NEW db, Agree(p, db)
    PROVE  Same(Refreshed(p, db), p)
<1> DEFINE sel == select_builder(db.cur, db.next, db.slot)
           q == [time |-> p.time, builder |-> sel, slot |-> db.slot, cur |-> db.cur,
                 new |-> db.next, newRound |-> FALSE, next |-> NoRule, stored |-> FALSE]
<1>1. Refreshed(p, db) = GenerateByBlock(q, p.next)
  BY DEF Refreshed
<1> HIDE DEF sel
<1>2. IsPack(q) /\ q.time = p.time /\ q.cur = db.cur /\ q.new = db.next /\ q.slot = db.slot
  BY DEF IsPack
<1> HIDE DEF q
<1>3. QED
  BY <1>1, <1>2 DEF GenerateByBlock, Agree, IsPack, Same

\* Building, confirming and switching add the same pack; the rest cuts back.
LEMMA StepShape ==
    ASSUME Paired, "open" \notin Kills, [Next]_vars
    PROVE  CutBack \/ Pushed
<1> DEFINE n == Len(packs)
<1>1. IsSeq(packs) /\ IsSeq(dbs) /\ Len(dbs) = n /\ log \in 1..n
      /\ \A i \in 1..n : Agree(packs[i], dbs[i])
  BY DEF Paired
<1>2. n \in Nat /\ n >= 1
  BY <1>1, AppendIsSeq
<1>3. Tip.cur.version \in Nat /\ Tip.new.version \in Nat
  BY <1>1, <1>2 DEF Tip, Agree
<1>4. ASSUME packs' = packs, dbs' = dbs PROVE CutBack
  BY <1>2, <1>4 DEF CutBack, Same
<1>5. CASE BuildBlock
  BY <1>5 DEF BuildBlock, Pushed
<1>6. CASE ConfirmBlock
  BY <1>6 DEF ConfirmBlock, Pushed
<1>7. CASE SwitchTo
  <2>1. PICK delta \in Deltas, trx \in Trxs :
            LET block == OtherBlock(delta)
            IN  /\ SameHeader(Built(Tip, delta, Db.infos), block)
                /\ Push(Forked(Tip, delta, block.next), delta, trx)
    BY <1>7 DEF SwitchTo
  <2>2. OtherBlock(delta).next = Built(Tip, delta, Db.infos).next
    BY <2>1 DEF SameHeader
  <2>3. Push(Built(Tip, delta, Db.infos), delta, trx)
    BY <2>1, <2>2, <1>3, ForkedIsBuilt
  <2>4. QED
    BY <2>3 DEF Pushed
<1>8. CASE PopBlock
  <2>1. packs' = SubSeq(packs, 1, n - 1) /\ dbs' = SubSeq(dbs, 1, n - 1)
    BY <1>1, <1>8 DEF PopBlock, Front
  <2>2. n - 1 \in Nat /\ n - 1 <= n
    BY <1>2
  <2>3. Len(packs') = n - 1 /\ \A i \in 1..n - 1 : packs'[i] = packs[i]
    <3> HIDE DEF n
    <3>1. QED
      BY <2>1, <2>2, <1>1, PrefixIsSeq DEF n
  <2>4. \A i \in 1..n - 1 : dbs'[i] = dbs[i]
    <3> HIDE DEF n
    <3>1. QED
      BY <2>1, <2>2, <1>1, PrefixIsSeq
  <2>5. QED
    BY <1>2, <2>3, <2>4 DEF CutBack, Same
<1>9. CASE Irreversible
  BY <1>4, <1>9 DEF Irreversible
<1>10. CASE Kill
  <2> DEFINE q == Refreshed(packs[n], dbs[n])
             front == SubSeq(packs, 1, n - 1)
  <2>1. packs' = Append(front, q) /\ dbs' = SubSeq(dbs, 1, n)
    BY <1>1, <1>10 DEF Kill, Db
  <2>2. Same(q, packs[n])
    BY <1>1, <1>2, RefreshedSame
  <2>3. n - 1 \in Nat /\ n - 1 <= n /\ (n - 1) + 1 = n /\ n <= n
    BY <1>2
  <2> HIDE DEF q
  <2>4. IsSeq(front) /\ Len(front) = n - 1 /\ \A i \in 1..n - 1 : front[i] = packs[i]
    <3> HIDE DEF n
    <3>1. QED
      BY <2>3, <1>1, PrefixIsSeq DEF n
  <2> HIDE DEF front
  <2>5. Len(packs') = n /\ packs'[n] = q /\ \A i \in 1..n - 1 : packs'[i] = packs[i]
    <3>1. /\ Len(packs') = (n - 1) + 1 /\ packs'[(n - 1) + 1] = q
          /\ \A i \in 1..n - 1 : packs'[i] = front[i]
      BY <2>1, <2>4, AppendIsSeq
    <3>2. QED
      BY <3>1, <2>3, <2>4
  <2>6. \A i \in 1..n : dbs'[i] = dbs[i]
    <3> HIDE DEF n
    <3>1. QED
      BY <2>1, <1>1, <1>2, PrefixIsSeq
  <2>7. \A i \in 1..n : i = n \/ i \in 1..n - 1
    BY <1>2
  <2>8. QED
    BY <1>2, <2>2, <2>5, <2>6, <2>7 DEF CutBack, Same
<1>11. CASE UNCHANGED vars
  BY <1>4, <1>11 DEF vars
<1>12. QED
  BY <1>5, <1>6, <1>7, <1>8, <1>9, <1>10, <1>11 DEF Next

(***************************************************************************)
(* The second invariant.  AnnouncedRules speaks of the first blocks of two *)
(* rounds; Held carries the rule announced by the earlier one through the  *)
(* blocks in between, whose packs hold it as new_builders.                 *)
(***************************************************************************)
\* A pack and the one after it.
Follows(p, q) == IF q.next = NoRule THEN q.new = p.new ELSE q.cur = p.new

Held ==
    \A i, j \in 1..Len(packs) :
        /\ i <= j /\ packs[i].next # NoRule
        /\ \A k \in i + 1..j : packs[k].next = NoRule
        => packs[j].new = packs[i].next

Linked == \A i \in 1..Len(packs) - 1 : Follows(packs[i], packs[i + 1])

Sound ==
    /\ Paired
    /\ \A i \in 1..Len(packs) : PackOK(packs[i]) /\ DbOK(dbs[i])
    /\ Held /\ Linked

\* Genesis satisfies the second invariant.
LEMMA InitSound == Init => Sound
<1> SUFFICES ASSUME Init PROVE Sound
  OBVIOUS
<1>1. Paired
  BY InitPaired
<1>2. packs = <<GenesisPack>> /\ dbs = <<GenesisDb>>
  BY DEF Init
<1>3. Len(packs) = 1 /\ packs[1] = GenesisPack /\ dbs[1] = GenesisDb
  BY <1>2
<1>4. Good(GenesisPack, GenesisDb)
  BY GenesisGood
<1>5. \A i \in 1..Len(packs) : PackOK(packs[i]) /\ DbOK(dbs[i])
  BY <1>3, <1>4 DEF Good
<1>6. Held
  <2>1. GenesisPack.next # NoRule => GenesisPack.new = GenesisPack.next
    BY <1>4 DEF Good, Agree
  <2>2. QED
    BY <1>3, <2>1 DEF Held
<1>7. Linked
  BY <1>3 DEF Linked
<1>8. QED
  BY <1>1, <1>5, <1>6, <1>7 DEF Sound

\* Cutting the chain back: what the remaining packs say is unchanged.
LEMMA CutSound ==
    ASSUME Sound, Paired', CutBack
    PROVE  Sound'
<1> DEFINE n == Len(packs)
           m == Len(packs')
<1>1. n \in Nat /\ m \in Nat /\ m <= n
  BY AppendIsSeq DEF Sound, Paired, CutBack
<1>2. \A i \in 1..m : Same(packs'[i], packs[i]) /\ dbs'[i] = dbs[i]
  BY DEF CutBack
<1>3. \A i \in 1..m : PackOK(packs'[i]) /\ DbOK(dbs'[i])
  <2>1. ASSUME NEW i \in 1..m PROVE PackOK(packs'[i]) /\ DbOK(dbs'[i])
    <3>1. PackOK(packs[i]) /\ DbOK(dbs[i])
      BY <1>1 DEF Sound
    <3>2. PackOK(packs'[i])
      BY <1>2, <3>1 DEF PackOK, Same
    <3>3. QED
      BY <1>2, <3>1, <3>2
  <2>2. QED
    BY <2>1
<1>4. \A i \in 1..m : packs'[i].next = packs[i].next /\ packs'[i].new = packs[i].new
                      /\ packs'[i].cur = packs[i].cur
  BY <1>2 DEF Same
<1>5. Held'
  <2> SUFFICES ASSUME NEW i \in 1..m, NEW j \in 1..m, i <= j, packs'[i].next # NoRule,
                      \A k \in i + 1..j : packs'[k].next = NoRule
               PROVE  packs'[j].new = packs'[i].next
    BY DEF Held
  <2>1. \A k \in i + 1..j : packs[k].next = NoRule
    BY <1>1, <1>4
  <2>2. packs[i].next # NoRule /\ i \in 1..n /\ j \in 1..n
    BY <1>1, <1>4
  <2>3. packs[j].new = packs[i].next
    BY <2>1, <2>2 DEF Sound, Held
  <2>4. QED
    BY <2>3, <1>4
<1>6. Linked'
  <2> SUFFICES ASSUME NEW i \in 1..m - 1 PROVE Follows(packs'[i], packs'[i + 1])
    BY DEF Linked
  <2>1. i \in 1..m /\ i + 1 \in 1..m /\ i \in 1..n - 1
    BY <1>1
  <2>2. Follows(packs[i], packs[i + 1])
    BY <2>1 DEF Sound, Linked
  <2>3. QED
    BY <2>1, <2>2, <1>4 DEF Follows
<1>7. QED
  BY <1>3, <1>5, <1>6 DEF Sound

\* The block that is added continues what the head holds.
LEMMA PushSound ==
    ASSUME Sound, Paired', Pushed
    PROVE  Sound'
<1> DEFINE n == Len(packs)
<1>1. IsSeq(packs) /\ IsSeq(dbs) /\ Len(dbs) = n /\ log \in 1..n
      /\ \A i \in 1..n : Agree(packs[i], dbs[i])
  BY DEF Sound, Paired
<1>2. n \in Nat /\ n >= 1
  BY <1>1, AppendIsSeq
<1>3. PICK delta \in Deltas, trx \in Trxs : Push(Built(Tip, delta, Db.infos), delta, trx)
  BY DEF Pushed
<1> DEFINE b == Built(Tip, delta, Db.infos)
           e == Executed(Db, b, delta, trx)
<1>4. Good(Tip, Db) /\ Tip = packs[n] /\ Db = dbs[n]
  BY <1>1, <1>2 DEF Good, Sound, Tip, Db
<1>5. delta \in 1..MaxDelta /\ Tip.time + delta <= MaxTime
  BY DEF Deltas
<1>6. Good(b, e)
  BY <1>4, <1>5, ExecutedGood
<1>7. /\ b.newRound = (Tip.slot + delta >= RoundSlots)
      /\ b.newRound => b.cur = Tip.new /\ b.next = b.new /\ b.new.version # 0
      /\ ~b.newRound => b.cur = Tip.cur /\ b.new = Tip.new /\ b.next = NoRule
  <2>1. PackOK(Tip) /\ InfosOK(Db.infos)
    BY <1>4 DEF Good, DbOK
  <2>2. QED
    BY <1>5, <2>1, BuiltOn
<1>8. packs' = Append(packs, b) /\ dbs' = Append(dbs, e)
  BY <1>3 DEF Push
<1> HIDE DEF b, e, n
<1>9. Follows(Tip, b)
  BY <1>7 DEF Follows, NoRule
<1>10. /\ Len(packs') = n + 1 /\ packs'[n + 1] = b
       /\ \A i \in 1..n : packs'[i] = packs[i]
  BY <1>1, <1>8, AppendIsSeq DEF n
<1>11. dbs'[n + 1] = e /\ \A i \in 1..n : dbs'[i] = dbs[i]
  BY <1>1, <1>8, AppendIsSeq
<1>12. \A i \in 1..n + 1 : i = n + 1 \/ i \in 1..n
  BY <1>2
<1>13. \A i \in 1..n + 1 : PackOK(packs'[i]) /\ DbOK(dbs'[i])
  <2>1. PackOK(b) /\ DbOK(e)
    BY <1>6 DEF Good
  <2>2. \A i \in 1..n : PackOK(packs[i]) /\ DbOK(dbs[i])
    BY DEF Sound, n
  <2>3. QED
    BY <2>1, <2>2, <1>10, <1>11, <1>12
<1>14. Held'
  <2> SUFFICES ASSUME NEW i \in 1..n + 1, NEW j \in 1..n + 1, i <= j,
                      packs'[i].next # NoRule,
                      \A k \in i + 1..j : packs'[k].next = NoRule
               PROVE  packs'[j].new = packs'[i].next
    BY <1>10 DEF Held
  <2>1. CASE i = n + 1
    <3>1. j = n + 1
      BY <2>1, <1>2
    <3>2. b.next # NoRule => b.new = b.next
      BY <1>6 DEF Good, Agree
    <3>3. QED
      BY <2>1, <3>1, <3>2, <1>10
  <2>2. CASE i \in 1..n /\ j \in 1..n
    <3>1. \A k \in i + 1..j : packs[k].next = NoRule
      BY <1>2, <1>10, <2>2
    <3>2. QED
      BY <2>2, <3>1, <1>10 DEF Sound, Held, n
  <2>3. CASE i \in 1..n /\ j = n + 1
    <3>1. \A k \in i + 1..n : packs[k].next = NoRule
      BY <1>2, <1>10, <2>3
    <3>2. i <= n /\ n \in 1..n /\ packs[i].next # NoRule
      BY <1>2, <1>10, <2>3
    <3>3. packs[n].new = packs[i].next
      BY <2>3, <3>1, <3>2 DEF Sound, Held, n
    <3>4. n + 1 \in i + 1..j
      BY <1>2, <2>3
    <3>5. b.next = NoRule
      BY <3>4, <1>10
    <3>6. b.new = packs[n].new
      BY <3>5, <1>4, <1>9 DEF Follows
    <3>7. QED
      BY <2>3, <3>3, <3>6, <1>10
  <2>4. QED
    BY <2>1, <2>2, <2>3, <1>12
<1>15. Linked'
  <2> SUFFICES ASSUME NEW i \in 1..(n + 1) - 1 PROVE Follows(packs'[i], packs'[i + 1])
    BY <1>10 DEF Linked
  <2>1. CASE i = n
    BY <2>1, <1>2, <1>4, <1>9, <1>10
  <2>2. CASE i \in 1..n - 1
    <3>1. Follows(packs[i], packs[i + 1])
      BY <2>2 DEF Sound, Linked, n
    <3>2. i \in 1..n /\ i + 1 \in 1..n
      BY <1>2, <2>2
    <3>3. QED
      BY <3>1, <3>2, <1>10
  <2>3. QED
    BY <2>1, <2>2, <1>2
<1>16. QED
  BY <1>10, <1>13, <1>14, <1>15 DEF Sound

\* Every step keeps the second invariant.
LEMMA NextSound ==
    ASSUME Sound, "open" \notin Kills, [Next]_vars
    PROVE  Sound'
<1>1. Paired'
  BY NextPaired DEF Sound
<1>2. CutBack \/ Pushed
  BY StepShape DEF Sound
<1>3. QED
  BY <1>1, <1>2, CutSound, PushSound

(***************************************************************************)
(* What the second invariant gives.                                        *)
(***************************************************************************)
\* The second invariant implies the types.
LEMMA SoundTypes == Sound => TypeOK
<1> SUFFICES ASSUME Sound PROVE TypeOK
  OBVIOUS
<1>1. IsSeq(packs) /\ Len(dbs) = Len(packs) /\ log \in 1..Len(packs)
  BY DEF Sound, Paired
<1>2. DOMAIN packs = 1..Len(packs)
  BY <1>1 DEF IsSeq
<1>3. ASSUME NEW i \in DOMAIN packs
      PROVE  /\ packs[i].time \in 0..MaxTime
             /\ packs[i].slot \in 0..RoundSlots - 1
             /\ packs[i].cur \in Rules /\ ~IsEmpty(packs[i].cur)
             /\ packs[i].new \in Rules /\ ~IsEmpty(packs[i].new)
             /\ dbs[i].signing \in [Builders -> Keys \cup {NoKey, XMaxKey}]
             /\ dbs[i].missed \in [Builders -> Nat]
  <2>1. PackOK(packs[i]) /\ DbOK(dbs[i])
    BY <1>2 DEF Sound
  <2>2. QED
    BY <2>1, RuleType DEF PackOK, DbOK
<1>4. QED
  BY <1>1, <1>3 DEF TypeOK

\* What is held up to the block before is in force at the next announcement.
LEMMA SoundAnnounced == Sound => AnnouncedRules
<1> SUFFICES ASSUME Sound, NEW i \in DOMAIN packs, NEW j \in DOMAIN packs, i < j,
                    packs[i].next # NoRule, packs[j].next # NoRule,
                    \A k \in i + 1..j - 1 : packs[k].next = NoRule
             PROVE  packs[j].cur = packs[i].next
  BY DEF AnnouncedRules
<1>1. DOMAIN packs = 1..Len(packs) /\ Len(packs) \in Nat
  BY DEF Sound, Paired, IsSeq
<1>2. j - 1 \in 1..Len(packs) - 1 /\ j - 1 \in 1..Len(packs) /\ i <= j - 1
      /\ (j - 1) + 1 = j /\ i \in 1..Len(packs)
  BY <1>1
<1>3. packs[j - 1].new = packs[i].next
  BY <1>2 DEF Sound, Held
<1>4. Follows(packs[j - 1], packs[j])
  <2>1. Follows(packs[j - 1], packs[(j - 1) + 1])
    BY <1>2 DEF Sound, Linked
  <2>2. QED
    BY <1>2, <2>1
<1>5. QED
  BY <1>3, <1>4 DEF Follows

\* What select_builder returns is on one of the two lists.
LEMMA Selected ==
    ASSUME NEW cur, NEW new, RuleOK(cur), RuleOK(new), NEW index \in Nat
    PROVE  \/ \E i \in 1..Len(cur.builders) : select_builder(cur, new, index) = cur.builders[i]
           \/ \E i \in 1..Len(new.builders) : select_builder(cur, new, index) = new.builders[i]
<1> DEFINE rule == select_builder_rule(cur, new, index)
           l == Len(rule.builders)
           i == ((index \div BlocksPerBuilder) % l) + 1
<1>1. rule = cur \/ rule = new
  BY DEF select_builder_rule
<1>2. ListOK(rule.builders)
  BY <1>1 DEF RuleOK
<1>3. select_builder(cur, new, index) = rule.builders[i]
  BY DEF select_builder
<1> HIDE DEF rule
<1>4. l \in Nat /\ l # 0
  BY <1>2 DEF ListOK
<1>5. i \in 1..l
  <2>1. index \div BlocksPerBuilder \in Nat
    BY NumbersAssumption
  <2> HIDE DEF l
  <2>2. QED
    BY <1>4, <2>1
<1> HIDE DEF i
<1>6. QED
  BY <1>1, <1>3, <1>5

\* Whoever keeps its key has the one it signs with on record.
LEMMA SoundSigners ==
    ASSUME Sound
    PROVE  SignersKnown
<1> SUFFICES ASSUME NEW delta \in 1..MaxDelta, OtherBlock(delta).builder.name # XMax,
                    KeepsKey(Db.next, OtherBlock(delta).builder)
             PROVE  SignerValid(Db, OtherBlock(delta).builder)
  BY DEF SignersKnown
<1> DEFINE n == Len(packs)
           index == Db.slot + delta
           there == [Tip EXCEPT !.slot = Db.slot, !.cur = Db.cur, !.new = Db.next]
           b == OtherBlock(delta).builder
<1>1. n \in Nat /\ n >= 1 /\ Len(dbs) = n
  BY AppendIsSeq DEF Sound, Paired
<1>2. Agree(Tip, Db) /\ PackOK(Tip) /\ DbOK(Db)
  BY <1>1 DEF Sound, Paired, Tip, Db
<1>3. RuleOK(Db.cur) /\ RuleOK(Db.next) /\ Db.slot \in Nat
  BY <1>2, RoundPositive DEF Agree, PackOK
<1>4. b = select_builder(Db.cur, Db.next, index)
  <2> DEFINE p == InitByPrePack(there, delta)
  <2>1. there.slot = Db.slot /\ there.cur = Db.cur /\ there.new = Db.next
    BY <1>2 DEF Agree, IsPack
  <2>2. OtherBlock(delta).builder = Built(there, delta, Db.infos).builder
    BY DEF OtherBlock
  <2> HIDE DEF there
  <2>3. IsPack(p) /\ p.builder = select_builder(Db.cur, Db.next, index)
    BY <2>1 DEF InitByPrePack, IsPack
  <2>4. Built(there, delta, Db.infos).builder = p.builder
    <3>1. Built(there, delta, Db.infos) = GenerateNextBuilders(p, Db.infos)
      BY DEF Built
    <3> HIDE DEF p
    <3>2. QED
      BY <2>3, <3>1 DEF GenerateNextBuilders, IsPack
  <2>5. QED
    BY <2>2, <2>3, <2>4
<1>5. index \in Nat
  BY <1>3
<1> HIDE DEF index, b
<1>6. \/ \E i \in 1..Len(Db.cur.builders) : b = Db.cur.builders[i]
      \/ \E i \in 1..Len(Db.next.builders) : b = Db.next.builders[i]
  <2> DEFINE c == Db.cur
             d == Db.next
  <2>1. RuleOK(c) /\ RuleOK(d) /\ b = select_builder(c, d, index)
    BY <1>3, <1>4
  <2> HIDE DEF c, d
  <2>2. \/ \E i \in 1..Len(c.builders) : select_builder(c, d, index) = c.builders[i]
        \/ \E i \in 1..Len(d.builders) : select_builder(c, d, index) = d.builders[i]
    BY <2>1, <1>5, Selected, ZenonT(60)
  <2>3. \/ \E i \in 1..Len(c.builders) : b = c.builders[i]
        \/ \E i \in 1..Len(d.builders) : b = d.builders[i]
    BY <2>1, <2>2
  <2>4. QED
    BY <2>3 DEF c, d
<1>7. CASE \E i \in 1..Len(Db.next.builders) : b = Db.next.builders[i]
  BY <1>2, <1>7 DEF DbOK, KeysOK, SignerValid, b
<1>8. CASE \E i \in 1..Len(Db.cur.builders) : b = Db.cur.builders[i]
  <2>1. PICK i \in 1..Len(Db.cur.builders) : b = Db.cur.builders[i]
    BY <1>8
  <2>2. \/ Db.signing[b.name] = b.key
        \/ \E j \in 1..Len(Db.next.builders) : Db.next.builders[j].name = b.name
    BY <1>2, <2>1 DEF DbOK, KeysOK, b
  <2>3. ASSUME NEW j \in 1..Len(Db.next.builders), Db.next.builders[j].name = b.name
        PROVE  Db.signing[b.name] = b.key
    <3>1. DOMAIN Db.next.builders = 1..Len(Db.next.builders)
      BY <1>3 DEF RuleOK, ListOK
    <3>2. Db.next.builders[j].key = b.key
      BY <2>3, <3>1 DEF KeepsKey, b
    <3>3. Db.signing[Db.next.builders[j].name] = Db.next.builders[j].key
      BY <1>2 DEF DbOK, KeysOK
    <3>4. QED
      BY <2>3, <3>2, <3>3
  <2>4. QED
    BY <2>2, <2>3 DEF SignerValid, b
<1>9. QED
  BY <1>6, <1>7, <1>8

\* Across the border of a round the count starts again; if the list divides
\* the round evenly that does not move anybody.
LEMMA OwnersStay ==
    ASSUME NEW old, PackOK(old), NEW new, NEW delta \in Nat, NEW time \in Nat,
           time > old.time + delta,
           new.time = old.time + delta,
           new.slot = (old.slot + delta) % RoundSlots,
           old.slot + delta >= RoundSlots => new.cur = old.new,
           old.slot + delta < RoundSlots => new.cur = old.cur /\ new.new = old.new
    PROVE  SlotKept(old, new, time)
<1> DEFINE index == old.slot + (time - old.time)
           index2 == new.slot + (time - new.time)
           sum == old.slot + delta
<1>1. old.slot \in Nat /\ old.slot < RoundSlots /\ old.time \in Nat
  BY RoundPositive, NumbersAssumption DEF PackOK
<1>2. ListOK(old.cur.builders) /\ ListOK(old.new.builders) /\ ~IsEmpty(old.new)
  BY RuleType DEF PackOK, RuleOK
<1>3. InitByPrePack(new, time - new.time).builder = select_builder(new.cur, new.new, index2)
  BY DEF InitByPrePack
<1>4. /\ sum \in Nat /\ index \in Nat /\ sum < index
      /\ index2 = new.slot + (index - sum)
  <2>1. \A s, t, d, u \in Nat : u > t + d => /\ s + d \in Nat /\ s + (u - t) \in Nat
                                             /\ s + d < s + (u - t)
                                             /\ u - (t + d) = (s + (u - t)) - (s + d)
    OBVIOUS
  <2>2. QED
    BY <2>1, <1>1
<1>9. new.slot = sum % RoundSlots
  OBVIOUS
<1> SUFFICES ASSUME index < 2 * RoundSlots,
                    BuildersPerRound
                        % Len(select_builder_rule(old.cur, old.new, index).builders) = 0
             PROVE  select_builder(old.cur, old.new, index)
                    = select_builder(new.cur, new.new, index2)
  BY <1>3 DEF SlotKept
<1> HIDE DEF index, index2, sum
<1>5. CASE sum < RoundSlots
  <2>1. new.slot = sum
    <3>1. sum % RoundSlots = sum
      BY <1>4, <1>5, RoundPositive
    <3>2. QED
      BY <3>1 DEF sum
  <2>2. index2 = index
    <3>1. \A s, i \in Nat : s + (i - s) = i
      OBVIOUS
    <3>2. QED
      BY <2>1, <3>1, <1>4
  <2>3. QED
    BY <2>2, <1>5 DEF sum
<1>6. CASE sum >= RoundSlots
  <2> DEFINE list == old.new.builders
             l == Len(list)
             x == index \div BlocksPerBuilder
  <2>1. index >= RoundSlots
    BY <1>4, <1>6, RoundPositive
  <2>2. select_builder_rule(old.cur, old.new, index) = old.new
    BY <2>1, <1>2, <1>4, RoundPositive DEF select_builder_rule
  <2>3. select_builder(old.cur, old.new, index) = list[(x % l) + 1]
    BY <2>2 DEF select_builder
  <2>4. new.slot = sum - RoundSlots
    <3>1. RoundSlots % RoundSlots = 0 /\ RoundSlots \in Nat \ {0} /\ RoundSlots <= sum
      BY <1>6, RoundPositive
    <3>2. (sum - RoundSlots) % RoundSlots = sum % RoundSlots
      BY <3>1, <1>4, ModShift, ZenonT(60)
    <3>3. sum < 2 * RoundSlots
      BY <1>4, RoundPositive
    <3>4. (sum - RoundSlots) % RoundSlots = sum - RoundSlots
      BY <3>3, <1>4, <1>6, RoundPositive
    <3>5. QED
      BY <3>2, <3>4, <1>9
  <2>5. index2 = index - RoundSlots
    <3>1. \A s, i, r \in Nat : (s - r) + (i - s) = i - r
      OBVIOUS
    <3>2. QED
      BY <2>4, <3>1, <1>4, RoundPositive
  <2>6. index2 < RoundSlots
    BY <2>5, <1>4, RoundPositive
  <2>7. select_builder_rule(new.cur, new.new, index2) = old.new
    BY <2>6, <1>6 DEF select_builder_rule, sum
  <2>8. select_builder(new.cur, new.new, index2)
        = list[((index2 \div BlocksPerBuilder) % l) + 1]
    BY <2>7 DEF select_builder
  <2>9. l \in Nat \ {0} /\ BuildersPerRound % l = 0
    BY <1>2, <2>2 DEF ListOK
  <2> HIDE DEF l, list
  <2>10. index2 \div BlocksPerBuilder = x - BuildersPerRound
    <3>1. index >= BlocksPerBuilder * BuildersPerRound
          /\ index2 = index - BlocksPerBuilder * BuildersPerRound
      BY <2>1, <2>5 DEF RoundSlots
    <3>2. BlocksPerBuilder \in Nat \ {0} /\ BuildersPerRound \in Nat
      BY NumbersAssumption
    <3>3. (index - BlocksPerBuilder * BuildersPerRound) \div BlocksPerBuilder
          = (index \div BlocksPerBuilder) - BuildersPerRound
      BY <1>4, <3>1, <3>2, DivShift, Zenon
    <3>4. QED
      BY <3>1, <3>3, Zenon
  <2>11. x \in Nat /\ BuildersPerRound <= x
    <3>1. index2 \in Nat
      BY <1>4, <2>1, <2>5, RoundPositive
    <3>2. index2 \div BlocksPerBuilder \in Nat /\ x \in Nat
      BY <3>1, <1>4, NumbersAssumption
    <3> HIDE DEF x
    <3>3. QED
      BY <3>2, <2>10, NumbersAssumption
  <2> HIDE DEF x
  <2>12. (x - BuildersPerRound) % l = x % l
    BY <2>9, <2>11, NumbersAssumption, ModShift, ZenonT(60)
  <2>13. QED
    BY <2>3, <2>8, <2>10, <2>12
<1>7. QED
  BY <1>4, <1>5, <1>6, RoundPositive

\* The pack that a step adds is one that OwnersStay speaks of.
LEMMA PushKeepsOwners ==
    ASSUME Sound, Pushed, NEW time \in Tip'.time + 1..Tip'.time + MaxDelta
    PROVE  SlotKept(Tip, Tip', time)
<1> DEFINE n == Len(packs)
<1>1. n \in Nat /\ n >= 1 /\ IsSeq(packs) /\ Len(dbs) = n
  BY AppendIsSeq DEF Sound, Paired
<1>2. PICK delta \in Deltas, trx \in Trxs : Push(Built(Tip, delta, Db.infos), delta, trx)
  BY DEF Pushed
<1> DEFINE new == Built(Tip, delta, Db.infos)
<1>3. PackOK(Tip) /\ InfosOK(Db.infos)
  BY <1>1 DEF Sound, DbOK, Tip, Db
<1>4. delta \in 1..MaxDelta /\ Tip.time + delta <= MaxTime
  BY DEF Deltas
<1>5. /\ new.time = Tip.time + delta
      /\ new.slot = (Tip.slot + delta) % RoundSlots
      /\ new.newRound = (Tip.slot + delta >= RoundSlots)
      /\ new.newRound => new.cur = Tip.new
      /\ ~new.newRound => new.cur = Tip.cur /\ new.new = Tip.new
  BY <1>3, <1>4, BuiltOn
<1>6. Tip' = new
  <2>1. packs' = Append(packs, new)
    BY <1>2 DEF Push
  <2>2. Len(packs') = n + 1 /\ packs'[n + 1] = new
    BY <1>1, <2>1, AppendIsSeq
  <2>3. QED
    BY <2>2 DEF Tip
<1>7. /\ Tip.time \in Nat /\ Tip.slot \in Nat /\ delta \in Nat
      /\ time \in Nat /\ time > Tip.time + delta
  BY <1>3, <1>4, <1>5, <1>6, RoundPositive, NumbersAssumption DEF PackOK
<1> HIDE DEF new
<1>8. /\ Tip.slot + delta >= RoundSlots => new.cur = Tip.new
      /\ Tip.slot + delta < RoundSlots => new.cur = Tip.cur /\ new.new = Tip.new
  <2>1. Tip.slot + delta < RoundSlots => ~(Tip.slot + delta >= RoundSlots)
    BY <1>7, RoundPositive
  <2>2. QED
    BY <2>1, <1>5, Zenon
<1>9. SlotKept(Tip, new, time)
  <2> DEFINE old == Tip
  <2>1. /\ PackOK(old) /\ time > old.time + delta
        /\ new.time = old.time + delta
        /\ new.slot = (old.slot + delta) % RoundSlots
        /\ old.slot + delta >= RoundSlots => new.cur = old.new
        /\ old.slot + delta < RoundSlots => new.cur = old.cur /\ new.new = old.new
    BY <1>3, <1>5, <1>7, <1>8
  <2> HIDE DEF old
  <2>2. SlotKept(old, new, time)
    BY <2>1, <1>7, OwnersStay
  <2>3. QED
    BY <2>2 DEF old
<1>10. QED
  BY <1>6, <1>9

\* Every rule in use has a builder, whoever registers and unregisters, every
\* slot lies in its round, and the databases of the chain go with its packs.
THEOREM TypeCorrect ==
    ASSUME "open" \notin Kills
    PROVE  Spec => []TypeOK
<1>1. Init => Sound
  BY InitSound
<1>2. Sound /\ [Next]_vars => Sound'
  BY NextSound
<1>3. Sound => TypeOK
  BY SoundTypes
<1>4. QED
  BY <1>1, <1>2, <1>3, PTL DEF Spec

\* The rule in force from the first block of a round on is the one that the
\* first block of the round before announced in its header, for any round
\* length and through any pops, switches and restarts in between.
THEOREM AnnouncedAlways ==
    ASSUME "open" \notin Kills
    PROVE  Spec => []AnnouncedRules
<1>1. Init => Sound
  BY InitSound
<1>2. Sound /\ [Next]_vars => Sound'
  BY NextSound
<1>3. Sound => AnnouncedRules
  BY SoundAnnounced
<1>4. QED
  BY <1>1, <1>2, <1>3, PTL DEF Spec

\* For any keys, registered, changed and withdrawn in any order: a block that
\* the fork database accepts has its signer's key on record when it is
\* applied, unless the announced rule gives that builder another key.
THEOREM SignersAlwaysKnown ==
    ASSUME "open" \notin Kills
    PROVE  Spec => []SignersKnown
<1>1. Init => Sound
  BY InitSound
<1>2. Sound /\ [Next]_vars => Sound'
  BY NextSound
<1>3. Sound => SignersKnown
  BY SoundSigners
<1>4. QED
  BY <1>1, <1>2, <1>3, PTL DEF Spec

\* No block takes a slot of this round or the next away from its builder, if
\* the builders of the rule share the round evenly.
THEOREM OwnersAlwaysKept ==
    ASSUME "open" \notin Kills
    PROVE  Spec => OwnersKept
<1> DEFINE Kept == Len(packs') = Len(packs) + 1
                   => \A time \in Tip'.time + 1..Tip'.time + MaxDelta :
                          SlotKept(Tip, Tip', time)
<1>1. Init => Sound
  BY InitSound
<1>2. Sound /\ [Next]_vars => Sound'
  BY NextSound
<1>3. Sound /\ [Next]_vars => [Kept]_vars
  <2> SUFFICES ASSUME Sound, [Next]_vars, Len(packs') = Len(packs) + 1
               PROVE  \A time \in Tip'.time + 1..Tip'.time + MaxDelta :
                          SlotKept(Tip, Tip', time)
    OBVIOUS
  <2>1. Sound' /\ Len(packs) \in Nat
    BY NextSound, AppendIsSeq DEF Sound, Paired
  <2>2. CutBack \/ Pushed
    BY StepShape DEF Sound
  <2>3. Pushed
    BY <2>1, <2>2 DEF CutBack
  <2>4. QED
    BY <2>1, <2>3, PushKeepsOwners
<1>4. QED
  BY <1>1, <1>2, <1>3, PTL DEF Spec, OwnersKept

(***************************************************************************)
(* Sums over finite sets.                                                  *)
(***************************************************************************)
\* Among subsets of a finite set one is smallest.
LEMMA Smallest ==
  ASSUME NEW S, IsFiniteSet(S), NEW B, B \subseteq SUBSET S, B # {}
  PROVE  \E T \in B : \A U \in B : U \subseteq T => U = T
<1>1. IsWellFoundedOn(StrictSubsetOrdering(S), FiniteSubsetsOf(S))
  BY FS_StrictSubsetOrderingWellFounded
<1>2. FiniteSubsetsOf(S) = SUBSET S
  BY FS_FiniteSubsetsOfFinite
<1>3. IsWellFoundedOn(StrictSubsetOrdering(S), SUBSET S)
  BY <1>1, <1>2
<1>4. \E T \in B : \A U \in B : ~(<<U, T>> \in StrictSubsetOrdering(S))
  BY <1>3, WFMin, Zenon
<1>5. \A T, U \in B : U \subseteq T /\ U # T => <<U, T>> \in StrictSubsetOrdering(S)
  BY DEF StrictSubsetOrdering
<1>. QED
  BY <1>4, <1>5

\* The element that a sum takes first.
Pick(s) == CHOOSE x \in s : TRUE

\* g has the sums of f over the subsets of S.
Sums(g, f, S) ==
  g = [s \in SUBSET S |-> IF s = {} THEN 0 ELSE f[Pick(s)] + g[s \ {Pick(s)}]]

LEMMA SumsAre ==
  ASSUME NEW g, NEW f, NEW S, Sums(g, f, S)
  PROVE  /\ g[{}] = 0
         /\ \A s \in SUBSET S : s # {} => g[s] = f[Pick(s)] + g[s \ {Pick(s)}]
<1>1. g = [s \in SUBSET S |-> IF s = {} THEN 0 ELSE f[Pick(s)] + g[s \ {Pick(s)}]]
  BY DEF Sums
<1>2. \A s \in SUBSET S : g[s] = IF s = {} THEN 0 ELSE f[Pick(s)] + g[s \ {Pick(s)}]
  BY <1>1, Zenon
<1>. QED
  BY <1>2

LEMMA AreSums ==
  ASSUME NEW g, NEW f, NEW S, NEW e, g = [s \in SUBSET S |-> e[s]], g[{}] = 0,
         \A s \in SUBSET S : s # {} => g[s] = f[Pick(s)] + g[s \ {Pick(s)}]
  PROVE  Sums(g, f, S)
<1>. DEFINE h == [s \in SUBSET S |-> IF s = {} THEN 0 ELSE f[Pick(s)] + g[s \ {Pick(s)}]]
<1>1. ASSUME NEW s \in SUBSET S PROVE e[s] = h[s]
  <2>1. e[s] = g[s]
    OBVIOUS
  <2>2. h[s] = IF s = {} THEN 0 ELSE f[Pick(s)] + g[s \ {Pick(s)}]
    OBVIOUS
  <2>. HIDE DEF h
  <2>3. CASE s = {}
    BY <2>1, <2>2, <2>3
  <2>4. CASE s # {}
    BY <2>1, <2>2, <2>4
  <2>. QED
    BY <2>3, <2>4
<1>2. [s \in SUBSET S |-> e[s]] = h
  BY <1>1
<1>. QED
  BY <1>2 DEF Sums

LEMMA PickIn == ASSUME NEW s, s # {} PROVE Pick(s) \in s
BY DEF Pick

\* Sums over the subsets of two sets agree on what both have.
LEMMA SumsAgree ==
  ASSUME NEW f, NEW S, NEW T, NEW g, Sums(g, f, S), NEW h, Sums(h, f, T),
         NEW V, IsFiniteSet(V), V \subseteq S, V \subseteq T
  PROVE  g[V] = h[V]
<1>. DEFINE Bad == {U \in SUBSET V : g[U] # h[U]}
<1>1. ASSUME Bad # {} PROVE FALSE
  <2>0. Bad \subseteq SUBSET V
    OBVIOUS
  <2>1. PICK U \in Bad : \A W \in Bad : W \subseteq U => W = U
    <3>. HIDE DEF Bad
    <3>. QED
      BY <1>1, <2>0, Smallest
  <2>2. U # {}
    BY <2>1, SumsAre
  <2>3. Pick(U) \in U
    BY <2>2, PickIn
  <2>4. U \ {Pick(U)} \in SUBSET V /\ U \ {Pick(U)} # U /\ U \ {Pick(U)} \subseteq U
    BY <2>1, <2>3
  <2>5. g[U \ {Pick(U)}] = h[U \ {Pick(U)}]
    BY <2>1, <2>4
  <2>6. U \in SUBSET S /\ U \in SUBSET T
    BY <2>1
  <2>7. g[U] = f[Pick(U)] + g[U \ {Pick(U)}]
    BY <2>2, <2>6, SumsAre, ZenonT(60)
  <2>8. h[U] = f[Pick(U)] + h[U \ {Pick(U)}]
    BY <2>2, <2>6, SumsAre, ZenonT(60)
  <2>. QED
    BY <2>1, <2>5, <2>7, <2>8
<1>. QED
  BY <1>1

\* There are sums over the subsets of every finite set.
LEMMA SumsExist ==
  ASSUME NEW f, NEW S, IsFiniteSet(S)
  PROVE  \E g : Sums(g, f, S)
<1>. DEFINE Bad == {T \in SUBSET S : ~\E g : Sums(g, f, T)}
<1>. SUFFICES ASSUME Bad # {} PROVE FALSE
  OBVIOUS
<1>0. Bad \subseteq SUBSET S
  OBVIOUS
<1>1. PICK T \in Bad : \A U \in Bad : U \subseteq T => U = T
  <2>. HIDE DEF Bad
  <2>. QED
    BY <1>0, Smallest
<1>. DEFINE G(U) == CHOOSE g : Sums(g, f, U)
<1>2. ASSUME NEW U, U \subseteq T, U # T PROVE Sums(G(U), f, U) /\ IsFiniteSet(U)
  <2>1. \E g : Sums(g, f, U)
    BY <1>1, <1>2
  <2>2. IsFiniteSet(U)
    BY <1>1, <1>2, FS_Subset
  <2>. QED
    BY <2>1, <2>2
<1>. DEFINE h == [s \in SUBSET T |-> IF s = {} THEN 0
                                    ELSE f[Pick(s)] + G(s \ {Pick(s)})[s \ {Pick(s)}]]
<1>3. \A s \in SUBSET T : h[s] = IF s = {} THEN 0
                                 ELSE f[Pick(s)] + G(s \ {Pick(s)})[s \ {Pick(s)}]
  OBVIOUS
<1>4. h = [s \in SUBSET T |-> h[s]]
  OBVIOUS
<1>. HIDE DEF h, G
<1>5. ASSUME NEW u, u \subseteq T, u # T PROVE h[u] = G(u)[u]
  <2>1. Sums(G(u), f, u) /\ IsFiniteSet(u)
    BY <1>2, <1>5
  <2>2. CASE u = {}
    <3>1. G(u)[u] = 0
      BY <2>1, <2>2, SumsAre
    <3>. QED
      BY <1>3, <2>2, <3>1
  <2>3. CASE u # {}
    <3>. DEFINE v == u \ {Pick(u)}
    <3>1. v \subseteq u /\ v \subseteq T /\ v # T
      BY <1>5, <2>3, PickIn
    <3>2. Sums(G(v), f, v) /\ IsFiniteSet(v)
      BY <1>2, <3>1
    <3>3. G(u)[v] = G(v)[v]
      BY <2>1, <3>1, <3>2, SumsAgree
    <3>4. G(u)[u] = f[Pick(u)] + G(u)[v]
      BY <2>1, <2>3, SumsAre
    <3>5. h[u] = f[Pick(u)] + G(v)[v]
      BY <1>3, <1>5, <2>3
    <3>. QED
      BY <3>3, <3>4, <3>5
  <2>. QED
    BY <2>2, <2>3
<1>6. h[{}] = 0
  BY <1>3
<1>7. ASSUME NEW s \in SUBSET T, s # {} PROVE h[s] = f[Pick(s)] + h[s \ {Pick(s)}]
  <2>1. s \ {Pick(s)} \subseteq T /\ s \ {Pick(s)} # T
    BY <1>7, PickIn
  <2>2. h[s] = f[Pick(s)] + G(s \ {Pick(s)})[s \ {Pick(s)}]
    BY <1>3, <1>7
  <2>. QED
    BY <1>5, <2>1, <2>2
<1>8. Sums(h, f, T)
  BY ONLY <1>4, <1>6, <1>7, AreSums
<1>. QED
  BY <1>1, <1>8

Sum(f, S) == SumFunctionOnSet(f, S)

LEMMA SumIs ==
  ASSUME NEW f, NEW S, IsFiniteSet(S)
  PROVE  \E g : Sums(g, f, S) /\ Sum(f, S) = g[S]
<1>. DEFINE P(g) == g = [s \in SUBSET S |->
                           IF s = {} THEN 0 ELSE f[CHOOSE x \in s : TRUE]
                                                 + g[s \ {CHOOSE x \in s : TRUE}]]
            h == CHOOSE g : P(g)
<1>1. \E g : P(g)
  <2>1. PICK g : Sums(g, f, S)
    BY SumsExist
  <2>2. P(g)
    BY <2>1 DEF Sums, Pick
  <2>. QED
    BY <2>2
<1>2. P(h)
  <2>. HIDE DEF P
  <2>. QED
    BY <1>1
<1>3. Sums(h, f, S)
  <2>. HIDE DEF h
  <2>. QED
    BY <1>2 DEF Sums, Pick
<1>4. Sum(f, S) = h[S]
  BY DEF Sum, SumFunctionOnSet, FoldFunctionOnSet, MapThenFoldSet
<1>. QED
  BY <1>3, <1>4

\* The equation of a sum.
LEMMA SumPick ==
  ASSUME NEW f, NEW S, IsFiniteSet(S)
  PROVE  /\ S = {} => Sum(f, S) = 0
         /\ S # {} => Sum(f, S) = f[Pick(S)] + Sum(f, S \ {Pick(S)})
<1>1. PICK g : Sums(g, f, S) /\ Sum(f, S) = g[S]
  BY SumIs
<1>2. S = {} => Sum(f, S) = 0
  BY <1>1, SumsAre
<1>3. ASSUME S # {} PROVE Sum(f, S) = f[Pick(S)] + Sum(f, S \ {Pick(S)})
  <2>. DEFINE T == S \ {Pick(S)}
  <2>1. IsFiniteSet(T) /\ T \subseteq S
    BY FS_Difference
  <2>. HIDE DEF T
  <2>2. PICK h : Sums(h, f, T) /\ Sum(f, T) = h[T]
    BY <2>1, SumIs
  <2>3. g[T] = h[T]
    BY <1>1, <2>1, <2>2, SumsAgree
  <2>4. g[S] = f[Pick(S)] + g[T]
    BY <1>1, <1>3, SumsAre DEF T
  <2>. QED
    BY <1>1, <2>2, <2>3, <2>4 DEF T
<1>. QED
  BY <1>2, <1>3

LEMMA SumInt ==
  ASSUME NEW f, NEW S, IsFiniteSet(S), \A x \in S : f[x] \in Int
  PROVE  Sum(f, S) \in Int
<1>. DEFINE Bad == {T \in SUBSET S : Sum(f, T) \notin Int}
<1>0. Bad \subseteq SUBSET S
  OBVIOUS
<1>1. ASSUME Bad # {} PROVE FALSE
  <2>1. PICK T \in Bad : \A U \in Bad : U \subseteq T => U = T
    <3>. HIDE DEF Bad
    <3>. QED
      BY <1>0, <1>1, Smallest
  <2>2. IsFiniteSet(T) /\ T \subseteq S
    BY <2>1, FS_Subset
  <2>3. T # {}
    <3>1. T = {} => Sum(f, T) = 0
      BY <2>2, SumPick
    <3>2. Sum(f, T) \notin Int
      BY <2>1
    <3>. QED
      BY <3>1, <3>2
  <2>4. Pick(T) \in T
    BY <2>3, PickIn
  <2>5. Sum(f, T \ {Pick(T)}) \in Int
    BY <2>1, <2>2, <2>4
  <2>6. Sum(f, T) = f[Pick(T)] + Sum(f, T \ {Pick(T)})
    BY <2>2, <2>3, SumPick
  <2>. QED
    BY <2>1, <2>2, <2>4, <2>5, <2>6
<1>. QED
  BY <1>1

(***************************************************************************)
(* The third invariant: missed slots, in the database saved for each block.*)
(* It needs neither of the others, and holds whenever the process dies.    *)
(***************************************************************************)
\* The slots passed are enough for k blocks after genesis and what was missed.
Tally(k, db) ==
    /\ db.slot \in Nat /\ db.total \in Nat /\ db.missed \in [Builders -> Nat]
    /\ db.total >= k + Sum(db.missed, Builders)

Tallied ==
    /\ IsSeq(packs) /\ IsSeq(dbs)
    /\ Len(dbs) = Len(packs) /\ log \in 1..Len(packs)
    /\ \A i \in 1..Len(packs) : packs[i].slot \in Nat /\ Tally(i - 1, dbs[i])

\* The slots between two blocks: fewer than delta.
LEMMA MissedFew ==
    ASSUME NEW db, db.slot \in Nat, NEW delta \in Nat \ {0}
    PROVE  /\ IsFiniteSet(MissedSlots(db, delta))
           /\ Cardinality(MissedSlots(db, delta)) \in Nat
           /\ Cardinality(MissedSlots(db, delta)) <= delta - 1
<1> DEFINE m == (delta - 1) % RoundSlots
<1>1. m \in Nat /\ m <= delta - 1
  <2>1. \A x \in Nat, y \in Nat \ {0} : x % y \in Nat /\ x % y <= x
    OBVIOUS
  <2>2. delta - 1 \in Nat /\ RoundSlots \in Nat \ {0}
    BY RoundPositive
  <2>3. QED
    BY <2>1, <2>2
<1>2. MissedSlots(db, delta) = (db.slot + 1)..(db.slot + m)
  BY DEF MissedSlots
<1> HIDE DEF m
<1>3. db.slot + 1 \in Int /\ db.slot + m \in Int
  BY <1>1
<1>4. /\ IsFiniteSet((db.slot + 1)..(db.slot + m))
      /\ Cardinality((db.slot + 1)..(db.slot + m))
            = IF db.slot + 1 > db.slot + m THEN 0 ELSE (db.slot + m) - (db.slot + 1) + 1
  BY <1>3, FS_Interval
<1>5. Cardinality((db.slot + 1)..(db.slot + m)) = m
  BY <1>1, <1>4
<1>6. QED
  BY <1>1, <1>2, <1>4, <1>5

\* The slots of M that the database gives to builders in T.
SlotsOf(db, M, T) == {s \in M : get_order_builder(db, s).name \in T}

\* A slot has one builder: what is booked to the builders of T are the slots of T.
LEMMA BookedOnce ==
    ASSUME NEW db, db.slot \in Nat, db.missed \in [Builders -> Nat], NEW delta \in Nat \ {0},
           NEW e, e = [n \in Builders |-> db.missed[n] + MissedBy(db, delta, n)]
    PROVE  /\ e \in [Builders -> Nat]
           /\ Sum(e, Builders) \in Int /\ Sum(db.missed, Builders) \in Int
           /\ Sum(e, Builders) <= Sum(db.missed, Builders) + (delta - 1)
<1> DEFINE M == MissedSlots(db, delta)
           f == db.missed
<1>1. IsFiniteSet(M) /\ Cardinality(M) \in Nat /\ Cardinality(M) <= delta - 1
  BY MissedFew
<1>2. IsFiniteSet(Builders)
  BY NumbersAssumption, FS_AddElement DEF Builders
<1>3. ASSUME NEW T
      PROVE  /\ IsFiniteSet(SlotsOf(db, M, T)) /\ Cardinality(SlotsOf(db, M, T)) \in Nat
             /\ Cardinality(SlotsOf(db, M, T)) <= Cardinality(M)
  <2>1. SlotsOf(db, M, T) \subseteq M
    BY DEF SlotsOf
  <2>2. QED
    BY <1>1, <2>1, FS_Subset, FS_CardinalityType
<1>4. ASSUME NEW n \in Builders
      PROVE  MissedBy(db, delta, n) \in Nat /\ MissedBy(db, delta, n) <= Cardinality(SlotsOf(db, M, {n}))
  <2>1. SlotsOf(db, M, {n}) = {s \in MissedSlots(db, delta) : get_order_builder(db, s).name = n}
    BY DEF SlotsOf
  <2>2. MissedBy(db, delta, n) = 0 \/ MissedBy(db, delta, n) = Cardinality(SlotsOf(db, M, {n}))
    <3>1. Cardinality(SlotsOf(db, M, {n}))
            = Cardinality({s \in MissedSlots(db, delta) : get_order_builder(db, s).name = n})
      BY <2>1, Zenon
    <3>2. QED
      BY <3>1, Zenon DEF MissedBy
  <2>3. QED
    BY <1>3, <2>2
<1> HIDE DEF M, f
<1>5. ASSUME NEW n \in Builders
      PROVE  /\ f[n] \in Nat /\ e[n] \in Nat
             /\ e[n] <= f[n] + Cardinality(SlotsOf(db, M, {n}))
  <2>1. e[n] = f[n] + MissedBy(db, delta, n) /\ f[n] \in Nat
    BY DEF f
  <2>2. QED
    BY <1>3, <1>4, <2>1
<1>6. ASSUME NEW T, T \subseteq Builders
      PROVE  IsFiniteSet(T) /\ Sum(e, T) \in Int /\ Sum(f, T) \in Int
  <2>1. IsFiniteSet(T)
    BY <1>2, <1>6, FS_Subset
  <2>2. \A x \in T : e[x] \in Int /\ f[x] \in Int
    <3>1. ASSUME NEW x \in T PROVE e[x] \in Int /\ f[x] \in Int
      <4>1. x \in Builders
        BY <1>6
      <4>2. e[x] \in Nat /\ f[x] \in Nat
        BY <1>5, <4>1
      <4>3. QED
        BY <4>2
    <3>2. QED
      BY <3>1
  <2>3. QED
    BY <2>1, <2>2, SumInt
<1> DEFINE Right(T) == Sum(e, T) <= Sum(f, T) + Cardinality(SlotsOf(db, M, T))
           Bad == {T \in SUBSET Builders : ~Right(T)}
<1>7. ASSUME Bad # {} PROVE FALSE
  <2> HIDE DEF Right
  <2>0. Bad \subseteq SUBSET Builders
    OBVIOUS
  <2>1. PICK T \in Bad : \A U \in Bad : U \subseteq T => U = T
    <3> HIDE DEF Bad
    <3>1. QED
      BY <1>2, <1>7, <2>0, Smallest
  <2>2. T \subseteq Builders /\ ~Right(T)
    BY <2>1
  <2>3. CASE T = {}
    <3>1. Sum(e, T) = 0 /\ Sum(f, T) = 0
      BY <1>6, <2>2, <2>3, SumPick
    <3>2. Right(T)
      BY <1>3, <3>1 DEF Right
    <3>3. QED
      BY <2>2, <3>2
  <2>4. CASE T # {}
    <3> DEFINE x == Pick(T)
               U == T \ {x}
    <3>1. x \in T /\ x \in Builders
      BY <2>2, <2>4, PickIn
    <3>2. Sum(e, T) = e[x] + Sum(e, U) /\ Sum(f, T) = f[x] + Sum(f, U)
      BY <1>6, <2>2, <2>4, SumPick
    <3>3. U \subseteq Builders /\ U \subseteq T /\ U # T
      BY <2>2, <3>1
    <3> HIDE DEF x
    <3>4. Right(U)
      BY <2>1, <3>3
    <3>5. /\ SlotsOf(db, M, T) = SlotsOf(db, M, U) \cup SlotsOf(db, M, {x})
          /\ SlotsOf(db, M, U) \cap SlotsOf(db, M, {x}) = {}
      BY <3>1 DEF SlotsOf
    <3> HIDE DEF U
    <3>6. Cardinality(SlotsOf(db, M, T))
            = Cardinality(SlotsOf(db, M, U)) + Cardinality(SlotsOf(db, M, {x}))
      <4>1. Cardinality(SlotsOf(db, M, U) \cup SlotsOf(db, M, {x}))
              = Cardinality(SlotsOf(db, M, U)) + Cardinality(SlotsOf(db, M, {x}))
                - Cardinality(SlotsOf(db, M, U) \cap SlotsOf(db, M, {x}))
        BY <1>3, FS_Union
      <4>2. Cardinality(SlotsOf(db, M, U) \cap SlotsOf(db, M, {x})) = 0
        BY <3>5, FS_EmptySet
      <4>3. QED
        BY <1>3, <3>5, <4>1, <4>2
    <3>7. Sum(e, U) <= Sum(f, U) + Cardinality(SlotsOf(db, M, U))
      BY <3>4 DEF Right
    <3>8. e[x] \in Nat /\ f[x] \in Nat /\ e[x] <= f[x] + Cardinality(SlotsOf(db, M, {x}))
      BY <1>5, <3>1
    <3>9. Sum(e, U) \in Int /\ Sum(f, U) \in Int
      BY <1>6, <3>3
    <3>10. Sum(e, T) <= Sum(f, T) + Cardinality(SlotsOf(db, M, T))
      BY <1>3, <3>2, <3>6, <3>7, <3>8, <3>9
    <3>11. QED
      BY <2>2, <3>10 DEF Right
  <2>5. QED
    BY <2>3, <2>4
<1>8. Right(Builders)
  <2> HIDE DEF Right
  <2>1. QED
    BY <1>7
<1>9. Sum(e, Builders) <= Sum(f, Builders) + (delta - 1)
  BY <1>1, <1>3, <1>6, <1>8
<1>10. e \in [Builders -> Nat]
  BY <1>5
<1>11. QED
  BY <1>6, <1>9, <1>10 DEF f

\* A pack made on another lies in a round.
LEMMA BuiltSlot ==
    ASSUME NEW pre, pre.slot \in Nat, NEW delta \in Nat, NEW infos, NEW next
    PROVE  Built(pre, delta, infos).slot \in Nat /\ Forked(pre, delta, next).slot \in Nat
<1> DEFINE p == InitByPrePack(pre, delta)
<1>1. p.slot = (pre.slot + delta) % RoundSlots
  BY DEF InitByPrePack
<1>2. p.slot \in Nat
  <2>1. \A x \in Nat, y \in Nat \ {0} : x % y \in Nat
    OBVIOUS
  <2>2. pre.slot + delta \in Nat /\ RoundSlots \in Nat \ {0}
    BY RoundPositive
  <2>3. QED
    BY <1>1, <2>1, <2>2
<1>3. IsPack(p)
  BY DEF IsPack, InitByPrePack
<1> HIDE DEF p
<1>4. GenerateNextBuilders(p, infos).slot = p.slot
  BY <1>3 DEF IsPack, GenerateNextBuilders
<1>5. GenerateByBlock(p, next).slot = p.slot
  BY <1>3 DEF IsPack, GenerateByBlock
<1>6. QED
  BY <1>2, <1>4, <1>5 DEF Built, Forked, p

LEMMA ExecutedTally ==
    ASSUME NEW k \in Nat, NEW db, Tally(k, db), NEW delta \in Nat \ {0},
           NEW pack, pack.slot \in Nat, NEW trx
    PROVE  Tally(k + 1, Executed(db, pack, delta, trx))
<1> DEFINE d == Executed(db, pack, delta, trx)
           e == [n \in Builders |-> db.missed[n] + MissedBy(db, delta, n)]
<1>1. d.slot = pack.slot /\ d.total = db.total + delta /\ d.missed = e
  BY DEF Executed
<1>2. e = [n \in Builders |-> db.missed[n] + MissedBy(db, delta, n)]
  OBVIOUS
<1>3. /\ db.slot \in Nat /\ db.total \in Nat /\ db.missed \in [Builders -> Nat]
      /\ db.total >= k + Sum(db.missed, Builders)
  BY DEF Tally
<1> HIDE DEF e, d
<1>4. /\ e \in [Builders -> Nat]
      /\ Sum(e, Builders) \in Int /\ Sum(db.missed, Builders) \in Int
      /\ Sum(e, Builders) <= Sum(db.missed, Builders) + (delta - 1)
  BY <1>2, <1>3, BookedOnce
<1>5. d.total \in Nat /\ d.total >= k + 1 + Sum(e, Builders)
  BY <1>1, <1>3, <1>4
<1>6. Tally(k + 1, d)
  BY <1>1, <1>4, <1>5 DEF Tally
<1>7. QED
  BY <1>6 DEF d

\* Genesis: nothing has passed, nothing was missed.
LEMMA InitTallied == Init => Tallied
<1> SUFFICES ASSUME Init PROVE Tallied
  OBVIOUS
<1>1. packs = <<GenesisPack>> /\ dbs = <<GenesisDb>> /\ log = 1
  BY DEF Init
<1>2. GenesisPack.slot \in Nat
  BY GenesisGood DEF Good, PackOK
<1>3. IsFiniteSet(Builders)
  BY NumbersAssumption, FS_AddElement DEF Builders
<1> DEFINE z == [n \in Builders |-> 0]
<1>4. z \in [Builders -> Nat] /\ \A n \in Builders : z[n] = 0
  OBVIOUS
<1>5. GenesisDb.slot = 0 /\ GenesisDb.total = 0 /\ GenesisDb.missed = z
  BY DEF GenesisDb
<1> HIDE DEF z
<1>6. Sum(z, Builders) = 0
  <2> DEFINE Bad == {T \in SUBSET Builders : Sum(z, T) # 0}
  <2>1. ASSUME Bad # {} PROVE FALSE
    <3>0. Bad \subseteq SUBSET Builders
      OBVIOUS
    <3>1. PICK T \in Bad : \A U \in Bad : U \subseteq T => U = T
      <4> HIDE DEF Bad
      <4>1. QED
        BY <1>3, <2>1, <3>0, Smallest
    <3>2. T \subseteq Builders /\ Sum(z, T) # 0 /\ IsFiniteSet(T)
      BY <3>1, <1>3, FS_Subset
    <3>3. T # {}
      BY <3>2, SumPick
    <3>4. Pick(T) \in T
      BY <3>3, PickIn
    <3>5. Sum(z, T) = z[Pick(T)] + Sum(z, T \ {Pick(T)})
      BY <3>2, <3>3, SumPick
    <3>6. Sum(z, T \ {Pick(T)}) = 0
      BY <3>1, <3>2, <3>4
    <3>7. z[Pick(T)] = 0
      BY <1>4, <3>2, <3>4
    <3>8. QED
      BY <3>2, <3>5, <3>6, <3>7
  <2>2. QED
    BY <2>1
<1>7. Tally(0, GenesisDb)
  BY <1>4, <1>5, <1>6 DEF Tally
<1>8. IsSeq(packs) /\ IsSeq(dbs)
  BY InitPaired DEF Paired
<1>9. Len(packs) = 1 /\ Len(dbs) = 1 /\ packs[1] = GenesisPack /\ dbs[1] = GenesisDb
  BY <1>1
<1>10. QED
  BY <1>1, <1>2, <1>7, <1>8, <1>9 DEF Tallied

\* A block more.
LEMMA PushTallied ==
    ASSUME Tallied, NEW delta \in Deltas, NEW trx \in Trxs, NEW pack,
           Tip.slot \in Nat /\ delta \in Nat => pack.slot \in Nat,
           Push(pack, delta, trx)
    PROVE  Tallied'
<1> DEFINE n == Len(packs)
           e == Executed(Db, Built(Tip, delta, Db.infos), delta, trx)
<1>1. IsSeq(packs) /\ IsSeq(dbs) /\ Len(dbs) = n /\ log \in 1..n
      /\ \A i \in 1..n : packs[i].slot \in Nat /\ Tally(i - 1, dbs[i])
  BY DEF Tallied
<1>2. n \in Nat /\ n >= 1 /\ n \in 1..n /\ n - 1 \in Nat /\ (n - 1) + 1 = n
  BY <1>1, AppendIsSeq
<1>3. Tip = packs[n] /\ Db = dbs[n] /\ Tip.slot \in Nat /\ Tally(n - 1, Db)
  BY <1>1, <1>2 DEF Tip, Db
<1>4. delta \in Nat \ {0}
  BY NumbersAssumption DEF Deltas
<1>5. packs' = Append(packs, pack) /\ dbs' = Append(dbs, e) /\ log' = log
  BY DEF Push
<1>6. Tally(n, e)
  <2>1. Built(Tip, delta, Db.infos).slot \in Nat
    BY <1>3, <1>4, BuiltSlot
  <2>2. Tally((n - 1) + 1, e)
    BY <1>2, <1>3, <1>4, <2>1, ExecutedTally
  <2>3. QED
    BY <1>2, <2>2
<1> HIDE DEF e
<1>7. pack.slot \in Nat
  BY <1>3, <1>4
<1>8. /\ IsSeq(packs') /\ Len(packs') = n + 1 /\ packs'[n + 1] = pack
      /\ \A i \in 1..n : packs'[i] = packs[i]
  BY <1>1, <1>5, AppendIsSeq
<1> HIDE DEF n
<1>9. /\ IsSeq(dbs') /\ Len(dbs') = n + 1 /\ dbs'[n + 1] = e
      /\ \A i \in 1..n : dbs'[i] = dbs[i]
  <2>1. IsSeq(dbs) /\ Len(dbs) = n /\ dbs' = Append(dbs, e)
    BY <1>1, <1>5
  <2>2. /\ IsSeq(Append(dbs, e)) /\ Len(Append(dbs, e)) = Len(dbs) + 1
        /\ Append(dbs, e)[Len(dbs) + 1] = e
        /\ \A i \in 1..Len(dbs) : Append(dbs, e)[i] = dbs[i]
    BY ONLY <2>1, AppendIsSeq
  <2>3. QED
    BY ONLY <2>1, <2>2
<1>10. ASSUME NEW i \in 1..n + 1 PROVE packs'[i].slot \in Nat /\ Tally(i - 1, dbs'[i])
  <2>1. CASE i \in 1..n
    BY <1>1, <1>8, <1>9, <2>1
  <2>2. CASE i = n + 1
    <3>1. i - 1 = n
      BY <1>2, <2>2
    <3>2. QED
      BY <1>6, <1>7, <1>8, <1>9, <2>2, <3>1
  <2>3. QED
    BY <1>2, <2>1, <2>2
<1>11. log' \in 1..Len(packs')
  BY <1>1, <1>2, <1>5, <1>8
<1>12. QED
  BY <1>8, <1>9, <1>10, <1>11 DEF Tallied

\* Blocks fewer; the last pack may be a new one.
LEMMA CutTallied ==
    ASSUME Tallied, IsSeq(packs'), IsSeq(dbs'), NEW m \in Nat, Len(packs') = m, Len(dbs') = m,
           m <= Len(packs), log' \in 1..m,
           \A i \in 1..m : packs'[i].slot \in Nat /\ dbs'[i] = dbs[i]
    PROVE  Tallied'
<1>1. \A i \in 1..Len(packs) : Tally(i - 1, dbs[i])
  BY DEF Tallied
<1>2. Len(packs) \in Nat
  BY AppendIsSeq DEF Tallied
<1>3. \A i \in 1..m : i \in 1..Len(packs)
  BY <1>2
<1>4. \A i \in 1..m : packs'[i].slot \in Nat /\ Tally(i - 1, dbs'[i])
  BY <1>1, <1>3
<1>5. QED
  BY <1>4 DEF Tallied

LEMMA NextTallied == Tallied /\ [Next]_vars => Tallied'
<1> SUFFICES ASSUME Tallied, [Next]_vars PROVE Tallied'
  OBVIOUS
<1> DEFINE n == Len(packs)
<1>1. IsSeq(packs) /\ IsSeq(dbs) /\ Len(dbs) = n /\ log \in 1..n
      /\ \A i \in 1..n : packs[i].slot \in Nat /\ dbs[i].slot \in Nat
  BY DEF Tallied, Tally
<1>2. n \in Nat /\ n >= 1 /\ n - 1 \in Nat /\ n - 1 <= n /\ n \in 1..n
  BY <1>1, AppendIsSeq
<1>3. CASE BuildBlock
  BY <1>3, BuiltSlot, PushTallied DEF BuildBlock
<1>4. CASE ConfirmBlock
  BY <1>4, BuiltSlot, PushTallied DEF ConfirmBlock
<1>5. CASE SwitchTo
  <2>1. PICK delta \in Deltas, trx \in Trxs :
            Push(Forked(Tip, delta, OtherBlock(delta).next), delta, trx)
    BY <1>5 DEF SwitchTo
  <2>2. QED
    BY <2>1, BuiltSlot, PushTallied
<1>6. CASE PopBlock
  <2>1. packs' = SubSeq(packs, 1, n - 1) /\ dbs' = SubSeq(dbs, 1, n - 1) /\ log' = log /\ log < n
    BY <1>1, <1>6 DEF PopBlock, Front
  <2> HIDE DEF n
  <2>2. IsSeq(packs') /\ Len(packs') = n - 1 /\ \A i \in 1..n - 1 : packs'[i] = packs[i]
    BY <1>1, <1>2, <2>1, PrefixIsSeq DEF n
  <2>3. IsSeq(dbs') /\ Len(dbs') = n - 1 /\ \A i \in 1..n - 1 : dbs'[i] = dbs[i]
    BY <1>1, <1>2, <2>1, PrefixIsSeq
  <2>4. log' \in 1..n - 1
    BY <1>1, <1>2, <2>1
  <2>5. \A i \in 1..n - 1 : packs'[i].slot \in Nat /\ dbs'[i] = dbs[i]
    BY <1>1, <1>2, <2>2, <2>3
  <2>6. QED
    BY <1>2, <2>2, <2>3, <2>4, <2>5, CutTallied DEF n
<1>7. CASE Irreversible
  <2>1. packs' = packs /\ dbs' = dbs /\ log' = log + 1 /\ log < n
    BY <1>7 DEF Irreversible
  <2>2. log' \in 1..n
    BY <1>1, <1>2, <2>1
  <2>3. QED
    BY <2>1, <2>2 DEF Tallied
<1>8. CASE Kill
  <2> DEFINE q == Refreshed(packs[log], Db)
             front == SubSeq(packs, 1, log - 1)
  <2>1. packs' = Append(front, q) /\ dbs' = SubSeq(dbs, 1, log) /\ log' = log
    BY <1>8 DEF Kill
  <2>2. q.slot \in Nat
    <3> DEFINE p == [time |-> packs[log].time, builder |-> select_builder(Db.cur, Db.next, Db.slot),
                     slot |-> Db.slot, cur |-> Db.cur, new |-> Db.next, newRound |-> FALSE,
                     next |-> NoRule, stored |-> FALSE]
    <3>1. q = GenerateByBlock(p, packs[log].next)
      BY DEF Refreshed
    <3>2. IsPack(p) /\ p.slot = Db.slot
      BY DEF IsPack
    <3>3. Db.slot \in Nat
      BY <1>1, <1>2 DEF Db
    <3> HIDE DEF p, q
    <3>4. GenerateByBlock(p, packs[log].next).slot = p.slot
      BY <3>2 DEF IsPack, GenerateByBlock
    <3>5. QED
      BY <3>1, <3>2, <3>3, <3>4
  <2>3. log \in Nat /\ log >= 1 /\ log <= n /\ log - 1 \in Nat /\ log - 1 <= n /\ (log - 1) + 1 = log
    BY <1>1, <1>2
  <2> HIDE DEF q, n
  <2>4. IsSeq(front) /\ Len(front) = log - 1 /\ \A i \in 1..log - 1 : front[i] = packs[i]
    BY <1>1, <2>3, PrefixIsSeq DEF n
  <2> HIDE DEF front
  <2>5. /\ IsSeq(packs') /\ Len(packs') = (log - 1) + 1 /\ packs'[(log - 1) + 1] = q
        /\ \A i \in 1..log - 1 : packs'[i] = front[i]
    BY <2>1, <2>4, AppendIsSeq
  <2>6. IsSeq(dbs') /\ Len(dbs') = log /\ \A i \in 1..log : dbs'[i] = dbs[i]
    BY <1>1, <2>1, <2>3, PrefixIsSeq
  <2>7. ASSUME NEW i \in 1..log PROVE packs'[i].slot \in Nat /\ dbs'[i] = dbs[i]
    <3>1. CASE i = log
      BY <2>2, <2>3, <2>5, <2>6, <3>1
    <3>2. CASE i \in 1..log - 1
      BY <1>1, <2>3, <2>4, <2>5, <2>6, <3>2, SMTT(60)
    <3>3. QED
      BY <2>3, <3>1, <3>2
  <2>8. QED
    <3>1. Len(packs') = log /\ log' \in 1..log /\ log <= Len(packs)
      BY <2>1, <2>3, <2>5 DEF n
    <3>2. QED
      BY <2>3, <2>5, <2>6, <2>7, <3>1, CutTallied
<1>9. CASE UNCHANGED vars
  BY <1>9 DEF vars, Tallied
<1>10. QED
  BY <1>3, <1>4, <1>5, <1>6, <1>7, <1>8, <1>9 DEF Next

\* However blocks are built, switched and popped and whenever the process dies, no
\* slot is booked as missed twice or to two builders: the slots that have passed
\* are enough for the blocks of the chain and all that its builders missed.
THEOREM SlotsAlwaysAccounted == Spec => []SlotsAccounted
<1>1. Tallied => SlotsAccounted
  <2> SUFFICES ASSUME Tallied PROVE SlotsAccounted
    OBVIOUS
  <2>1. Len(packs) \in Nat /\ Len(packs) \in 1..Len(packs) /\ Len(dbs) = Len(packs)
    BY AppendIsSeq DEF Tallied
  <2>2. Tally(Len(packs) - 1, Db)
    BY <2>1 DEF Tallied, Db
  <2>3. QED
    BY <2>2 DEF Tally, SlotsAccounted, Sum
<1>2. QED
  BY <1>1, InitTallied, NextTallied, PTL DEF Spec
============================================================================
