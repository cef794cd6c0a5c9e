---------------------------- MODULE UndoDbProofs ----------------------------
(***************************************************************************)
(* Proofs about the undo database, for every number of objects, values,    *)
(* sessions and revisions.                                                 *)
(***************************************************************************)
EXTENDS UndoDb, TLAPS

-----------------------------------------------------------------------------
(* Sequences.                                                              *)

LEMMA FrontSeq ==
  ASSUME NEW S, NEW s \in Seq(S), s # <<>>
  PROVE  /\ Len(s) \in Nat \ {0}
         /\ SubSeq(s, 1, Len(s) - 1) \in Seq(S)
         /\ Len(SubSeq(s, 1, Len(s) - 1)) = Len(s) - 1
         /\ \A i \in 1..(Len(s) - 1) : SubSeq(s, 1, Len(s) - 1)[i] = s[i]
<1>1. Len(s) \in Nat \ {0}
  OBVIOUS
<1>. DEFINE n == Len(s) - 1
<1>2. n \in Nat /\ n <= Len(s)
  BY <1>1
<1>. HIDE DEF n
<1>3. SubSeq(s, 1, n) \in Seq(S)
  BY <1>2
<1>4. Len(SubSeq(s, 1, n)) = n
  BY <1>2
<1>5. \A i \in 1..n : SubSeq(s, 1, n)[i] = s[i]
  BY <1>2
<1>. QED
  BY <1>1, <1>3, <1>4, <1>5 DEF n

LEMMA DropSeq ==
  ASSUME NEW S, NEW s \in Seq(S), NEW k \in 0..Len(s)
  PROVE  /\ SubSeq(s, k + 1, Len(s)) \in Seq(S)
         /\ Len(SubSeq(s, k + 1, Len(s))) = Len(s) - k
         /\ \A i \in 1..(Len(s) - k) : SubSeq(s, k + 1, Len(s))[i] = s[i + k]
OBVIOUS

LEMMA AppendSeq ==
  ASSUME NEW S, NEW s \in Seq(S), NEW e \in S
  PROVE  /\ Append(s, e) \in Seq(S)
         /\ Len(Append(s, e)) = Len(s) + 1
         /\ \A i \in 1..Len(s) : Append(s, e)[i] = s[i]
         /\ Append(s, e)[Len(s) + 1] = e
OBVIOUS

LEMMA ReplaceSeq ==
  ASSUME NEW S, NEW s \in Seq(S), NEW n \in 1..Len(s), NEW e \in S
  PROVE  /\ [s EXCEPT ![n] = e] \in Seq(S)
         /\ Len([s EXCEPT ![n] = e]) = Len(s)
         /\ [s EXCEPT ![n] = e][n] = e
         /\ \A i \in 1..Len(s) : i # n => [s EXCEPT ![n] = e][i] = s[i]
OBVIOUS

LEMMA NilSeq ==
  ASSUME NEW S
  PROVE  <<>> \in Seq(S) /\ Len(<<>>) = 0
OBVIOUS

LEMMA EmptySeq ==
  ASSUME NEW S, NEW s \in Seq(S)
  PROVE  /\ Len(s) \in Nat
         /\ s = <<>> <=> Len(s) = 0
         /\ s # <<>> <=> Len(s) \in 1..Len(s)
         /\ \A i \in 1..Len(s) : s[i] \in S
OBVIOUS

-----------------------------------------------------------------------------
(* Types of what an undo state becomes.                                    *)

LEMMA OnCreateType ==
  ASSUME NEW u \in UndoState, NEW i \in Ids
  PROVE  OnCreate(u, i) \in UndoState /\ OnCreate(u, i).rev = u.rev
BY DEF OnCreate, UndoState

LEMMA OnModifyType ==
  ASSUME NEW u \in UndoState, NEW i \in Ids, indices \in Table
  PROVE  OnModify(u, i) \in UndoState /\ OnModify(u, i).rev = u.rev
BY DEF OnModify, UndoState, Table

LEMMA OnRemoveType ==
  ASSUME NEW u \in UndoState, NEW i \in Ids, indices \in Table
  PROVE  OnRemove(u, i) \in UndoState /\ OnRemove(u, i).rev = u.rev
BY DEF OnRemove, UndoState, Table, Slot

LEMMA MergedType ==
  ASSUME NEW a \in UndoState, NEW b \in UndoState
  PROVE  /\ Merged(a, b) \in UndoState
         /\ Merged(a, b).rev = a.rev
         /\ Merged(a, b).old_next_id = a.old_next_id
BY DEF Merged, UndoState, Table, Slot

LEMMA RestoredType ==
  ASSUME NEW u \in UndoState, NEW tab \in Table
  PROVE  Restored(u, tab) \in Table
BY DEF Restored, UndoState, Table, Slot

LEMMA PartlyType ==
  ASSUME NEW u \in UndoState, NEW tab \in Table, NEW i \in Ids
  PROVE  Partly(u, tab, i) \in Table
BY DEF Partly, UndoState, Table, Slot

-----------------------------------------------------------------------------
(* An undo state and the tables around its session.                        *)

\* Consistent, but for this: with a second unique index, modify erases an object
\* that collides after on_modify has kept it, so that what the state keeps may be
\* gone.
Fits(u, tab, next) ==
  /\ u.old_next_id <= next
  /\ \A i \in Ids :
       /\ i \in u.new_ids =>
            /\ u.old_values[i] = None
            /\ u.removed_values[i] = None
            /\ UniqueIndex \/ tab[i] # None
            /\ u.old_next_id <= i /\ i < next
       /\ u.old_values[i] # None =>
            /\ u.removed_values[i] = None
            /\ UniqueIndex \/ tab[i] # None
            /\ i < u.old_next_id
       /\ u.removed_values[i] # None => tab[i] = None /\ i < u.old_next_id
       /\ tab[i] # None /\ i \notin u.new_ids => i < u.old_next_id
       /\ i >= next => tab[i] = None

StackFits ==
  /\ \A i \in 1..Len(stack) : Fits(stack[i], TabAbove(i), NextAbove(i))
  /\ \A i \in Ids : i >= next_id => indices[i] = None

LEMMA FitsConsistent ==
  ASSUME ~UniqueIndex, StackFits
  PROVE  StackConsistent
BY DEF StackFits, StackConsistent, Fits, Consistent

-----------------------------------------------------------------------------
(* What the undo states stand for.  u is the state of the newest session,   *)
(* tab and next are the table and the next id it is consistent with.        *)

\* Creating an object keeps the state consistent and what it restores.
LEMMA CreateRestores ==
  ASSUME NEW u \in UndoState, NEW tab \in Table, NEW next \in 0..MaxId,
         next < MaxId, NEW v \in Values, Fits(u, tab, next)
  PROVE  LET w == OnCreate(u, next)
             t == [tab EXCEPT ![next] = v]
         IN Fits(w, t, next + 1) /\ Restored(w, t) = Restored(u, tab)
<1>. DEFINE w == OnCreate(u, next)
            t == [tab EXCEPT ![next] = v]
<1>1. /\ next \in Ids /\ MaxId \in Nat /\ v # None
      /\ u.old_next_id \in Nat /\ u.old_next_id <= next
  BY UndoDbAssumption DEF Ids, UndoState, Fits
<1>2. /\ w.old_values = u.old_values /\ w.removed_values = u.removed_values
      /\ w.old_next_id = u.old_next_id /\ w.new_ids = u.new_ids \cup {next}
  BY DEF OnCreate, UndoState
<1>3. /\ t[next] = v
      /\ \A i \in Ids : i # next => t[i] = tab[i]
  BY <1>1 DEF Table
<1>4. /\ next \notin u.new_ids
      /\ u.old_values[next] = None /\ u.removed_values[next] = None /\ tab[next] = None
  BY <1>1 DEF Fits
<1>. HIDE DEF w, t
<1>5. Fits(w, t, next + 1)
  BY <1>1, <1>2, <1>3, <1>4 DEF Fits, Ids
<1>6. \A i \in Ids : Restored(w, t)[i] = Restored(u, tab)[i]
  BY <1>1, <1>2, <1>3, <1>4 DEF Restored
<1>7. Restored(w, t) = Restored(u, tab)
  BY <1>6 DEF Restored
<1>. QED
  BY <1>5, <1>7 DEF w, t

\* So does changing one, also when it is erased by a collision, ...
LEMMA ModifyRestores ==
  ASSUME indices \in Table, NEW u \in UndoState, NEW next \in 0..MaxId,
         NEW i \in Ids, NEW v \in Slot, UniqueIndex \/ v # None, indices[i] # None,
         Fits(u, indices, next)
  PROVE  LET w == OnModify(u, i)
             t == [indices EXCEPT ![i] = v]
         IN Fits(w, t, next) /\ Restored(w, t) = Restored(u, indices)
<1>. DEFINE w == OnModify(u, i)
            t == [indices EXCEPT ![i] = v]
<1>1. /\ i < next
      /\ next \in Nat /\ i \in Nat /\ u.old_next_id \in Nat
  BY UndoDbAssumption DEF Ids, UndoState, Fits
<1>2. /\ w.removed_values = u.removed_values
      /\ w.old_next_id = u.old_next_id /\ w.new_ids = u.new_ids
      /\ \A j \in Ids : j # i => w.old_values[j] = u.old_values[j]
      /\ w.old_values[i] = IF i \in u.new_ids \/ u.old_values[i] # None
                             THEN u.old_values[i] ELSE indices[i]
  BY DEF OnModify, UndoState, Table
<1>3. /\ t[i] = v
      /\ \A j \in Ids : j # i => t[j] = indices[j]
  BY DEF Table
<1>4. u.removed_values[i] = None
  BY DEF Fits
<1>5. i \notin u.new_ids => i < u.old_next_id
  BY DEF Fits
<1>. HIDE DEF w, t
<1>6. Fits(w, t, next)
  BY <1>1, <1>2, <1>3, <1>4, <1>5 DEF Fits
<1>7. \A j \in Ids : Restored(w, t)[j] = Restored(u, indices)[j]
  BY <1>1, <1>2, <1>3, <1>4, ZenonT(60) DEF Restored
<1>8. Restored(w, t) = Restored(u, indices)
  BY <1>7 DEF Restored
<1>. QED
  BY <1>6, <1>8 DEF w, t

\* ... removing one, ...
LEMMA RemoveRestores ==
  ASSUME indices \in Table, NEW u \in UndoState, NEW next \in 0..MaxId,
         NEW i \in Ids, indices[i] # None, Fits(u, indices, next)
  PROVE  LET w == OnRemove(u, i)
             t == [indices EXCEPT ![i] = None]
         IN Fits(w, t, next) /\ Restored(w, t) = Restored(u, indices)
<1>. DEFINE w == OnRemove(u, i)
            t == [indices EXCEPT ![i] = None]
            fresh == i \in u.new_ids
<1>1. next \in Nat /\ i \in Nat /\ u.old_next_id \in Nat
  BY UndoDbAssumption DEF Ids, UndoState
<1>2. /\ t[i] = None
      /\ \A j \in Ids : j # i => t[j] = indices[j]
  BY DEF Table
<1>3. /\ u.removed_values[i] = None
      /\ fresh => u.old_values[i] = None
      /\ ~fresh => i < u.old_next_id
  BY DEF Fits
<1>4. /\ w.old_next_id = u.old_next_id
      /\ w.new_ids = u.new_ids \ {i}
      /\ \A j \in Ids : j # i => /\ w.old_values[j] = u.old_values[j]
                                 /\ w.removed_values[j] = u.removed_values[j]
      /\ w.old_values[i] = None
      /\ w.removed_values[i] = IF fresh THEN None
                               ELSE IF u.old_values[i] # None THEN u.old_values[i]
                               ELSE indices[i]
  <2>1. CASE fresh
    BY <1>3, <2>1 DEF OnRemove, UndoState, Table
  <2>2. CASE ~fresh /\ u.old_values[i] # None
    BY <1>3, <2>2 DEF OnRemove, UndoState, Table
  <2>3. CASE ~fresh /\ u.old_values[i] = None
    BY <1>3, <2>3 DEF OnRemove, UndoState, Table
  <2>. QED
    BY <2>1, <2>2, <2>3
<1>. HIDE DEF w, t
<1>5. Fits(w, t, next)
  BY <1>1, <1>2, <1>3, <1>4 DEF Fits
<1>6. \A j \in Ids : Restored(w, t)[j] = Restored(u, indices)[j]
  BY <1>2, <1>3, <1>4 DEF Restored
<1>7. Restored(w, t) = Restored(u, indices)
  BY <1>6 DEF Restored
<1>. QED
  BY <1>5, <1>7 DEF w, t

\* ... and merging two sessions: undoing the merged state once is undoing the
\* newer and then the older one.
LEMMA MergedRestores ==
  ASSUME NEW a \in UndoState, NEW b \in UndoState, NEW tab \in Table,
         NEW mid \in Table, NEW next \in 0..MaxId,
         Fits(a, mid, b.old_next_id), Fits(b, tab, next),
         Restored(b, tab) = mid
  PROVE  /\ Fits(Merged(a, b), tab, next)
         /\ Restored(Merged(a, b), tab) = Restored(a, mid)
<1>. DEFINE m == Merged(a, b)
<1>1. /\ a.old_next_id \in Nat /\ b.old_next_id \in Nat /\ next \in Nat
      /\ Ids \subseteq Nat
  BY UndoDbAssumption DEF Ids, UndoState
<1>2. /\ m.old_next_id = a.old_next_id
      /\ \A i \in Ids :
           /\ m.old_values[i] = IF b.removed_values[i] # None THEN None
                                ELSE IF i \in a.new_ids \/ a.old_values[i] # None
                                  THEN a.old_values[i]
                                ELSE b.old_values[i]
           /\ i \in m.new_ids <=> /\ i \in a.new_ids \/ i \in b.new_ids
                                  /\ b.removed_values[i] = None
           /\ m.removed_values[i] = IF b.removed_values[i] = None \/ i \in a.new_ids
                                      THEN a.removed_values[i]
                                    ELSE IF a.old_values[i] # None THEN a.old_values[i]
                                    ELSE b.removed_values[i]
  BY DEF Merged, UndoState
<1>3. \A i \in Ids : mid[i] = IF i \in b.new_ids THEN None
                              ELSE IF b.removed_values[i] # None THEN b.removed_values[i]
                              ELSE IF b.old_values[i] # None THEN b.old_values[i]
                              ELSE tab[i]
  BY DEF Restored
<1>. HIDE DEF m
<1>4. Fits(m, tab, next)
  BY <1>1, <1>2, <1>3 DEF Fits
<1>5. \A i \in Ids : Restored(m, tab)[i] = Restored(a, mid)[i]
  BY <1>1, <1>2, <1>3 DEF Fits, Restored
<1>6. Restored(m, tab) = Restored(a, mid)
  BY <1>5 DEF Restored
<1>. QED
  BY <1>4, <1>6 DEF m

\* With no second unique index, undo of a consistent state does not fail.
LEMMA UndoSucceeds ==
  ASSUME ~UniqueIndex, Fits(Top, indices, next_id)
  PROVE  ~UndoFails
BY DEF UndoFails, Dangling, Stuck, Collides, Fits

-----------------------------------------------------------------------------
(* Types and revisions.  commit looks for the first session above a         *)
(* revision; that there is a place to cut follows from the revisions being  *)
(* consecutive, so the two are proved together.                             *)

RevInv == TypeOK /\ RevisionsConsecutive

LEMMA CommittedRange ==
  ASSUME RevInv, NEW n \in Int
  PROVE  Committed(stack, n) \in 0..Len(stack)
<1>. DEFINE low == revision - Len(stack)
            k == IF n < low THEN 0 ELSE IF n > revision THEN Len(stack) ELSE n - low
            P(c) == /\ \A i \in 1..c : stack[i].rev <= n
                    /\ c < Len(stack) => stack[c + 1].rev > n
<1>1. /\ Len(stack) \in Nat /\ revision \in Int
      /\ \A i \in 1..Len(stack) : stack[i].rev = low + i
  BY DEF RevInv, TypeOK, RevisionsConsecutive
<1>2. k \in 0..Len(stack) /\ P(k)
  BY <1>1, SMTT(60)
<1>3. \E c \in 0..Len(stack) : P(c)
  BY <1>2
<1>. QED
  BY <1>3 DEF Committed

LEMMA RevInvInit == Init => RevInv
<1>. SUFFICES ASSUME Init PROVE RevInv
  OBVIOUS
<1>1. indices \in Table
  BY DEF Init, Table, Slot, Empty
<1>2. next_id \in 0..MaxId
  BY UndoDbAssumption DEF Init
<1>3. TypeOK
  <2>1. <<>> \in Seq(UndoState) /\ <<>> \in Seq([tab : Table, next : 0..MaxId])
    BY NilSeq
  <2>2. revision \in Int
    BY DEF Init
  <2>3. /\ stack \in Seq(UndoState) /\ saved \in Seq([tab : Table, next : 0..MaxId])
        /\ Len(saved) = Len(stack)
    BY <2>1 DEF Init
  <2>4. unwinding \in BOOLEAN /\ damaged \in BOOLEAN
    BY DEF Init
  <2>. QED
    BY <1>1, <1>2, <2>2, <2>3, <2>4 DEF TypeOK
<1>4. RevisionsConsecutive
  BY DEF Init, RevisionsConsecutive
<1>. QED
  BY <1>3, <1>4 DEF RevInv

\* SetTop replaces the newest undo state by one of the same revision.
LEMMA SetTopRevInv ==
  ASSUME RevInv, stack # <<>>, NEW u \in UndoState, u.rev = Top.rev,
         stack' = SetTop(u), UNCHANGED <<revision, saved>>
  PROVE  /\ stack' \in Seq(UndoState) /\ Len(saved') = Len(stack')
         /\ RevisionsConsecutive'
<1>1. /\ stack \in Seq(UndoState) /\ Len(stack) \in 1..Len(stack)
      /\ revision \in Int /\ Len(stack) \in Nat
  BY EmptySeq DEF RevInv, TypeOK
<1>2. /\ stack' \in Seq(UndoState) /\ Len(stack') = Len(stack)
      /\ stack'[Len(stack)] = u
      /\ \A i \in 1..Len(stack) : i # Len(stack) => stack'[i] = stack[i]
  BY <1>1, ReplaceSeq DEF SetTop
<1>3. RevisionsConsecutive'
  BY <1>1, <1>2 DEF RevInv, RevisionsConsecutive, Top
<1>. QED
  BY <1>2, <1>3 DEF RevInv, TypeOK

LEMMA TopType ==
  ASSUME TypeOK, stack # <<>>
  PROVE  Top \in UndoState /\ Len(stack) \in 1..Len(stack) /\ Len(stack) \in Nat
BY EmptySeq DEF TypeOK, Top

\* The two outcomes of undo.
LEMMA PopRevInv ==
  ASSUME RevInv, stack # <<>>, PopState, unwinding' \in BOOLEAN
  PROVE  RevInv'
<1>. USE DEF RevInv
<1>1. /\ Top \in UndoState /\ Len(stack) \in Nat /\ Len(stack) \in 1..Len(stack)
      /\ stack \in Seq(UndoState) /\ indices \in Table
      /\ saved \in Seq([tab : Table, next : 0..MaxId])
      /\ saved # <<>> /\ Len(saved) = Len(stack) /\ revision \in Int
  BY TopType, EmptySeq DEF TypeOK
<1>2. CASE /\ indices' = Restored(Top, indices)
           /\ next_id' = Top.old_next_id
           /\ stack' = SubSeq(stack, 1, Len(stack) - 1)
           /\ revision' = revision - 1
           /\ saved' = SubSeq(saved, 1, Len(saved) - 1)
           /\ UNCHANGED damaged
  <2>1. indices' \in Table /\ next_id' \in 0..MaxId
    BY <1>1, <1>2, RestoredType DEF UndoState
  <2>2. /\ stack' \in Seq(UndoState) /\ Len(stack') = Len(stack) - 1
        /\ \A i \in 1..(Len(stack) - 1) : stack'[i] = stack[i]
        /\ saved' \in Seq([tab : Table, next : 0..MaxId])
        /\ Len(saved') = Len(stack')
    BY <1>1, <1>2, FrontSeq
  <2>3. RevisionsConsecutive'
    <3>. SUFFICES ASSUME NEW i \in 1..Len(stack')
                  PROVE  stack'[i].rev = revision' - (Len(stack') - i)
      BY DEF RevisionsConsecutive
    <3>1. i \in 1..(Len(stack) - 1) /\ i \in 1..Len(stack)
      BY <1>1, <2>2
    <3>2. stack'[i].rev = revision - (Len(stack) - i)
      BY <2>2, <3>1 DEF RevisionsConsecutive
    <3>3. revision' = revision - 1 /\ Len(stack') = Len(stack) - 1
      BY <1>2, <2>2
    <3>4. revision \in Int /\ Len(stack) \in Int /\ i \in Int
      BY <1>1, <3>1
    <3>. QED
      BY <3>2, <3>3, <3>4
  <2>. QED
    BY <1>2, <2>1, <2>2, <2>3 DEF TypeOK
<1>3. CASE /\ damaged' = TRUE
           /\ \/ UNCHANGED indices
              \/ \E i \in Ids : indices' = [Partly(Top, indices, i) EXCEPT ![i] = None]
           /\ UNCHANGED <<next_id, stack, revision, saved>>
  <2>1. indices' \in Table
    <3>1. ASSUME NEW i \in Ids, indices' = [Partly(Top, indices, i) EXCEPT ![i] = None]
          PROVE  indices' \in Table
      BY <1>1, <3>1, PartlyType DEF Table, Slot
    <3>. QED
      BY <1>1, <1>3, <3>1
  <2>2. RevisionsConsecutive'
    BY <1>3 DEF RevisionsConsecutive
  <2>. QED
    BY <1>3, <2>1, <2>2 DEF TypeOK
<1>. QED
  BY <1>2, <1>3 DEF PopState

LEMMA RevInvStep == RevInv /\ [Next]_vars => RevInv'
<1>. SUFFICES ASSUME RevInv, [Next]_vars PROVE RevInv'
  OBVIOUS
<1>. USE DEF RevInv
<1>0. /\ stack \in Seq(UndoState) /\ Len(stack) \in Nat /\ indices \in Table
      /\ revision \in Int
      /\ stack # <<>> => Top \in UndoState
  BY TopType DEF TypeOK
<1>1. ASSUME NEW v \in Values, Emplace(v) PROVE RevInv'
  <2>1. next_id \in Ids /\ next_id' \in 0..MaxId
    BY <1>1, UndoDbAssumption DEF Emplace, TypeOK, Ids
  <2>2. indices' \in Table
    BY <1>1, <2>1 DEF Emplace, TypeOK, Table, Slot
  <2>3. CASE stack = <<>>
    BY <1>1, <2>1, <2>2, <2>3 DEF Emplace, TypeOK, RevisionsConsecutive
  <2>4. CASE stack # <<>>
    BY <1>0, <1>1, <2>1, <2>2, <2>4, OnCreateType, SetTopRevInv DEF Emplace, TypeOK
  <2>. QED
    BY <2>3, <2>4
<1>2. ASSUME NEW i \in Ids, NEW v \in Values, Modify(i, v) PROVE RevInv'
  <2>1. indices' \in Table
    BY <1>2 DEF Modify, TypeOK, Table, Slot
  <2>2. CASE stack = <<>>
    BY <1>2, <2>1, <2>2 DEF Modify, TypeOK, RevisionsConsecutive
  <2>3. CASE stack # <<>>
    BY <1>0, <1>2, <2>1, <2>3, OnModifyType, SetTopRevInv DEF Modify, TypeOK
  <2>. QED
    BY <2>2, <2>3
<1>3. ASSUME NEW i \in Ids, Remove(i) PROVE RevInv'
  <2>1. indices' \in Table
    BY <1>3 DEF Remove, TypeOK, Table, Slot
  <2>2. CASE stack = <<>>
    BY <1>3, <2>1, <2>2 DEF Remove, TypeOK, RevisionsConsecutive
  <2>3. CASE stack # <<>>
    BY <1>0, <1>3, <2>1, <2>3, OnRemoveType, SetTopRevInv DEF Remove, TypeOK
  <2>. QED
    BY <2>2, <2>3
<1>4. CASE StartUndoSession
  <2>. DEFINE u == [old_values |-> Empty, new_ids |-> {}, removed_values |-> Empty,
                    old_next_id |-> next_id, rev |-> revision + 1]
  <2>1. u \in UndoState /\ u.rev = revision + 1
    BY DEF UndoState, TypeOK, Empty, Table, Slot
  <2>. HIDE DEF u
  <2>2. stack' = Append(stack, u)
    BY <1>4 DEF StartUndoSession, u
  <2>3. /\ stack' \in Seq(UndoState) /\ Len(stack') = Len(stack) + 1
        /\ stack'[Len(stack) + 1] = u
        /\ \A i \in 1..Len(stack) : stack'[i] = stack[i]
    BY <1>0, <2>1, <2>2, AppendSeq
  <2>4. /\ saved' \in Seq([tab : Table, next : 0..MaxId])
        /\ Len(saved') = Len(stack')
    BY <1>4, <2>3 DEF StartUndoSession, TypeOK
  <2>5. RevisionsConsecutive'
    BY <1>0, <1>4, <2>1, <2>3 DEF RevisionsConsecutive, TypeOK, StartUndoSession
  <2>. QED
    BY <1>4, <2>3, <2>4, <2>5 DEF StartUndoSession, TypeOK
<1>5. CASE Undo
  BY <1>5, PopRevInv DEF Undo, TypeOK
<1>6. CASE UndoAll
  BY <1>6 DEF UndoAll, TypeOK, RevisionsConsecutive
<1>7. CASE UndoAllStep
  <2>1. unwinding' \in BOOLEAN
    BY <1>7 DEF UndoAllStep
  <2>. QED
    BY <1>7, <2>1, PopRevInv DEF UndoAllStep
<1>8. CASE Squash
  <2>0. stack # <<>>
    BY <1>8 DEF Squash
  <2>. DEFINE n == Len(stack) - 1
              f == SubSeq(stack, 1, n)
  <2>1. /\ n \in Nat /\ f \in Seq(UndoState) /\ Len(f) = n
        /\ \A i \in 1..n : f[i] = stack[i]
    BY <1>0, <2>0, FrontSeq
  <2>2. /\ saved' \in Seq([tab : Table, next : 0..MaxId])
        /\ Len(saved') = n
    BY <1>8, <2>0, <1>0, FrontSeq, EmptySeq, ZenonT(60) DEF Squash, TypeOK
  <2>3. CASE Len(stack) = 1
    BY <1>8, <2>1, <2>2, <2>3 DEF Squash, TypeOK, RevisionsConsecutive
  <2>4. CASE Len(stack) # 1
    <3>. DEFINE m == Merged(stack[n], Top)
    <3>1. n \in 1..n /\ stack[n] \in UndoState
      BY <1>0, <2>0, <2>1, <2>4
    <3>2. m \in UndoState /\ m.rev = stack[n].rev
      BY <1>0, <2>0, <3>1, MergedType
    <3>3. stack' = [f EXCEPT ![n] = m] /\ revision' = revision - 1
      BY <1>8, <2>4 DEF Squash
    <3>. HIDE DEF n, f, m
    <3>4. /\ stack' \in Seq(UndoState) /\ Len(stack') = n /\ stack'[n] = m
          /\ \A i \in 1..n : i # n => stack'[i] = f[i]
      BY <2>1, <3>1, <3>2, <3>3, ReplaceSeq
    <3>5. \A i \in 1..n : stack'[i].rev = stack[i].rev
      BY <2>1, <3>2, <3>4
    <3>6. RevisionsConsecutive'
      <4>. SUFFICES ASSUME NEW i \in 1..Len(stack')
                    PROVE  stack'[i].rev = revision' - (Len(stack') - i)
        BY DEF RevisionsConsecutive
      <4>1. i \in 1..n /\ i \in 1..Len(stack) /\ Len(stack) = n + 1
        BY <1>0, <2>1, <3>4 DEF n
      <4>2. stack'[i].rev = revision - (Len(stack) - i)
        BY <3>5, <4>1 DEF RevisionsConsecutive
      <4>. QED
        BY <1>0, <2>1, <3>3, <3>4, <4>1, <4>2
    <3>. QED
      BY <1>8, <2>2, <3>3, <3>4, <3>6 DEF Squash, TypeOK
  <2>. QED
    BY <2>3, <2>4
<1>9. ASSUME NEW n \in 0..MaxRevision, Commit(n) PROVE RevInv'
  <2>. DEFINE k == Committed(stack, n)
  <2>1. k \in 0..Len(stack)
    BY CommittedRange, UndoDbAssumption
  <2>. HIDE DEF k
  <2>2. stack' = SubSeq(stack, k + 1, Len(stack)) /\ saved' = SubSeq(saved, k + 1, Len(saved))
    BY <1>9 DEF Commit, k
  <2>3. /\ stack' \in Seq(UndoState) /\ Len(stack') = Len(stack) - k
        /\ \A i \in 1..(Len(stack) - k) : stack'[i] = stack[i + k]
    BY <1>0, <2>1, <2>2, DropSeq
  <2>4. /\ saved' \in Seq([tab : Table, next : 0..MaxId])
        /\ Len(saved') = Len(stack')
    BY <2>1, <2>2, <2>3, DropSeq DEF TypeOK
  <2>5. RevisionsConsecutive'
    <3>. SUFFICES ASSUME NEW i \in 1..Len(stack')
                  PROVE  stack'[i].rev = revision' - (Len(stack') - i)
      BY DEF RevisionsConsecutive
    <3>1. i \in 1..(Len(stack) - k) /\ i + k \in 1..Len(stack)
      BY <1>0, <2>1, <2>3
    <3>2. stack'[i].rev = revision - (Len(stack) - (i + k))
      BY <2>3, <3>1 DEF RevisionsConsecutive
    <3>3. revision' = revision
      BY <1>9 DEF Commit
    <3>. QED
      BY <1>0, <2>1, <2>3, <3>1, <3>2, <3>3
  <2>. QED
    BY <1>9, <2>3, <2>4, <2>5 DEF Commit, TypeOK
<1>10. ASSUME NEW n \in 0..MaxRevision, SetRevision(n) PROVE RevInv'
  BY <1>10, UndoDbAssumption DEF SetRevision, TypeOK, RevisionsConsecutive
<1>11. CASE UNCHANGED vars
  BY <1>11 DEF vars, TypeOK, RevisionsConsecutive
<1>. QED
  BY <1>1, <1>2, <1>3, <1>4, <1>5, <1>6, <1>7, <1>8, <1>9, <1>10, <1>11 DEF Next

\* The variables of the undo database always have their types: a session
\* never holds an id or a value that no object can have.
THEOREM TypeCorrect == Spec => []TypeOK
<1>1. RevInv => TypeOK
  BY DEF RevInv
<1>. QED
  BY RevInvInit, RevInvStep, <1>1, PTL DEF Spec

\* The open sessions always have consecutive revisions that end with the
\* revision of the database, so that commit(n) finds its place.
THEOREM RevisionsAreConsecutive == Spec => []RevisionsConsecutive
<1>1. RevInv => RevisionsConsecutive
  BY DEF RevInv
<1>. QED
  BY RevInvInit, RevInvStep, <1>1, PTL DEF Spec

-----------------------------------------------------------------------------
(* What undo restores.  SessionsRestore is not inductive: that a creation,  *)
(* a change or a removal keeps it needs to know that the sets of an undo    *)
(* state are disjoint and agree with the table (StackFits).  An undo that   *)
(* stops half way, which only a second unique index makes it do, has        *)
(* restored some of the old values: restoring them again changes nothing.   *)

UndoInv == StackFits /\ SessionsRestore /\ (UniqueIndex \/ UndoNeverFails)

LEMMA UndoInvInit == Init => UndoInv
<1>. SUFFICES ASSUME Init PROVE UndoInv
  OBVIOUS
<1>1. Len(stack) = 0
  BY NilSeq DEF Init
<1>2. StackFits
  BY <1>1 DEF Init, StackFits, Empty
<1>3. SessionsRestore
  BY <1>1 DEF SessionsRestore
<1>. QED
  BY <1>2, <1>3 DEF UndoInv, UndoNeverFails, Init

\* Only the table and the newest undo state change, the state still restores
\* what it restored and is consistent with the new table.
LEMMA TopChanged ==
  ASSUME TypeOK, UndoInv, stack # <<>>, NEW u \in UndoState,
         stack' = SetTop(u), u.old_next_id = Top.old_next_id,
         Fits(u, indices', next_id'),
         Restored(u, indices') = Restored(Top, indices),
         UNCHANGED saved, UniqueIndex \/ UNCHANGED damaged
  PROVE  UndoInv'
<1>1. /\ stack \in Seq(UndoState) /\ Len(stack) \in 1..Len(stack) /\ Len(stack) \in Nat
  BY TopType DEF TypeOK
<1>2. /\ Len(stack') = Len(stack)
      /\ stack'[Len(stack)] = u
      /\ \A i \in 1..Len(stack) : i # Len(stack) => stack'[i] = stack[i]
  BY <1>1, ReplaceSeq DEF SetTop
<1>3. ASSUME NEW i \in 1..Len(stack)
      PROVE  /\ Fits(stack'[i], TabAbove(i)', NextAbove(i)')
             /\ Restored(stack'[i], TabAbove(i)') = saved'[i].tab
             /\ stack'[i].old_next_id = saved'[i].next
  <2>1. CASE i = Len(stack)
    <3>1. TabAbove(i)' = indices' /\ NextAbove(i)' = next_id' /\ stack'[i] = u
      BY <1>2, <2>1 DEF TabAbove, NextAbove
    <3>2. /\ Restored(Top, indices) = saved[i].tab
          /\ Top.old_next_id = saved[i].next
      BY <1>1, <2>1 DEF UndoInv, SessionsRestore, TabAbove, Top
    <3>. QED
      BY <3>1, <3>2
  <2>2. CASE i # Len(stack)
    <3>1. /\ TabAbove(i)' = TabAbove(i) /\ NextAbove(i)' = NextAbove(i)
          /\ stack'[i] = stack[i]
      BY <1>2, <2>2 DEF TabAbove, NextAbove
    <3>. QED
      BY <3>1 DEF UndoInv, StackFits, SessionsRestore
  <2>. QED
    BY <2>1, <2>2
<1>4. \A i \in Ids : i >= next_id' => indices'[i] = None
  BY DEF Fits
<1>5. StackFits' /\ SessionsRestore'
  BY <1>2, <1>3, <1>4 DEF StackFits, SessionsRestore
<1>. QED
  BY <1>5 DEF UndoInv, UndoNeverFails

\* An object changes while no session is open.
LEMMA NoSession ==
  ASSUME TypeOK, stack = <<>>, stack' = stack, UNCHANGED damaged, UndoInv,
         \A i \in Ids : i >= next_id' => indices'[i] = None
  PROVE  UndoInv'
<1>1. Len(stack') = 0
  BY NilSeq
<1>. QED
  BY <1>1 DEF UndoInv, UndoNeverFails, StackFits, SessionsRestore

LEMMA PopUndoInv ==
  ASSUME TypeOK, UndoInv, stack # <<>>, PopState, ~UndoFails
  PROVE  UndoInv'
<1>. DEFINE n == Len(stack)
<1>1. /\ stack \in Seq(UndoState) /\ n \in 1..n /\ n \in Nat /\ Len(saved) = n
      /\ saved \in Seq([tab : Table, next : 0..MaxId]) /\ saved # <<>>
  BY TopType, EmptySeq DEF TypeOK
<1>2. Fits(Top, indices, next_id)
  BY <1>1 DEF UndoInv, StackFits, TabAbove, NextAbove, Top
<1>4. /\ indices' = Restored(Top, indices)
      /\ next_id' = Top.old_next_id
      /\ stack' = SubSeq(stack, 1, n - 1)
      /\ saved' = SubSeq(saved, 1, n - 1)
      /\ damaged' = damaged
  BY <1>1 DEF PopState
<1>5. /\ Len(stack') = n - 1
      /\ \A i \in 1..(n - 1) : stack'[i] = stack[i] /\ saved'[i] = saved[i]
  BY <1>1, <1>4, FrontSeq
<1>6. indices' = saved[n].tab /\ next_id' = saved[n].next
  BY <1>1, <1>4 DEF UndoInv, SessionsRestore, TabAbove, Top
<1>7. ASSUME NEW i \in 1..(n - 1)
      PROVE  /\ TabAbove(i)' = TabAbove(i) /\ NextAbove(i)' = NextAbove(i)
             /\ stack'[i] = stack[i] /\ saved'[i] = saved[i] /\ i \in 1..n
  <2>1. i \in 1..n /\ i # n /\ i \in Nat
    BY <1>1
  <2>2. CASE i = n - 1
    BY <1>1, <1>5, <1>6, <2>1, <2>2 DEF TabAbove, NextAbove
  <2>3. CASE i # n - 1
    <3>1. i + 1 \in 1..(n - 1)
      BY <1>1, <2>1, <2>3
    <3>. QED
      BY <1>1, <1>5, <2>1, <2>3, <3>1 DEF TabAbove, NextAbove
  <2>. QED
    BY <2>2, <2>3
<1>8. SessionsRestore'
  BY <1>5, <1>7 DEF UndoInv, SessionsRestore
<1>9. \A i \in 1..Len(stack') : Fits(stack'[i], TabAbove(i)', NextAbove(i)')
  BY <1>5, <1>7 DEF UndoInv, StackFits
<1>10. \A i \in Ids : i >= next_id' => indices'[i] = None
  <2>. SUFFICES ASSUME NEW i \in Ids, i >= Top.old_next_id
                PROVE  Restored(Top, indices)[i] = None
    BY <1>4
  <2>1. /\ Top.old_next_id \in Nat /\ i \in Nat
    BY <1>1, TopType, UndoDbAssumption DEF UndoState, Ids
  <2>. QED
    BY <1>2, <2>1 DEF Fits, Restored
<1>. QED
  BY <1>4, <1>8, <1>9, <1>10 DEF UndoInv, UndoNeverFails, StackFits

\* Restoring the first old values again changes nothing.
LEMMA PartlyRestores ==
  ASSUME NEW u \in UndoState, NEW tab \in Table, NEW next \in 0..MaxId, Fits(u, tab, next),
         UniqueIndex, NEW i \in Ids, u.old_values[i] # None
  PROVE  LET t == [Partly(u, tab, i) EXCEPT ![i] = None]
         IN Fits(u, t, next) /\ Restored(u, t) = Restored(u, tab)
<1>. DEFINE t == [Partly(u, tab, i) EXCEPT ![i] = None]
<1>1. /\ next \in Nat /\ Ids \subseteq Nat /\ u.old_next_id \in Nat
  BY UndoDbAssumption DEF Ids, UndoState
<1>2. \A j \in Ids : t[j] = tab[j] \/ u.old_values[j] # None
  <2>1. \A j \in Ids : Partly(u, tab, i)[j] = tab[j] \/ u.old_values[j] # None
    BY DEF Partly
  <2>2. Partly(u, tab, i) \in Table
    BY PartlyType
  <2>. QED
    BY <2>1, <2>2 DEF Table
<1>. HIDE DEF t
<1>3. Fits(u, t, next)
  <2>1. u.old_next_id <= next
    BY DEF Fits
  <2>2. ASSUME NEW j \in Ids
        PROVE  /\ j \in u.new_ids =>
                    /\ u.old_values[j] = None /\ u.removed_values[j] = None
                    /\ u.old_next_id <= j /\ j < next
               /\ u.old_values[j] # None =>
                    u.removed_values[j] = None /\ j < u.old_next_id
               /\ u.removed_values[j] # None => tab[j] = None /\ j < u.old_next_id
               /\ tab[j] # None /\ j \notin u.new_ids => j < u.old_next_id
               /\ j >= next => tab[j] = None
    BY DEF Fits
  <2>3. ASSUME NEW j \in Ids
        PROVE  /\ u.removed_values[j] # None => t[j] = None
               /\ t[j] # None /\ j \notin u.new_ids => j < u.old_next_id
               /\ j >= next => t[j] = None
    <3>1. CASE u.old_values[j] # None
      <4>1. j < u.old_next_id /\ u.removed_values[j] = None
        BY <3>1, <2>2
      <4>2. ~(j >= next)
        BY <4>1, <1>1, <2>1
      <4>. QED
        BY <4>1, <4>2
    <3>2. CASE u.old_values[j] = None
      <4>1. t[j] = tab[j]
        BY <3>2, <1>2
      <4>. QED
        BY <4>1, <2>2
    <3>. QED
      BY <3>1, <3>2
  <2>. QED
    BY <2>1, <2>2, <2>3 DEF Fits
<1>4. \A j \in Ids : Restored(u, t)[j] = Restored(u, tab)[j]
  BY <1>2 DEF Restored
<1>5. Restored(u, t) = Restored(u, tab)
  BY <1>4 DEF Restored
<1>. QED
  BY <1>3, <1>5 DEF t

LEMMA FailedUndoInv ==
  ASSUME TypeOK, UndoInv, stack # <<>>, PopState, UndoFails
  PROVE  UndoInv'
<1>1. /\ stack \in Seq(UndoState) /\ Len(stack) \in 1..Len(stack) /\ Len(stack) \in Nat
      /\ Top \in UndoState /\ indices \in Table /\ next_id \in 0..MaxId
  BY TopType DEF TypeOK
<1>2. Fits(Top, indices, next_id)
  BY <1>1 DEF UndoInv, StackFits, TabAbove, NextAbove, Top
<1>3. UniqueIndex
  BY <1>2, UndoSucceeds
<1>4. /\ UNCHANGED <<next_id, stack, saved>>
      /\ \/ UNCHANGED indices
         \/ \E i \in Ids : /\ Stuck(Top, indices, i)
                           /\ indices' = [Partly(Top, indices, i) EXCEPT ![i] = None]
  BY DEF PopState
<1>5. Fits(Top, indices', next_id') /\ Restored(Top, indices') = Restored(Top, indices)
  <2>1. ASSUME NEW i \in Ids, Stuck(Top, indices, i),
               indices' = [Partly(Top, indices, i) EXCEPT ![i] = None]
        PROVE  Fits(Top, indices', next_id) /\ Restored(Top, indices') = Restored(Top, indices)
    <3>1. Top.old_values[i] # None
      BY <2>1 DEF Stuck
    <3>. QED
      BY <2>1, <3>1, <1>1, <1>2, <1>3, PartlyRestores
  <2>. QED
    BY <2>1, <1>2, <1>4
<1>6. stack' = SetTop(Top)
  BY <1>1, <1>4 DEF SetTop, Top
<1>. QED
  BY <1>1, <1>3, <1>4, <1>5, <1>6, TopChanged

LEMMA UndoUndoInv ==
  ASSUME TypeOK, UndoInv, stack # <<>>, PopState
  PROVE  UndoInv'
BY PopUndoInv, FailedUndoInv

LEMMA SquashUndoInv ==
  ASSUME TypeOK, UndoInv, Squash
  PROVE  UndoInv'
<1>. DEFINE n == Len(stack)
            k == n - 1
<1>0. stack # <<>>
  BY DEF Squash
<1>1. /\ stack \in Seq(UndoState) /\ n \in 1..n /\ n \in Nat /\ Len(saved) = n
      /\ k \in Nat /\ n = k + 1
      /\ saved \in Seq([tab : Table, next : 0..MaxId]) /\ saved # <<>>
  BY <1>0, TopType, EmptySeq DEF TypeOK
<1>2. UNCHANGED <<indices, next_id, damaged>> /\ saved' = SubSeq(saved, 1, k)
  BY <1>1 DEF Squash
<1>3. \A i \in 1..k : saved'[i] = saved[i]
  BY <1>1, <1>2, FrontSeq
<1>4. CASE n = 1
  <2>1. Len(stack') = 0
    BY <1>4, NilSeq DEF Squash
  <2>. QED
    BY <1>2, <2>1 DEF UndoInv, UndoNeverFails, StackFits, SessionsRestore
<1>5. CASE n # 1
  <2>. DEFINE a == stack[k]
              m == Merged(a, Top)
              f == SubSeq(stack, 1, k)
  <2>1. /\ k \in 1..k /\ k \in 1..n /\ k # n
        /\ a \in UndoState /\ Top \in UndoState
        /\ f \in Seq(UndoState) /\ Len(f) = k
        /\ \A i \in 1..k : f[i] = stack[i]
    BY <1>0, <1>1, <1>5, TopType, EmptySeq, FrontSeq, SMTT(60)
  <2>2. m \in UndoState /\ m.old_next_id = a.old_next_id
    BY <2>1, MergedType
  <2>3. stack' = [f EXCEPT ![k] = m]
    BY <1>5 DEF Squash
  <2>. HIDE DEF m, f
  <2>4. /\ Len(stack') = k /\ stack'[k] = m
        /\ \A i \in 1..k : i # k => stack'[i] = stack[i]
    BY <2>1, <2>2, <2>3, ReplaceSeq
  <2>5. /\ Fits(a, saved[n].tab, saved[n].next)
        /\ Restored(a, saved[n].tab) = saved[k].tab
        /\ a.old_next_id = saved[k].next
    BY <1>1, <2>1 DEF UndoInv, StackFits, SessionsRestore, TabAbove, NextAbove
  <2>6. /\ Fits(Top, indices, next_id)
        /\ Restored(Top, indices) = saved[n].tab
        /\ Top.old_next_id = saved[n].next
    BY <1>1 DEF UndoInv, StackFits, SessionsRestore, TabAbove, NextAbove, Top
  <2>7. saved[n].tab \in Table /\ indices \in Table /\ next_id \in 0..MaxId
    <3>1. saved[n] \in [tab : Table, next : 0..MaxId]
      BY <1>1, EmptySeq
    <3>. QED
      BY <3>1 DEF TypeOK
  <2>8. /\ Fits(m, indices, next_id)
        /\ Restored(m, indices) = saved[k].tab
    BY <2>1, <2>5, <2>6, <2>7, MergedRestores DEF m
  <2>9. ASSUME NEW i \in 1..k
        PROVE  /\ Fits(stack'[i], TabAbove(i)', NextAbove(i)')
               /\ Restored(stack'[i], TabAbove(i)') = saved'[i].tab
               /\ stack'[i].old_next_id = saved'[i].next
    <3>1. CASE i = k
      <4>1. /\ TabAbove(i)' = indices /\ NextAbove(i)' = next_id
            /\ stack'[i] = m /\ saved'[i] = saved[k]
        BY <1>2, <1>3, <2>1, <2>4, <3>1 DEF TabAbove, NextAbove
      <4>. QED
        BY <2>2, <2>5, <2>8, <4>1
    <3>2. CASE i # k
      <4>1. /\ i + 1 \in 1..k /\ i \in 1..n /\ i # n /\ stack'[i] = stack[i]
            /\ saved'[i] = saved[i] /\ saved'[i + 1] = saved[i + 1]
        <5>1. i + 1 \in 1..k /\ i \in 1..n /\ i # n
          BY <1>1, <3>2
        <5>. HIDE DEF n, k
        <5>. QED
          BY <1>3, <2>4, <3>2, <5>1
      <4>2. TabAbove(i)' = TabAbove(i) /\ NextAbove(i)' = NextAbove(i)
        BY <2>4, <3>2, <4>1 DEF TabAbove, NextAbove
      <4>. QED
        BY <4>1, <4>2 DEF UndoInv, StackFits, SessionsRestore
    <3>. QED
      BY <3>1, <3>2
  <2>. QED
    BY <1>2, <2>4, <2>9 DEF UndoInv, UndoNeverFails, StackFits, SessionsRestore
<1>. QED
  BY <1>4, <1>5

LEMMA CommitUndoInv ==
  ASSUME RevInv, UndoInv, NEW c \in 0..MaxRevision, Commit(c)
  PROVE  UndoInv'
<1>. DEFINE n == Len(stack)
            k == Committed(stack, c)
<1>1. /\ stack \in Seq(UndoState) /\ n \in Nat /\ Len(saved) = n
      /\ saved \in Seq([tab : Table, next : 0..MaxId])
  BY DEF RevInv, TypeOK
<1>2. k \in 0..n
  BY CommittedRange, UndoDbAssumption
<1>3. /\ UNCHANGED <<indices, next_id, damaged>>
      /\ stack' = SubSeq(stack, k + 1, n) /\ saved' = SubSeq(saved, k + 1, n)
  BY <1>1 DEF Commit
<1>. HIDE DEF k
<1>4. /\ Len(stack') = n - k
      /\ \A i \in 1..(n - k) : stack'[i] = stack[i + k] /\ saved'[i] = saved[i + k]
  <2>1. /\ Len(stack') = n - k
        /\ \A i \in 1..(n - k) : stack'[i] = stack[i + k]
    BY <1>1, <1>2, <1>3, DropSeq
  <2>2. \A i \in 1..(n - k) : saved'[i] = saved[i + k]
    BY <1>1, <1>2, <1>3, DropSeq, SMTT(60)
  <2>. QED
    BY <2>1, <2>2
<1>5. ASSUME NEW i \in 1..(n - k)
      PROVE  /\ TabAbove(i)' = TabAbove(i + k) /\ NextAbove(i)' = NextAbove(i + k)
             /\ stack'[i] = stack[i + k] /\ saved'[i] = saved[i + k] /\ i + k \in 1..n
  <2>1. i + k \in 1..n /\ (i = n - k <=> i + k = n)
    BY <1>1, <1>2
  <2>2. CASE i = n - k
    BY <1>3, <1>4, <2>1, <2>2 DEF TabAbove, NextAbove
  <2>3. CASE i # n - k
    <3>1. i + 1 \in 1..(n - k) /\ (i + 1) + k = (i + k) + 1
      BY <1>1, <1>2, <2>3
    <3>. QED
      BY <1>4, <2>1, <2>3, <3>1 DEF TabAbove, NextAbove
  <2>. QED
    BY <2>2, <2>3
<1>6. ASSUME NEW i \in 1..Len(stack')
      PROVE  /\ Fits(stack'[i], TabAbove(i)', NextAbove(i)')
             /\ Restored(stack'[i], TabAbove(i)') = saved'[i].tab
             /\ stack'[i].old_next_id = saved'[i].next
  <2>1. i \in 1..(n - k)
    BY <1>4
  <2>. HIDE DEF n
  <2>2. i + k \in 1..Len(stack)
    BY <1>5, <2>1 DEF n
  <2>3. /\ Fits(stack[i + k], TabAbove(i + k), NextAbove(i + k))
        /\ Restored(stack[i + k], TabAbove(i + k)) = saved[i + k].tab
        /\ stack[i + k].old_next_id = saved[i + k].next
    BY <2>2 DEF UndoInv, StackFits, SessionsRestore
  <2>. QED
    BY <1>5, <2>1, <2>3
<1>7. StackFits' /\ SessionsRestore'
  BY <1>3, <1>6 DEF UndoInv, StackFits, SessionsRestore
<1>. QED
  BY <1>3, <1>7 DEF UndoInv, UndoNeverFails

LEMMA StartUndoInv ==
  ASSUME TypeOK, UndoInv, StartUndoSession
  PROVE  UndoInv'
<1>. DEFINE n == Len(stack)
            u == [old_values |-> Empty, new_ids |-> {}, removed_values |-> Empty,
                  old_next_id |-> next_id, rev |-> revision + 1]
            r == [tab |-> indices, next |-> next_id]
<1>1. /\ stack \in Seq(UndoState) /\ n \in Nat /\ Len(saved) = n
      /\ saved \in Seq([tab : Table, next : 0..MaxId])
      /\ indices \in Table /\ next_id \in 0..MaxId
  BY DEF TypeOK
<1>2. u \in UndoState /\ r \in [tab : Table, next : 0..MaxId]
  BY <1>1 DEF UndoState, TypeOK, Empty, Table, Slot
<1>3. /\ Fits(u, indices, next_id) /\ u.old_next_id = r.next
      /\ r.tab = indices /\ r.next = next_id
  <2>1. /\ next_id \in Nat /\ Ids \subseteq Nat
    BY <1>1, UndoDbAssumption DEF Ids
  <2>. QED
    BY <2>1 DEF Fits, Empty, UndoInv, StackFits
<1>4. Restored(u, indices) = indices
  BY <1>1 DEF Restored, Empty, Table
<1>5. /\ stack' = Append(stack, u) /\ saved' = Append(saved, r)
      /\ UNCHANGED <<indices, next_id, damaged>>
  BY DEF StartUndoSession
<1>. HIDE DEF u, r
<1>6. /\ Len(stack') = n + 1 /\ stack'[n + 1] = u /\ saved'[n + 1] = r
      /\ \A i \in 1..n : stack'[i] = stack[i] /\ saved'[i] = saved[i]
  BY <1>1, <1>2, <1>5, AppendSeq
<1>7. ASSUME NEW i \in 1..(n + 1)
      PROVE  /\ Fits(stack'[i], TabAbove(i)', NextAbove(i)')
             /\ Restored(stack'[i], TabAbove(i)') = saved'[i].tab
             /\ stack'[i].old_next_id = saved'[i].next
  <2>1. CASE i = n + 1
    BY <1>3, <1>4, <1>5, <1>6, <2>1 DEF TabAbove, NextAbove
  <2>2. CASE i # n + 1
    <3>1. i \in 1..n /\ (i # n => i + 1 \in 1..n)
      BY <1>1, <2>2
    <3>2. TabAbove(i)' = TabAbove(i) /\ NextAbove(i)' = NextAbove(i)
      BY <1>3, <1>6, <2>2, <3>1 DEF TabAbove, NextAbove
    <3>. QED
      BY <1>6, <3>1, <3>2 DEF UndoInv, StackFits, SessionsRestore
  <2>. QED
    BY <2>1, <2>2
<1>. QED
  BY <1>5, <1>6, <1>7 DEF UndoInv, UndoNeverFails, StackFits, SessionsRestore

LEMMA UndoInvStep == RevInv /\ UndoInv /\ [Next]_vars => UndoInv'
<1>. SUFFICES ASSUME RevInv, UndoInv, [Next]_vars PROVE UndoInv'
  OBVIOUS
<1>0. /\ TypeOK /\ indices \in Table /\ next_id \in 0..MaxId
      /\ next_id \in Nat /\ Ids \subseteq Nat
      /\ \A i \in Ids : i >= next_id => indices[i] = None
  BY UndoDbAssumption DEF RevInv, TypeOK, Ids, UndoInv, StackFits
<1>00. ASSUME stack # <<>>
       PROVE  Top \in UndoState /\ Fits(Top, indices, next_id)
  BY <1>0, <1>00, TopType DEF UndoInv, StackFits, TabAbove, NextAbove, Top
<1>1. ASSUME NEW v \in Values, Emplace(v) PROVE UndoInv'
  <2>1. next_id \in Ids /\ next_id < MaxId /\ next_id' = next_id + 1
    BY <1>0, <1>1, UndoDbAssumption DEF Emplace, Ids
  <2>2. indices' = [indices EXCEPT ![next_id] = v] /\ UNCHANGED <<saved, damaged>>
    BY <1>1 DEF Emplace
  <2>3. CASE stack = <<>>
    BY <1>0, <1>1, <2>1, <2>2, <2>3, NoSession DEF Emplace, Table
  <2>4. CASE stack # <<>>
    <3>1. stack' = SetTop(OnCreate(Top, next_id))
      BY <1>1, <2>4 DEF Emplace
    <3>2. /\ OnCreate(Top, next_id) \in UndoState
          /\ OnCreate(Top, next_id).old_next_id = Top.old_next_id
      BY <1>00, <2>1, <2>4, OnCreateType DEF OnCreate, UndoState
    <3>3. /\ Fits(OnCreate(Top, next_id), indices', next_id')
          /\ Restored(OnCreate(Top, next_id), indices') = Restored(Top, indices)
      BY <1>0, <1>00, <2>1, <2>2, <2>4, CreateRestores
    <3>. QED
      BY <1>0, <2>2, <2>4, <3>1, <3>2, <3>3, TopChanged
  <2>. QED
    BY <2>3, <2>4
<1>2. ASSUME NEW i \in Ids, NEW v \in Values, Modify(i, v) PROVE UndoInv'
  <2>. DEFINE x == IF Collides(indices, i, v) THEN None ELSE v
  <2>0. x \in Slot /\ (UniqueIndex \/ x # None)
    BY UndoDbAssumption DEF Collides, Slot
  <2>1. /\ indices' = [indices EXCEPT ![i] = x] /\ UNCHANGED <<next_id, saved, damaged>>
        /\ indices[i] # None
    BY <1>2 DEF Modify
  <2>. HIDE DEF x
  <2>2. CASE stack = <<>>
    BY <1>0, <1>2, <2>1, <2>2, NoSession DEF Modify, Table
  <2>3. CASE stack # <<>>
    <3>1. stack' = SetTop(OnModify(Top, i))
      BY <1>2, <2>3 DEF Modify
    <3>2. /\ OnModify(Top, i) \in UndoState
          /\ OnModify(Top, i).old_next_id = Top.old_next_id
      BY <1>0, <1>00, <2>3, OnModifyType DEF OnModify, UndoState
    <3>3. /\ Fits(OnModify(Top, i), indices', next_id')
          /\ Restored(OnModify(Top, i), indices') = Restored(Top, indices)
      BY <1>0, <1>00, <2>0, <2>1, <2>3, ModifyRestores
    <3>. QED
      BY <1>0, <2>1, <2>3, <3>1, <3>2, <3>3, TopChanged
  <2>. QED
    BY <2>2, <2>3
<1>3. ASSUME NEW i \in Ids, Remove(i) PROVE UndoInv'
  <2>1. /\ indices' = [indices EXCEPT ![i] = None] /\ UNCHANGED <<next_id, saved, damaged>>
        /\ indices[i] # None
    BY <1>3 DEF Remove
  <2>2. CASE stack = <<>>
    BY <1>0, <1>3, <2>1, <2>2, NoSession DEF Remove, Table
  <2>3. CASE stack # <<>>
    <3>1. stack' = SetTop(OnRemove(Top, i))
      BY <1>3, <2>3 DEF Remove
    <3>2. /\ OnRemove(Top, i) \in UndoState
          /\ OnRemove(Top, i).old_next_id = Top.old_next_id
      BY <1>0, <1>00, <2>3, OnRemoveType DEF OnRemove, UndoState
    <3>3. /\ Fits(OnRemove(Top, i), indices', next_id')
          /\ Restored(OnRemove(Top, i), indices') = Restored(Top, indices)
      BY <1>0, <1>00, <2>1, <2>3, RemoveRestores
    <3>. QED
      BY <1>0, <2>1, <2>3, <3>1, <3>2, <3>3, TopChanged
  <2>. QED
    BY <2>2, <2>3
<1>4. CASE StartUndoSession
  BY <1>0, <1>4, StartUndoInv
<1>5. CASE Undo
  BY <1>0, <1>5, UndoUndoInv DEF Undo
<1>6. CASE UndoAll
  BY <1>6 DEF UndoAll, UndoInv, UndoNeverFails, StackFits, SessionsRestore,
              TabAbove, NextAbove
<1>7. CASE UndoAllStep
  BY <1>0, <1>7, UndoUndoInv DEF UndoAllStep
<1>8. CASE Squash
  BY <1>0, <1>8, SquashUndoInv
<1>9. ASSUME NEW n \in 0..MaxRevision, Commit(n) PROVE UndoInv'
  BY <1>9, CommitUndoInv
<1>10. ASSUME NEW n \in 0..MaxRevision, SetRevision(n) PROVE UndoInv'
  BY <1>10 DEF SetRevision, UndoInv, UndoNeverFails, StackFits, SessionsRestore,
               TabAbove, NextAbove
<1>11. CASE UNCHANGED vars
  BY <1>11 DEF vars, UndoInv, UndoNeverFails, StackFits, SessionsRestore,
               TabAbove, NextAbove
<1>. QED
  BY <1>1, <1>2, <1>3, <1>4, <1>5, <1>6, <1>7, <1>8, <1>9, <1>10, <1>11 DEF Next

\* Of every table without a second unique index: the state of each session is
\* consistent with the tables around it.
THEOREM SessionsAreConsistent ==
  ASSUME ~UniqueIndex
  PROVE  Spec => []StackConsistent
<1>1. Init => RevInv /\ UndoInv
  BY RevInvInit, UndoInvInit
<1>2. RevInv /\ UndoInv /\ [Next]_vars => (RevInv /\ UndoInv)'
  BY RevInvStep, UndoInvStep
<1>3. RevInv /\ UndoInv => StackConsistent
  BY FitsConsistent DEF UndoInv
<1>. QED
  BY <1>1, <1>2, <1>3, PTL DEF Spec

\* Of every table, with a second unique index or without: undoing its sessions,
\* newest first, gives back exactly the table and the next id each began with,
\* also after writes that collided and where an undo stopped half way.
THEOREM UndoRestores == Spec => []SessionsRestore
<1>1. Init => RevInv /\ UndoInv
  BY RevInvInit, UndoInvInit
<1>2. RevInv /\ UndoInv /\ [Next]_vars => (RevInv /\ UndoInv)'
  BY RevInvStep, UndoInvStep
<1>3. RevInv /\ UndoInv => SessionsRestore
  BY DEF UndoInv
<1>. QED
  BY <1>1, <1>2, <1>3, PTL DEF Spec

\* Of every table without a second unique index: undo never fails half way.
THEOREM UndoIsTotal ==
  ASSUME ~UniqueIndex
  PROVE  Spec => []UndoNeverFails
<1>1. Init => RevInv /\ UndoInv
  BY RevInvInit, UndoInvInit
<1>2. RevInv /\ UndoInv /\ [Next]_vars => (RevInv /\ UndoInv)'
  BY RevInvStep, UndoInvStep
<1>3. RevInv /\ UndoInv => UndoNeverFails
  BY DEF UndoInv
<1>. QED
  BY <1>1, <1>2, <1>3, PTL DEF Spec

-----------------------------------------------------------------------------
(* The second unique index.  Which table a session returns to is known from *)
(* SessionsRestore, so that it is enough to follow the tables that were     *)
(* saved.                                                                   *)

Distinct(tab) == \A i, j \in Ids : tab[i] = tab[j] /\ tab[i] # None => i = j

UniqueInv ==
  UniqueIndex => Distinct(indices) /\ \A i \in 1..Len(saved) : Distinct(saved[i].tab)

\* Storing a value that does not collide, or none, keeps the values distinct.
LEMMA StoreDistinct ==
  ASSUME NEW tab \in Table, Distinct(tab), UniqueIndex, NEW i \in Ids, NEW v,
         v = None \/ ~Collides(tab, i, v)
  PROVE  Distinct([tab EXCEPT ![i] = v])
<1>. DEFINE t == [tab EXCEPT ![i] = v]
<1>1. t[i] = v /\ \A j \in Ids : j # i => t[j] = tab[j]
  BY DEF Table
<1>. HIDE DEF t
<1>2. v = None \/ \A j \in Ids : j # i => tab[j] # v
  BY DEF Collides
<1>3. Distinct(t)
  BY <1>1, <1>2 DEF Distinct
<1>. QED
  BY <1>3 DEF t

\* An undo that stops at object i has restored the old values of the objects
\* before it one by one, and none of them collided.
LEMMA StuckDistinct ==
  ASSUME NEW u \in UndoState, NEW tab \in Table, Distinct(tab), UniqueIndex,
         NEW i \in Ids, \A j \in 0..(i - 1) : ~Stuck(u, tab, j)
  PROVE  Distinct([Partly(u, tab, i) EXCEPT ![i] = None])
<1>. DEFINE t == [Partly(u, tab, i) EXCEPT ![i] = None]
<1>1. Ids \subseteq Nat /\ i \in Nat
  BY UndoDbAssumption DEF Ids
<1>2. \A j, k \in Ids : Partly(u, tab, j)[k]
                        = IF k < j /\ u.old_values[k] # None THEN u.old_values[k] ELSE tab[k]
  BY DEF Partly
<1>3. t[i] = None /\ \A k \in Ids : k # i => t[k] = Partly(u, tab, i)[k]
  <2>1. Partly(u, tab, i) \in Table
    BY PartlyType
  <2>. QED
    BY <2>1 DEF Table
<1>. HIDE DEF t
\* The turn of object j came, and no other object had its old value.
<1>4. ASSUME NEW j \in Ids, j < i, u.old_values[j] # None,
             NEW k \in Ids, k # j
      PROVE  Partly(u, tab, j)[k] # u.old_values[j]
  <2>1. j \in 0..(i - 1)
    BY <1>1, <1>4
  <2>. QED
    BY <2>1, <1>4 DEF Stuck, Collides
<1>5. ASSUME NEW a \in Ids, NEW b \in Ids, a # b, a < i, u.old_values[a] # None,
             b # i, b < a \/ ~(b < i /\ u.old_values[b] # None)
      PROVE  t[b] # u.old_values[a]
  <2>1. Partly(u, tab, a)[b] # u.old_values[a]
    BY <1>4, <1>5
  <2>2. Partly(u, tab, i)[b] = Partly(u, tab, a)[b]
    BY <1>1, <1>2, <1>5
  <2>. QED
    BY <2>1, <2>2, <1>3, <1>5
<1>6. ASSUME NEW a \in Ids, NEW b \in Ids, t[a] = t[b], t[a] # None
      PROVE  a = b
  <2>1. a # i /\ b # i /\ t[a] = Partly(u, tab, i)[a] /\ t[b] = Partly(u, tab, i)[b]
    BY <1>3, <1>6
  <2>2. CASE ~(a < i /\ u.old_values[a] # None) /\ ~(b < i /\ u.old_values[b] # None)
    BY <2>1, <2>2, <1>2, <1>6, ZenonT(60) DEF Distinct
  <2>3. CASE (a < i /\ u.old_values[a] # None) /\ ~(b < i /\ u.old_values[b] # None)
    BY <2>1, <2>3, <1>2, <1>5, <1>6
  <2>4. CASE ~(a < i /\ u.old_values[a] # None) /\ (b < i /\ u.old_values[b] # None)
    BY <2>1, <2>4, <1>2, <1>5, <1>6
  <2>5. CASE (a < i /\ u.old_values[a] # None) /\ (b < i /\ u.old_values[b] # None)
    <3>1. t[a] = u.old_values[a] /\ t[b] = u.old_values[b]
      BY <2>1, <2>5, <1>2
    <3>2. ASSUME b < a PROVE FALSE
      <4>1. b # a
        BY <3>2, <1>1
      <4>2. t[b] # u.old_values[a]
        BY <4>1, <3>2, <2>1, <2>5, <1>5
      <4>. QED
        BY <4>2, <3>1, <1>6
    <3>3. ASSUME a < b PROVE FALSE
      <4>1. a # b
        BY <3>3, <1>1
      <4>2. t[a] # u.old_values[b]
        BY <4>1, <3>3, <2>1, <2>5, <1>5
      <4>. QED
        BY <4>2, <3>1, <1>6
    <3>. QED
      BY <3>2, <3>3, <1>1
  <2>. QED
    BY <2>2, <2>3, <2>4, <2>5
<1>7. Distinct(t)
  BY <1>6 DEF Distinct
<1>. QED
  BY <1>7 DEF t

LEMMA PopUnique ==
  ASSUME TypeOK, UndoInv, UniqueInv, UniqueIndex, stack # <<>>, PopState
  PROVE  UniqueInv'
<1>1. /\ Len(stack) \in 1..Len(stack) /\ Len(stack) \in Nat /\ Len(saved) = Len(stack)
      /\ saved \in Seq([tab : Table, next : 0..MaxId]) /\ saved # <<>>
      /\ Top \in UndoState /\ indices \in Table
  BY TopType, EmptySeq DEF TypeOK
<1>2. Distinct(indices) /\ \A i \in 1..Len(saved) : Distinct(saved[i].tab)
  BY DEF UniqueInv
<1>3. CASE ~UndoFails
  <2>1. indices' = Restored(Top, indices) /\ saved' = SubSeq(saved, 1, Len(saved) - 1)
    BY <1>3 DEF PopState
  <2>2. indices' = saved[Len(saved)].tab
    BY <2>1, <1>1 DEF UndoInv, SessionsRestore, TabAbove, Top
  <2>3. /\ Len(saved') = Len(saved) - 1
        /\ \A i \in 1..(Len(saved) - 1) : saved'[i] = saved[i]
    BY <2>1, <1>1, FrontSeq
  <2>4. \A i \in 1..Len(saved') : Distinct(saved'[i].tab)
    BY <2>3, <1>1, <1>2
  <2>5. Distinct(indices')
    BY <2>2, <1>1, <1>2
  <2>. QED
    BY <2>4, <2>5 DEF UniqueInv, Distinct
<1>4. CASE UndoFails
  <2>1. /\ saved' = saved
        /\ \/ indices' = indices
           \/ \E i \in Ids : /\ \A j \in 0..(i - 1) : ~Stuck(Top, indices, j)
                             /\ indices' = [Partly(Top, indices, i) EXCEPT ![i] = None]
    BY <1>4 DEF PopState
  <2>2. Distinct(indices')
    BY <2>1, <1>1, <1>2, StuckDistinct
  <2>. QED
    BY <2>1, <2>2, <1>2 DEF UniqueInv, Distinct
<1>. QED
  BY <1>3, <1>4

LEMMA UniqueInit == Init => UniqueInv
<1>. SUFFICES ASSUME Init PROVE UniqueInv
  OBVIOUS
<1>1. Len(saved) = 0
  BY NilSeq DEF Init
<1>2. Distinct(indices)
  BY DEF Init, Empty, Distinct
<1>. QED
  BY <1>1, <1>2 DEF UniqueInv

LEMMA UniqueStep == RevInv /\ UndoInv /\ UniqueInv /\ [Next]_vars => UniqueInv'
<1>. SUFFICES ASSUME RevInv, UndoInv, UniqueInv, [Next]_vars, UniqueIndex
              PROVE  Distinct(indices') /\ \A i \in 1..Len(saved') : Distinct(saved'[i].tab)
  BY DEF UniqueInv, Distinct
<1>0. /\ TypeOK /\ indices \in Table /\ next_id \in 0..MaxId /\ next_id \in Nat
      /\ saved \in Seq([tab : Table, next : 0..MaxId]) /\ Len(saved) \in Nat
      /\ Len(saved) = Len(stack)
  BY UndoDbAssumption DEF RevInv, TypeOK
<1>00. Distinct(indices) /\ \A i \in 1..Len(saved) : Distinct(saved[i].tab)
  BY DEF UniqueInv
<1>1. ASSUME NEW v \in Values, Emplace(v) PROVE Distinct(indices') /\ saved' = saved
  <2>1. next_id \in Ids
    BY <1>0, <1>1, UndoDbAssumption DEF Emplace, Ids
  <2>2. ~Collides(indices, next_id, v) /\ indices' = [indices EXCEPT ![next_id] = v]
    BY <1>1 DEF Emplace
  <2>3. saved' = saved
    BY <1>1 DEF Emplace
  <2>. QED
    BY <2>1, <2>2, <2>3, <1>0, <1>00, StoreDistinct
<1>2. ASSUME NEW i \in Ids, NEW v \in Values, Modify(i, v)
      PROVE  Distinct(indices') /\ saved' = saved
  <2>. DEFINE x == IF Collides(indices, i, v) THEN None ELSE v
  <2>1. indices' = [indices EXCEPT ![i] = x] /\ saved' = saved
    BY <1>2 DEF Modify
  <2>2. x = None \/ ~Collides(indices, i, x)
    OBVIOUS
  <2>. HIDE DEF x
  <2>. QED
    BY <2>1, <2>2, <1>0, <1>00, StoreDistinct
<1>3. ASSUME NEW i \in Ids, Remove(i) PROVE Distinct(indices') /\ saved' = saved
  <2>1. indices' = [indices EXCEPT ![i] = None] /\ saved' = saved
    BY <1>3 DEF Remove
  <2>. QED
    BY <2>1, <1>0, <1>00, StoreDistinct
<1>4. CASE StartUndoSession
  <2>. DEFINE r == [tab |-> indices, next |-> next_id]
  <2>1. saved' = Append(saved, r) /\ indices' = indices
    BY <1>4 DEF StartUndoSession
  <2>2. r \in [tab : Table, next : 0..MaxId] /\ r.tab = indices
    BY <1>0
  <2>. HIDE DEF r
  <2>3. /\ Len(saved') = Len(saved) + 1 /\ saved'[Len(saved) + 1] = r
        /\ \A i \in 1..Len(saved) : saved'[i] = saved[i]
    BY <1>0, <2>1, <2>2, AppendSeq
  <2>4. ASSUME NEW i \in 1..Len(saved') PROVE Distinct(saved'[i].tab)
    <3>1. i = Len(saved) + 1 \/ i \in 1..Len(saved)
      BY <1>0, <2>3
    <3>. QED
      BY <3>1, <2>2, <2>3, <1>00
  <2>. QED
    BY <2>1, <2>4, <1>00
<1>5. ASSUME stack # <<>>, PopState
      PROVE  Distinct(indices') /\ \A i \in 1..Len(saved') : Distinct(saved'[i].tab)
  <2>1. UniqueInv'
    BY <1>0, <1>5, PopUnique
  <2>. QED
    BY <2>1 DEF UniqueInv, Distinct
<1>6. CASE Squash
  <2>1. indices' = indices /\ saved' = SubSeq(saved, 1, Len(saved) - 1) /\ saved # <<>>
    BY <1>0, <1>6, EmptySeq DEF Squash, TypeOK
  <2>2. /\ Len(saved') = Len(saved) - 1
        /\ \A i \in 1..(Len(saved) - 1) : saved'[i] = saved[i]
    BY <2>1, <1>0, FrontSeq
  <2>. QED
    BY <2>1, <2>2, <1>0, <1>00
<1>7. ASSUME NEW n \in 0..MaxRevision, Commit(n)
      PROVE  Distinct(indices') /\ \A i \in 1..Len(saved') : Distinct(saved'[i].tab)
  <2>. DEFINE k == Committed(stack, n)
  <2>1. k \in 0..Len(saved)
    BY <1>0, CommittedRange, UndoDbAssumption
  <2>2. indices' = indices /\ saved' = SubSeq(saved, k + 1, Len(saved))
    BY <1>7 DEF Commit
  <2>. HIDE DEF k
  <2>3. /\ Len(saved') = Len(saved) - k
        /\ \A i \in 1..(Len(saved) - k) : saved'[i] = saved[i + k]
    BY <2>1, <2>2, <1>0, DropSeq
  <2>4. ASSUME NEW i \in 1..Len(saved') PROVE Distinct(saved'[i].tab)
    <3>1. i \in 1..(Len(saved) - k) /\ i + k \in 1..Len(saved)
      BY <2>1, <2>3, <1>0
    <3>. QED
      BY <3>1, <2>3, <1>00
  <2>. QED
    BY <2>2, <2>4, <1>00
<1>8. ASSUME UNCHANGED <<indices, saved>>
      PROVE  Distinct(indices') /\ \A i \in 1..Len(saved') : Distinct(saved'[i].tab)
  BY <1>8, <1>00
<1>9. ASSUME Distinct(indices'), saved' = saved
      PROVE  \A i \in 1..Len(saved') : Distinct(saved'[i].tab)
  BY <1>9, <1>00
<1>10. UndoAll \/ (\E n \in 0..MaxRevision : SetRevision(n)) \/ UNCHANGED vars
       => UNCHANGED <<indices, saved>>
  BY DEF UndoAll, SetRevision, vars
<1>11. Undo \/ UndoAllStep => stack # <<>> /\ PopState
  BY DEF Undo, UndoAllStep
<1>. QED
  BY <1>1, <1>2, <1>3, <1>4, <1>5, <1>6, <1>7, <1>8, <1>9, <1>10, <1>11 DEF Next

\* Of a table with a second unique index: whatever collides, and wherever an undo
\* stops, no two objects have the same value, now or in a table that an open
\* session returns to.
THEOREM ValuesStayUnique == Spec => []ValuesUnique
<1>1. Init => RevInv /\ UndoInv /\ UniqueInv
  BY RevInvInit, UndoInvInit, UniqueInit
<1>2. RevInv /\ UndoInv /\ UniqueInv /\ [Next]_vars => (RevInv /\ UndoInv /\ UniqueInv)'
  BY RevInvStep, UndoInvStep, UniqueStep
<1>3. RevInv /\ UndoInv /\ UniqueInv => ValuesUnique
  <2>. SUFFICES ASSUME RevInv, UndoInv, UniqueInv, UniqueIndex,
                       NEW tab \in {indices} \cup
                             {Restored(stack[i], TabAbove(i)) : i \in 1..Len(stack)}
                PROVE  Distinct(tab)
    BY DEF ValuesUnique, Distinct
  <2>1. Len(saved) = Len(stack)
    BY DEF RevInv, TypeOK
  <2>2. Distinct(indices) /\ \A i \in 1..Len(stack) : Distinct(saved[i].tab)
    BY <2>1 DEF UniqueInv
  <2>3. \A i \in 1..Len(stack) : Restored(stack[i], TabAbove(i)) = saved[i].tab
    BY DEF UndoInv, SessionsRestore
  <2>4. tab = indices \/ \E i \in 1..Len(stack) : tab = saved[i].tab
    BY <2>3
  <2>. QED
    BY <2>2, <2>4
<1>. QED
  BY <1>1, <1>2, <1>3, PTL DEF Spec

-----------------------------------------------------------------------------
(* The refinement.                                                         *)

Sessions == [rev : Int, to : Contents]

LEMMA SameSeq ==
  ASSUME NEW S, NEW s \in Seq(S), NEW t \in Seq(S), Len(s) = Len(t),
         \A i \in 1..Len(s) : s[i] = t[i]
  PROVE  s = t
OBVIOUS

LEMMA AbsType ==
  ASSUME TypeOK
  PROVE  /\ AbsDb.state = [tab |-> indices, next |-> next_id]
         /\ AbsDb.state \in Contents
         /\ AbsDb.rev = revision
         /\ AbsDb.undo \in Seq(Sessions)
         /\ Len(AbsDb.undo) = Len(stack)
         /\ \A i \in 1..Len(stack) :
              AbsDb.undo[i] = [rev |-> stack[i].rev, to |-> saved[i]]
<1>1. /\ AbsDb.state = [tab |-> indices, next |-> next_id]
      /\ AbsDb.rev = revision
      /\ AbsDb.undo = [i \in 1..Len(stack) |-> [rev |-> stack[i].rev, to |-> saved[i]]]
  BY DEF AbsDb
<1>2. AbsDb.state \in Contents
  BY <1>1 DEF TypeOK, Contents
<1>3. /\ Len(stack) \in Nat
      /\ \A i \in 1..Len(stack) : [rev |-> stack[i].rev, to |-> saved[i]] \in Sessions
  <2>1. /\ Len(stack) \in Nat
        /\ \A i \in 1..Len(stack) : stack[i] \in UndoState /\ saved[i] \in Contents
    BY EmptySeq DEF TypeOK, Contents
  <2>. QED
    BY <2>1 DEF Sessions, UndoState
<1>4. AbsDb.undo \in Seq(Sessions) /\ Len(AbsDb.undo) = Len(stack)
  BY <1>1, <1>3
<1>. QED
  BY <1>1, <1>2, <1>4

LEMMA AbsTypeNext ==
  ASSUME TypeOK'
  PROVE  /\ AbsDb'.state = [tab |-> indices', next |-> next_id']
         /\ AbsDb'.state \in Contents
         /\ AbsDb'.rev = revision'
         /\ AbsDb'.undo \in Seq(Sessions)
         /\ Len(AbsDb'.undo) = Len(stack')
         /\ \A i \in 1..Len(stack') :
              AbsDb'.undo[i] = [rev |-> stack'[i].rev, to |-> saved'[i]]
<1>1. /\ AbsDb'.state = [tab |-> indices', next |-> next_id']
      /\ AbsDb'.rev = revision'
      /\ AbsDb'.undo = [i \in 1..Len(stack') |-> [rev |-> stack'[i].rev, to |-> saved'[i]]]
  BY DEF AbsDb
<1>2. AbsDb'.state \in Contents
  BY <1>1 DEF TypeOK, Contents
<1>3. /\ Len(stack') \in Nat
      /\ \A i \in 1..Len(stack') : [rev |-> stack'[i].rev, to |-> saved'[i]] \in Sessions
  <2>1. /\ Len(stack') \in Nat
        /\ \A i \in 1..Len(stack') : stack'[i] \in UndoState /\ saved'[i] \in Contents
    BY EmptySeq DEF TypeOK, Contents
  <2>. QED
    BY <2>1 DEF Sessions, UndoState
<1>4. AbsDb'.undo \in Seq(Sessions) /\ Len(AbsDb'.undo) = Len(stack')
  BY <1>1, <1>3
<1>. QED
  BY <1>1, <1>2, <1>4

LEMMA AbsParts ==
  /\ AbsDb = [state |-> AbsDb.state, undo |-> AbsDb.undo, rev |-> AbsDb.rev]
  /\ AbsDb' = [state |-> AbsDb'.state, undo |-> AbsDb'.undo, rev |-> AbsDb'.rev]
BY DEF AbsDb

\* commit finds the same place in the abstract sessions.
LEMMA CommittedIs ==
  ASSUME NEW s, NEW n \in Int, Len(s) \in Nat, NEW c \in 0..Len(s),
         \A i \in 1..Len(s) : s[i].rev \in Int,
         \A i \in 1..c : s[i].rev <= n,
         c < Len(s) => s[c + 1].rev > n
  PROVE  Committed(s, n) = c
<1>. DEFINE P(k) == /\ \A i \in 1..k : s[i].rev <= n
                    /\ k < Len(s) => s[k + 1].rev > n
<1>1. P(c)
  OBVIOUS
<1>2. ASSUME NEW k \in 0..Len(s), P(k) PROVE k = c
  <2>1. CASE k < c
    <3>1. k + 1 \in 1..c /\ k + 1 \in 1..Len(s) /\ k < Len(s)
      BY <2>1
    <3>2. s[k + 1].rev \in Int /\ s[k + 1].rev <= n /\ s[k + 1].rev > n
      BY <1>2, <3>1
    <3>. QED
      BY <3>2
  <2>2. CASE c < k
    <3>1. c + 1 \in 1..k /\ c + 1 \in 1..Len(s) /\ c < Len(s)
      BY <2>2
    <3>2. s[c + 1].rev \in Int /\ s[c + 1].rev <= n /\ s[c + 1].rev > n
      BY <1>2, <3>1
    <3>. QED
      BY <3>2
  <2>. QED
    BY <2>1, <2>2
<1>3. Committed(s, n) = CHOOSE k \in 0..Len(s) : P(k)
  BY DEF Committed
<1>. HIDE DEF P
<1>. QED
  BY <1>1, <1>2, <1>3

LEMMA CommittedCuts ==
  ASSUME RevInv, NEW n \in Int
  PROVE  LET k == Committed(stack, n)
         IN /\ k \in 0..Len(stack)
            /\ \A i \in 1..k : stack[i].rev <= n
            /\ k < Len(stack) => stack[k + 1].rev > n
<1>. DEFINE low == revision - Len(stack)
            c == IF n < low THEN 0 ELSE IF n > revision THEN Len(stack) ELSE n - low
<1>1. /\ Len(stack) \in Nat /\ revision \in Int
      /\ \A i \in 1..Len(stack) : stack[i].rev = low + i
  BY DEF RevInv, TypeOK, RevisionsConsecutive
<1>2. /\ c \in 0..Len(stack)
      /\ \A i \in 1..c : stack[i].rev <= n
      /\ c < Len(stack) => stack[c + 1].rev > n
      /\ \A i \in 1..Len(stack) : stack[i].rev \in Int
  BY <1>1
<1>. HIDE DEF c
<1>3. Committed(stack, n) = c
  BY <1>1, <1>2, CommittedIs
<1>. QED
  BY <1>2, <1>3

\* A step that leaves the sessions and the revision alone writes.
LEMMA WriteStep ==
  ASSUME TypeOK, TypeOK', Len(stack') = Len(stack), UNCHANGED <<saved, revision>>,
         \A i \in 1..Len(stack) : stack'[i].rev = stack[i].rev
  PROVE  Abs!Write
<1>1. AbsDb'.undo = AbsDb.undo
  BY DEF AbsDb
<1>2. AbsDb'.rev = AbsDb.rev /\ AbsDb'.state \in Contents
  BY AbsType, AbsTypeNext
<1>. DEFINE a == AbsDb.state
            b == AbsDb'.state
            u == AbsDb.undo
            r == AbsDb.rev
<1>3. AbsDb = [state |-> a, undo |-> u, rev |-> r] /\ AbsDb' = [state |-> b, undo |-> u, rev |-> r]
  BY <1>1, <1>2, AbsParts
<1>. HIDE DEF a, b, u, r
<1>4. AbsDb' = [AbsDb EXCEPT !.state = AbsDb'.state]
  BY <1>3
<1>. QED
  BY <1>2, <1>4 DEF Abs!Write

LEMMA AbsStart ==
  ASSUME TypeOK, TypeOK', StartUndoSession
  PROVE  AbsDb' = Abs!StartSession(AbsDb)
<1>. DEFINE n == Len(stack)
            u == [old_values |-> Empty, new_ids |-> {}, removed_values |-> Empty,
                  old_next_id |-> next_id, rev |-> revision + 1]
            r == [tab |-> indices, next |-> next_id]
            e == [rev |-> AbsDb.rev + 1, to |-> AbsDb.state]
            a == Append(AbsDb.undo, e)
<1>1. /\ stack \in Seq(UndoState) /\ n \in Nat /\ Len(saved) = n
      /\ saved \in Seq([tab : Table, next : 0..MaxId]) /\ revision \in Int
      /\ indices \in Table /\ next_id \in 0..MaxId
  BY DEF TypeOK
<1>2. u \in UndoState /\ u.rev = revision + 1 /\ r \in [tab : Table, next : 0..MaxId]
  BY <1>1 DEF UndoState, TypeOK, Empty, Table, Slot
<1>3. e \in Sessions /\ e = [rev |-> revision + 1, to |-> r]
  BY <1>1, AbsType DEF Sessions
<1>4. /\ stack' = Append(stack, u) /\ saved' = Append(saved, r)
      /\ UNCHANGED <<indices, next_id>> /\ revision' = revision + 1
  BY DEF StartUndoSession
<1>. HIDE DEF u, r, e
<1>5. /\ Len(stack') = n + 1 /\ stack'[n + 1] = u /\ saved'[n + 1] = r
      /\ \A i \in 1..n : stack'[i] = stack[i] /\ saved'[i] = saved[i]
  BY <1>1, <1>2, <1>4, AppendSeq
<1>6. /\ a \in Seq(Sessions) /\ Len(a) = n + 1 /\ a[n + 1] = e
      /\ \A i \in 1..n : a[i] = AbsDb.undo[i]
  BY <1>3, AbsType, AppendSeq
<1>. HIDE DEF a
<1>7. ASSUME NEW i \in 1..(n + 1) PROVE AbsDb'.undo[i] = a[i]
  <2>1. AbsDb'.undo[i] = [rev |-> stack'[i].rev, to |-> saved'[i]]
    BY <1>5, AbsTypeNext
  <2>2. CASE i = n + 1
    BY <1>2, <1>3, <1>5, <1>6, <2>1, <2>2
  <2>3. CASE i # n + 1
    <3>1. i \in 1..n
      BY <1>1, <2>3
    <3>. QED
      BY <1>5, <1>6, <2>1, <3>1, AbsType
  <2>. QED
    BY <2>2, <2>3
<1>8. AbsDb'.undo = a
  <2>1. AbsDb'.undo \in Seq(Sessions) /\ Len(AbsDb'.undo) = n + 1
    BY <1>5, AbsTypeNext
  <2>. QED
    BY <1>6, <1>7, <2>1, SameSeq
<1>9. AbsDb'.state = AbsDb.state /\ AbsDb'.rev = AbsDb.rev + 1
  BY <1>4, AbsType, AbsTypeNext
<1>. QED
  BY <1>8, <1>9, AbsParts DEF Abs!StartSession, a, e

LEMMA AbsUndo ==
  ASSUME ~UniqueIndex, TypeOK, TypeOK', UndoInv, stack # <<>>, PopState
  PROVE  AbsDb' = Abs!UndoSession(AbsDb)
<1>. DEFINE n == Len(stack)
            f == SubSeq(AbsDb.undo, 1, Len(AbsDb.undo) - 1)
<1>1. /\ stack \in Seq(UndoState) /\ n \in 1..n /\ n \in Nat /\ Len(saved) = n
      /\ saved \in Seq([tab : Table, next : 0..MaxId]) /\ saved # <<>>
      /\ AbsDb.undo \in Seq(Sessions) /\ Len(AbsDb.undo) = n /\ AbsDb.undo # <<>>
  BY TopType, EmptySeq, AbsType DEF TypeOK
<1>2. Fits(Top, indices, next_id)
  BY <1>1 DEF UndoInv, StackFits, TabAbove, NextAbove, Top
<1>3. ~UndoFails
  BY <1>2, UndoSucceeds
<1>4. /\ indices' = Restored(Top, indices)
      /\ next_id' = Top.old_next_id
      /\ stack' = SubSeq(stack, 1, n - 1)
      /\ saved' = SubSeq(saved, 1, n - 1)
      /\ revision' = revision - 1
  BY <1>1, <1>3 DEF PopState
<1>5. /\ Len(stack') = n - 1
      /\ \A i \in 1..(n - 1) : stack'[i] = stack[i] /\ saved'[i] = saved[i]
  BY <1>1, <1>4, FrontSeq
<1>6. /\ f \in Seq(Sessions) /\ Len(f) = n - 1
      /\ \A i \in 1..(n - 1) : f[i] = AbsDb.undo[i]
  BY <1>1, FrontSeq
<1>. HIDE DEF f
<1>7. AbsDb'.undo = f
  <2>1. AbsDb'.undo \in Seq(Sessions) /\ Len(AbsDb'.undo) = n - 1
    BY <1>5, AbsTypeNext
  <2>2. ASSUME NEW i \in 1..(n - 1) PROVE AbsDb'.undo[i] = f[i]
    <3>1. i \in 1..n
      BY <1>1
    <3>2. AbsDb'.undo[i] = [rev |-> stack'[i].rev, to |-> saved'[i]]
      BY <1>5, AbsTypeNext
    <3>3. AbsDb.undo[i] = [rev |-> stack[i].rev, to |-> saved[i]]
      BY <3>1, AbsType
    <3>. QED
      BY <1>5, <1>6, <3>2, <3>3
  <2>. QED
    BY <1>6, <2>1, <2>2, SameSeq
<1>8. AbsDb'.state = AbsDb.undo[n].to
  <2>1. indices' = saved[n].tab /\ next_id' = saved[n].next
    BY <1>1, <1>4 DEF UndoInv, SessionsRestore, TabAbove, Top
  <2>2. saved[n] \in [tab : Table, next : 0..MaxId]
    BY <1>1, EmptySeq
  <2>3. AbsDb.undo[n].to = saved[n]
    <3>1. AbsDb.undo[n] = [rev |-> stack[n].rev, to |-> saved[n]]
      BY <1>1, AbsType
    <3>. QED
      BY <3>1
  <2>4. AbsDb'.state = [tab |-> indices', next |-> next_id']
    BY AbsTypeNext
  <2>. QED
    BY <2>1, <2>2, <2>3, <2>4
<1>9. AbsDb'.rev = AbsDb.rev - 1
  BY <1>4, AbsType, AbsTypeNext
<1>. QED
  BY <1>1, <1>7, <1>8, <1>9, AbsParts DEF Abs!UndoSession, f

LEMMA AbsSquash ==
  ASSUME RevInv, TypeOK', Squash
  PROVE  AbsDb' = Abs!SquashSession(AbsDb)
<1>. DEFINE n == Len(stack)
            f == SubSeq(AbsDb.undo, 1, Len(AbsDb.undo) - 1)
<1>0. stack # <<>> /\ TypeOK
  BY DEF Squash, RevInv
<1>1. /\ stack \in Seq(UndoState) /\ n \in 1..n /\ n \in Nat /\ Len(saved) = n
      /\ saved \in Seq([tab : Table, next : 0..MaxId]) /\ saved # <<>>
      /\ AbsDb.undo \in Seq(Sessions) /\ Len(AbsDb.undo) = n /\ AbsDb.undo # <<>>
  BY <1>0, TopType, EmptySeq, AbsType DEF TypeOK
<1>2. UNCHANGED <<indices, next_id>> /\ saved' = SubSeq(saved, 1, n - 1)
  BY <1>1 DEF Squash
<1>3. \A i \in 1..(n - 1) : saved'[i] = saved[i]
  BY <1>1, <1>2, FrontSeq
<1>4. AbsDb'.state = AbsDb.state
  BY <1>0, <1>2, AbsType, AbsTypeNext
<1>5. CASE n = 1
  <2>1. stack' = <<>> /\ revision' = revision
    BY <1>5 DEF Squash
  <2>2. Len(stack') = 0
    BY <2>1, NilSeq
  <2>3. AbsDb'.undo = <<>>
    BY <2>2, AbsTypeNext, EmptySeq
  <2>4. AbsDb'.rev = AbsDb.rev
    BY <1>0, <2>1, AbsType, AbsTypeNext
  <2>. QED
    BY <1>1, <1>4, <1>5, <2>3, <2>4, AbsParts DEF Abs!SquashSession
<1>6. CASE n # 1
  <2>. DEFINE k == n - 1
              m == Merged(stack[k], Top)
              g == SubSeq(stack, 1, k)
  <2>1. /\ k \in Nat /\ k \in 1..k /\ k \in 1..n
        /\ stack[k] \in UndoState /\ Top \in UndoState
        /\ g \in Seq(UndoState) /\ Len(g) = k
        /\ \A i \in 1..k : g[i] = stack[i]
    BY <1>0, <1>1, <1>6, TopType, EmptySeq, FrontSeq
  <2>2. m \in UndoState /\ m.rev = stack[k].rev
    BY <2>1, MergedType
  <2>3. stack' = [g EXCEPT ![k] = m] /\ revision' = revision - 1
    BY <1>6 DEF Squash
  <2>. HIDE DEF m, g
  <2>4. /\ Len(stack') = k
        /\ \A i \in 1..k : stack'[i].rev = stack[i].rev
    BY <2>1, <2>2, <2>3, ReplaceSeq
  <2>5. /\ f \in Seq(Sessions) /\ Len(f) = k
        /\ \A i \in 1..k : f[i] = AbsDb.undo[i]
    BY <1>1, FrontSeq
  <2>. HIDE DEF f
  <2>6. AbsDb'.undo = f
    <3>1. AbsDb'.undo \in Seq(Sessions) /\ Len(AbsDb'.undo) = k
      BY <2>4, AbsTypeNext
    <3>2. ASSUME NEW i \in 1..k PROVE AbsDb'.undo[i] = f[i]
      <4>1. i \in 1..n
        BY <1>1
      <4>2. AbsDb'.undo[i] = [rev |-> stack'[i].rev, to |-> saved'[i]]
        BY <2>4, AbsTypeNext
      <4>3. AbsDb.undo[i] = [rev |-> stack[i].rev, to |-> saved[i]]
        BY <1>0, <4>1, AbsType
      <4>. QED
        BY <1>3, <2>4, <2>5, <4>2, <4>3
    <3>. QED
      BY <2>5, <3>1, <3>2, SameSeq
  <2>7. AbsDb'.rev = AbsDb.rev - 1
    BY <1>0, <2>3, AbsType, AbsTypeNext
  <2>. QED
    BY <1>1, <1>4, <1>6, <2>6, <2>7, AbsParts DEF Abs!SquashSession, f
<1>. QED
  BY <1>5, <1>6

LEMMA AbsCommit ==
  ASSUME RevInv, TypeOK', NEW c \in 0..MaxRevision, Commit(c)
  PROVE  AbsDb' = Abs!CommitSessions(AbsDb, c)
<1>. DEFINE n == Len(stack)
            k == Committed(stack, c)
            f == SubSeq(AbsDb.undo, k + 1, n)
<1>1. /\ stack \in Seq(UndoState) /\ n \in Nat /\ Len(saved) = n /\ TypeOK
      /\ saved \in Seq([tab : Table, next : 0..MaxId])
      /\ AbsDb.undo \in Seq(Sessions) /\ Len(AbsDb.undo) = n /\ c \in Int
  BY AbsType, UndoDbAssumption DEF RevInv, TypeOK
<1>2. /\ k \in 0..n
      /\ \A i \in 1..k : stack[i].rev <= c
      /\ k < n => stack[k + 1].rev > c
  BY <1>1, CommittedCuts
<1>3. /\ UNCHANGED <<indices, next_id, revision>>
      /\ stack' = SubSeq(stack, k + 1, n) /\ saved' = SubSeq(saved, k + 1, n)
  BY <1>1 DEF Commit
<1>. HIDE DEF k
<1>4. \A i \in 1..n : AbsDb.undo[i].rev = stack[i].rev /\ AbsDb.undo[i].rev \in Int
  <2>1. \A i \in 1..n : stack[i] \in UndoState
    BY <1>1, EmptySeq
  <2>2. ASSUME NEW i \in 1..n
        PROVE  AbsDb.undo[i].rev = stack[i].rev /\ AbsDb.undo[i].rev \in Int
    <3>1. AbsDb.undo[i] = [rev |-> stack[i].rev, to |-> saved[i]]
      BY <1>1, AbsType
    <3>2. stack[i].rev \in Int
      BY <2>1 DEF UndoState
    <3>. QED
      BY <3>1, <3>2
  <2>. QED
    BY <2>2
<1>5. Abs!Committed(AbsDb.undo, c) = k
  <2>1. /\ \A i \in 1..k : AbsDb.undo[i].rev <= c
        /\ k < n => AbsDb.undo[k + 1].rev > c
    <3>1. \A i \in 1..k : i \in 1..n
      BY <1>1, <1>2
    <3>2. k < n => k + 1 \in 1..n
      BY <1>1, <1>2
    <3>. QED
      BY <1>2, <1>4, <3>1, <3>2
  <2>2. Committed(AbsDb.undo, c) = k
    BY <1>1, <1>2, <1>4, <2>1, CommittedIs
  <2>. QED
    BY <2>2 DEF Committed, Abs!Committed
<1>6. /\ Len(stack') = n - k
      /\ \A i \in 1..(n - k) : stack'[i] = stack[i + k]
  BY <1>1, <1>2, <1>3, DropSeq
<1>7. \A i \in 1..(n - k) : saved'[i] = saved[i + k]
  <2>1. k \in 0..Len(saved) /\ saved' = SubSeq(saved, k + 1, Len(saved))
    BY <1>1, <1>2, <1>3
  <2>2. \A i \in 1..(Len(saved) - k) : saved'[i] = saved[i + k]
    BY <1>1, <2>1, DropSeq
  <2>. QED
    BY <1>1, <2>2
<1>8. /\ f \in Seq(Sessions) /\ Len(f) = n - k
      /\ \A i \in 1..(n - k) : f[i] = AbsDb.undo[i + k]
  BY <1>1, <1>2, DropSeq
<1>. HIDE DEF f
<1>9. AbsDb'.undo = f
  <2>1. AbsDb'.undo \in Seq(Sessions) /\ Len(AbsDb'.undo) = n - k
    BY <1>6, AbsTypeNext
  <2>2. ASSUME NEW i \in 1..(n - k) PROVE AbsDb'.undo[i] = f[i]
    <3>1. i + k \in 1..n
      BY <1>1, <1>2
    <3>2. AbsDb'.undo[i] = [rev |-> stack'[i].rev, to |-> saved'[i]]
      BY <1>6, AbsTypeNext
    <3>3. AbsDb.undo[i + k] = [rev |-> stack[i + k].rev, to |-> saved[i + k]]
      BY <1>1, <3>1, AbsType
    <3>. QED
      BY <1>6, <1>7, <1>8, <3>2, <3>3
  <2>. QED
    BY <1>8, <2>1, <2>2, SameSeq
<1>10. AbsDb'.state = AbsDb.state /\ AbsDb'.rev = AbsDb.rev
  BY <1>1, <1>3, AbsType, AbsTypeNext
<1>. QED
  BY <1>1, <1>5, <1>9, <1>10, AbsParts DEF Abs!CommitSessions, f

\* A step that replaces the newest undo state, or none, by one with the same
\* revision is a write.
LEMMA TopWrite ==
  ASSUME TypeOK, TypeOK', UNCHANGED <<saved, revision>>, NEW u,
         stack # <<>> => u.rev = Top.rev,
         stack' = IF stack = <<>> THEN stack ELSE SetTop(u)
  PROVE  Abs!Write
<1>1. CASE stack = <<>>
  BY <1>1, WriteStep
<1>2. CASE stack # <<>>
  <2>1. stack \in Seq(UndoState) /\ Len(stack) \in 1..Len(stack) /\ Len(stack) \in Nat
    BY <1>2, TopType DEF TypeOK
  <2>2. stack' = [stack EXCEPT ![Len(stack)] = u]
    BY <1>2 DEF SetTop
  <2>3. Len(stack') = Len(stack)
    BY <2>1, <2>2
  <2>4. ASSUME NEW i \in 1..Len(stack) PROVE stack'[i].rev = stack[i].rev
    <3>1. CASE i = Len(stack)
      BY <1>2, <2>1, <2>2, <3>1 DEF Top
    <3>2. CASE i # Len(stack)
      BY <2>1, <2>2, <3>2
    <3>. QED
      BY <3>1, <3>2
  <2>. QED
    BY <2>3, <2>4, WriteStep
<1>. QED
  BY <1>1, <1>2

LEMMA AbsSetRevision ==
  ASSUME TypeOK, TypeOK', NEW n \in 0..MaxRevision, SetRevision(n)
  PROVE  Abs!SetRevision
<1>1. stack = <<>> /\ stack' = stack /\ revision' = n /\ UNCHANGED <<indices, next_id, saved>>
  BY DEF SetRevision
<1>2. Len(stack) = 0
  BY <1>1, NilSeq
<1>3. AbsDb.undo = <<>>
  BY <1>2, AbsType, EmptySeq
<1>4. AbsDb'.undo = <<>>
  BY <1>1, <1>2, AbsTypeNext, EmptySeq
<1>5. AbsDb'.rev = n /\ n \in Nat /\ AbsDb'.state = AbsDb.state
  BY <1>1, AbsType, AbsTypeNext, UndoDbAssumption
<1>. DEFINE a == AbsDb.state
            r == AbsDb.rev
            q == AbsDb'.rev
<1>6. AbsDb = [state |-> a, undo |-> <<>>, rev |-> r] /\ AbsDb' = [state |-> a, undo |-> <<>>, rev |-> q]
  BY <1>3, <1>4, <1>5, AbsParts
<1>. HIDE DEF a, r, q
<1>7. AbsDb' = [AbsDb EXCEPT !.rev = AbsDb'.rev]
  BY <1>6
<1>. QED
  BY <1>3, <1>5, <1>7 DEF Abs!SetRevision

LEMMA AbsStep ==
  ASSUME ~UniqueIndex
  PROVE  RevInv /\ UndoInv /\ [Next]_vars => [Abs!Next]_AbsDb
<1>. SUFFICES ASSUME RevInv, UndoInv, [Next]_vars PROVE [Abs!Next]_AbsDb
  OBVIOUS
<1>0. TypeOK /\ TypeOK'
  BY RevInvStep DEF RevInv
<1>00. stack # <<>> => Top \in UndoState
  BY <1>0, TopType
<1>1. ASSUME NEW v \in Values, Emplace(v) PROVE Abs!Write
  <2>1. stack # <<>> => OnCreate(Top, next_id).rev = Top.rev
    BY <1>00 DEF OnCreate, UndoState
  <2>2. /\ UNCHANGED <<saved, revision>>
        /\ stack' = IF stack = <<>> THEN stack ELSE SetTop(OnCreate(Top, next_id))
    BY <1>1 DEF Emplace
  <2>. QED
    BY <1>0, <2>1, <2>2, TopWrite
<1>2. ASSUME NEW i \in Ids, NEW v \in Values, Modify(i, v) PROVE Abs!Write
  <2>1. stack # <<>> => OnModify(Top, i).rev = Top.rev
    BY <1>00 DEF OnModify, UndoState
  <2>2. /\ UNCHANGED <<saved, revision>>
        /\ stack' = IF stack = <<>> THEN stack ELSE SetTop(OnModify(Top, i))
    BY <1>2 DEF Modify
  <2>. QED
    BY <1>0, <2>1, <2>2, TopWrite
<1>3. ASSUME NEW i \in Ids, Remove(i) PROVE Abs!Write
  <2>1. stack # <<>> => OnRemove(Top, i).rev = Top.rev
    BY <1>00 DEF OnRemove, UndoState
  <2>2. /\ UNCHANGED <<saved, revision>>
        /\ stack' = IF stack = <<>> THEN stack ELSE SetTop(OnRemove(Top, i))
    BY <1>3 DEF Remove
  <2>. QED
    BY <1>0, <2>1, <2>2, TopWrite
<1>4. CASE StartUndoSession
  BY <1>0, <1>4, AbsStart DEF Abs!Next
<1>5. CASE Undo
  <2>1. AbsDb' = Abs!UndoSession(AbsDb)
    BY <1>0, <1>5, AbsUndo DEF Undo
  <2>. QED
    BY <2>1 DEF Abs!Next
<1>6. CASE UndoAll
  BY <1>6 DEF UndoAll, AbsDb
<1>7. CASE UndoAllStep
  <2>1. AbsDb' = Abs!UndoSession(AbsDb)
    BY <1>0, <1>7, AbsUndo DEF UndoAllStep
  <2>. QED
    BY <2>1 DEF Abs!Next
<1>8. CASE Squash
  BY <1>0, <1>8, AbsSquash DEF Abs!Next
<1>9. ASSUME NEW n \in 0..MaxRevision, Commit(n) PROVE Abs!Next
  BY <1>0, <1>9, AbsCommit DEF Abs!Next
<1>10. ASSUME NEW n \in 0..MaxRevision, SetRevision(n) PROVE Abs!Next
  BY <1>0, <1>10, AbsSetRevision DEF Abs!Next
<1>11. CASE UNCHANGED vars
  BY <1>11 DEF vars, AbsDb
<1>. QED
  BY <1>1, <1>2, <1>3, <1>4, <1>5, <1>6, <1>7, <1>8, <1>9, <1>10, <1>11 DEF Next, Abs!Next

LEMMA AbsInit == Init => Abs!Init
<1>. SUFFICES ASSUME Init PROVE Abs!Init
  OBVIOUS
<1>1. Len(stack) = 0 /\ TypeOK
  BY NilSeq, RevInvInit DEF Init, RevInv
<1>2. AbsDb.undo = <<>>
  BY <1>1, AbsType, EmptySeq
<1>3. AbsDb.state = [tab |-> Empty, next |-> 0] /\ AbsDb.rev = 0
  BY <1>1, AbsType DEF Init
<1>. QED
  BY <1>2, <1>3, AbsParts DEF Abs!Init

\* Every table without a second unique index implements the abstract
\* database: keeping differences, and merging them in squash, is
\* indistinguishable from keeping a copy of the table for each session.
THEOREM KeepsWholeTables ==
  ASSUME ~UniqueIndex
  PROVE  Spec => ImplementsAbs
<1>1. Init => RevInv /\ UndoInv
  BY RevInvInit, UndoInvInit
<1>2. RevInv /\ UndoInv /\ [Next]_vars => (RevInv /\ UndoInv)'
  BY RevInvStep, UndoInvStep
<1>3. Init => Abs!Init
  BY AbsInit
<1>4. RevInv /\ UndoInv /\ [Next]_vars => [Abs!Next]_AbsDb
  BY AbsStep
<1>. QED
  BY <1>1, <1>2, <1>3, <1>4, PTL DEF Spec, ImplementsAbs, Abs!Spec

=============================================================================
