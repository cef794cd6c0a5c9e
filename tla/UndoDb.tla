------------------------------- MODULE UndoDb -------------------------------
(***************************************************************************)
(* Basechain::generic_index (foundation/basechain/include/basechain.hpp):  *)
(* a table of objects with a stack of undo sessions.  A session does not   *)
(* copy the table; it keeps the old value of every object changed, the ids *)
(* of the objects created and the values of the objects removed since it   *)
(* began.  The application calls emplace, modify and remove, and nests     *)
(* sessions with start_undo_session, undo, squash and commit.              *)
(*                                                                         *)
(* A table may have a second unique index besides the one on ids: then a   *)
(* collision makes emplace throw, and makes modify (and undo, which        *)
(* restores with modify) erase the object and throw.                       *)
(***************************************************************************)
EXTENDS UndoStack, FiniteSets

CONSTANTS Values,       \* the values of an object (without its id)
          None,         \* no object
          MaxId,        \* bound: ids are below MaxId
          MaxDepth,     \* bound: open sessions
          MaxRevision,  \* bound: revisions are at most MaxRevision
          UniqueIndex   \* TRUE: two objects never have the same value

ASSUME UndoDbAssumption ==
  /\ None \notin Values
  /\ MaxId \in Nat \ {0}
  /\ MaxDepth \in Nat
  /\ MaxRevision \in Nat
  /\ UniqueIndex \in BOOLEAN

VARIABLES indices,   \* _indices: the object with each id, or None
          next_id,   \* _next_id
          stack,     \* _stack: the undo states, oldest first
          revision,  \* _revision
          unwinding, \* inside undo_all
          damaged,   \* undo threw half way, or used an object that is gone
          saved      \* history: the table and next_id each session began with

vars == <<indices, next_id, stack, revision, unwinding, damaged, saved>>

Ids == 0..(MaxId - 1)
Slot == Values \cup {None}
Table == [Ids -> Slot]

UndoState == [old_values : Table, new_ids : SUBSET Ids, removed_values : Table,
              old_next_id : 0..MaxId, rev : Int]

Empty == [i \in Ids |-> None]

Top == stack[Len(stack)]

\* Replace the newest undo state.
SetTop(u) == [stack EXCEPT ![Len(stack)] = u]

\* Mutant: the second index is not unique.
NoCollision(tab, i, v) == FALSE

\* Storing v as object i would break the second unique index.
Collides(tab, i, v) == UniqueIndex /\ \E j \in Ids \ {i} : tab[j] = v

-----------------------------------------------------------------------------
Init ==
  /\ indices = Empty
  /\ next_id = 0
  /\ stack = <<>>
  /\ revision = 0
  /\ unwinding = FALSE
  /\ damaged = FALSE
  /\ saved = <<>>

\* The caller may call: no undo_all is in progress and none has failed.
Ready == ~unwinding /\ ~damaged

\* on_create
OnCreate(u, i) == [u EXCEPT !.new_ids = @ \cup {i}]

\* Mutant: a later change overwrites the value to return to.
ModifyLatest(u, i) ==
  IF i \in u.new_ids THEN u ELSE [u EXCEPT !.old_values[i] = indices[i]]

\* on_modify, called before the object is changed.
OnModify(u, i) ==
  IF i \in u.new_ids \/ u.old_values[i] # None THEN u
  ELSE [u EXCEPT !.old_values[i] = indices[i]]

\* Mutant: the old value stays when the object is removed.
RemoveKeepsOld(u, i) ==
  IF i \in u.new_ids THEN [u EXCEPT !.new_ids = @ \ {i}]
  ELSE IF u.old_values[i] # None
    THEN [u EXCEPT !.removed_values[i] = u.old_values[i]]
  ELSE IF u.removed_values[i] # None THEN u
  ELSE [u EXCEPT !.removed_values[i] = indices[i]]

\* on_remove, called before the object is erased.
OnRemove(u, i) ==
  IF i \in u.new_ids THEN [u EXCEPT !.new_ids = @ \ {i}]
  ELSE IF u.old_values[i] # None
    THEN [u EXCEPT !.removed_values[i] = u.old_values[i], !.old_values[i] = None]
  ELSE IF u.removed_values[i] # None THEN u
  ELSE [u EXCEPT !.removed_values[i] = indices[i]]

\* emplace; a collision throws before anything changes.
Emplace(v) ==
  /\ Ready
  /\ next_id < MaxId
  /\ ~Collides(indices, next_id, v)
  /\ indices' = [indices EXCEPT ![next_id] = v]
  /\ next_id' = next_id + 1
  /\ stack' = IF stack = <<>> THEN stack ELSE SetTop(OnCreate(Top, next_id))
  /\ UNCHANGED <<revision, unwinding, damaged, saved>>

\* modify; on a collision the container erases the object and modify throws.
Modify(i, v) ==
  /\ Ready
  /\ indices[i] # None
  /\ stack' = IF stack = <<>> THEN stack ELSE SetTop(OnModify(Top, i))
  /\ indices' = [indices EXCEPT ![i] = IF Collides(indices, i, v) THEN None ELSE v]
  /\ UNCHANGED <<next_id, revision, unwinding, damaged, saved>>

Remove(i) ==
  /\ Ready
  /\ indices[i] # None
  /\ stack' = IF stack = <<>> THEN stack ELSE SetTop(OnRemove(Top, i))
  /\ indices' = [indices EXCEPT ![i] = None]
  /\ UNCHANGED <<next_id, revision, unwinding, damaged, saved>>

\* start_undo_session(true)
StartUndoSession ==
  /\ Ready
  /\ Len(stack) < MaxDepth
  /\ revision < MaxRevision
  /\ stack' = Append(stack, [old_values |-> Empty, new_ids |-> {},
                             removed_values |-> Empty,
                             old_next_id |-> next_id, rev |-> revision + 1])
  /\ revision' = revision + 1
  /\ saved' = Append(saved, [tab |-> indices, next |-> next_id])
  /\ UNCHANGED <<indices, next_id, unwinding, damaged>>

\* The table after undoing the changes u holds.
Restored(u, tab) ==
  [i \in Ids |-> IF i \in u.new_ids THEN None
                 ELSE IF u.removed_values[i] # None THEN u.removed_values[i]
                 ELSE IF u.old_values[i] # None THEN u.old_values[i]
                 ELSE tab[i]]

\* The table when undo is about to restore the old value of object i: it goes
\* through old_values in the order of their ids.
Partly(u, tab, i) ==
  [j \in Ids |-> IF j < i /\ u.old_values[j] # None THEN u.old_values[j] ELSE tab[j]]

\* undo cannot restore object i: a new object, or one not yet restored, has
\* its value.
Stuck(u, tab, i) ==
  /\ u.old_values[i] # None
  /\ Collides(Partly(u, tab, i), i, u.old_values[i])

\* undo looks for an object that a collision in modify has erased.
Dangling(u, tab) ==
  \E i \in Ids : /\ i \in u.new_ids \/ u.old_values[i] # None
                 /\ tab[i] = None

UndoFails == Dangling(Top, indices) \/ \E i \in Ids : Stuck(Top, indices, i)

\* The body of undo() when the stack is not empty.
PopState ==
  \/ /\ ~UndoFails
     /\ indices' = Restored(Top, indices)
     /\ next_id' = Top.old_next_id
     /\ stack' = SubSeq(stack, 1, Len(stack) - 1)
     /\ revision' = revision - 1
     /\ saved' = SubSeq(saved, 1, Len(saved) - 1)
     /\ UNCHANGED damaged
  \/ /\ UndoFails
     /\ damaged' = TRUE
     /\ \/ /\ Dangling(Top, indices)
           /\ UNCHANGED indices
        \/ \E i \in Ids :
             /\ Stuck(Top, indices, i)
             /\ \A j \in 0..(i - 1) : ~Stuck(Top, indices, j)
             /\ indices' = [Partly(Top, indices, i) EXCEPT ![i] = None]
     /\ UNCHANGED <<next_id, stack, revision, saved>>

Undo ==
  /\ Ready
  /\ stack # <<>>
  /\ PopState
  /\ UNCHANGED unwinding

\* undo_all: a loop of undo() until no session is open.
UndoAll ==
  /\ Ready
  /\ stack # <<>>
  /\ unwinding' = TRUE
  /\ UNCHANGED <<indices, next_id, stack, revision, damaged, saved>>

UndoAllStep ==
  /\ unwinding /\ ~damaged
  /\ stack # <<>>
  /\ PopState
  /\ unwinding' = (Len(stack') # 0)

\* Mutant: the newer value wins where both sessions changed an object.
MergedNewest(a, b) ==
  [a EXCEPT
    !.old_values = [i \in Ids |->
       IF b.removed_values[i] # None THEN None
       ELSE IF b.old_values[i] # None THEN b.old_values[i]
       ELSE a.old_values[i]],
    !.new_ids = (a.new_ids \cup b.new_ids) \ {i \in Ids : b.removed_values[i] # None},
    !.removed_values = [i \in Ids |->
       IF b.removed_values[i] = None \/ i \in a.new_ids THEN a.removed_values[i]
       ELSE IF a.old_values[i] # None THEN a.old_values[i]
       ELSE b.removed_values[i]]]

\* squash: what the states a (older) and b (newer) make together.
Merged(a, b) ==
  [a EXCEPT
    !.old_values = [i \in Ids |->
       IF b.removed_values[i] # None THEN None
       ELSE IF i \in a.new_ids \/ a.old_values[i] # None THEN a.old_values[i]
       ELSE b.old_values[i]],
    !.new_ids = (a.new_ids \cup b.new_ids) \ {i \in Ids : b.removed_values[i] # None},
    !.removed_values = [i \in Ids |->
       IF b.removed_values[i] = None \/ i \in a.new_ids THEN a.removed_values[i]
       ELSE IF a.old_values[i] # None THEN a.old_values[i]
       ELSE b.removed_values[i]]]

Squash ==
  /\ Ready
  /\ stack # <<>>
  /\ IF Len(stack) = 1
       THEN stack' = <<>> /\ UNCHANGED revision
       ELSE /\ stack' = [SubSeq(stack, 1, Len(stack) - 1) EXCEPT
                           ![Len(stack) - 1] = Merged(stack[Len(stack) - 1], Top)]
            /\ revision' = revision - 1
  /\ saved' = SubSeq(saved, 1, Len(saved) - 1)
  /\ UNCHANGED <<indices, next_id, unwinding, damaged>>

\* commit(n): drop the oldest states up to revision n.
Commit(n) ==
  /\ Ready
  /\ LET k == Committed(stack, n)
     IN /\ stack' = SubSeq(stack, k + 1, Len(stack))
        /\ saved' = SubSeq(saved, k + 1, Len(saved))
  /\ UNCHANGED <<indices, next_id, revision, unwinding, damaged>>

\* set_revision throws while a session is open.
SetRevision(n) ==
  /\ Ready
  /\ stack = <<>>
  /\ revision' = n
  /\ UNCHANGED <<indices, next_id, stack, unwinding, damaged, saved>>

Next ==
  \/ \E v \in Values : Emplace(v)
  \/ \E i \in Ids, v \in Values : Modify(i, v)
  \/ \E i \in Ids : Remove(i)
  \/ StartUndoSession
  \/ Undo
  \/ UndoAll
  \/ UndoAllStep
  \/ Squash
  \/ \E n \in 0..MaxRevision : Commit(n)
  \/ \E n \in 0..MaxRevision : SetRevision(n)

Spec == Init /\ [][Next]_vars

-----------------------------------------------------------------------------
\* The types of the variables.
TypeOK ==
  /\ indices \in Table
  /\ next_id \in 0..MaxId
  /\ stack \in Seq(UndoState)
  /\ revision \in Int
  /\ unwinding \in BOOLEAN
  /\ damaged \in BOOLEAN
  /\ saved \in Seq([tab : Table, next : 0..MaxId])
  /\ Len(saved) = Len(stack)

\* The table, and the next id, when the session above session i began: now,
\* for the newest session.
TabAbove(i) == IF i = Len(stack) THEN indices ELSE saved[i + 1].tab
NextAbove(i) == IF i = Len(stack) THEN next_id ELSE saved[i + 1].next

\* An undo state holds each object at most once, and what it holds agrees
\* with the tables before and after the session.
Consistent(u, tab, next) ==
  /\ u.old_next_id <= next
  /\ \A i \in Ids :
       /\ i \in u.new_ids =>
            /\ u.old_values[i] = None
            /\ u.removed_values[i] = None
            /\ tab[i] # None
            /\ u.old_next_id <= i
       /\ u.old_values[i] # None =>
            u.removed_values[i] = None /\ tab[i] # None /\ i < u.old_next_id
       /\ u.removed_values[i] # None => tab[i] = None /\ i < u.old_next_id
       /\ tab[i] # None /\ i \notin u.new_ids => i < u.old_next_id
       /\ i >= next => tab[i] = None

\* What every session keeps is consistent with the tables around it, whatever
\* sequence of creations, changes, removals and squashes made it.
StackConsistent ==
  /\ \A i \in 1..Len(stack) : Consistent(stack[i], TabAbove(i), NextAbove(i))
  /\ \A i \in Ids : i >= next_id => indices[i] = None

\* Undoing any number of sessions gives exactly the table and the next id
\* the oldest of them began with, although a session keeps only differences
\* and squash merges the differences of two sessions.
SessionsRestore ==
  \A i \in 1..Len(stack) :
    /\ Restored(stack[i], TabAbove(i)) = saved[i].tab
    /\ stack[i].old_next_id = saved[i].next

\* undo and undo_all never meet an object that is gone and never fail half
\* way (they do when a table has a second unique index).
UndoNeverFails == ~damaged

\* No two objects of a table with a second unique index have the same value,
\* not even where undo stopped half way, and none of the tables that open
\* sessions return to has two.
ValuesUnique ==
  UniqueIndex =>
    \A tab \in {indices} \cup {Restored(stack[i], TabAbove(i)) : i \in 1..Len(stack)} :
      \A i, j \in Ids : tab[i] = tab[j] /\ tab[i] # None => i = j

\* The sessions have consecutive revisions and the newest has the revision of
\* the database, across squash, commit and set_revision: commit(n), which
\* compares revisions, drops exactly the sessions started up to n.
RevisionsConsecutive ==
  \A i \in 1..Len(stack) : stack[i].rev = revision - (Len(stack) - i)

\* A squash merges the two most recent revisions into one, reducing the
\* revision of the database (the comment on squash).
SquashReducesRevision == [][Squash => revision' = revision - 1]_vars

\* The table with its differences implements the abstract database that
\* remembers whole tables.
Contents == [tab : Table, next : 0..MaxId]

AbsDb ==
  [state |-> [tab |-> indices, next |-> next_id],
   undo  |-> [i \in 1..Len(stack) |-> [rev |-> stack[i].rev, to |-> saved[i]]],
   rev   |-> revision]

Abs == INSTANCE UndoDbAbs WITH
         States <- Contents,
         StartState <- [tab |-> Empty, next |-> 0],
         Revisions <- 0..MaxRevision,
         d <- AbsDb

\* Every step of the implementation is a step of the abstract database.
ImplementsAbs == Abs!Spec

=============================================================================
