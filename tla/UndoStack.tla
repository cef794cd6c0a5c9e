------------------------------ MODULE UndoStack ------------------------------
(***************************************************************************)
(* What the undo database of foundation/basechain promises, as operators   *)
(* on a record d:                                                          *)
(*   d.state  the contents of the database,                                *)
(*   d.undo   the open undo sessions, oldest first, each with the revision *)
(*            it was given and the contents it returns to,                 *)
(*   d.rev    the revision of the database.                                *)
(* UndoDbAbs is the state machine made of these operators, UndoDb the one  *)
(* the code implements it with, and ChainNode the client.                  *)
(***************************************************************************)
EXTENDS Integers, Sequences

\* start_undo_session(true): remember the contents under the next revision.
StartSession(d) ==
  [d EXCEPT !.undo = Append(@, [rev |-> d.rev + 1, to |-> d.state]),
            !.rev  = @ + 1]

\* Mutant: undo forgets the session but not what was done in it.
UndoKeepsState(d) ==
  IF d.undo = <<>> THEN d
  ELSE [d EXCEPT !.undo = SubSeq(@, 1, Len(@) - 1), !.rev = @ - 1]

\* undo(): back to what the newest session saw; nothing without a session.
UndoSession(d) ==
  IF d.undo = <<>> THEN d
  ELSE [state |-> d.undo[Len(d.undo)].to,
        undo  |-> SubSeq(d.undo, 1, Len(d.undo) - 1),
        rev   |-> d.rev - 1]

\* squash(): the newest session becomes part of the one before it.  With a
\* single session that session is forgotten and the revision stays.
SquashSession(d) ==
  IF d.undo = <<>> THEN d
  ELSE IF Len(d.undo) = 1 THEN [d EXCEPT !.undo = <<>>]
  ELSE [d EXCEPT !.undo = SubSeq(@, 1, Len(@) - 1), !.rev = @ - 1]

\* How many of the oldest sessions in s commit(n) drops: it stops at the
\* first one whose revision is above n.
Committed(s, n) ==
  CHOOSE k \in 0..Len(s) : /\ \A i \in 1..k : s[i].rev <= n
                           /\ k < Len(s) => s[k + 1].rev > n

\* commit(n): what was changed up to revision n can no longer be undone.
CommitSessions(d, n) ==
  [d EXCEPT !.undo = SubSeq(@, Committed(@, n) + 1, Len(@))]

\* Mutant: one undo in place of all of them.
UndoOnlyLast(d) == UndoSession(d)

\* undo_all(): undo until no session is left.
UndoAllSessions(d) ==
  IF d.undo = <<>> THEN d
  ELSE [state |-> d.undo[1].to, undo |-> <<>>, rev |-> d.rev - Len(d.undo)]

=============================================================================
