------------------------------ MODULE UndoDbAbs ------------------------------
(***************************************************************************)
(* The abstract undo database: contents that can be written freely, and    *)
(* sessions that remember whole contents.  UndoDb, which remembers only    *)
(* differences, implements it.                                             *)
(***************************************************************************)
EXTENDS UndoStack

CONSTANTS States,     \* what the contents may be
          StartState, \* what they are in a new database
          Revisions   \* the revisions commit is called with

VARIABLE d

Init == d = [state |-> StartState, undo |-> <<>>, rev |-> 0]

\* The application creates, modifies or removes an object.
Write ==
  /\ d'.state \in States
  /\ d' = [d EXCEPT !.state = d'.state]

SetRevision ==
  /\ d.undo = <<>>
  /\ d'.rev \in Nat
  /\ d' = [d EXCEPT !.rev = d'.rev]

Next ==
  \/ Write
  \/ d' = StartSession(d)
  \/ d' = UndoSession(d)
  \/ d' = SquashSession(d)
  \/ \E n \in Revisions : d' = CommitSessions(d, n)
  \/ SetRevision

Spec == Init /\ [][Next]_d

=============================================================================
