----------------------------- MODULE BlockLogAbs -----------------------------
(***************************************************************************)
(* The log that chain_xmax relies on: irreversible blocks, one after the   *)
(* other, that are never changed or lost.  BlockLog implements it.         *)
(***************************************************************************)
EXTENDS Naturals, Sequences

CONSTANT Bodies  \* what a block may hold beside its number

VARIABLE chain   \* the blocks of the log

Init == chain = <<>>

\* chain_stream::append_block
AppendBlock(body) == chain' = Append(chain, [num |-> Len(chain) + 1, body |-> body])

Next == \E body \in Bodies : AppendBlock(body)

Spec == Init /\ [][Next]_chain

=============================================================================
