----------------------------- MODULE MCAuthority -----------------------------
(* Model checking of Authority on a small instance.                        *)
EXTENDS Authority

Of(a, n) == [threshold |-> 1, keys |-> <<>>,
             accounts |-> <<[auth |-> [account |-> a, authority |-> n], weight |-> 1]>>]

MCInitial == <<[name |-> "p", owner_key |-> 1, active_key |-> 1]>>

\* A threshold that is not an int, besides a key and an authority of another account.
MCNew == {KeyAuthority(2), [KeyAuthority(2) EXCEPT !.threshold = 6], Of("p", "p")}

\* A key and an account together, and an authority that can close a circle.
MCCandidates ==
  {[threshold |-> 2, keys |-> <<[key |-> 1, weight |-> 1]>>, accounts |-> Of(SysAny, "active").accounts],
   Of("p", "p")}
=============================================================================
