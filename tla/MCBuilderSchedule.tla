------------------------- MODULE MCBuilderSchedule -------------------------
(* Values for the constants of BuilderSchedule that a cfg cannot write.    *)
EXTENDS BuilderSchedule

CONSTANTS k1, k2

\* Three builders in genesis, not in the order of their names.
ThreeBuilders == <<[name |-> 2, key |-> k1], [name |-> 3, key |-> k1], [name |-> 1, key |-> k1]>>
TwoBuilders == <<[name |-> 2, key |-> k1], [name |-> 1, key |-> k1]>>
============================================================================
