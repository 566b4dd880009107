-------------------------- MODULE MCResourceLedger --------------------------
(* Two caches of different size and one document allocation, two resources *)
(* and requests whose fixed part, item size and ceilings bring admission,   *)
(* tiling, eviction and refusal to their boundaries.                        *)
EXTENDS ResourceLedger, TLC

CONSTANTS cpu, temp     \* the resources

MCBytes(a) == IF a = 2 THEN 2 ELSE 1

MCResidency(a) == IF a = 3 THEN {{cpu, temp}} ELSE {{cpu}, {cpu, temp}}

Of(c, t) == [r \in Resource |-> IF r = cpu THEN c ELSE t]

MCRequest ==
    { [limits |-> Of(4, 3), fixed |-> Of(1, 0), perItem |-> Of(1, 1), items |-> 3],
      [limits |-> Of(3, 2), fixed |-> Of(2, 0), perItem |-> Of(0, 1), items |-> 1],
      [limits |-> Of(3, 3), fixed |-> Of(1, 2), perItem |-> Of(0, 0), items |-> 0] }

MCPreview == { [limits |-> Of(4, 3), options |-> <<Of(3, 2), Of(2, 1), Of(1, 0)>>] }

Symmetry == Permutations(Holder)
=============================================================================
