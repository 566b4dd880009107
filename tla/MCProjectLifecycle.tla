------------------------- MODULE MCProjectLifecycle -------------------------
(* One resource and one kind of work; the ledger's admission itself is       *)
(* checked in MCResourceLedger.                                              *)
EXTENDS ProjectLifecycle

CONSTANT cpu

MCBytes(a) == 1

MCResidency(a) == {{cpu}}

Of(c) == [r \in Resource |-> c]

MCRequest == { [limits |-> Of(1), fixed |-> Of(1), perItem |-> Of(0), items |-> 0] }
=============================================================================
