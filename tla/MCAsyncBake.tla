----------------------------- MODULE MCAsyncBake -----------------------------
(* A small instance of AsyncBake for TLC: the second mesh has no frame for    *)
(* the UV set the maps use.                                                   *)
EXTENDS AsyncBake

CONSTANT frame

MCMesh == { [revision |-> 1, frame |-> frame], [revision |-> 2, frame |-> NoFrame] }
=============================================================================
