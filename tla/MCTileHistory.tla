--------------------------- MODULE MCTileHistory ---------------------------
(* Small instances of TileHistory; storages are interchangeable, and so    *)
(* are the contents of the layer stack.                                    *)
EXTENDS TileHistory

Symmetry == Permutations(Storage) \cup Permutations(LayerContent)
=============================================================================
