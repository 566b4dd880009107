---------------------------- MODULE MCTiledImage ----------------------------
(* A small instance of TiledImage: interchangeable tiles and storages.     *)
EXTENDS TiledImage, TLC

Symmetry == Permutations(Tile) \cup Permutations(Storage)
=============================================================================
