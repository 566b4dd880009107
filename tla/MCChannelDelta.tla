--------------------------- MODULE MCChannelDelta ---------------------------
(* A small instance of ChannelDelta: tiles, storages and tokens are         *)
(* interchangeable.                                                         *)
EXTENDS ChannelDelta, TLC

Symmetry ==
    Permutations(Tile) \cup Permutations(Storage) \cup Permutations(Token)

\* Only ClearDirty looks at the dirty flags, and no property here does: states
\* that differ in them alone count as one.
View == <<[image EXCEPT !.dirty = {}], heap, held, store, tokens, pool, host>>

\* Bound on retained storage: the tokens in use and the unpinned storages that
\* something else holds (a copy of the image, a history step) are at most two.
FewOwners == Cardinality(DOMAIN tokens) + Cardinality(held \ Pinned) <= 2
=============================================================================
