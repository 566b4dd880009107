---------------------------- MODULE ChannelDelta ----------------------------
(***************************************************************************)
(* A host that mirrors one texture channel: it remembers the cursor it     *)
(* last synchronized, asks for the delta (xport::query_channel_delta),     *)
(* which pins the exact storages of the changed tiles in a SnapshotToken   *)
(* under the pool's byte ceiling, and copies the pinned bytes later, while *)
(* edits, evictions, undo exchanges and resets of TiledImage go on.        *)
(*                                                                         *)
(* Bytes are counted in whole tiles: a pool charges one per distinct       *)
(* allocation it pins.  The pool is guarded by one mutex and a query is    *)
(* one call, so each is one step.                                          *)
(***************************************************************************)
EXTENDS TiledImage, FiniteSetsExt

CONSTANTS
    Token,              \* snapshot tokens the host may hold at once
    PinBudget,          \* SnapshotPool budget, in tiles
    ForgetsOnDisable    \* the host drops its cursor when a channel is disabled

ASSUME HostAssumption ==
    /\ IsFiniteSet(Tile)
    /\ PinBudget \in Nat
    /\ ForgetsOnDisable \in BOOLEAN

VARIABLES
    tokens,     \* active snapshot tokens: cursor, versions and pinned tiles
    pool,       \* references per pinned allocation, pinned tiles, active count
    host        \* cursor and bytes of the host's mirror

(* The field content of a token and of the host is history: what the image *)
(* read when it had that cursor.  No step depends on it.                   *)

deltaVars == <<image, heap, held, store, tokens, pool, host>>

\* A cursor of epoch 0 is one the library never hands out.
UnknownCursor == [epoch |-> 0, revision |-> 0]

-----------------------------------------------------------------------------
(* Helpers *)

PinnedBy(k) == { tokens[k].storage[t] : t \in DOMAIN tokens[k].storage }

Pinned == UNION { PinnedBy(k) : k \in DOMAIN tokens }

\* Another owner cannot be the last one while a token pins the storage.
TokensKeepPins == Pinned \subseteq held'

\* Tile versions as the delta lists them.
VersionsOf(img, tiles) ==
    [t \in tiles |-> [revision |-> img.tileRev[t], generation |-> img.generation[t]]]

\* What a read of the whole image returns.
Contents == [t \in Tile |-> Bytes(t)]

\* Number of tiles of a pinned set that one allocation backs.
TilesOn(pins, s) == Cardinality({ t \in DOMAIN pins : pins[t] = s })

Acquired(pins) ==
    LET fresh == { pins[t] : t \in DOMAIN pins } \ { s \in Storage : pool.references[s] > 0 }
    IN [ references |-> [s \in Storage |-> pool.references[s] + TilesOn(pins, s)],
         pinned     |-> pool.pinned + Cardinality(fresh),
         active     |-> pool.active + 1 ]

\* Wrong variant of Released: an allocation other pins share is discharged.
ReleasedWhole(pins) ==
    [ references |-> [s \in Storage |-> pool.references[s] - TilesOn(pins, s)],
      pinned     |-> pool.pinned - Cardinality({ pins[t] : t \in DOMAIN pins }),
      active     |-> pool.active - 1 ]

Released(pins) ==
    LET left == [s \in Storage |-> pool.references[s] - TilesOn(pins, s)]
        gone == { s \in Storage : pool.references[s] > 0 /\ left[s] = 0 }
    IN [ references |-> left,
         pinned     |-> pool.pinned - Cardinality(gone),
         active     |-> IF pool.active = 0 THEN 0 ELSE pool.active - 1 ]

\* additional_bytes > budget - min(budget, pinned)
Fits(pins) ==
    Acquired(pins).pinned - pool.pinned
        <= PinBudget - Min({PinBudget, pool.pinned})

SameEpoch == host.cursor.epoch = image.epoch

Changed == ChangedAfter(image, host.cursor.revision)

\* A tile the pool can pin: pin_tile_storage returns a storage for it.
HasStorage(t) == Resident(image, t) \/ t \in image.backed

\* What the tokens other than k pin.
OtherPins(k) == UNION { PinnedBy(j) : j \in DOMAIN tokens \ {k} }

\* capture reloads the evicted tiles it pins, each into its own storage.
ReloadsOf(tiles) ==
    { f \in [{ t \in tiles : Evicted(image, t) } -> Free] : IsInjective(f) }

ReloadedAll(f) ==
    [image EXCEPT !.storage = [t \in Tile |-> IF t \in DOMAIN f THEN f[t] ELSE @[t]]]

HeapWith(f) ==
    [s \in Storage |-> IF \E t \in DOMAIN f : f[t] = s
                         THEN Bytes(CHOOSE t \in DOMAIN f : f[t] = s) ELSE heap[s]]

-----------------------------------------------------------------------------
(* Host steps *)

\* An admitted or refused query in the host's epoch.  A cursor newer than the
\* image and a changed tile without storage are errors that change nothing.
QueryDelta(k) ==
    /\ k \notin DOMAIN tokens
    /\ SameEpoch
    /\ host.cursor.revision <= image.revision
    /\ \A t \in Changed : HasStorage(t)
    /\ \E f \in ReloadsOf(Changed) :
         LET img  == ReloadedAll(f)
             pins == [t \in Changed |-> img.storage[t]]
         IN \/ /\ Fits(pins)
               /\ tokens' = [j \in DOMAIN tokens \cup {k} |->
                               IF j = k THEN [ cursor   |-> Cursor(image),
                                               versions |-> VersionsOf(image, Changed),
                                               storage  |-> pins,
                                               content  |-> Contents ]
                               ELSE tokens[j]]
               /\ pool' = Acquired(pins)
               /\ Become(img, held \cup { pins[t] : t \in Changed }, HeapWith(f))
            \/ /\ ~Fits(pins)
               /\ Become(img, held, HeapWith(f))
               /\ UNCHANGED <<tokens, pool>>
    /\ UNCHANGED <<store, host>>

\* Wrong variant of ReadBack: the tiles a token names are read from the image.
ReadBackLive(k) == [t \in DOMAIN tokens[k].storage |-> Bytes(t)]

\* The bytes of the tiles a token names: those of the pinned storages.
ReadBack(k) == [t \in DOMAIN tokens[k].storage |-> heap[tokens[k].storage[t]]]

\* Readback through the token: every pinned tile is copied, then the cursor
\* moves.  The host applies deltas of one base in the order it asked.
ApplySnapshot(k) ==
    /\ k \in DOMAIN tokens
    /\ tokens[k].cursor.epoch = host.cursor.epoch
    /\ tokens[k].cursor.revision >= host.cursor.revision
    /\ host' = [ cursor  |-> tokens[k].cursor,
                 bytes   |-> [t \in Tile |-> IF t \in DOMAIN ReadBack(k)
                                              THEN ReadBack(k)[t] ELSE host.bytes[t]],
                 content |-> tokens[k].content ]
    /\ UNCHANGED <<imageVars, tokens, pool>>

\* SnapshotToken::release; other owners may still retain the storages.
ReleaseSnapshot(k) ==
    /\ k \in DOMAIN tokens
    /\ pool' = Released(tokens[k].storage)
    /\ tokens' = [j \in DOMAIN tokens \ {k} |-> tokens[j]]
    /\ \E kept \in SUBSET PinnedBy(k) :
         Become(image, (held \ PinnedBy(k)) \cup kept \cup OtherPins(k), heap)
    /\ UNCHANGED <<store, host>>

\* Answer full_resynchronization_required: the host reads every tile.
FullResynchronization ==
    /\ ~SameEpoch
    /\ host' = [cursor |-> Cursor(image), bytes |-> Contents, content |-> Contents]
    /\ UNCHANGED <<imageVars, tokens, pool>>

\* TextureChannels::disable then enable: the channel gets a new TiledImage.
\* A host that forgets has released its tokens and drops its cursor.
ReenableChannel ==
    /\ image # NewImage
    /\ ForgetsOnDisable => DOMAIN tokens = {}
    /\ Become(NewImage, held, heap)
    /\ store' = [k \in {} |-> ClearContent]
    /\ host' = IF ForgetsOnDisable THEN [host EXCEPT !.cursor = UnknownCursor] ELSE host
    /\ UNCHANGED <<tokens, pool>>

ImageStep == ImageNext /\ TokensKeepPins /\ UNCHANGED <<tokens, pool, host>>

-----------------------------------------------------------------------------
(* Specification *)

DeltaInit ==
    /\ ImageInit
    /\ tokens = [k \in {} |-> UnknownCursor]
    /\ pool = [references |-> [s \in Storage |-> 0], pinned |-> 0, active |-> 0]
    /\ host = [cursor |-> UnknownCursor, bytes |-> Contents, content |-> Contents]

DeltaNext ==
    \/ ImageStep
    \/ \E k \in Token : QueryDelta(k) \/ ApplySnapshot(k) \/ ReleaseSnapshot(k)
    \/ FullResynchronization
    \/ ReenableChannel

DeltaSpec == DeltaInit /\ [][DeltaNext]_deltaVars

-----------------------------------------------------------------------------
(* Properties *)

\* An admitted answer tells the host of every tile its mirror shows wrongly:
\* "a host holding a revision the system can no longer relate to the present
\* SHALL be told to resynchronize fully rather than given an incorrect delta".
AdmittedDeltaCorrect ==
    SameEpoch /\ host.cursor.revision <= image.revision =>
        \A t \in Tile : Bytes(t) # host.bytes[t] => t \in Changed

\* "The answer SHALL be complete: no changed tile shall be omitted."  While
\* the host's cursor is of the image's epoch, it is not ahead of the image
\* and every tile the mirror shows wrongly is in the delta from the cursor.
DeltaComplete ==
    /\ AdmittedDeltaCorrect
    /\ SameEpoch => host.cursor.revision <= image.revision

\* Until it is released, the storages a token pins read what the tiles read at
\* the token's cursor, however often the tiles are written,
\* evicted, exchanged or cleared since; and the version a token lists for a
\* tile identifies its bytes among all tokens of the epoch.
SnapshotsExact ==
    \A k \in DOMAIN tokens : \A t \in DOMAIN tokens[k].storage :
        /\ heap[tokens[k].storage[t]] = tokens[k].content[t]
        /\ \A j \in DOMAIN tokens :
              /\ t \in DOMAIN tokens[j].storage
              /\ tokens[j].versions[t] = tokens[k].versions[t]
              /\ tokens[j].cursor.epoch = tokens[k].cursor.epoch
              => heap[tokens[j].storage[t]] = heap[tokens[k].storage[t]]

\* A mirror shows one state of the image, the one at its cursor: readbacks that
\* come late, after edits or in another order than their queries, mix no two.
MirrorShowsCursor == host.bytes = host.content

\* The pool's ledger agrees with the tokens: one reference per pinned tile,
\* one charge per distinct allocation, never above the ceiling.
PoolExact ==
    /\ \A s \in Storage : pool.references[s] =
          Cardinality({ pin \in (DOMAIN tokens) \X Tile :
              LET pins == tokens[pin[1]].storage
              IN  pin[2] \in DOMAIN pins /\ pins[pin[2]] = s })
    /\ pool.pinned = Cardinality(Pinned)
    /\ pool.pinned <= PinBudget
    /\ pool.active = Cardinality(DOMAIN tokens)

\* A host whose cursor is of the image's epoch can be answered: every tile
\* of its delta has storage to pin.
DeltaAnswerable ==
    SameEpoch => \A t \in Changed : HasStorage(t)
=============================================================================
