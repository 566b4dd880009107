------------------------------ MODULE TileOps ------------------------------
(***************************************************************************)
(* The versioned state of one image::TiledImage as a record, and the steps *)
(* every editing path of the image makes on it: publishing a new tile      *)
(* storage under the next revision, starting a revision epoch, clearing,   *)
(* and answering which tiles changed after a revision.  The operators are  *)
(* pure, so that the modules built on images (TiledImage, ChannelDelta)    *)
(* share them.                                                             *)
(*                                                                         *)
(* The 64-bit counters of the code are bounded by the constants            *)
(* MaxRevision, MaxEpoch and MaxGeneration, which stand for the numeric    *)
(* limits the code itself tests; small values make exhaustion reachable.   *)
(***************************************************************************)
EXTENDS Naturals, FiniteSets

CONSTANTS
    Tile,           \* tile coordinates of the image
    Storage,        \* tile allocations (the objects a shared_ptr may own)
    NoStorage,      \* the null pointer
    MaxRevision,    \* numeric_limits<Revision>::max()
    MaxEpoch,       \* numeric_limits<RevisionEpoch>::max()
    MaxGeneration   \* numeric_limits<Generation>::max()

ASSUME LimitsAssumption ==
    /\ MaxRevision \in Nat \ {0}
    /\ MaxEpoch \in Nat \ {0}
    /\ MaxGeneration \in Nat \ {0}

ASSUME StorageAssumption == NoStorage \notin Storage

IndexEntry == [revision : 1..MaxRevision, tile : Tile]

BackingKey == [tile : Tile, generation : 0..MaxGeneration]

(***************************************************************************)
(* The members of the class that are not fixed at construction.  The       *)
(* bytes behind a storage or a backing key are not part of the record.     *)
(***************************************************************************)
ImageState ==
    [ storage    : [Tile -> Storage \cup {NoStorage}],
      backed     : SUBSET Tile,
      allocated  : SUBSET Tile,
      dirty      : SUBSET Tile,
      epoch      : 1..MaxEpoch,
      revision   : 0..MaxRevision,
      tileRev    : [Tile -> 0..MaxRevision],
      generation : [Tile -> 0..MaxGeneration],
      index      : SUBSET IndexEntry ]

NewImage ==
    [ storage    |-> [t \in Tile |-> NoStorage],
      backed     |-> {},
      allocated  |-> {},
      dirty      |-> {},
      epoch      |-> 1,
      revision   |-> 0,
      tileRev    |-> [t \in Tile |-> 0],
      generation |-> [t \in Tile |-> 0],
      index      |-> {} ]

Resident(img, t) == img.storage[t] # NoStorage

Evicted(img, t) == ~Resident(img, t) /\ t \in img.backed

KeyOf(img, t) == [tile |-> t, generation |-> img.generation[t]]

RevisionExhausted(img) == img.revision = MaxRevision

\* Wrong variant of CanPublish: the generation limit is not tested.
CanPublishAnyGeneration(img, t) ==
    ~(RevisionExhausted(img) /\ img.epoch = MaxEpoch)

\* The overflow_error checks an edit makes before it changes anything.
CanPublish(img, t) ==
    /\ img.generation[t] # MaxGeneration
    /\ ~(RevisionExhausted(img) /\ img.epoch = MaxEpoch)

\* begin_new_revision_epoch: generations and residency carry on.
NewEpoch(img) ==
    [img EXCEPT !.epoch    = @ + 1,
                !.revision = 0,
                !.tileRev  = [t \in Tile |-> 0],
                !.index    = {}]

\* Wrong variant of Reindexed: the superseded entry stays.
ReindexedKeepingOld(img, t) ==
    img.index \cup { [revision |-> img.revision + 1, tile |-> t] }

\* The revision index loses the tile's entry, found by its old revision,
\* and gains one at the next revision.
Reindexed(img, t) ==
    { e \in img.index : e.revision # img.tileRev[t] }
        \cup { [revision |-> img.revision + 1, tile |-> t] }

\* Wrong variant of PublishNext: the generation does not advance.
PublishSameGeneration(img, t, s) ==
    [img EXCEPT !.storage[t] = s,
                !.backed    = @ \ {t},
                !.allocated = IF s = NoStorage THEN @ \ {t} ELSE @ \cup {t},
                !.dirty     = @ \cup {t},
                !.revision  = @ + 1,
                !.tileRev[t] = img.revision + 1,
                !.index     = Reindexed(img, t)]

\* One publication in an epoch that has a revision left: tile t now owns
\* storage s; its backing copy is forgotten.
PublishNext(img, t, s) ==
    [img EXCEPT !.storage[t]    = s,
                !.backed        = @ \ {t},
                !.allocated     = IF s = NoStorage THEN @ \ {t} ELSE @ \cup {t},
                !.dirty         = @ \cup {t},
                !.revision      = @ + 1,
                !.tileRev[t]    = img.revision + 1,
                !.generation[t] = @ + 1,
                !.index         = Reindexed(img, t)]

Publish(img, t, s) ==
    IF RevisionExhausted(img) THEN PublishNext(NewEpoch(img), t, s)
                              ELSE PublishNext(img, t, s)

\* ensure_resident: storage s received the backed bytes; the key stays.
Reloaded(img, t, s) == [img EXCEPT !.storage[t] = s]

\* evict_tile: the pixels are in the backing store only.
Unloaded(img, t) ==
    [img EXCEPT !.storage[t] = NoStorage, !.backed = @ \cup {t}]

\* clear(): a fresh backing namespace, all tiles sparse, a new epoch.
Cleared(img) ==
    NewEpoch([img EXCEPT !.storage    = [t \in Tile |-> NoStorage],
                         !.backed     = {},
                         !.allocated  = {},
                         !.dirty      = {},
                         !.generation = [t \in Tile |-> 0]])

CanClear(img) == img.allocated = {} \/ img.epoch # MaxEpoch

\* Wrong variant of ChangedAfter: one revision too late.
ChangedWellAfter(img, rev) ==
    { e.tile : e \in { x \in img.index : x.revision > rev + 1 } }

\* changed_tiles_after: the index entries past an admitted revision.
ChangedAfter(img, rev) ==
    { e.tile : e \in { x \in img.index : x.revision > rev } }

Cursor(img) == [epoch |-> img.epoch, revision |-> img.revision]

(***************************************************************************)
(* The consistency of the redundant fields, kept by every operation: the   *)
(* index holds each changed tile of the epoch exactly at its latest        *)
(* revision, those revisions are distinct, and allocated_tiles_ lists the  *)
(* tiles that own pixels, in memory or in the backing store.               *)
(***************************************************************************)
IndexExact(img) ==
    img.index = { [revision |-> img.tileRev[t], tile |-> t] :
                    t \in { u \in Tile : img.tileRev[u] # 0 } }

RevisionsDistinct(img) ==
    /\ \A t \in Tile : img.tileRev[t] <= img.revision
    /\ \A t, u \in Tile :
          t # u /\ img.tileRev[t] # 0 => img.tileRev[t] # img.tileRev[u]

AllocatedExact(img) ==
    img.allocated = { t \in Tile : Resident(img, t) \/ t \in img.backed }
=============================================================================
