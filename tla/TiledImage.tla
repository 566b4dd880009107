----------------------------- MODULE TiledImage -----------------------------
(***************************************************************************)
(* image::TiledImage as a state machine: sparse tiles over shared, copy-   *)
(* on-write storage, eviction to a lossless backing store and reload, the  *)
(* exchange of storage owners that history is built on, and the revision   *)
(* bookkeeping of every edit.                                              *)
(*                                                                         *)
(* held is the set of storages some other owner keeps a shared_ptr to (a   *)
(* snapshot token, a history step, a copy of the image).  It stands for    *)
(* use_count() > 1 without counting owners.                                *)
(*                                                                         *)
(* A failed store or load of the backing store is reported before the      *)
(* operation changes anything, so it is a step that changes nothing.       *)
(***************************************************************************)
EXTENDS TileOps

CONSTANTS
    Pixel,          \* pixel positions of a tile
    Value,          \* pixel values
    ClearValue      \* the clear pixel

ASSUME ValueAssumption == ClearValue \in Value

Content == [Pixel -> Value]

ClearContent == [p \in Pixel |-> ClearValue]

VARIABLES
    image,          \* the image record of TileOps
    heap,           \* bytes of each storage; unowned ones read as clear
    held,           \* storages that other owners retain
    store           \* bytes the backing store holds, by key (external)

imageVars == <<image, heap, held, store>>

-----------------------------------------------------------------------------
(* Helpers *)

OwnedBy(img) == { img.storage[t] : t \in Tile } \ {NoStorage}

Free == Storage \ (OwnedBy(image) \cup held)

\* Wrong variant of Shared: outside owners are not counted.
SharedInImage(t) == \E u \in Tile \ {t} : image.storage[u] = image.storage[t]

\* use_count() != 1 for the storage of a resident tile.
Shared(t) ==
    \/ image.storage[t] \in held
    \/ \E u \in Tile \ {t} : image.storage[u] = image.storage[t]

\* The bytes a read of tile t returns, wherever they live.
BytesOf(img, hp, st, t) ==
    IF Resident(img, t) THEN hp[img.storage[t]]
    ELSE IF t \in img.backed THEN st[KeyOf(img, t)]
    ELSE ClearContent

Bytes(t) == BytesOf(image, heap, store, t)

\* The image, the outside owners and the bytes after a step; a storage
\* nobody owns any more is freed.
Become(img, owners, hp) ==
    /\ image' = img
    /\ held' = owners
    /\ heap' = [s \in Storage |-> IF s \in OwnedBy(img) \cup owners
                                 THEN hp[s] ELSE ClearContent]

\* Wrong variant of Discarded: the superseded backing copy stays.
DiscardedNothing(t) == store

\* discard_backing acts on the key of the generation being replaced.
Discarded(t) ==
    IF t \in image.backed
      THEN [k \in DOMAIN store \ {KeyOf(image, t)} |-> store[k]]
      ELSE store

-----------------------------------------------------------------------------
(* Operations *)

\* Wrong variant of Reload: the new storage is never filled.
ReloadUnfilled(t) ==
    IF Evicted(image, t)
      THEN \E s \in Free : Become(Reloaded(image, t, s), held, heap) /\ UNCHANGED store
      ELSE UNCHANGED imageVars

\* ensure_resident on a read path: an evicted tile gets its bytes back.
Reload(t) ==
    IF Evicted(image, t)
      THEN \E s \in Free :
              /\ Become(Reloaded(image, t, s), held, [heap EXCEPT ![s] = Bytes(t)])
              /\ UNCHANGED store
      ELSE UNCHANGED imageVars

ReadPixel(t) == Evicted(image, t) /\ Reload(t)

\* allocate_tile, publish, fill: in place when the image is the only owner,
\* into a fresh storage otherwise.
Overwrite(t, bytes) ==
    \E s \in IF Resident(image, t) /\ ~Shared(t)
               THEN {image.storage[t]} ELSE Free :
        /\ Become(Publish(image, t, s), held, [heap EXCEPT ![s] = bytes])
        /\ store' = Discarded(t)

\* write_pixel compares with the texel a read returns before it edits.
WritePixel(t, p, v) ==
    IF Bytes(t)[p] = v \/ ~CanPublish(image, t)
      THEN Reload(t)
      ELSE Overwrite(t, [Bytes(t) EXCEPT ![p] = v])

\* write_tile compares only with resident storage.
SameAsResident(t, bytes) ==
    Resident(image, t) /\ heap[image.storage[t]] = bytes

WriteTile(t, bytes) ==
    /\ ~SameAsResident(t, bytes)
    /\ CanPublish(image, t)
    /\ Overwrite(t, bytes)

\* evict_tile: pinned and sparse tiles stay; an unbacked tile is stored
\* first, under its current generation.
EvictTile(t) ==
    /\ Resident(image, t)
    /\ ~Shared(t)
    /\ Become(Unloaded(image, t), held, heap)
    /\ store' = IF t \in image.backed THEN store
                ELSE [k \in DOMAIN store \cup {KeyOf(image, t)} |->
                        IF k = KeyOf(image, t) THEN Bytes(t) ELSE store[k]]

\* pin_tile_storage / snapshot_tile_storage of a tile that has pixels.
PinTile(t) ==
    /\ \/ /\ Resident(image, t)
          /\ Become(image, held \cup {image.storage[t]}, heap)
       \/ /\ Evicted(image, t)
          /\ \E s \in Free : Become(Reloaded(image, t, s), held \cup {s},
                                    [heap EXCEPT ![s] = Bytes(t)])
    /\ UNCHANGED store

\* The last outside owner of a storage lets go of it.
ReleasePin(s) ==
    /\ s \in held
    /\ Become(image, held \ {s}, heap)
    /\ UNCHANGED store

\* The owners left once replacement r has moved into the image: another
\* owner may keep r alive.
OwnersAfterMove(r) == {held, held \ {r}}

\* exchange_tile_storage: r moves in and the previous storage, reloaded
\* first if it was evicted, moves out to the caller.
Exchange(t, r) ==
    \/ /\ ~CanPublish(image, t)
       /\ Evicted(image, t)
       /\ Reload(t)
    \/ /\ CanPublish(image, t)
       /\ ~Evicted(image, t)
       /\ r # image.storage[t]
       /\ \E owners \in OwnersAfterMove(r) :
             Become(Publish(image, t, r),
                    (owners \cup {image.storage[t]}) \ {NoStorage}, heap)
       /\ store' = Discarded(t)
    \/ /\ CanPublish(image, t)
       /\ Evicted(image, t)
       /\ \E s \in Free, owners \in OwnersAfterMove(r) :
             Become(Publish(image, t, r), owners \cup {s},
                    [heap EXCEPT ![s] = Bytes(t)])
       /\ store' = Discarded(t)

Clear ==
    /\ image.allocated # {}
    /\ CanClear(image)
    /\ Become(Cleared(image), held, heap)
    /\ store' = [k \in {} |-> ClearContent]

ResetRevisionHistory ==
    /\ image.epoch # MaxEpoch
    /\ image' = NewEpoch(image)
    /\ UNCHANGED <<heap, held, store>>

ClearDirty ==
    /\ image.dirty # {}
    /\ image' = [image EXCEPT !.dirty = {}]
    /\ UNCHANGED <<heap, held, store>>

-----------------------------------------------------------------------------
(* Specification *)

ImageInit ==
    /\ image = NewImage
    /\ heap = [s \in Storage |-> ClearContent]
    /\ held = {}
    /\ store = [k \in {} |-> ClearContent]

TileStep(t) ==
    \/ ReadPixel(t)
    \/ \E p \in Pixel, v \in Value : WritePixel(t, p, v)
    \/ \E bytes \in Content : WriteTile(t, bytes)
    \/ EvictTile(t)
    \/ PinTile(t)
    \/ \E r \in held \cup {NoStorage} : Exchange(t, r)

ImageNext ==
    \/ \E t \in Tile : TileStep(t)
    \/ \E s \in held : ReleasePin(s)
    \/ Clear
    \/ ResetRevisionHistory
    \/ ClearDirty

ImageSpec == ImageInit /\ [][ImageNext]_imageVars

-----------------------------------------------------------------------------
(* Properties *)

TypeOK ==
    /\ image \in ImageState
    /\ heap \in [Storage -> Content]
    /\ held \subseteq Storage
    /\ DOMAIN store \subseteq BackingKey
    /\ \A k \in DOMAIN store : store[k] \in Content

\* The delta index, the tile revisions and the allocation list are kept
\* redundantly by five editing paths and two reset paths of image.cpp; they
\* never disagree, and no two tiles share a revision.
BookkeepingExact ==
    /\ IndexExact(image)
    /\ RevisionsDistinct(image)
    /\ AllocatedExact(image)

\* The backing store holds exactly one copy for each backed tile, under the
\* tile's current generation, and a resident tile that is still backed has
\* the same bytes: evicting it again may drop the pixels without a write.
BackingExact ==
    /\ DOMAIN store = { KeyOf(image, t) : t \in image.backed }
    /\ \A t \in image.backed :
          Resident(image, t) => heap[image.storage[t]] = store[KeyOf(image, t)]

\* Copy-on-write: no operation changes the bytes of a storage while another
\* owner retains it.
HeldStorageImmutable ==
    [][\A s \in held \cap held' : heap'[s] = heap[s]]_imageVars

\* Eviction, reload, pinning and bookkeeping are invisible: the bytes of a
\* tile change only in a step that opens an epoch or stamps the tile with a
\* revision above every one handed out before, so a delta from any earlier
\* revision of the epoch lists the tile.
NoSilentChange ==
    [][\A t \in Tile : Bytes(t)' # Bytes(t) =>
          \/ image'.epoch # image.epoch
          \/ image'.tileRev[t] > image.revision]_imageVars

\* The order (epoch, revision) never moves back, and a tile that is stamped
\* anew within an epoch has a new generation: the pair of revision and
\* generation that hosts compare identifies one content.
VersionsAdvance ==
    [][/\ \/ image'.epoch > image.epoch
          \/ image'.epoch = image.epoch /\ image'.revision >= image.revision
       /\ \A t \in Tile :
             image'.epoch = image.epoch /\ image'.tileRev[t] # image.tileRev[t]
                => /\ image'.generation[t] > image.generation[t]
                   /\ image'.tileRev[t] > image.revision]_imageVars
=============================================================================
