-------------------------- MODULE TiledImageProofs --------------------------
(***************************************************************************)
(* Proofs about TiledImage, for every set of tiles, storages, pixels and   *)
(* values and every value of the numeric limits.                           *)
(***************************************************************************)
EXTENDS TiledImage, TLAPS

Handle == Storage \cup {NoStorage}

Consistent(img) ==
    /\ img \in ImageState
    /\ IndexExact(img)
    /\ RevisionsDistinct(img)
    /\ AllocatedExact(img)

-----------------------------------------------------------------------------
(* The operators on image records *)

\* A new epoch numbers nothing yet and carries the tiles over.
LEMMA NewEpochFields ==
    ASSUME NEW img \in ImageState
    PROVE  /\ NewEpoch(img).storage = img.storage
           /\ NewEpoch(img).backed = img.backed
           /\ NewEpoch(img).allocated = img.allocated
           /\ NewEpoch(img).dirty = img.dirty
           /\ NewEpoch(img).generation = img.generation
           /\ NewEpoch(img).epoch = img.epoch + 1
           /\ NewEpoch(img).revision = 0
           /\ NewEpoch(img).tileRev = [t \in Tile |-> 0]
           /\ NewEpoch(img).index = {}
  BY DEF NewEpoch, ImageState

\* A new epoch keeps a consistent image record consistent.
LEMMA NewEpochConsistent ==
    ASSUME NEW img, Consistent(img), img.epoch # MaxEpoch
    PROVE  Consistent(NewEpoch(img))
  <1>1. img \in ImageState
    BY DEF Consistent
  <1>2. NewEpoch(img) \in ImageState
    <2>1. /\ img.epoch + 1 \in 1..MaxEpoch
          /\ 0 \in 0..MaxRevision
          /\ [t \in Tile |-> 0] \in [Tile -> 0..MaxRevision]
          /\ {} \in SUBSET IndexEntry
      BY <1>1, LimitsAssumption DEF ImageState
    <2> HIDE DEF IndexEntry
    <2> QED
      BY <1>1, <2>1 DEF NewEpoch, ImageState
  <1>3. /\ IndexExact(NewEpoch(img))
        /\ RevisionsDistinct(NewEpoch(img))
    BY <1>1, NewEpochFields DEF IndexExact, RevisionsDistinct
  <1>4. AllocatedExact(NewEpoch(img))
    BY <1>1, NewEpochFields DEF AllocatedExact, Consistent, Resident
  <1> QED
    BY <1>2, <1>3, <1>4 DEF Consistent

\* The fields of new, the image in which tile t of img took storage s.
PublishedFields(img, t, s, new) ==
    /\ new.storage = [img.storage EXCEPT ![t] = s]
    /\ new.backed = img.backed \ {t}
    /\ new.allocated = IF s = NoStorage THEN img.allocated \ {t}
                                        ELSE img.allocated \cup {t}
    /\ new.dirty = img.dirty \cup {t}
    /\ new.epoch = img.epoch
    /\ new.revision = img.revision + 1
    /\ new.tileRev = [img.tileRev EXCEPT ![t] = img.revision + 1]
    /\ new.generation = [img.generation EXCEPT ![t] = img.generation[t] + 1]
    /\ new.index = Reindexed(img, t)

\* What a publication does to each field of the image record.
LEMMA PublishNextFields ==
    ASSUME NEW img \in ImageState, NEW t \in Tile, NEW s \in Handle
    PROVE  PublishedFields(img, t, s, PublishNext(img, t, s))
  <1> DEFINE new == PublishNext(img, t, s)
  <1>1. new.storage = [img.storage EXCEPT ![t] = s]
    BY DEF PublishNext, ImageState
  <1>2. new.backed = img.backed \ {t}
    BY DEF PublishNext, ImageState
  <1>3. new.allocated = IF s = NoStorage THEN img.allocated \ {t}
                                         ELSE img.allocated \cup {t}
    BY DEF PublishNext, ImageState
  <1>4. new.dirty = img.dirty \cup {t} /\ new.epoch = img.epoch
    BY DEF PublishNext, ImageState
  <1>5. /\ new.revision = img.revision + 1
        /\ new.tileRev = [img.tileRev EXCEPT ![t] = img.revision + 1]
    BY DEF PublishNext, ImageState
  <1>6. new.generation = [img.generation EXCEPT ![t] = img.generation[t] + 1]
    BY DEF PublishNext, ImageState
  <1>7. new.index = Reindexed(img, t)
    BY DEF PublishNext, ImageState
  <1> QED
    BY <1>1, <1>2, <1>3, <1>4, <1>5, <1>6, <1>7 DEF PublishedFields

\* A publication keeps the index, the revisions and the allocation list in
\* agreement, as long as the revision and the generation have a successor.
LEMMA PublishNextConsistent ==
    ASSUME NEW img, Consistent(img), NEW t \in Tile, NEW s \in Handle,
           img.revision # MaxRevision, img.generation[t] # MaxGeneration
    PROVE  Consistent(PublishNext(img, t, s))
  <1> DEFINE new == PublishNext(img, t, s)
  <1>1. /\ img \in ImageState
        /\ img.storage \in [Tile -> Handle]
        /\ img.revision \in 0..MaxRevision
        /\ img.tileRev \in [Tile -> 0..MaxRevision]
        /\ img.generation \in [Tile -> 0..MaxGeneration]
        /\ img.index \subseteq IndexEntry
        /\ MaxRevision \in Nat /\ MaxGeneration \in Nat
    BY LimitsAssumption DEF Consistent, ImageState, Handle
  <1>2. img.revision + 1 \in 1..MaxRevision /\ img.generation[t] + 1 \in 0..MaxGeneration
    BY <1>1
  <1>3. /\ new.storage = [img.storage EXCEPT ![t] = s]
        /\ new.backed = img.backed \ {t}
        /\ new.allocated = IF s = NoStorage THEN img.allocated \ {t}
                                            ELSE img.allocated \cup {t}
        /\ new.revision = img.revision + 1
        /\ new.tileRev = [img.tileRev EXCEPT ![t] = img.revision + 1]
        /\ new.index = Reindexed(img, t)
    <2>1. PublishedFields(img, t, s, PublishNext(img, t, s))
      BY <1>1, PublishNextFields
    <2> QED
      BY <2>1 DEF PublishedFields
  <1>4. Reindexed(img, t) \subseteq IndexEntry
    BY <1>1, <1>2 DEF Reindexed, IndexEntry
  <1>5. new \in ImageState
    <2> DEFINE allocated == IF s = NoStorage THEN img.allocated \ {t}
                                             ELSE img.allocated \cup {t}
    <2>1. /\ allocated \in SUBSET Tile
          /\ img.backed \ {t} \in SUBSET Tile
          /\ img.dirty \cup {t} \in SUBSET Tile
      BY <1>1 DEF ImageState
    <2>2. img.revision + 1 \in 0..MaxRevision /\ s \in Storage \cup {NoStorage}
      BY <1>1, <1>2 DEF Handle
    <2>3. Reindexed(img, t) \in SUBSET IndexEntry
      BY <1>4
    <2> QED
      BY <1>1, <1>2, <2>1, <2>2, <2>3 DEF PublishNext, ImageState
  <1>6. RevisionsDistinct(new)
    BY <1>1, <1>3 DEF RevisionsDistinct, Consistent
  <1>7. AllocatedExact(new)
    BY <1>1, <1>3, StorageAssumption DEF AllocatedExact, Consistent, Resident, Handle
  <1>8. IndexExact(new)
    <2> DEFINE Entry(i, u) == [revision |-> i.tileRev[u], tile |-> u]
    <2>1. \A e : e \in img.index <=> \E u \in Tile : img.tileRev[u] # 0 /\ e = Entry(img, u)
      BY DEF Consistent, IndexExact
    <2>2. \A e : e \in new.index <=>
            \/ e \in img.index /\ e.revision # img.tileRev[t]
            \/ e = [revision |-> img.revision + 1, tile |-> t]
      BY <1>3 DEF Reindexed
    <2>3. \A u \in Tile \ {t} : new.tileRev[u] = img.tileRev[u]
      BY <1>1, <1>3
    <2>4. new.tileRev[t] = img.revision + 1 /\ new.tileRev[t] # 0
      BY <1>1, <1>2, <1>3
    <2>5. \A u \in Tile \ {t} : img.tileRev[u] # 0 => img.tileRev[u] # img.tileRev[t]
      BY DEF Consistent, RevisionsDistinct
    <2>6. \A e : e \in new.index <=> \E u \in Tile : new.tileRev[u] # 0 /\ e = Entry(new, u)
      <3>1. ASSUME NEW e, e \in new.index
            PROVE  \E u \in Tile : new.tileRev[u] # 0 /\ e = Entry(new, u)
        <4>1. CASE e = [revision |-> img.revision + 1, tile |-> t]
          BY <4>1, <2>4
        <4>2. CASE e \in img.index /\ e.revision # img.tileRev[t]
          <5>1. PICK u \in Tile : img.tileRev[u] # 0 /\ e = Entry(img, u)
            BY <4>2, <2>1
          <5>2. u # t
            BY <5>1, <4>2
          <5> QED
            BY <5>1, <5>2, <2>3
        <4> QED
          BY <3>1, <2>2, <4>1, <4>2
      <3>2. ASSUME NEW e, NEW u \in Tile, new.tileRev[u] # 0, e = Entry(new, u)
            PROVE  e \in new.index
        <4>1. CASE u = t
          BY <4>1, <3>2, <2>4, <2>2
        <4>2. CASE u # t
          <5>1. e = Entry(img, u) /\ img.tileRev[u] # 0
            BY <4>2, <3>2, <2>3
          <5>2. e \in img.index /\ e.revision # img.tileRev[t]
            BY <5>1, <4>2, <2>1, <2>5
          <5> QED
            BY <5>2, <2>2
        <4> QED
          BY <4>1, <4>2
      <3> QED
        BY <3>1, <3>2
    <2> QED
      BY <2>6 DEF IndexExact
  <1> QED
    BY <1>5, <1>6, <1>7, <1>8 DEF Consistent

\* Where a publication left the tiles, whichever epoch it is in.
PlacedFields(img, t, s, new) ==
    /\ new.storage = [img.storage EXCEPT ![t] = s]
    /\ new.backed = img.backed \ {t}
    /\ new.generation = [img.generation EXCEPT ![t] = img.generation[t] + 1]
    /\ \/ new.epoch = img.epoch + 1
       \/ /\ new.epoch = img.epoch
          /\ new.revision = img.revision + 1
          /\ new.tileRev = [img.tileRev EXCEPT ![t] = img.revision + 1]

\* Publish, with or without a new epoch, keeps a consistent record consistent.
LEMMA PublishConsistent ==
    ASSUME NEW img, Consistent(img), NEW t \in Tile, NEW s \in Handle,
           CanPublish(img, t)
    PROVE  /\ Consistent(Publish(img, t, s))
           /\ PlacedFields(img, t, s, Publish(img, t, s))
  <1>1. img \in ImageState /\ img.generation[t] # MaxGeneration
    BY DEF Consistent, CanPublish
  <1>2. CASE ~RevisionExhausted(img)
    <2>1. Publish(img, t, s) = PublishNext(img, t, s)
      BY <1>2 DEF Publish
    <2>2. PublishedFields(img, t, s, PublishNext(img, t, s))
      BY <1>1, PublishNextFields
    <2>3. Consistent(PublishNext(img, t, s))
      BY <1>1, <1>2, PublishNextConsistent DEF RevisionExhausted
    <2> QED
      BY <2>1, <2>2, <2>3 DEF PublishedFields, PlacedFields
  <1>3. CASE RevisionExhausted(img)
    <2> DEFINE mid == NewEpoch(img)
    <2>1. Publish(img, t, s) = PublishNext(mid, t, s)
      BY <1>3 DEF Publish
    <2>2. Consistent(mid)
      BY <1>3, NewEpochConsistent DEF CanPublish
    <2>3. /\ mid.storage = img.storage
          /\ mid.backed = img.backed
          /\ mid.generation = img.generation
          /\ mid.revision = 0
          /\ mid.epoch = img.epoch + 1
      BY <1>1, NewEpochFields
    <2>4. mid \in ImageState /\ mid.revision # MaxRevision
      BY <2>2, <2>3, LimitsAssumption DEF Consistent
    <2> HIDE DEF mid
    <2>5. PublishedFields(mid, t, s, PublishNext(mid, t, s))
      BY <2>4, PublishNextFields
    <2>6. Consistent(PublishNext(mid, t, s))
      BY <1>1, <2>2, <2>3, <2>4, PublishNextConsistent
    <2> QED
      BY <2>1, <2>3, <2>5, <2>6 DEF PublishedFields, PlacedFields
  <1> QED
    BY <1>2, <1>3

\* A reload gives an evicted tile storage and changes nothing else.
ReloadedFields(img, t, s, new) ==
    /\ new.storage = [img.storage EXCEPT ![t] = s]
    /\ new.backed = img.backed
    /\ new.generation = img.generation
    /\ new.epoch = img.epoch
    /\ new.revision = img.revision
    /\ new.tileRev = img.tileRev

\* ensure_resident keeps a consistent record consistent.
LEMMA ReloadedConsistent ==
    ASSUME NEW img, Consistent(img), NEW t \in Tile, NEW s \in Storage,
           Evicted(img, t)
    PROVE  /\ Consistent(Reloaded(img, t, s))
           /\ ReloadedFields(img, t, s, Reloaded(img, t, s))
  <1> DEFINE new == Reloaded(img, t, s)
  <1>1. img \in ImageState
    BY DEF Consistent
  <1>2. /\ new.storage = [img.storage EXCEPT ![t] = s]
        /\ new.backed = img.backed
        /\ new.allocated = img.allocated
        /\ new.generation = img.generation
        /\ new.epoch = img.epoch
    BY <1>1 DEF Reloaded, ImageState
  <1>3. /\ new.revision = img.revision
        /\ new.tileRev = img.tileRev
        /\ new.index = img.index
    BY <1>1 DEF Reloaded, ImageState
  <1>4. new \in ImageState
    BY <1>1 DEF Reloaded, ImageState
  <1> HIDE DEF new
  <1>5. IndexExact(new) /\ RevisionsDistinct(new)
    BY <1>3 DEF IndexExact, RevisionsDistinct, Consistent
  <1>6. AllocatedExact(new)
    BY <1>1, <1>2, StorageAssumption
    DEF AllocatedExact, Consistent, Resident, Evicted, ImageState
  <1> QED
    BY <1>2, <1>3, <1>4, <1>5, <1>6 DEF Consistent, ReloadedFields, new

\* evict_tile keeps a consistent record consistent: the pixels are backed.
LEMMA UnloadedConsistent ==
    ASSUME NEW img, Consistent(img), NEW t \in Tile, Resident(img, t)
    PROVE  /\ Consistent(Unloaded(img, t))
           /\ Unloaded(img, t).storage = [img.storage EXCEPT ![t] = NoStorage]
           /\ Unloaded(img, t).backed = img.backed \cup {t}
           /\ Unloaded(img, t).generation = img.generation
           /\ Unloaded(img, t).epoch = img.epoch
           /\ Unloaded(img, t).revision = img.revision
           /\ Unloaded(img, t).tileRev = img.tileRev
  <1> DEFINE new == Unloaded(img, t)
  <1>1. img \in ImageState
    BY DEF Consistent
  <1>2. /\ new.storage = [img.storage EXCEPT ![t] = NoStorage]
        /\ new.backed = img.backed \cup {t}
        /\ new.allocated = img.allocated
        /\ new.generation = img.generation
        /\ new.epoch = img.epoch
    BY <1>1 DEF Unloaded, ImageState
  <1>3. /\ new.revision = img.revision
        /\ new.tileRev = img.tileRev
        /\ new.index = img.index
    BY <1>1 DEF Unloaded, ImageState
  <1>4. new \in ImageState
    BY <1>1 DEF Unloaded, ImageState
  <1> HIDE DEF new
  <1>5. IndexExact(new) /\ RevisionsDistinct(new)
    BY <1>3 DEF IndexExact, RevisionsDistinct, Consistent
  <1>6. AllocatedExact(new)
    BY <1>1, <1>2 DEF AllocatedExact, Consistent, Resident, ImageState
  <1> QED
    BY <1>2, <1>3, <1>4, <1>5, <1>6 DEF Consistent, new

\* clear() leaves a consistent record without tiles in a new epoch.
LEMMA ClearedConsistent ==
    ASSUME NEW img, Consistent(img), img.epoch # MaxEpoch
    PROVE  /\ Consistent(Cleared(img))
           /\ Cleared(img).storage = [t \in Tile |-> NoStorage]
           /\ Cleared(img).backed = {}
           /\ Cleared(img).epoch = img.epoch + 1
  <1> DEFINE mid == [img EXCEPT !.storage    = [t \in Tile |-> NoStorage],
                                !.backed     = {},
                                !.allocated  = {},
                                !.dirty      = {},
                                !.generation = [t \in Tile |-> 0]]
  <1>1. img \in ImageState
    BY DEF Consistent
  <1>2. Cleared(img) = NewEpoch(mid)
    BY DEF Cleared
  <1>3. mid.storage = [t \in Tile |-> NoStorage] /\ mid.backed = {}
    BY <1>1 DEF ImageState
  <1>4. mid.allocated = {} /\ mid.epoch = img.epoch
    BY <1>1 DEF ImageState
  <1>5. /\ mid.revision = img.revision
        /\ mid.tileRev = img.tileRev
        /\ mid.index = img.index
    BY <1>1 DEF ImageState
  <1>6. mid \in ImageState
    <2>1. [t \in Tile |-> NoStorage] \in [Tile -> Storage \cup {NoStorage}]
      OBVIOUS
    <2>2. [t \in Tile |-> 0] \in [Tile -> 0..MaxGeneration]
      BY LimitsAssumption
    <2>3. {} \in SUBSET Tile
      OBVIOUS
    <2> QED
      BY <1>1, <2>1, <2>2, <2>3 DEF ImageState
  <1> HIDE DEF mid
  <1>7. Consistent(mid)
    <2>1. IndexExact(mid) /\ RevisionsDistinct(mid)
      BY <1>5 DEF IndexExact, RevisionsDistinct, Consistent
    <2>2. AllocatedExact(mid)
      BY <1>3, <1>4 DEF AllocatedExact, Resident
    <2> QED
      BY <1>6, <2>1, <2>2 DEF Consistent
  <1>8. Consistent(NewEpoch(mid))
    BY <1>4, <1>7, NewEpochConsistent
  <1> QED
    BY <1>2, <1>3, <1>4, <1>6, <1>8, NewEpochFields
-----------------------------------------------------------------------------
(* The invariant and what a step keeps *)

Inv == TypeOK /\ BookkeepingExact /\ BackingExact

\* The action formulas of HeldStorageImmutable, NoSilentChange and
\* VersionsAdvance.
HeldKept == \A s \in held \cap held' : heap'[s] = heap[s]

ChangesPublished ==
    \A t \in Tile : Bytes(t)' # Bytes(t) =>
        \/ image'.epoch # image.epoch
        \/ image'.tileRev[t] > image.revision

VersionAdvanced ==
    /\ \/ image'.epoch > image.epoch
       \/ image'.epoch = image.epoch /\ image'.revision >= image.revision
    /\ \A t \in Tile :
          image'.epoch = image.epoch /\ image'.tileRev[t] # image.tileRev[t]
             => /\ image'.generation[t] > image.generation[t]
                /\ image'.tileRev[t] > image.revision

GoodStep == Inv' /\ HeldKept /\ ChangesPublished /\ VersionAdvanced

\* The image record of a state of the invariant is consistent.
LEMMA InvConsistent ==
    ASSUME Inv
    PROVE  Consistent(image)
  BY DEF Inv, TypeOK, BookkeepingExact, Consistent

\* The types of the fields of the image.
LEMMA ImageFieldTypes ==
    ASSUME Inv
    PROVE  /\ image \in ImageState
           /\ image.storage \in [Tile -> Handle]
           /\ image.backed \in SUBSET Tile
           /\ image.epoch \in Nat
           /\ image.revision \in Nat
           /\ image.tileRev \in [Tile -> Nat]
           /\ image.generation \in [Tile -> Nat]
  <1>1. image \in ImageState
    BY DEF Inv, TypeOK
  <1>2. /\ image.storage \in [Tile -> Handle]
        /\ image.backed \in SUBSET Tile
    BY <1>1 DEF ImageState, Handle
  <1>3. image.epoch \in Nat /\ image.revision \in Nat
    BY <1>1, LimitsAssumption DEF ImageState
  <1>4. /\ image.tileRev \in [Tile -> Nat]
        /\ image.generation \in [Tile -> Nat]
    BY <1>1, LimitsAssumption DEF ImageState
  <1> QED
    BY <1>1, <1>2, <1>3, <1>4

\* The clear tile is a tile content.
LEMMA ClearContentType == ClearContent \in Content
  BY ValueAssumption DEF ClearContent, Content

\* A read of a tile returns a tile content.
LEMMA BytesType ==
    ASSUME Inv, NEW t \in Tile
    PROVE  Bytes(t) \in Content
  <1>1. heap \in [Storage -> Content] /\ \A k \in DOMAIN store : store[k] \in Content
    BY DEF Inv, TypeOK
  <1>2. image.storage[t] \in Storage \cup {NoStorage}
    BY ImageFieldTypes DEF Handle
  <1>3. t \in image.backed => KeyOf(image, t) \in DOMAIN store
    BY DEF Inv, BackingExact
  <1> QED
    BY <1>1, <1>2, <1>3, ClearContentType DEF Bytes, BytesOf, Resident

\* Backing keys of two tiles differ.
LEMMA KeysDiffer ==
    ASSUME NEW img, NEW t, NEW u, KeyOf(img, t) = KeyOf(img, u)
    PROVE  t = u
  BY DEF KeyOf

\* What Become says of the heap: owned storages have the given bytes.
LEMMA BecomeHeap ==
    ASSUME NEW img, NEW owners, NEW hp \in [Storage -> Content],
           Become(img, owners, hp)
    PROVE  /\ image' = img
           /\ held' = owners
           /\ heap' \in [Storage -> Content]
           /\ \A x \in Storage : x \in OwnedBy(img) \cup owners => heap'[x] = hp[x]
  BY ClearContentType DEF Become

\* Storages the image owns are owned after a step that keeps them.
LEMMA OwnedStorage ==
    ASSUME NEW img, NEW u \in Tile, img.storage[u] # NoStorage
    PROVE  img.storage[u] \in OwnedBy(img)
  BY DEF OwnedBy
-----------------------------------------------------------------------------
(* The three kinds of step that move storages *)

\* A tile whose storage, backing entry and generation are kept reads the
\* same if the bytes behind them are kept.
LEMMA UntouchedTileReadsSame ==
    ASSUME NEW u \in Tile,
           image'.storage[u] = image.storage[u],
           u \in image'.backed <=> u \in image.backed,
           image'.generation[u] = image.generation[u],
           Resident(image, u) => heap'[image.storage[u]] = heap[image.storage[u]],
           u \in image.backed => store'[KeyOf(image, u)] = store[KeyOf(image, u)]
    PROVE  Bytes(u)' = Bytes(u)
  BY DEF Bytes, BytesOf, Resident, KeyOf

\* Publishing tile t with storage s: the bytes written are in a storage no
\* other tile and no outside owner has.
LEMMA PublicationIsGood ==
    ASSUME Inv, NEW t \in Tile, NEW s \in Handle, CanPublish(image, t),
           NEW owners \in SUBSET Storage, NEW hp \in [Storage -> Content],
           Become(Publish(image, t, s), owners, hp),
           store' = Discarded(t),
           \A x \in held : hp[x] = heap[x],
           \A u \in Tile \ {t} :
              Resident(image, u) => hp[image.storage[u]] = heap[image.storage[u]]
    PROVE  GoodStep
  <1> DEFINE new == Publish(image, t, s)
  <1>1. Consistent(new) /\ PlacedFields(image, t, s, new)
    BY InvConsistent, PublishConsistent
  <1>2. /\ image' = new
        /\ held' = owners
        /\ heap' \in [Storage -> Content]
        /\ \A x \in Storage : x \in OwnedBy(new) \cup owners => heap'[x] = hp[x]
    BY BecomeHeap
  <1> HIDE DEF new
  <1>3. /\ image'.storage = [image.storage EXCEPT ![t] = s]
        /\ image'.backed = image.backed \ {t}
        /\ image'.generation = [image.generation EXCEPT ![t] = image.generation[t] + 1]
        /\ \/ image'.epoch = image.epoch + 1
           \/ /\ image'.epoch = image.epoch
              /\ image'.revision = image.revision + 1
              /\ image'.tileRev = [image.tileRev EXCEPT ![t] = image.revision + 1]
    BY <1>1, <1>2 DEF PlacedFields
  <1>4. /\ image.storage \in [Tile -> Handle]
        /\ image.backed \in SUBSET Tile
        /\ image.epoch \in Nat
        /\ image.revision \in Nat
        /\ image.tileRev \in [Tile -> Nat]
        /\ image.generation \in [Tile -> Nat]
    BY ImageFieldTypes
  <1>5. ASSUME NEW u \in Tile, u # t
        PROVE  /\ image'.storage[u] = image.storage[u]
               /\ u \in image'.backed <=> u \in image.backed
               /\ image'.generation[u] = image.generation[u]
    <2>1. [image.storage EXCEPT ![t] = s][u] = image.storage[u]
      BY <1>4, <1>5
    <2>2. [image.generation EXCEPT ![t] = image.generation[t] + 1][u] = image.generation[u]
      BY <1>4, <1>5
    <2>3. u \in image.backed \ {t} <=> u \in image.backed
      BY <1>5
    <2> QED
      BY <1>3, <2>1, <2>2, <2>3
  <1>6. \A u \in Tile \ {t} : Resident(image, u) =>
           heap'[image.storage[u]] = heap[image.storage[u]]
    <2> SUFFICES ASSUME NEW u \in Tile \ {t}, Resident(image, u)
                 PROVE  heap'[image.storage[u]] = heap[image.storage[u]]
      OBVIOUS
    <2>1. u \in Tile /\ image.storage[u] # NoStorage
      BY DEF Resident
    <2>2. image.storage[u] \in Storage
      BY <2>1, <1>4 DEF Handle
    <2>3. new.storage[u] = image.storage[u]
      BY <1>2, <1>5
    <2>4. image.storage[u] \in OwnedBy(new)
      BY <2>1, <2>3, OwnedStorage
    <2> QED
      BY <1>2, <2>2, <2>4
  <1>7. DOMAIN store = { KeyOf(image, u) : u \in image.backed }
    BY DEF Inv, BackingExact
  <1>8. /\ DOMAIN store' = { KeyOf(image, u) : u \in image.backed \ {t} }
        /\ \A k \in DOMAIN store' : k \in DOMAIN store /\ store'[k] = store[k]
    <2>1. CASE t \in image.backed
      <3>1. DOMAIN store \ {KeyOf(image, t)} = { KeyOf(image, u) : u \in image.backed \ {t} }
        BY <1>7, KeysDiffer
      <3> QED
        BY <2>1, <3>1 DEF Discarded
    <2>2. CASE t \notin image.backed
      BY <1>7, <2>2 DEF Discarded
    <2> QED
      BY <2>1, <2>2
  <1>9. \A u \in image'.backed : KeyOf(image', u) = KeyOf(image, u)
    BY <1>3, <1>4, <1>5 DEF KeyOf
  <1>10. TypeOK'
    <2>1. image' \in ImageState
      BY <1>1, <1>2 DEF Consistent
    <2>2. /\ DOMAIN store' \subseteq BackingKey
          /\ \A k \in DOMAIN store' : store'[k] \in Content
      BY <1>8 DEF Inv, TypeOK
    <2> QED
      BY <1>2, <2>1, <2>2 DEF TypeOK
  <1>11. BookkeepingExact'
    BY <1>1, <1>2 DEF BookkeepingExact, Consistent
  <1>12. BackingExact'
    <2>1. DOMAIN store' = { KeyOf(image', u) : u \in image'.backed }
      BY <1>3, <1>8, <1>9
    <2>2. ASSUME NEW u \in image'.backed, Resident(image', u)
          PROVE  heap'[image'.storage[u]] = store'[KeyOf(image', u)]
      <3>1. u \in Tile \ {t} /\ u \in image.backed
        BY <1>3, <1>4
      <3>2. Resident(image, u) /\ image'.storage[u] = image.storage[u]
        <4>1. image'.storage[u] = image.storage[u]
          BY <3>1, <1>5
        <4> QED
          BY <2>2, <4>1 DEF Resident
      <3>3. heap[image.storage[u]] = store[KeyOf(image, u)]
        BY <3>1, <3>2 DEF Inv, BackingExact
      <3> QED
        BY <3>1, <3>2, <3>3, <1>6, <1>8, <1>9
    <2> QED
      BY <2>1, <2>2 DEF BackingExact
  <1>13. HeldKept
    BY <1>2 DEF HeldKept, Inv, TypeOK
  <1>14. ChangesPublished
    <2>1. ASSUME NEW u \in Tile \ {t}
          PROVE  Bytes(u)' = Bytes(u)
      <3>1. u \in image.backed => store'[KeyOf(image, u)] = store[KeyOf(image, u)]
        BY <1>8
      <3>2. /\ image'.storage[u] = image.storage[u]
            /\ u \in image'.backed <=> u \in image.backed
            /\ image'.generation[u] = image.generation[u]
        BY <1>5
      <3>3. Resident(image, u) => heap'[image.storage[u]] = heap[image.storage[u]]
        BY <1>6
      <3> QED
        BY <3>1, <3>2, <3>3, UntouchedTileReadsSame
    <2>2. image'.epoch # image.epoch \/ image'.tileRev[t] > image.revision
      BY <1>3, <1>4
    <2> QED
      BY <2>1, <2>2 DEF ChangesPublished
  <1>15. VersionAdvanced
    BY <1>3, <1>4 DEF VersionAdvanced
  <1> QED
    BY <1>10, <1>11, <1>12, <1>13, <1>14, <1>15 DEF GoodStep, Inv

\* Reloading an evicted tile into a storage nobody owns.
LEMMA ReloadIsGood ==
    ASSUME Inv, NEW t \in Tile, Evicted(image, t), NEW s \in Free,
           NEW owners \in SUBSET Storage,
           Become(Reloaded(image, t, s), owners, [heap EXCEPT ![s] = Bytes(t)]),
           store' = store
    PROVE  GoodStep
  <1> DEFINE new == Reloaded(image, t, s)
             hp == [heap EXCEPT ![s] = Bytes(t)]
  <1>1. /\ s \in Storage /\ s # NoStorage
        /\ s \notin held /\ s \notin OwnedBy(image)
    BY StorageAssumption DEF Free
  <1>2. Consistent(new) /\ ReloadedFields(image, t, s, new)
    BY <1>1, InvConsistent, ReloadedConsistent
  <1>3. heap \in [Storage -> Content] /\ hp \in [Storage -> Content]
    BY <1>1, BytesType DEF Inv, TypeOK
  <1> HIDE DEF new, hp
  <1>4. /\ image' = new
        /\ held' = owners
        /\ heap' \in [Storage -> Content]
        /\ \A x \in Storage : x \in OwnedBy(new) \cup owners => heap'[x] = hp[x]
    BY <1>3, BecomeHeap DEF new, hp
  <1>5. /\ image'.storage = [image.storage EXCEPT ![t] = s]
        /\ image'.backed = image.backed
        /\ image'.generation = image.generation
        /\ image'.epoch = image.epoch
        /\ image'.revision = image.revision
        /\ image'.tileRev = image.tileRev
    BY <1>2, <1>4 DEF ReloadedFields
  <1>6. /\ image.storage \in [Tile -> Handle]
        /\ image.backed \in SUBSET Tile
        /\ image.epoch \in Nat
        /\ image.revision \in Nat
    BY ImageFieldTypes
  <1>7. \A k : KeyOf(image', k) = KeyOf(image, k)
    BY <1>5 DEF KeyOf
  <1>8. hp[s] = Bytes(t) /\ \A x \in Storage \ {s} : hp[x] = heap[x]
    BY <1>1, <1>3 DEF hp
  <1>9. heap'[s] = Bytes(t) /\ image'.storage[t] = s
    <2>1. image'.storage[t] = s
      BY <1>5, <1>6
    <2>2. s \in OwnedBy(new)
      BY <2>1, <1>1, <1>4, OwnedStorage
    <2> QED
      BY <2>1, <2>2, <1>1, <1>4, <1>8
  <1>10. Bytes(t) = store[KeyOf(image, t)] /\ t \in image.backed
    BY DEF Evicted, Bytes, BytesOf
  <1>11. \A u \in Tile \ {t} :
            /\ image'.storage[u] = image.storage[u]
            /\ Resident(image, u) => heap'[image.storage[u]] = heap[image.storage[u]]
    <2> SUFFICES ASSUME NEW u \in Tile \ {t}
                 PROVE  /\ image'.storage[u] = image.storage[u]
                        /\ Resident(image, u) =>
                              heap'[image.storage[u]] = heap[image.storage[u]]
      OBVIOUS
    <2>1. image'.storage[u] = image.storage[u]
      BY <1>5, <1>6
    <2>2. ASSUME Resident(image, u)
          PROVE  heap'[image.storage[u]] = heap[image.storage[u]]
      <3>1. image.storage[u] \in OwnedBy(image) /\ image.storage[u] \in OwnedBy(new)
        BY <2>1, <2>2, <1>4, OwnedStorage DEF Resident
      <3>2. u \in Tile /\ image.storage[u] # NoStorage
        BY <2>2 DEF Resident
      <3>3. image.storage[u] \in Storage
        BY <3>2, <1>6 DEF Handle
      <3>4. image.storage[u] # s
        BY <3>1, <1>1
      <3> QED
        BY <3>1, <3>3, <3>4, <1>4, <1>8
    <2> QED
      BY <2>1, <2>2
  <1>12. TypeOK'
    <2>1. image' \in ImageState
      BY <1>2, <1>4 DEF Consistent
    <2> QED
      BY <1>4, <2>1 DEF TypeOK, Inv
  <1>13. BookkeepingExact'
    BY <1>2, <1>4 DEF BookkeepingExact, Consistent
  <1>14. BackingExact'
    <2>1. DOMAIN store' = { KeyOf(image', u) : u \in image'.backed }
      BY <1>5, <1>7 DEF Inv, BackingExact
    <2>2. ASSUME NEW u \in image'.backed, Resident(image', u)
          PROVE  heap'[image'.storage[u]] = store'[KeyOf(image', u)]
      <3>1. CASE u = t
        BY <3>1, <1>7, <1>9, <1>10
      <3>2. CASE u # t
        <4>1. u \in Tile \ {t} /\ u \in image.backed
          BY <3>2, <1>5, <1>6
        <4>2. Resident(image, u)
          <5>1. image'.storage[u] = image.storage[u]
            BY <4>1, <1>11
          <5> QED
            BY <2>2, <5>1 DEF Resident
        <4>3. heap[image.storage[u]] = store[KeyOf(image, u)]
          BY <4>1, <4>2 DEF Inv, BackingExact
        <4> QED
          BY <4>1, <4>2, <4>3, <1>7, <1>11
      <3> QED
        BY <3>1, <3>2
    <2> QED
      BY <2>1, <2>2 DEF BackingExact
  <1>15. HeldKept
    <2>1. \A x \in held \cap held' : heap'[x] = hp[x] /\ hp[x] = heap[x]
      BY <1>1, <1>4, <1>8 DEF Inv, TypeOK
    <2> QED
      BY <2>1 DEF HeldKept
  <1>16. ChangesPublished
    <2>1. ASSUME NEW u \in Tile \ {t}
          PROVE  Bytes(u)' = Bytes(u)
      <3>1. /\ image'.storage[u] = image.storage[u]
            /\ Resident(image, u) => heap'[image.storage[u]] = heap[image.storage[u]]
        BY <1>11
      <3>2. /\ image'.backed = image.backed
            /\ image'.generation[u] = image.generation[u]
            /\ store' = store
        BY <1>5
      <3> QED
        BY <3>1, <3>2, UntouchedTileReadsSame
    <2>2. Bytes(t)' = Bytes(t)
      BY <1>1, <1>9 DEF Bytes, BytesOf, Resident
    <2> QED
      BY <2>1, <2>2 DEF ChangesPublished
  <1>17. VersionAdvanced
    BY <1>5, <1>6 DEF VersionAdvanced
  <1> QED
    BY <1>12, <1>13, <1>14, <1>15, <1>16, <1>17 DEF GoodStep, Inv

\* Steps that leave tiles where they are: the image keeps every storage,
\* backing entry and generation, and owned bytes are kept.
LEMMA InPlaceIsGood ==
    ASSUME Inv, Consistent(image'),
           image'.storage = image.storage,
           image'.backed = image.backed,
           image'.generation = image.generation,
           VersionAdvanced,
           heap' \in [Storage -> Content],
           held' \subseteq Storage,
           \A x \in Storage : x \in OwnedBy(image) \cup held' => heap'[x] = heap[x],
           store' = store
    PROVE  GoodStep
  <1>1. image.storage \in [Tile -> Handle] /\ image.backed \in SUBSET Tile
    BY ImageFieldTypes
  <1>2. \A k : KeyOf(image', k) = KeyOf(image, k)
    BY DEF KeyOf
  <1>3. ASSUME NEW u \in Tile, image.storage[u] # NoStorage
        PROVE  heap'[image.storage[u]] = heap[image.storage[u]]
    <2>1. image.storage[u] \in Storage
      BY <1>1, <1>3 DEF Handle
    <2>2. image.storage[u] \in OwnedBy(image)
      BY <1>3, OwnedStorage
    <2> QED
      BY <2>1, <2>2
  <1>4. TypeOK' /\ BookkeepingExact'
    BY DEF TypeOK, BookkeepingExact, Consistent, Inv
  <1>5. BackingExact'
    <2>1. DOMAIN store' = { KeyOf(image', u) : u \in image'.backed }
      BY <1>2 DEF Inv, BackingExact
    <2>2. ASSUME NEW u \in image'.backed, Resident(image', u)
          PROVE  heap'[image'.storage[u]] = store'[KeyOf(image', u)]
      <3>1. u \in Tile /\ image.storage[u] # NoStorage
        BY <1>1, <2>2 DEF Resident
      <3>2. heap[image.storage[u]] = store[KeyOf(image, u)]
        BY <3>1 DEF Inv, BackingExact, Resident
      <3> QED
        BY <1>2, <1>3, <3>1, <3>2
    <2> QED
      BY <2>1, <2>2 DEF BackingExact
  <1>6. HeldKept
    BY DEF HeldKept, Inv, TypeOK
  <1>7. ASSUME NEW u \in Tile
        PROVE  Bytes(u)' = Bytes(u)
    <2>1. Resident(image, u) => heap'[image.storage[u]] = heap[image.storage[u]]
      BY <1>3 DEF Resident
    <2> QED
      BY <2>1, UntouchedTileReadsSame
  <1>8. ChangesPublished
    BY <1>7 DEF ChangesPublished
  <1> QED
    BY <1>4, <1>5, <1>6, <1>8 DEF GoodStep, Inv

-----------------------------------------------------------------------------
(* The operations *)

\* The heap stays a heap when one storage is written.
LEMMA HeapType ==
    ASSUME Inv
    PROVE  /\ heap \in [Storage -> Content]
           /\ held \in SUBSET Storage
           /\ \A s \in Storage, bytes \in Content :
                 [heap EXCEPT ![s] = bytes] \in [Storage -> Content]
  BY DEF Inv, TypeOK

\* A resident tile's storage is an allocation the image owns.
LEMMA ResidentStorage ==
    ASSUME Inv, NEW t \in Tile, Resident(image, t)
    PROVE  image.storage[t] \in Storage /\ image.storage[t] \in OwnedBy(image)
  <1>1. image.storage[t] \in Handle /\ image.storage[t] # NoStorage
    BY ImageFieldTypes DEF Resident
  <1> QED
    BY <1>1, OwnedStorage DEF Handle

\* A reload, or nothing at all, is a good step.
LEMMA ReloadStep ==
    ASSUME Inv, NEW t \in Tile, Evicted(image, t), Reload(t)
    PROVE  GoodStep
  <1>1. PICK s \in Free :
           /\ Become(Reloaded(image, t, s), held, [heap EXCEPT ![s] = Bytes(t)])
           /\ UNCHANGED store
    BY DEF Reload
  <1> QED
    BY <1>1, HeapType, ReloadIsGood

\* A storage no other tile and no outside owner has can be filled.
LEMMA FillIsHarmless ==
    ASSUME Inv, NEW t \in Tile, NEW s \in Storage, NEW bytes \in Content,
           s \notin held,
           \A u \in Tile \ {t} : image.storage[u] # s
    PROVE  LET hp == [heap EXCEPT ![s] = bytes]
           IN /\ hp \in [Storage -> Content]
              /\ \A x \in held : hp[x] = heap[x]
              /\ \A u \in Tile \ {t} :
                    Resident(image, u) => hp[image.storage[u]] = heap[image.storage[u]]
  <1> DEFINE hp == [heap EXCEPT ![s] = bytes]
  <1>1. hp \in [Storage -> Content]
    BY HeapType
  <1>2. \A x \in Storage : x # s => hp[x] = heap[x]
    BY HeapType
  <1> HIDE DEF hp
  <1>3. \A x \in held : hp[x] = heap[x]
    BY <1>2, HeapType
  <1>4. ASSUME NEW u \in Tile \ {t}, Resident(image, u)
        PROVE  hp[image.storage[u]] = heap[image.storage[u]]
    <2>1. image.storage[u] \in Storage /\ image.storage[u] # s
      BY <1>4, ResidentStorage
    <2> QED
      BY <2>1, <1>2
  <1> QED
    BY <1>1, <1>3, <1>4 DEF hp

\* A fresh allocation belongs to nobody.
LEMMA FreeStorage ==
    ASSUME Inv, NEW s \in Free
    PROVE  s \in Storage /\ s \notin held /\ \A u \in Tile : image.storage[u] # s
  BY StorageAssumption DEF Free, OwnedBy

\* allocate_tile, publish and fill is a good step, in place or in a fresh storage.
LEMMA OverwriteStep ==
    ASSUME Inv, NEW t \in Tile, NEW bytes \in Content, CanPublish(image, t),
           Overwrite(t, bytes)
    PROVE  GoodStep
  <1>1. PICK s \in IF Resident(image, t) /\ ~Shared(t)
                     THEN {image.storage[t]} ELSE Free :
           /\ Become(Publish(image, t, s), held, [heap EXCEPT ![s] = bytes])
           /\ store' = Discarded(t)
    BY DEF Overwrite
  <1>2. s \in Storage /\ s \notin held /\ \A u \in Tile \ {t} : image.storage[u] # s
    <2>1. CASE Resident(image, t) /\ ~Shared(t)
      BY <1>1, <2>1, ResidentStorage DEF Shared
    <2>2. CASE ~(Resident(image, t) /\ ~Shared(t))
      BY <1>1, <2>2, FreeStorage
    <2> QED
      BY <2>1, <2>2
  <1> DEFINE hp == [heap EXCEPT ![s] = bytes]
  <1>3. /\ hp \in [Storage -> Content]
        /\ \A x \in held : hp[x] = heap[x]
        /\ \A u \in Tile \ {t} :
              Resident(image, u) => hp[image.storage[u]] = heap[image.storage[u]]
    BY <1>2, FillIsHarmless
  <1>4. Become(Publish(image, t, s), held, hp)
    BY <1>1
  <1> HIDE DEF hp
  <1> QED
    BY <1>1, <1>2, <1>3, <1>4, HeapType, PublicationIsGood DEF Handle

\* A step that changes nothing is a good step.
LEMMA StutterIsGood ==
    ASSUME Inv, UNCHANGED imageVars
    PROVE  GoodStep
  <1>1. /\ image' = image /\ heap' = heap /\ held' = held /\ store' = store
    BY DEF imageVars
  <1>2. VersionAdvanced
    BY <1>1, ImageFieldTypes DEF VersionAdvanced
  <1> QED
    BY <1>1, <1>2, InvConsistent, HeapType, InPlaceIsGood

\* A read that reloads an evicted tile is a good step.
LEMMA ReadPixelStep ==
    ASSUME Inv, NEW t \in Tile, ReadPixel(t)
    PROVE  GoodStep
  BY ReloadStep DEF ReadPixel

\* write_pixel is a good step whether it publishes, only reloads or does nothing.
LEMMA WritePixelStep ==
    ASSUME Inv, NEW t \in Tile, NEW p \in Pixel, NEW v \in Value, WritePixel(t, p, v)
    PROVE  GoodStep
  <1>1. CASE Bytes(t)[p] = v \/ ~CanPublish(image, t)
    <2>1. Reload(t)
      BY <1>1 DEF WritePixel
    <2>2. CASE Evicted(image, t)
      BY <2>1, <2>2, ReloadStep
    <2>3. CASE ~Evicted(image, t)
      BY <2>1, <2>3, StutterIsGood DEF Reload
    <2> QED
      BY <2>2, <2>3
  <1>2. CASE ~(Bytes(t)[p] = v \/ ~CanPublish(image, t))
    <2>1. [Bytes(t) EXCEPT ![p] = v] \in Content
      BY BytesType DEF Content
    <2>2. Overwrite(t, [Bytes(t) EXCEPT ![p] = v]) /\ CanPublish(image, t)
      BY <1>2 DEF WritePixel
    <2> QED
      BY <2>1, <2>2, OverwriteStep
  <1> QED
    BY <1>1, <1>2

\* write_tile is a good step.
LEMMA WriteTileStep ==
    ASSUME Inv, NEW t \in Tile, NEW bytes \in Content, WriteTile(t, bytes)
    PROVE  GoodStep
  BY OverwriteStep DEF WriteTile

\* Eviction may drop the pixels of a tile that is already backed: the copy
\* in the store is the same.
LEMMA EvictTileStep ==
    ASSUME Inv, NEW t \in Tile, EvictTile(t)
    PROVE  GoodStep
  <1> DEFINE new == Unloaded(image, t)
  <1>1. /\ Resident(image, t)
        /\ Become(new, held, heap)
    BY DEF EvictTile
  <1>2. /\ Consistent(new)
        /\ new.storage = [image.storage EXCEPT ![t] = NoStorage]
        /\ new.backed = image.backed \cup {t}
        /\ new.generation = image.generation
        /\ new.epoch = image.epoch
        /\ new.revision = image.revision
        /\ new.tileRev = image.tileRev
    BY <1>1, InvConsistent, UnloadedConsistent
  <1> HIDE DEF new
  <1>3. /\ image' = new
        /\ held' = held
        /\ heap' \in [Storage -> Content]
        /\ \A x \in Storage : x \in OwnedBy(new) \cup held => heap'[x] = heap[x]
    BY <1>1, HeapType, BecomeHeap
  <1>4. /\ image.storage \in [Tile -> Handle]
        /\ image.backed \in SUBSET Tile
        /\ image.epoch \in Nat
        /\ image.revision \in Nat
        /\ image \in ImageState
    BY ImageFieldTypes
  <1>5. \A k : KeyOf(image', k) = KeyOf(image, k)
    BY <1>2, <1>3 DEF KeyOf
  <1>6. DOMAIN store = { KeyOf(image, u) : u \in image.backed }
    BY DEF Inv, BackingExact
  <1>7. Bytes(t) = heap[image.storage[t]] /\ Bytes(t) \in Content
    BY <1>1, BytesType DEF Bytes, BytesOf
  <1>8. /\ DOMAIN store' = { KeyOf(image, u) : u \in image.backed \cup {t} }
        /\ store'[KeyOf(image, t)] = Bytes(t)
        /\ \A u \in image.backed : store'[KeyOf(image, u)] = store[KeyOf(image, u)]
    <2>1. CASE t \in image.backed
      <3>1. store' = store
        BY <2>1 DEF EvictTile
      <3>2. store[KeyOf(image, t)] = heap[image.storage[t]]
        BY <1>1, <2>1 DEF Inv, BackingExact
      <3>3. image.backed \cup {t} = image.backed
        BY <2>1
      <3> QED
        BY <3>1, <3>2, <3>3, <1>6, <1>7
    <2>2. CASE t \notin image.backed
      <3>1. store' = [k \in DOMAIN store \cup {KeyOf(image, t)} |->
                        IF k = KeyOf(image, t) THEN Bytes(t) ELSE store[k]]
        BY <2>2 DEF EvictTile
      <3>2. \A u \in image.backed : KeyOf(image, u) # KeyOf(image, t)
        BY <2>2, KeysDiffer
      <3> QED
        BY <3>1, <3>2, <1>6
    <2> QED
      BY <2>1, <2>2
  <1>9. ASSUME NEW u \in Tile, u # t
        PROVE  /\ image'.storage[u] = image.storage[u]
               /\ Resident(image, u) => heap'[image.storage[u]] = heap[image.storage[u]]
    <2>1. image'.storage[u] = image.storage[u]
      <3>1. [image.storage EXCEPT ![t] = NoStorage][u] = image.storage[u]
        BY <1>4, <1>9
      <3> QED
        BY <3>1, <1>2, <1>3
    <2>2. ASSUME Resident(image, u)
          PROVE  heap'[image.storage[u]] = heap[image.storage[u]]
      <3>1. image.storage[u] \in Storage /\ new.storage[u] # NoStorage
        BY <2>1, <2>2, <1>3, ResidentStorage DEF Resident
      <3>2. new.storage[u] \in OwnedBy(new)
        BY <3>1, OwnedStorage
      <3> QED
        BY <3>1, <3>2, <2>1, <1>3
    <2> QED
      BY <2>1, <2>2
  <1>10. ~Resident(image', t) /\ t \in image'.backed
    BY <1>2, <1>3, <1>4 DEF Resident
  <1>11. TypeOK'
    <2>1. image' \in ImageState
      BY <1>2, <1>3 DEF Consistent
    <2>2. KeyOf(image, t) \in BackingKey
      BY <1>4 DEF KeyOf, BackingKey, ImageState
    <2>3. /\ DOMAIN store' \subseteq BackingKey
          /\ \A k \in DOMAIN store' : store'[k] \in Content
      <3>1. \A u \in image.backed : /\ KeyOf(image, u) \in BackingKey
                                    /\ store[KeyOf(image, u)] \in Content
        BY <1>6 DEF Inv, TypeOK
      <3> QED
        BY <3>1, <2>2, <1>7, <1>8
    <2> QED
      BY <1>3, <2>1, <2>3, HeapType DEF TypeOK
  <1>12. BookkeepingExact'
    BY <1>2, <1>3 DEF BookkeepingExact, Consistent
  <1>13. BackingExact'
    <2>1. DOMAIN store' = { KeyOf(image', u) : u \in image'.backed }
      BY <1>2, <1>3, <1>5, <1>8
    <2>2. ASSUME NEW u \in image'.backed, Resident(image', u)
          PROVE  heap'[image'.storage[u]] = store'[KeyOf(image', u)]
      <3>1. u # t
        BY <2>2, <1>10
      <3>2. u \in Tile /\ u \in image.backed
        BY <3>1, <1>2, <1>3, <1>4
      <3>3. image'.storage[u] = image.storage[u]
        BY <3>1, <3>2, <1>9
      <3>4. Resident(image, u)
        BY <2>2, <3>3 DEF Resident
      <3>5. heap[image.storage[u]] = store[KeyOf(image, u)]
        BY <3>2, <3>4 DEF Inv, BackingExact
      <3>6. heap'[image.storage[u]] = heap[image.storage[u]]
        BY <3>1, <3>2, <3>4, <1>9
      <3> QED
        BY <3>2, <3>3, <3>5, <3>6, <1>5, <1>8
    <2> QED
      BY <2>1, <2>2 DEF BackingExact
  <1>14. HeldKept
    BY <1>3 DEF HeldKept, Inv, TypeOK
  <1>15. ChangesPublished
    <2>1. ASSUME NEW u \in Tile, u # t
          PROVE  Bytes(u)' = Bytes(u)
      <3>1. /\ image'.storage[u] = image.storage[u]
            /\ Resident(image, u) => heap'[image.storage[u]] = heap[image.storage[u]]
        BY <2>1, <1>9
      <3>2. u \in image'.backed <=> u \in image.backed
        BY <2>1, <1>2, <1>3
      <3>3. /\ image'.generation[u] = image.generation[u]
            /\ u \in image.backed => store'[KeyOf(image, u)] = store[KeyOf(image, u)]
        BY <1>2, <1>3, <1>8
      <3> QED
        BY <3>1, <3>2, <3>3, UntouchedTileReadsSame
    <2>2. Bytes(t)' = Bytes(t)
      BY <1>5, <1>8, <1>10 DEF Bytes, BytesOf
    <2> QED
      BY <2>1, <2>2 DEF ChangesPublished
  <1>16. VersionAdvanced
    BY <1>2, <1>3, <1>4 DEF VersionAdvanced
  <1> QED
    BY <1>11, <1>12, <1>13, <1>14, <1>15, <1>16 DEF GoodStep, Inv

\* The same image, and owners that keep their bytes.
LEMMA SameImageStep ==
    ASSUME Inv, NEW owners \in SUBSET Storage, Become(image, owners, heap), store' = store
    PROVE  GoodStep
  <1>1. /\ image' = image
        /\ held' = owners
        /\ heap' \in [Storage -> Content]
        /\ \A x \in Storage : x \in OwnedBy(image) \cup owners => heap'[x] = heap[x]
    BY HeapType, BecomeHeap
  <1>2. VersionAdvanced
    BY <1>1, ImageFieldTypes DEF VersionAdvanced
  <1> QED
    BY <1>1, <1>2, InvConsistent, InPlaceIsGood

\* Pinning a tile is a good step, with or without a reload.
LEMMA PinTileStep ==
    ASSUME Inv, NEW t \in Tile, PinTile(t)
    PROVE  GoodStep
  <1>1. CASE Resident(image, t) /\ Become(image, held \cup {image.storage[t]}, heap)
    <2>1. held \cup {image.storage[t]} \in SUBSET Storage
      BY <1>1, ResidentStorage, HeapType
    <2> QED
      BY <1>1, <2>1, SameImageStep DEF PinTile
  <1>2. ASSUME Evicted(image, t), NEW s \in Free,
               Become(Reloaded(image, t, s), held \cup {s}, [heap EXCEPT ![s] = Bytes(t)])
        PROVE  GoodStep
    <2>1. held \cup {s} \in SUBSET Storage
      BY <1>2, FreeStorage, HeapType
    <2>2. store' = store
      BY DEF PinTile
    <2> QED
      BY <1>2, <2>1, <2>2, ReloadIsGood
  <1> QED
    BY <1>1, <1>2 DEF PinTile

\* Letting go of a storage is a good step.
LEMMA ReleasePinStep ==
    ASSUME Inv, NEW s \in held, ReleasePin(s)
    PROVE  GoodStep
  <1>1. held \ {s} \in SUBSET Storage
    BY HeapType
  <1> QED
    BY <1>1, SameImageStep DEF ReleasePin

\* exchange_tile_storage is a good step: the storages change places unread.
LEMMA ExchangeStep ==
    ASSUME Inv, NEW t \in Tile, NEW r \in held \cup {NoStorage}, Exchange(t, r)
    PROVE  GoodStep
  <1>1. r \in Handle
    BY HeapType DEF Handle
  <1>2. \A owners \in OwnersAfterMove(r) : owners \in SUBSET Storage
    BY HeapType DEF OwnersAfterMove
  <1>3. CASE ~CanPublish(image, t) /\ Evicted(image, t) /\ Reload(t)
    BY <1>3, ReloadStep
  <1>4. ASSUME CanPublish(image, t), ~Evicted(image, t), NEW owners \in OwnersAfterMove(r),
               Become(Publish(image, t, r), (owners \cup {image.storage[t]}) \ {NoStorage}, heap),
               store' = Discarded(t)
        PROVE  GoodStep
    <2>1. image.storage[t] \in Storage \cup {NoStorage}
      BY ImageFieldTypes DEF Handle
    <2>2. (owners \cup {image.storage[t]}) \ {NoStorage} \in SUBSET Storage
      BY <1>2, <2>1
    <2>3. heap \in [Storage -> Content]
      BY HeapType
    <2> QED
      BY <1>1, <1>4, <2>2, <2>3, PublicationIsGood
  <1>5. ASSUME CanPublish(image, t), NEW s \in Free, NEW owners \in OwnersAfterMove(r),
               Become(Publish(image, t, r), owners \cup {s}, [heap EXCEPT ![s] = Bytes(t)]),
               store' = Discarded(t)
        PROVE  GoodStep
    <2> DEFINE hp == [heap EXCEPT ![s] = Bytes(t)]
    <2>1. s \in Storage /\ s \notin held /\ \A u \in Tile : image.storage[u] # s
      BY FreeStorage
    <2>2. owners \cup {s} \in SUBSET Storage
      BY <1>2, <2>1
    <2>3. /\ hp \in [Storage -> Content]
          /\ \A x \in held : hp[x] = heap[x]
          /\ \A u \in Tile \ {t} :
                Resident(image, u) => hp[image.storage[u]] = heap[image.storage[u]]
      BY <2>1, BytesType, FillIsHarmless
    <2>4. Become(Publish(image, t, r), owners \cup {s}, hp)
      BY <1>5
    <2> HIDE DEF hp
    <2> QED
      BY <1>1, <1>5, <2>2, <2>3, <2>4, PublicationIsGood
  <1> QED
    BY <1>3, <1>4, <1>5 DEF Exchange

\* clear() is a good step: the new namespace of the backing store is empty.
LEMMA ClearStep ==
    ASSUME Inv, Clear
    PROVE  GoodStep
  <1> DEFINE new == Cleared(image)
  <1>1. image.epoch # MaxEpoch /\ Become(new, held, heap)
    BY DEF Clear, CanClear
  <1>2. /\ Consistent(new)
        /\ new.storage = [t \in Tile |-> NoStorage]
        /\ new.backed = {}
        /\ new.epoch = image.epoch + 1
    BY <1>1, InvConsistent, ClearedConsistent
  <1> HIDE DEF new
  <1>3. /\ image' = new
        /\ held' = held
        /\ heap' \in [Storage -> Content]
        /\ \A x \in Storage : x \in OwnedBy(new) \cup held => heap'[x] = heap[x]
    BY <1>1, HeapType, BecomeHeap
  <1>4. DOMAIN store' = {}
    BY DEF Clear
  <1>5. TypeOK'
    BY <1>2, <1>3, <1>4, HeapType DEF TypeOK, Consistent
  <1>6. BookkeepingExact'
    BY <1>2, <1>3 DEF BookkeepingExact, Consistent
  <1>7. BackingExact'
    BY <1>2, <1>3, <1>4 DEF BackingExact
  <1>8. HeldKept
    BY <1>3, HeapType DEF HeldKept
  <1>9. image'.epoch > image.epoch /\ image'.epoch # image.epoch
    BY <1>2, <1>3, ImageFieldTypes
  <1> QED
    BY <1>5, <1>6, <1>7, <1>8, <1>9
    DEF GoodStep, Inv, ChangesPublished, VersionAdvanced

\* reset_revision_history is a good step.
LEMMA ResetRevisionHistoryStep ==
    ASSUME Inv, ResetRevisionHistory
    PROVE  GoodStep
  <1>1. image.epoch # MaxEpoch /\ image' = NewEpoch(image)
    BY DEF ResetRevisionHistory
  <1>2. heap' = heap /\ held' = held /\ store' = store
    BY DEF ResetRevisionHistory
  <1>3. Consistent(image')
    BY <1>1, InvConsistent, NewEpochConsistent
  <1>4. /\ image'.storage = image.storage
        /\ image'.backed = image.backed
        /\ image'.generation = image.generation
        /\ image'.epoch = image.epoch + 1
    BY <1>1, ImageFieldTypes, NewEpochFields
  <1>5. VersionAdvanced
    BY <1>4, ImageFieldTypes DEF VersionAdvanced
  <1> QED
    BY <1>2, <1>3, <1>4, <1>5, HeapType, InPlaceIsGood

\* clear_dirty is a good step.
LEMMA ClearDirtyStep ==
    ASSUME Inv, ClearDirty
    PROVE  GoodStep
  <1>1. image' = [image EXCEPT !.dirty = {}] /\ image \in ImageState
    BY ImageFieldTypes DEF ClearDirty
  <1>2. heap' = heap /\ held' = held /\ store' = store
    BY DEF ClearDirty
  <1>3. /\ image'.storage = image.storage
        /\ image'.backed = image.backed
        /\ image'.allocated = image.allocated
        /\ image'.generation = image.generation
        /\ image'.epoch = image.epoch
    BY <1>1 DEF ImageState
  <1>4. /\ image'.revision = image.revision
        /\ image'.tileRev = image.tileRev
        /\ image'.index = image.index
    BY <1>1 DEF ImageState
  <1>5. Consistent(image')
    <2>1. image' \in ImageState
      BY <1>1 DEF ImageState
    <2>2. IndexExact(image') /\ RevisionsDistinct(image') /\ AllocatedExact(image')
      BY <1>3, <1>4, InvConsistent
      DEF IndexExact, RevisionsDistinct, AllocatedExact, Resident, Consistent
    <2> QED
      BY <2>1, <2>2 DEF Consistent
  <1>6. VersionAdvanced
    BY <1>3, <1>4, ImageFieldTypes DEF VersionAdvanced
  <1> QED
    BY <1>2, <1>3, <1>5, <1>6, HeapType, InPlaceIsGood

-----------------------------------------------------------------------------
(* The theorems *)

\* A new image satisfies the invariant.
LEMMA InitInv ==
    ASSUME ImageInit
    PROVE  Inv
  <1>1. image = NewImage
    BY DEF ImageInit
  <1>2. NewImage \in ImageState
    <2>1. /\ [t \in Tile |-> NoStorage] \in [Tile -> Storage \cup {NoStorage}]
          /\ [t \in Tile |-> 0] \in [Tile -> 0..MaxRevision]
          /\ [t \in Tile |-> 0] \in [Tile -> 0..MaxGeneration]
          /\ 1 \in 1..MaxEpoch /\ 0 \in 0..MaxRevision
      BY LimitsAssumption
    <2> QED
      BY <2>1 DEF NewImage, ImageState
  <1>3. BookkeepingExact
    BY <1>1 DEF BookkeepingExact, IndexExact, RevisionsDistinct, AllocatedExact,
                Resident, NewImage
  <1>4. TypeOK
    BY <1>1, <1>2, ClearContentType DEF ImageInit, TypeOK
  <1>5. BackingExact
    BY <1>1 DEF ImageInit, BackingExact, NewImage
  <1> QED
    BY <1>3, <1>4, <1>5 DEF Inv

\* Every operation of an image is a good step.
LEMMA NextIsGood ==
    ASSUME Inv, ImageNext
    PROVE  GoodStep
  <1>1. ASSUME NEW t \in Tile, TileStep(t)
        PROVE  GoodStep
    BY <1>1, ReadPixelStep, WritePixelStep, WriteTileStep, EvictTileStep,
       PinTileStep, ExchangeStep DEF TileStep
  <1>2. ASSUME NEW s \in held, ReleasePin(s)
        PROVE  GoodStep
    BY <1>2, ReleasePinStep
  <1> QED
    BY <1>1, <1>2, ClearStep, ResetRevisionHistoryStep, ClearDirtyStep DEF ImageNext

\* Every step, stuttering included, is a good step.
LEMMA StepIsGood ==
    ASSUME Inv, [ImageNext]_imageVars
    PROVE  GoodStep
  BY NextIsGood, StutterIsGood

\* TypeOK, BookkeepingExact and BackingExact together are inductive.
THEOREM ImageInvariant == ImageSpec => []Inv
  <1>1. ImageInit => Inv
    BY InitInv
  <1>2. Inv /\ [ImageNext]_imageVars => Inv'
    BY StepIsGood DEF GoodStep
  <1> QED
    BY <1>1, <1>2, PTL DEF ImageSpec

\* Every image has its type in every reachable state.
THEOREM ImageTypeCorrect == ImageSpec => []TypeOK
  <1>1. Inv => TypeOK
    BY DEF Inv
  <1> QED
    BY <1>1, ImageInvariant, PTL

\* The delta index, the tile revisions and the allocation list never disagree.
THEOREM BookkeepingStaysExact == ImageSpec => []BookkeepingExact
  <1>1. Inv => BookkeepingExact
    BY DEF Inv
  <1> QED
    BY <1>1, ImageInvariant, PTL

\* The backing store holds the backed tiles and nothing else, each under its
\* current generation and equal to the tile if that is resident.
THEOREM BackingStaysExact == ImageSpec => []BackingExact
  <1>1. Inv => BackingExact
    BY DEF Inv
  <1> QED
    BY <1>1, ImageInvariant, PTL

\* No operation changes bytes another owner retains.
THEOREM HeldStorageNeverChanges == ImageSpec => HeldStorageImmutable
  <1>1. Inv /\ [ImageNext]_imageVars =>
           [\A s \in held \cap held' : heap'[s] = heap[s]]_imageVars
    BY StepIsGood DEF GoodStep, HeldKept
  <1> QED
    BY <1>1, ImageInvariant, PTL DEF ImageSpec, HeldStorageImmutable

\* The bytes of a tile change only in a step that publishes a new version.
THEOREM ChangesAreNeverSilent == ImageSpec => NoSilentChange
  <1>1. Inv /\ [ImageNext]_imageVars =>
           [\A t \in Tile : Bytes(t)' # Bytes(t) =>
               \/ image'.epoch # image.epoch
               \/ image'.tileRev[t] > image.revision]_imageVars
    BY StepIsGood DEF GoodStep, ChangesPublished
  <1> QED
    BY <1>1, ImageInvariant, PTL DEF ImageSpec, NoSilentChange

\* Epoch and revision never move back, and a publication within an epoch
\* increases the generation of its tile.
THEOREM VersionsOnlyAdvance == ImageSpec => VersionsAdvance
  <1>1. Inv /\ [ImageNext]_imageVars =>
           [/\ \/ image'.epoch > image.epoch
               \/ image'.epoch = image.epoch /\ image'.revision >= image.revision
            /\ \A t \in Tile :
                  image'.epoch = image.epoch /\ image'.tileRev[t] # image.tileRev[t]
                     => /\ image'.generation[t] > image.generation[t]
                        /\ image'.tileRev[t] > image.revision]_imageVars
    BY StepIsGood DEF GoodStep, VersionAdvanced
  <1> QED
    BY <1>1, ImageInvariant, PTL DEF ImageSpec, VersionsAdvance
=============================================================================
