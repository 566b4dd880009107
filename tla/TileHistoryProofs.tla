-------------------------- MODULE TileHistoryProofs --------------------------
(***************************************************************************)
(* Proofs about TileHistory for every set of tiles, storages and contents, *)
(* every budget and every limit.                                           *)
(***************************************************************************)
EXTENDS TileHistory, FoldLemmas

MaybeStorage == Storage \cup {NoStorage}

\* An image, its counters unbounded.
Picture ==
    [ storage    : [Tile -> MaybeStorage],
      backed     : SUBSET Tile,
      allocated  : SUBSET Tile,
      dirty      : SUBSET Tile,
      epoch      : Nat,
      revision   : Nat,
      tileRev    : [Tile -> Nat],
      generation : [Tile -> Nat],
      index      : SUBSET [revision : Nat, tile : Tile] ]

Stack == [content : LayerContent, revision : Nat]

\* Functions from some of the tiles.
OnTiles(S) == UNION { [targets -> S] : targets \in SUBSET Tile }

RetainedTile == [storage : MaybeStorage, expected : Nat, kept : Value, seen : Value]

Command == [expected : Nat, kept : LayerContent, seen : LayerContent]

HistoryStepType == [entries : OnTiles(RetainedTile), layer : Command \cup {None}]

CapturedTile == [epoch : Nat, revision : Nat, generation : Nat, storage : MaybeStorage]

Capture == [sequence : Nat, entries : OnTiles(CapturedTile)]

Transaction ==
    [ sequence : Nat, entries : OnTiles(CapturedTile), layers : Stack, image : Picture,
      staged : Stack ]

HistoryTypes ==
    /\ image \in Picture
    /\ heap \in [Storage -> Value]
    /\ backing \in [Tile -> Value]
    /\ layers \in Stack
    /\ undo \in Seq(HistoryStepType) /\ redo \in Seq(HistoryStepType)
    /\ undoBytes \in Nat /\ redoBytes \in Nat /\ budget \in Nat /\ sequence \in Nat
    /\ capture \in Capture \cup {None}
    /\ txn \in Transaction \cup {None}

-----------------------------------------------------------------------------
(* Budget *)

\* The retained steps.
Steps == ToSet(undo) \cup ToSet(redo)

\* Every retained step changes something.
Effective(step) == step.layer # None \/ StepBytes(step) > 0

BudgetInv ==
    /\ undoBytes = TotalBytes(undo)
    /\ redoBytes = TotalBytes(redo)
    /\ undoBytes + redoBytes <= budget
    /\ \A step \in Steps : Effective(step)

-----------------------------------------------------------------------------
(* Captured versions *)

\* While the image has the captured generation of a tile, in the captured
\* epoch or without clears, the tile still has the captured storage.
Synced(e, t, img) ==
    /\ e.epoch <= img.epoch
    /\ e.epoch = img.epoch \/ "clear" \notin Activities =>
          /\ e.generation <= img.generation[t]
          /\ e.generation = img.generation[t] =>
                e.storage = img.storage[t] /\ ~Evicted(img, t)

CaptureSync ==
    capture # None => \A t \in DOMAIN capture.entries : Synced(capture.entries[t], t, image)

\* Staged layers are the captured ones or have a later revision.
StagedAhead(tx) == tx.staged = tx.layers \/ tx.layers.revision < tx.staged.revision

\* A transaction also knows the layers by their revision.
TransactionSync ==
    txn # None => /\ \A t \in DOMAIN txn.entries : Synced(txn.entries[t], t, image)
                  /\ txn.layers.revision <= layers.revision
                  /\ txn.layers.revision = layers.revision => txn.layers = layers
                  /\ StagedAhead(txn)

SyncInv == CaptureSync /\ TransactionSync

-----------------------------------------------------------------------------
(* Ownership *)

HeldInHistory(t) ==
    { step.entries[t].storage : step \in { x \in Steps : t \in Touched(x) } }

HeldInCapture(t) ==
    IF capture = None \/ t \notin DOMAIN capture.entries THEN {}
    ELSE {capture.entries[t].storage}

HeldInTransaction(t) ==
    IF txn = None \/ t \notin DOMAIN txn.entries THEN {}
    ELSE {txn.entries[t].storage}

\* The storages held for a tile, the staged one of a transaction apart.
PublishedFor(t) ==
    {image.storage[t]} \cup HeldInHistory(t) \cup HeldInCapture(t) \cup HeldInTransaction(t)

StagedFor(t) == IF txn = None THEN {} ELSE {txn.image.storage[t]}

HeldFor(t) == PublishedFor(t) \cup StagedFor(t)

\* No two tiles share a storage, and what a transaction wrote is its own.
OwnershipInv ==
    /\ \A t, u \in Tile : t # u => HeldFor(t) \cap HeldFor(u) \subseteq {NoStorage}
    /\ txn # None => \A t \in StagedTargets :
                        txn.image.storage[t] \notin PublishedFor(t) \cup {NoStorage}

-----------------------------------------------------------------------------
(* Retained bytes *)

\* The bytes of a storage and of a tile.
HeldBytes(s, hp) == IF s = NoStorage THEN ClearValue ELSE hp[s]

TileBytes(t, img, hp, bk) == IF Evicted(img, t) THEN bk[t] ELSE HeldBytes(img.storage[t], hp)

\* A tile has not passed the generation an entry expects, and at that
\* generation it has the bytes the entry is to replace.
EntryExact(e, t, img, hp, bk) ==
    /\ HeldBytes(e.storage, hp) = e.kept
    /\ e.expected <= img.generation[t]
    /\ e.expected = img.generation[t] => TileBytes(t, img, hp, bk) = e.seen

LayerExact(c, stack) ==
    /\ c.expected <= stack.revision
    /\ c.expected = stack.revision => stack.content = c.seen

ExactInv ==
    \A step \in Steps :
       /\ \A t \in Touched(step) : EntryExact(step.entries[t], t, image, heap, backing)
       /\ step.layer # None => LayerExact(step.layer, layers)

\* Nobody clears the channels and no reload fails.
Gentle == Activities \cap {"clear", "reload failure"} = {}

-----------------------------------------------------------------------------
(* Images *)

\* A new epoch only moves the revisions.
LEMMA NewEpochPicture ==
    ASSUME NEW img \in Picture
    PROVE  /\ NewEpoch(img) \in Picture
           /\ NewEpoch(img).epoch = img.epoch + 1
           /\ NewEpoch(img).storage = img.storage
           /\ NewEpoch(img).backed = img.backed
           /\ NewEpoch(img).generation = img.generation
<1>1. NewEpoch(img) \in Picture
  <2>1. /\ img.epoch + 1 \in Nat /\ [t \in Tile |-> 0] \in [Tile -> Nat]
        /\ {} \in SUBSET [revision : Nat, tile : Tile]
    BY DEF Picture
  <2> QED BY <2>1 DEF NewEpoch, Picture
<1>2. /\ NewEpoch(img).epoch = img.epoch + 1
      /\ NewEpoch(img).storage = img.storage
      /\ NewEpoch(img).backed = img.backed
      /\ NewEpoch(img).generation = img.generation
  BY DEF NewEpoch, Picture
<1> QED BY <1>1, <1>2

\* What one publication makes of the parts of an image that matter here.
PublishedAs(img, t, s, after) ==
    /\ after \in Picture
    /\ after.storage = [img.storage EXCEPT ![t] = s]
    /\ after.backed = img.backed \ {t}
    /\ after.generation = [img.generation EXCEPT ![t] = @ + 1]
    /\ img.epoch <= after.epoch

\* A publication in the current epoch.
LEMMA PublishNextPicture ==
    ASSUME NEW img \in Picture, NEW t \in Tile, NEW s \in MaybeStorage
    PROVE  PublishedAs(img, t, s, PublishNext(img, t, s))
<1>1. Reindexed(img, t) \in SUBSET [revision : Nat, tile : Tile]
  BY DEF Reindexed, Picture
<1> DEFINE after == PublishNext(img, t, s)
<1>2. after \in Picture
  <2> DEFINE allocated == IF s = NoStorage THEN img.allocated \ {t} ELSE img.allocated \cup {t}
             tileRev == [img.tileRev EXCEPT ![t] = img.revision + 1]
             generation == [img.generation EXCEPT ![t] = @ + 1]
             storage == [img.storage EXCEPT ![t] = s]
  <2>1. /\ storage \in [Tile -> MaybeStorage]
        /\ img.backed \ {t} \in SUBSET Tile /\ allocated \in SUBSET Tile
        /\ img.dirty \cup {t} \in SUBSET Tile
        /\ img.revision + 1 \in Nat
        /\ tileRev \in [Tile -> Nat] /\ generation \in [Tile -> Nat]
    BY DEF Picture
  <2>2. after = [img EXCEPT !.storage = storage, !.backed = img.backed \ {t},
                            !.allocated = allocated, !.dirty = img.dirty \cup {t},
                            !.revision = img.revision + 1, !.tileRev = tileRev,
                            !.generation = generation, !.index = Reindexed(img, t)]
    BY DEF PublishNext, Picture
  <2> HIDE DEF after, storage, allocated, tileRev, generation
  <2> QED BY <1>1, <2>1, <2>2 DEF Picture
<1>3. after.storage = [img.storage EXCEPT ![t] = s] /\ after.backed = img.backed \ {t}
  BY DEF PublishNext, Picture
<1>4. after.generation = [img.generation EXCEPT ![t] = @ + 1]
  BY DEF PublishNext, Picture
<1>5. img.epoch <= after.epoch
  BY DEF PublishNext, Picture
<1> QED BY <1>2, <1>3, <1>4, <1>5 DEF PublishedAs

\* A publication, in a new epoch if it must.
LEMMA PublishPicture ==
    ASSUME NEW img \in Picture, NEW t \in Tile, NEW s \in MaybeStorage
    PROVE  PublishedAs(img, t, s, Publish(img, t, s))
<1>1. CASE RevisionExhausted(img)
  <2>1. PublishedAs(NewEpoch(img), t, s, PublishNext(NewEpoch(img), t, s))
    BY NewEpochPicture, PublishNextPicture
  <2>2. img.epoch \in Nat /\ PublishNext(NewEpoch(img), t, s).epoch \in Nat
    BY <2>1 DEF PublishedAs, Picture
  <2> QED BY <1>1, <2>1, <2>2, NewEpochPicture DEF PublishedAs, Publish
<1>2. CASE ~RevisionExhausted(img)
  BY <1>2, PublishNextPicture DEF Publish
<1> QED BY <1>1, <1>2

\* clear() leaves no storage and a later epoch.
LEMMA ClearedPicture ==
    ASSUME NEW img \in Picture
    PROVE  /\ Cleared(img) \in Picture
           /\ Cleared(img).epoch = img.epoch + 1
           /\ Cleared(img).storage = [t \in Tile |-> NoStorage]
<1> DEFINE bare == [img EXCEPT !.storage    = [t \in Tile |-> NoStorage],
                               !.backed     = {},
                               !.allocated  = {},
                               !.dirty      = {},
                               !.generation = [t \in Tile |-> 0]]
<1>1. bare \in Picture /\ bare.epoch = img.epoch /\ bare.storage = [t \in Tile |-> NoStorage]
  BY DEF Picture, MaybeStorage
<1> HIDE DEF bare
<1>2. Cleared(img) = NewEpoch(bare)
  BY DEF Cleared, bare
<1> QED BY <1>1, <1>2, NewEpochPicture

\* An eviction moves a tile to the backing store.
LEMMA UnloadedPicture ==
    ASSUME NEW img \in Picture, NEW t \in Tile
    PROVE  /\ Unloaded(img, t) \in Picture
           /\ Unloaded(img, t).storage = [img.storage EXCEPT ![t] = NoStorage]
           /\ Unloaded(img, t).backed = img.backed \cup {t}
           /\ Unloaded(img, t).generation = img.generation
           /\ Unloaded(img, t).epoch = img.epoch
BY DEF Unloaded, Picture, MaybeStorage

\* The image once the evicted ones of some tiles got the storages f: they are
\* free and distinct, and nothing else changed.
ReloadedAs(tiles, f) ==
    /\ DOMAIN f = { t \in tiles : Evicted(image, t) }
    /\ \A t \in DOMAIN f : f[t] \in Free /\ f[t] \in Storage
    /\ \A t, u \in DOMAIN f : t # u => f[t] # f[u]
    /\ WithReloads(f) \in Picture
    /\ \A t \in Tile : WithReloads(f).storage[t]
                        = IF t \in DOMAIN f THEN f[t] ELSE image.storage[t]
    /\ WithReloads(f).backed = image.backed
    /\ WithReloads(f).generation = image.generation
    /\ WithReloads(f).epoch = image.epoch
    /\ \A t \in tiles : ~Evicted(WithReloads(f), t)

\* Reloads fill evicted tiles and change nothing else.
LEMMA ReloadedPicture ==
    ASSUME image \in Picture, NEW tiles \in SUBSET Tile, NEW f \in Reloads(tiles)
    PROVE  ReloadedAs(tiles, f)
<1>1. f \in [{ t \in tiles : Evicted(image, t) } -> Free] /\ IsInjective(f)
  BY DEF Reloads
<1>2. Free \subseteq Storage
  BY DEF Free
<1>3. \A t, u \in DOMAIN f : t # u => f[t] # f[u]
  BY <1>1 DEF IsInjective
<1> DEFINE st == [t \in Tile |-> IF t \in DOMAIN f THEN f[t] ELSE image.storage[t]]
<1>4. st \in [Tile -> MaybeStorage]
  BY <1>1, <1>2 DEF Picture, MaybeStorage
<1>5. WithReloads(f) = [image EXCEPT !.storage = st]
  BY DEF WithReloads
<1>6. /\ WithReloads(f) \in Picture
      /\ WithReloads(f).storage = st
      /\ WithReloads(f).backed = image.backed
      /\ WithReloads(f).generation = image.generation
      /\ WithReloads(f).epoch = image.epoch
  <2> HIDE DEF st
  <2> QED BY <1>4, <1>5 DEF Picture
<1>7. \A t \in tiles : ~Evicted(WithReloads(f), t)
  <2> SUFFICES ASSUME NEW t \in tiles, Evicted(WithReloads(f), t) PROVE FALSE
    OBVIOUS
  <2>1. st[t] = NoStorage /\ t \in image.backed
    BY <1>6 DEF Evicted, Resident
  <2>2. CASE t \in DOMAIN f
    BY <1>1, <1>2, <2>1, <2>2, StorageAssumption
  <2>3. CASE t \notin DOMAIN f
    BY <1>1, <2>1, <2>3 DEF Evicted, Resident
  <2> QED BY <2>2, <2>3
<1> QED BY <1>1, <1>2, <1>3, <1>6, <1>7 DEF ReloadedAs

\* What exchanging the tiles in done makes of an image: a tile whose storage
\* is another one is published with it, once.
ExchangedAs(img, replacement, done, after) ==
    /\ after \in Picture
    /\ \A t \in Tile : after.storage[t] = IF t \in done THEN replacement[t] ELSE img.storage[t]
    /\ \A t \in Tile : after.generation[t] =
          IF t \in done /\ img.storage[t] # replacement[t]
            THEN img.generation[t] + 1 ELSE img.generation[t]
    /\ after.backed = img.backed \ { t \in done : img.storage[t] # replacement[t] }
    /\ img.epoch <= after.epoch

\* One exchange more.
LEMMA ExchangeOne ==
    ASSUME NEW img \in Picture, NEW D \in SUBSET Tile, NEW replacement \in [D -> MaybeStorage],
           NEW T \in SUBSET D, NEW t \in T, NEW mid, ExchangedAs(img, replacement, T \ {t}, mid)
    PROVE  ExchangedAs(img, replacement, T, Exchanged(mid, t, replacement[t]))
<1> DEFINE s == replacement[t]
           after == Exchanged(mid, t, s)
<1>1. /\ mid \in Picture /\ t \in Tile /\ s \in MaybeStorage
      /\ mid.storage[t] = img.storage[t] /\ mid.generation[t] = img.generation[t]
  BY DEF ExchangedAs
<1>2. CASE mid.storage[t] = s
  <2>1. after = mid
    BY <1>2 DEF Exchanged
  <2>2. img.storage[t] = replacement[t]
    BY <1>1, <1>2
  <2>3. { u \in T : img.storage[u] # replacement[u] }
          = { u \in T \ {t} : img.storage[u] # replacement[u] }
    BY <2>2
  <2>4. \A u \in Tile : mid.storage[u] = IF u \in T THEN replacement[u] ELSE img.storage[u]
    BY <1>2 DEF ExchangedAs
  <2>5. \A u \in Tile : mid.generation[u] =
          IF u \in T /\ img.storage[u] # replacement[u]
            THEN img.generation[u] + 1 ELSE img.generation[u]
    BY <1>1, <2>2 DEF ExchangedAs
  <2> QED BY <2>1, <2>3, <2>4, <2>5 DEF ExchangedAs
<1>3. CASE mid.storage[t] # s
  <2>1. PublishedAs(mid, t, s, after)
    BY <1>1, <1>3, PublishPicture DEF Exchanged
  <2>2. img.storage[t] # replacement[t]
    BY <1>1, <1>3
  <2>3. /\ after \in Picture /\ after.storage = [mid.storage EXCEPT ![t] = s]
        /\ after.backed = mid.backed \ {t}
        /\ after.generation = [mid.generation EXCEPT ![t] = @ + 1]
        /\ mid.epoch <= after.epoch
    BY <2>1 DEF PublishedAs
  <2>4. /\ mid.storage \in [Tile -> MaybeStorage] /\ mid.generation \in [Tile -> Nat]
        /\ mid.epoch \in Nat /\ img.epoch \in Nat /\ after.epoch \in Nat
    BY <1>1, <2>3 DEF Picture
  <2> HIDE DEF after
  <2>5. after.backed = img.backed \ { u \in T : img.storage[u] # replacement[u] }
    BY <2>2, <2>3 DEF ExchangedAs
  <2>6. \A u \in Tile : after.storage[u] = IF u \in T THEN replacement[u] ELSE img.storage[u]
    BY <2>3, <2>4 DEF ExchangedAs
  <2>7. \A u \in Tile : after.generation[u] =
          IF u \in T /\ img.storage[u] # replacement[u]
            THEN img.generation[u] + 1 ELSE img.generation[u]
    BY <1>1, <2>2, <2>3, <2>4 DEF ExchangedAs
  <2>8. img.epoch <= after.epoch
    BY <2>3, <2>4 DEF ExchangedAs
  <2> QED BY <2>3, <2>5, <2>6, <2>7, <2>8 DEF ExchangedAs, after
<1> QED BY <1>2, <1>3

\* All of them.
LEMMA ExchangeEffect ==
    ASSUME NEW img \in Picture, NEW D \in SUBSET Tile, NEW replacement \in [D -> MaybeStorage]
    PROVE  ExchangedAs(img, replacement, D, ExchangedAll(img, replacement))
<1> DEFINE first(T) == CHOOSE x \in T : TRUE
           Unfolds(h) == h = [T \in SUBSET D |->
                                IF T = {} THEN img
                                ELSE Exchanged(h[T \ {first(T)}], first(T), replacement[first(T)])]
           chosen == CHOOSE h : Unfolds(h)
           pick == [T \in SUBSET D |-> first(T)]
           step == [x \in D \X Picture |-> Exchanged(x[2], x[1], replacement[x[1]])]
<1>1. ExchangedAll(img, replacement) = chosen[D]
  <2>1. DOMAIN replacement = D
    OBVIOUS
  <2> QED BY <2>1 DEF ExchangedAll, FoldSet, MapThenFoldSet
<1>2. IsFiniteSet(D)
  BY HistoryAssumption, FS_Subset
<1>3. Picks(pick, D) /\ \A T \in SUBSET D : T # {} => first(T) \in T
  BY DEF Picks
<1>4. step \in [D \X Picture -> Picture]
  <2>1. \A mid \in Picture, t \in D : Exchanged(mid, t, replacement[t]) \in Picture
    BY PublishPicture DEF Exchanged, PublishedAs
  <2> QED BY <2>1
<1>5. Unfolds(chosen)
  <2>1. PICK g \in [SUBSET D -> Picture] : UnfoldsTo(g, D, img, pick, step)
    <3> HIDE DEF pick, step
    <3> QED BY <1>2, <1>3, <1>4, RecursionOverSubsets
  <2> DEFINE G == [T \in SUBSET D |->
                     IF T = {} THEN img
                     ELSE Exchanged(g[T \ {first(T)}], first(T), replacement[first(T)])]
  <2>2. ASSUME NEW T \in SUBSET D, T # {}
        PROVE  /\ step[<<pick[T], g[T \ {pick[T]}]>>]
                    = Exchanged(g[T \ {first(T)}], first(T), replacement[first(T)])
    <3>1. pick[T] = first(T) /\ first(T) \in D /\ g[T \ {first(T)}] \in Picture
      BY <1>3, <2>2
    <3> HIDE DEF pick, first
    <3> QED BY <3>1
  <2>3. G \in [SUBSET D -> Picture] /\ \A T \in SUBSET D : g[T] = G[T]
    <3> HIDE DEF pick, first, step
    <3> QED BY <2>1, <2>2 DEF UnfoldsTo
  <2>4. g = G
    <3> HIDE DEF G
    <3> QED BY <2>3
  <2>5. \E h : Unfolds(h)
    BY <2>4
  <2> HIDE DEF Unfolds
  <2> QED BY <2>5
<1> DEFINE Done == { T \in SUBSET D : ExchangedAs(img, replacement, T, chosen[T]) }
<1>6. {} \in Done
  <2>1. chosen[{}] = img
    <3> HIDE DEF chosen
    <3> QED BY <1>5
  <2>2. img.epoch \in Nat
    BY DEF Picture
  <2> HIDE DEF chosen
  <2> QED BY <2>1, <2>2 DEF ExchangedAs
<1>7. ASSUME NEW T \in SUBSET D, \A x \in T : T \ {x} \in Done
      PROVE  T \in Done
  <2>1. CASE T = {}
    BY <1>6, <2>1
  <2>2. CASE T # {}
    <3>1. first(T) \in T
      BY <2>2
    <3>2. chosen[T] = Exchanged(chosen[T \ {first(T)}], first(T), replacement[first(T)])
      <4> HIDE DEF chosen
      <4> QED BY <1>5, <2>2
    <3>3. ExchangedAs(img, replacement, T \ {first(T)}, chosen[T \ {first(T)}])
      <4> HIDE DEF chosen, first
      <4> QED BY <1>7, <3>1
    <3> HIDE DEF chosen, first
    <3> QED BY <3>1, <3>2, <3>3, ExchangeOne
  <2> QED BY <2>1, <2>2
<1>8. SUBSET D \subseteq Done
  <2> HIDE DEF Done
  <2> QED BY <1>2, <1>7, SubsetInduction
<1> QED BY <1>1, <1>8

-----------------------------------------------------------------------------
(* Bytes of steps *)

\* The tiles of a step are finitely many.
LEMMA StepBytesIsNumber ==
    ASSUME NEW step \in HistoryStepType
    PROVE  /\ Touched(step) \in SUBSET Tile
           /\ step.entries \in [Touched(step) -> RetainedTile]
           /\ StepBytes(step) \in Nat
<1>1. Touched(step) \in SUBSET Tile /\ step.entries \in [Touched(step) -> RetainedTile]
  BY DEF HistoryStepType, OnTiles, Touched
<1>2. IsFiniteSet(Touched(step))
  BY <1>1, HistoryAssumption, FS_Subset
<1> QED BY <1>1, <1>2, FS_CardinalityType DEF StepBytes, Touched

BytesOf(steps) == [i \in DOMAIN steps |-> StepBytes(steps[i])]

\* The bytes of a stack of steps add up one by one.
LEMMA BytesAddUp ==
    ASSUME NEW steps \in Seq(HistoryStepType)
    PROVE  \E p : RunsUp(p, BytesOf(steps), Len(steps)) /\ TotalBytes(steps) = p[Len(steps)]
<1> DEFINE n == Len(steps)
           v == BytesOf(steps)
           Adds(h) == h = [d \in SUBSET DOMAIN steps |->
                              IF d = {} THEN 0
                              ELSE h[d \ {Max(d)}] + StepBytes(steps[Max(d)])]
           chosen == CHOOSE h : Adds(h)
<1>1. TotalBytes(steps) = chosen[DOMAIN steps]
  BY DEF TotalBytes, FoldLeft, MapThenFoldSet
<1>2. n \in Nat /\ DOMAIN steps = 1 .. n /\ v \in [1 .. n -> Nat]
  BY StepBytesIsNumber DEF BytesOf
<1>3. \A d \in SUBSET (1 .. n) : d # {} => v[Max(d)] = StepBytes(steps[Max(d)])
  BY <1>2, LargestIndex DEF BytesOf
<1>4. \A g : Adds(g) <=> AddsUp(g, v, n)
  <2> HIDE DEF v, n
  <2> QED BY <1>2, <1>3 DEF AddsUp
<1>5. AddsUp(chosen, v, n)
  <2>1. \E g : Adds(g)
    <3> HIDE DEF v, n, Adds
    <3> QED BY <1>2, <1>4, SumExists
  <2> HIDE DEF Adds, v, n
  <2> QED BY <1>4, <2>1
<1>6. PICK p : RunsUp(p, v, n) /\ chosen[1 .. n] = p[n]
  <2> HIDE DEF v, n, chosen
  <2> QED BY <1>2, <1>5, SumAlongPrefixes
<1> QED BY <1>1, <1>2, <1>6

\* The bytes of the oldest steps, and of the others.
LEMMA BytesOfParts ==
    ASSUME NEW steps \in Seq(HistoryStepType), NEW k \in 0 .. Len(steps)
    PROVE  /\ TotalBytes(steps) \in Nat
           /\ TotalBytes(SubSeq(steps, 1, k)) \in Nat
           /\ TotalBytes(SubSeq(steps, k + 1, Len(steps)))
                 = TotalBytes(steps) - TotalBytes(SubSeq(steps, 1, k))
           /\ k = 0 => TotalBytes(SubSeq(steps, 1, k)) = 0
           /\ k = Len(steps) => TotalBytes(SubSeq(steps, 1, k)) = TotalBytes(steps)
<1> DEFINE n == Len(steps)
           old == SubSeq(steps, 1, k)
           rest == SubSeq(steps, k + 1, n)
<1>1. /\ n \in Nat /\ k \in 0 .. n /\ DOMAIN steps = 1 .. n
      /\ old \in Seq(HistoryStepType) /\ Len(old) = k
      /\ \A i \in 1 .. k : i \in DOMAIN steps /\ old[i] = steps[i]
      /\ rest \in Seq(HistoryStepType) /\ Len(rest) = n - k
      /\ \A i \in 1 .. n - k : k + i \in DOMAIN steps /\ rest[i] = steps[k + i]
  OBVIOUS
<1>2. DOMAIN old = 1 .. k /\ DOMAIN rest = 1 .. n - k
  <2> HIDE DEF old, rest
  <2> QED BY <1>1
<1> HIDE DEF old, rest, n
<1>3. PICK p : RunsUp(p, BytesOf(steps), n) /\ TotalBytes(steps) = p[n]
  BY BytesAddUp DEF n
<1>4. PICK q : RunsUp(q, BytesOf(old), k) /\ TotalBytes(old) = q[k]
  BY <1>1, BytesAddUp
<1>5. PICK r : RunsUp(r, BytesOf(rest), n - k) /\ TotalBytes(rest) = r[n - k]
  BY <1>1, BytesAddUp
<1>6. /\ \A i \in 1 .. k : BytesOf(old)[i] = BytesOf(steps)[i]
      /\ \A i \in 1 .. n - k : BytesOf(rest)[i] = BytesOf(steps)[k + i]
  BY <1>1, <1>2 DEF BytesOf
<1>7. q[k] = p[k]
  <2>1. RunsUp(p, BytesOf(steps), k)
    BY <1>1, <1>3 DEF RunsUp
  <2>2. k \in 0 .. k /\ k \in Nat
    BY <1>1
  <2> QED BY <1>4, <1>6, <2>1, <2>2, SumsAgree
<1>8. r[n - k] = p[n] - p[k]
  <2> DEFINE m == n - k
  <2>1. m \in Nat /\ k \in Nat /\ n = k + m /\ m \in 0 .. m
    BY <1>1
  <2>2. RunsUp(r, BytesOf(rest), m) /\ Follows(BytesOf(rest), BytesOf(steps), k, m)
    BY <1>5, <1>6 DEF Follows
  <2> HIDE DEF m
  <2>3. \A i \in 0 .. m : r[i] = p[k + i] - p[k]
    BY <1>1, <1>3, <2>1, <2>2, SumOfRest
  <2>4. r[m] = p[n] - p[k]
    BY <2>1, <2>3
  <2> QED BY <2>4 DEF m
<1>9. p[n] \in Nat /\ p[k] \in Nat /\ p[0] = 0
  BY <1>1, <1>3 DEF RunsUp
<1> QED BY <1>3, <1>4, <1>5, <1>7, <1>8, <1>9 DEF n, old, rest

\* A step more, and the newest step less.
LEMMA BytesOfStacks ==
    /\ TotalBytes(<<>>) = 0
    /\ \A steps \in Seq(HistoryStepType), step \in HistoryStepType :
          TotalBytes(Append(steps, step)) = TotalBytes(steps) + StepBytes(step)
    /\ \A steps \in Seq(HistoryStepType) : steps # <<>> =>
          TotalBytes(Front(steps)) = TotalBytes(steps) - StepBytes(Last(steps))
<1>1. TotalBytes(<<>>) = 0
  <2>1. <<>> \in Seq(HistoryStepType) /\ Len(<<>>) = 0
    OBVIOUS
  <2> QED BY <2>1, BytesAddUp DEF RunsUp
<1>2. ASSUME NEW steps \in Seq(HistoryStepType), NEW step \in HistoryStepType
      PROVE  TotalBytes(Append(steps, step)) = TotalBytes(steps) + StepBytes(step)
  <2> DEFINE more == Append(steps, step)
             n == Len(steps)
  <2>1. /\ more \in Seq(HistoryStepType) /\ n \in Nat /\ Len(more) = n + 1
        /\ more[n + 1] = step
        /\ DOMAIN steps = 1 .. n /\ DOMAIN more = 1 .. n + 1
        /\ \A i \in 1 .. n : more[i] = steps[i]
    OBVIOUS
  <2> HIDE DEF more
  <2>2. PICK p : RunsUp(p, BytesOf(steps), n) /\ TotalBytes(steps) = p[n]
    BY BytesAddUp
  <2> HIDE DEF n
  <2>3. PICK q : RunsUp(q, BytesOf(more), n + 1) /\ TotalBytes(more) = q[n + 1]
    BY <2>1, BytesAddUp
  <2>4. /\ BytesOf(more)[n + 1] = StepBytes(step)
        /\ \A i \in 1 .. n : BytesOf(steps)[i] = BytesOf(more)[i]
    BY <2>1 DEF BytesOf
  <2>5. RunsUp(q, BytesOf(more), n) /\ q[n + 1] = q[n] + StepBytes(step)
    <3>1. n + 1 \in 1 .. n + 1 /\ (n + 1) - 1 = n
      BY <2>1
    <3> QED BY <2>1, <2>3, <2>4, <3>1 DEF RunsUp
  <2>6. p[n] = q[n]
    <3>1. n \in 0 .. n
      BY <2>1
    <3> QED BY <2>1, <2>2, <2>4, <2>5, <3>1, SumsAgree
  <2>7. TotalBytes(more) = TotalBytes(steps) + StepBytes(step)
    BY <2>2, <2>3, <2>5, <2>6
  <2> QED BY <2>7 DEF more
<1>3. ASSUME NEW steps \in Seq(HistoryStepType), steps # <<>>
      PROVE  TotalBytes(Front(steps)) = TotalBytes(steps) - StepBytes(Last(steps))
  <2>1. Front(steps) \in Seq(HistoryStepType) /\ Last(steps) \in HistoryStepType
    BY <1>3 DEF Front, Last
  <2>2. steps = Append(Front(steps), Last(steps))
    BY <1>3 DEF Front, Last
  <2>3. TotalBytes(steps) = TotalBytes(Front(steps)) + StepBytes(Last(steps))
    BY <1>2, <2>1, <2>2
  <2>4. TotalBytes(Front(steps)) \in Nat /\ StepBytes(Last(steps)) \in Nat
    BY <2>1, BytesAddUp, StepBytesIsNumber DEF RunsUp
  <2> QED BY <2>3, <2>4
<1> QED BY <1>1, <1>2, <1>3

-----------------------------------------------------------------------------
(* Stacks of steps *)

\* The steps on a stack after it grew, shrank or lost its oldest.
LEMMA StackSets ==
    ASSUME NEW S, NEW s \in Seq(S)
    PROVE  /\ ToSet(s) \subseteq S
           /\ \A x \in S : /\ Append(s, x) \in Seq(S)
                           /\ ToSet(Append(s, x)) = ToSet(s) \cup {x}
           /\ s # <<>> => /\ Front(s) \in Seq(S) /\ Last(s) \in S
                          /\ Last(s) \in ToSet(s) /\ ToSet(Front(s)) \subseteq ToSet(s)
           /\ \A t \in Seq(S) : s \o t \in Seq(S) /\ ToSet(s \o t) = ToSet(s) \cup ToSet(t)
           /\ \A k \in 0 .. Len(s) : /\ SubSeq(s, k + 1, Len(s)) \in Seq(S)
                                     /\ ToSet(SubSeq(s, k + 1, Len(s))) \subseteq ToSet(s)
<1>1. ToSet(s) \subseteq S
  BY DEF ToSet
<1>2. ASSUME NEW x \in S
      PROVE  Append(s, x) \in Seq(S) /\ ToSet(Append(s, x)) = ToSet(s) \cup {x}
  <2>1. /\ Append(s, x) \in Seq(S) /\ Len(s) \in Nat
        /\ DOMAIN s = 1 .. Len(s) /\ DOMAIN Append(s, x) = 1 .. Len(s) + 1
        /\ Append(s, x)[Len(s) + 1] = x
        /\ \A i \in 1 .. Len(s) : Append(s, x)[i] = s[i]
    OBVIOUS
  <2> DEFINE more == Append(s, x)
  <2> HIDE DEF more
  <2>2. \A i \in DOMAIN more : i \in DOMAIN s \/ i = Len(s) + 1
    BY <2>1 DEF more
  <2>3. \A y \in ToSet(more) : y \in ToSet(s) \cup {x}
    BY <2>1, <2>2 DEF ToSet, more
  <2>4. \A y \in ToSet(s) \cup {x} : y \in ToSet(more)
    BY <2>1 DEF ToSet, more
  <2> QED BY <2>1, <2>3, <2>4 DEF more
<1>3. ASSUME s # <<>>
      PROVE  /\ Front(s) \in Seq(S) /\ Last(s) \in S
             /\ Last(s) \in ToSet(s) /\ ToSet(Front(s)) \subseteq ToSet(s)
  BY <1>3 DEF Front, Last, ToSet
<1>4. ASSUME NEW t \in Seq(S)
      PROVE  s \o t \in Seq(S) /\ ToSet(s \o t) = ToSet(s) \cup ToSet(t)
  <2>1. s \o t \in Seq(S) /\ ToSet(s \o t) \subseteq ToSet(s) \cup ToSet(t)
    BY DEF ToSet
  <2>2. ToSet(s) \subseteq ToSet(s \o t)
    BY DEF ToSet
  <2>3. ASSUME NEW i \in DOMAIN t
        PROVE  t[i] \in ToSet(s \o t)
    <3>1. Len(s) + i \in DOMAIN (s \o t) /\ (s \o t)[Len(s) + i] = t[i]
      OBVIOUS
    <3> QED BY <3>1 DEF ToSet
  <2> QED BY <2>1, <2>2, <2>3 DEF ToSet
<1>5. ASSUME NEW k \in 0 .. Len(s)
      PROVE  /\ SubSeq(s, k + 1, Len(s)) \in Seq(S)
             /\ ToSet(SubSeq(s, k + 1, Len(s))) \subseteq ToSet(s)
  BY DEF ToSet
<1> QED BY <1>1, <1>2, <1>3, <1>4, <1>5

\* A storage someone holds, by what the owners are.
Owns(img, steps, cap, tx, s) ==
    \/ \E t \in Tile : img.storage[t] = s
    \/ \E step \in steps : \E t \in Touched(step) : step.entries[t].storage = s
    \/ cap # None /\ \E t \in DOMAIN cap.entries : cap.entries[t].storage = s
    \/ tx # None /\ \/ \E t \in DOMAIN tx.entries : tx.entries[t].storage = s
                    \/ \E t \in Tile : tx.image.storage[t] = s

\* The steps of a stack own what their entries hold.
LEMMA EntriesHold ==
    ASSUME NEW steps, NEW s
    PROVE  s \in { e.storage : e \in EntriesOf(steps) } <=>
              \E step \in ToSet(steps) : \E t \in Touched(step) : step.entries[t].storage = s
BY DEF EntriesOf, ToSet, Touched

\* The owners of a state.
LEMMA OwnersAre ==
    ASSUME NEW img, NEW steps, NEW cap, NEW tx, NEW s
    PROVE  s \in Owners(img, steps, cap, tx) <=>
              s # NoStorage /\ Owns(img, ToSet(steps), cap, tx, s)
<1>1. s \in StoragesIn(img) <=> \E t \in Tile : img.storage[t] = s
  BY DEF StoragesIn
<1>2. cap # None => ( s \in CapturedStorages(cap) <=>
                        \E t \in DOMAIN cap.entries : cap.entries[t].storage = s )
  BY DEF CapturedStorages
<1>3. tx # None => ( s \in CapturedStorages(tx) \cup StoragesIn(tx.image) <=>
                        \/ \E t \in DOMAIN tx.entries : tx.entries[t].storage = s
                        \/ \E t \in Tile : tx.image.storage[t] = s )
  BY DEF CapturedStorages, StoragesIn
<1>4. s \in Owners(img, steps, cap, tx) <=>
        /\ s # NoStorage
        /\ \/ s \in StoragesIn(img)
           \/ s \in { e.storage : e \in EntriesOf(steps) }
           \/ cap # None /\ s \in CapturedStorages(cap)
           \/ tx # None /\ s \in CapturedStorages(tx) \cup StoragesIn(tx.image)
  BY DEF Owners
<1>5. s \in { e.storage : e \in EntriesOf(steps) } <=>
        \E step \in ToSet(steps) : \E t \in Touched(step) : step.entries[t].storage = s
  BY EntriesHold
<1> QED BY <1>1, <1>2, <1>3, <1>4, <1>5, Zenon DEF Owns

\* Sweeping leaves alone what is owned and keeps heaps heaps.
LEMMA SweptHeap ==
    ASSUME NEW hp \in [Storage -> Value], NEW img, NEW steps, NEW cap, NEW tx
    PROVE  /\ Swept(hp, img, steps, cap, tx) \in [Storage -> Value]
           /\ \A s \in Storage : Owns(img, ToSet(steps), cap, tx, s) =>
                 Swept(hp, img, steps, cap, tx)[s] = hp[s]
<1>1. \A s \in Storage : s # NoStorage
  BY StorageAssumption
<1>2. \A s \in Storage : Owns(img, ToSet(steps), cap, tx, s) => s \in Owners(img, steps, cap, tx)
  BY <1>1, OwnersAre
<1> QED BY <1>2, HistoryAssumption DEF Swept

-----------------------------------------------------------------------------
(* What actions do to images, heaps and stacks *)

\* The storages no one holds.
LEMMA FreeIs ==
    ASSUME HistoryTypes
    PROVE  /\ ToSet(undo \o redo) = Steps
           /\ \A s : s \in Free <=> s \in Storage /\ ~Owns(image, Steps, capture, txn, s)
<1>1. ToSet(undo \o redo) = Steps
  BY StackSets DEF HistoryTypes, Steps
<1>2. \A s : s \in Owners(image, undo \o redo, capture, txn) <=>
               s # NoStorage /\ Owns(image, Steps, capture, txn, s)
  BY <1>1, OwnersAre
<1> QED BY <1>1, <1>2, StorageAssumption DEF Free

\* The bytes of tiles and captures are contents.
LEMMA BytesAreValues ==
    ASSUME HistoryTypes
    PROVE  /\ \A t \in Tile : Bytes(t) \in Value
           /\ \A s \in MaybeStorage : BytesIn(s) \in Value
BY HistoryAssumption DEF HistoryTypes, Bytes, BytesIn, Picture, MaybeStorage

\* Reloading fills free storages with the backed bytes.
LEMMA ReloadedHeap ==
    ASSUME HistoryTypes, NEW tiles \in SUBSET Tile, NEW f \in Reloads(tiles)
    PROVE  /\ HeapWith(f) \in [Storage -> Value]
           /\ \A s \in Storage : s \notin Free => HeapWith(f)[s] = heap[s]
           /\ \A t \in DOMAIN f : HeapWith(f)[f[t]] = backing[t]
<1>1. /\ DOMAIN f \in SUBSET Tile
      /\ \A t \in DOMAIN f : f[t] \in Free /\ f[t] \in Storage
      /\ \A t, u \in DOMAIN f : t # u => f[t] # f[u]
  <2>1. image \in Picture
    BY DEF HistoryTypes
  <2>2. ReloadedAs(tiles, f)
    BY <2>1, ReloadedPicture
  <2> QED BY <2>2 DEF ReloadedAs
<1>2. ASSUME NEW s \in Storage
      PROVE  HeapWith(f)[s] \in Value /\ (s \notin Free => HeapWith(f)[s] = heap[s])
  <2>1. HeapWith(f)[s] = IF \E t \in DOMAIN f : f[t] = s
                           THEN backing[CHOOSE t \in DOMAIN f : f[t] = s] ELSE heap[s]
    BY DEF HeapWith
  <2>2. heap[s] \in Value
    BY DEF HistoryTypes
  <2>3. CASE \E t \in DOMAIN f : f[t] = s
    <3>1. (CHOOSE t \in DOMAIN f : f[t] = s) \in Tile
      BY <1>1, <2>3
    <3>2. backing \in [Tile -> Value]
      BY DEF HistoryTypes
    <3> QED BY <1>1, <2>1, <2>3, <3>1, <3>2
  <2> QED BY <2>1, <2>2, <2>3
<1>3. ASSUME NEW t \in DOMAIN f
      PROVE  HeapWith(f)[f[t]] = backing[t]
  <2>1. (CHOOSE u \in DOMAIN f : f[u] = f[t]) = t
    BY <1>1
  <2>2. f[t] \in Storage
    BY <1>1
  <2> QED BY <2>1, <2>2 DEF HeapWith
<1>4. HeapWith(f) = [s \in Storage |-> HeapWith(f)[s]]
  BY DEF HeapWith
<1> QED BY <1>2, <1>3, <1>4

\* A write goes to the tile's own storage or to a free one.
LEMMA WriteTargetsAre ==
    ASSUME HistoryTypes, NEW img \in Picture, NEW t \in Tile, NEW others,
           NEW s \in WriteTargets(img, t, others)
    PROVE  /\ s \in Storage
           /\ s \in Free \/ (s = img.storage[t] /\ s \notin others)
BY FreeIs DEF WriteTargets, Resident, Picture, MaybeStorage

\* A capture takes the versions of its targets.
LEMMA CaptureTakes ==
    ASSUME sequence \in Nat, NEW img \in Picture, NEW targets \in SUBSET Tile
    PROVE  /\ CaptureOf(img, targets) \in Capture
           /\ CaptureOf(img, targets).entries \in [targets -> CapturedTile]
           /\ DOMAIN CaptureOf(img, targets).entries = targets
           /\ \A t \in targets :
                 LET e == CaptureOf(img, targets).entries[t]
                 IN /\ e.epoch = img.epoch /\ e.generation = img.generation[t]
                    /\ e.storage = img.storage[t]
<1> DEFINE entries == CaptureOf(img, targets).entries
<1>1. \A t \in targets : /\ img.epoch \in Nat /\ img.tileRev[t] \in Nat
                         /\ img.generation[t] \in Nat /\ img.storage[t] \in MaybeStorage
  BY DEF Picture
<1>2. entries \in [targets -> CapturedTile]
  BY <1>1 DEF CaptureOf, CapturedTile
<1>3. entries \in OnTiles(CapturedTile)
  BY <1>2 DEF OnTiles
<1>4. CaptureOf(img, targets) = [sequence |-> sequence, entries |-> entries]
  BY DEF CaptureOf
<1>5. CaptureOf(img, targets) \in Capture
  <2> HIDE DEF entries
  <2> QED BY <1>3, <1>4 DEF Capture
<1> QED BY <1>2, <1>5 DEF CaptureOf

\* What an open capture and an open transaction hold.
LEMMA OpenTypes ==
    ASSUME HistoryTypes
    PROVE  /\ capture # None => /\ DOMAIN capture.entries \in SUBSET Tile
                                /\ capture.entries \in [DOMAIN capture.entries -> CapturedTile]
           /\ txn # None => /\ txn \in Transaction
                            /\ DOMAIN txn.entries \in SUBSET Tile
                            /\ txn.entries \in [DOMAIN txn.entries -> CapturedTile]
BY DEF HistoryTypes, Capture, Transaction, OnTiles

\* One step more on a stack.
LEMMA AppendedSteps ==
    \A steps \in Seq(HistoryStepType), step \in HistoryStepType :
        /\ Append(steps, step) \in Seq(HistoryStepType)
        /\ ToSet(Append(steps, step)) = ToSet(steps) \cup {step}
<1> TAKE steps \in Seq(HistoryStepType), step \in HistoryStepType
<1>1. \A x \in HistoryStepType : /\ Append(steps, x) \in Seq(HistoryStepType)
                                 /\ ToSet(Append(steps, x)) = ToSet(steps) \cup {x}
  BY StackSets
<1> QED BY <1>1

\* A step that fits the budget is pushed, the oldest making room.
LEMMA PushEffect ==
    ASSUME HistoryTypes, BudgetInv, NEW step \in HistoryStepType, StepBytes(step) <= budget
    PROVE  /\ \E k \in 0 .. Len(undo) :
                 Pushed(step) = Append(SubSeq(undo, k + 1, Len(undo)), step)
           /\ Pushed(step) \in Seq(HistoryStepType)
           /\ step \in ToSet(Pushed(step)) /\ ToSet(Pushed(step)) \subseteq ToSet(undo) \cup {step}
           /\ undoBytes - Discharged(step) + StepBytes(step) = TotalBytes(Pushed(step))
           /\ TotalBytes(Pushed(step)) \in 0 .. budget
<1> DEFINE k == Discarded(step)
           Fits(j) == undoBytes - TotalBytes(SubSeq(undo, 1, j)) <= budget - StepBytes(step)
<1>1. /\ undo \in Seq(HistoryStepType) /\ Len(undo) \in Nat /\ budget \in Nat
      /\ StepBytes(step) \in Nat /\ undoBytes = TotalBytes(undo) /\ undoBytes \in Nat
  BY StepBytesIsNumber DEF HistoryTypes, BudgetInv
<1>2. \A j \in 0 .. Len(undo) : TotalBytes(SubSeq(undo, 1, j)) \in Nat
  BY <1>1, BytesOfParts
<1>3. \E j \in 0 .. Len(undo) : Fits(j) /\ \A i \in 0 .. (j - 1) : ~Fits(i)
  <2> DEFINE T == { j \in 0 .. Len(undo) : Fits(j) }
  <2>1. Len(undo) \in T
    <3>1. TotalBytes(SubSeq(undo, 1, Len(undo))) = undoBytes
      BY <1>1, BytesOfParts
    <3> QED BY <1>1, <3>1
  <2>2. T \in SUBSET Nat /\ T # {}
    <3>1. T \in SUBSET Nat
      OBVIOUS
    <3> HIDE DEF T
    <3> QED BY <2>1, <3>1
  <2>3. PICK j \in T : \A i \in T : j <= i
    <3> HIDE DEF T
    <3> QED BY <2>2, LeastNumber
  <2>4. j \in 0 .. Len(undo) /\ Fits(j)
    OBVIOUS
  <2>5. ASSUME NEW i \in 0 .. (j - 1), Fits(i)
        PROVE  FALSE
    <3> HIDE DEF Fits
    <3>1. i \in T /\ i < j
      BY <1>1, <2>4, <2>5
    <3> HIDE DEF T
    <3> QED BY <1>1, <2>3, <2>4, <3>1
  <2> QED BY <2>4, <2>5
<1>4. k \in 0 .. Len(undo) /\ Fits(k)
  <2>1. \E j \in 0 .. Len(undo) :
          /\ undoBytes - TotalBytes(SubSeq(undo, 1, j)) <= budget - StepBytes(step)
          /\ \A i \in 0 .. (j - 1) :
                undoBytes - TotalBytes(SubSeq(undo, 1, i)) > budget - StepBytes(step)
    <3>1. PICK j \in 0 .. Len(undo) : Fits(j) /\ \A i \in 0 .. (j - 1) : ~Fits(i)
      BY <1>3
    <3>2. ASSUME NEW i \in 0 .. (j - 1)
          PROVE  undoBytes - TotalBytes(SubSeq(undo, 1, i)) > budget - StepBytes(step)
      <4>1. TotalBytes(SubSeq(undo, 1, i)) \in Nat
        BY <1>1, <1>2
      <4> QED BY <1>1, <3>1, <4>1
    <3> QED BY <3>1, <3>2
  <2> QED BY <2>1 DEF Discarded
<1> HIDE DEF k
<1>5. Pushed(step) = Append(SubSeq(undo, k + 1, Len(undo)), step)
  BY DEF Pushed, k
<1>6. /\ SubSeq(undo, k + 1, Len(undo)) \in Seq(HistoryStepType)
      /\ ToSet(SubSeq(undo, k + 1, Len(undo))) \subseteq ToSet(undo)
  BY <1>1, <1>4, StackSets
<1>7. /\ Pushed(step) \in Seq(HistoryStepType)
      /\ ToSet(Pushed(step)) = ToSet(SubSeq(undo, k + 1, Len(undo))) \cup {step}
  <2> DEFINE rest == SubSeq(undo, k + 1, Len(undo))
  <2>1. rest \in Seq(HistoryStepType) /\ Pushed(step) = Append(rest, step)
    BY <1>5, <1>6
  <2> HIDE DEF rest
  <2>2. Pushed(step) \in Seq(HistoryStepType) /\ ToSet(Pushed(step)) = ToSet(rest) \cup {step}
    BY <2>1, AppendedSteps
  <2> QED BY <2>2 DEF rest
<1>8. TotalBytes(Pushed(step)) = TotalBytes(SubSeq(undo, k + 1, Len(undo))) + StepBytes(step)
  BY <1>5, <1>6, BytesOfStacks
<1>9. /\ TotalBytes(SubSeq(undo, k + 1, Len(undo)))
           = undoBytes - TotalBytes(SubSeq(undo, 1, k))
      /\ TotalBytes(SubSeq(undo, 1, k)) \in Nat
      /\ TotalBytes(SubSeq(undo, k + 1, Len(undo))) \in Nat
  <2>1. \A steps \in Seq(HistoryStepType) : TotalBytes(steps) \in Nat
    BY BytesAddUp DEF RunsUp
  <2>2. TotalBytes(SubSeq(undo, k + 1, Len(undo))) \in Nat
    BY <1>6, <2>1
  <2> QED BY <1>1, <1>4, <2>2, BytesOfParts
<1>10. Discharged(step) = TotalBytes(SubSeq(undo, 1, k))
  BY DEF Discharged, k
<1>11. /\ undoBytes - Discharged(step) + StepBytes(step) = TotalBytes(Pushed(step))
       /\ TotalBytes(Pushed(step)) \in 0 .. budget
  BY <1>1, <1>4, <1>8, <1>9, <1>10
<1> QED BY <1>4, <1>5, <1>6, <1>7, <1>11

\* What an undo or redo that got as far as the tiles in done made of the
\* image.
RestoredAs(step, f, done, img) ==
    /\ img \in Picture
    /\ \A t \in Tile : img.storage[t] = IF t \in done THEN step.entries[t].storage
                                        ELSE image.storage[t]
    /\ \A t \in Tile : img.generation[t] =
          IF t \in done /\ WithReloads(f).storage[t] # step.entries[t].storage
            THEN image.generation[t] + 1 ELSE image.generation[t]
    /\ \A t \in Tile : Evicted(img, t) <=> t \notin done /\ Evicted(image, t)
    /\ image.epoch <= img.epoch

\* The exchanges of the tiles in done.
LEMMA RestoredEffect ==
    ASSUME HistoryTypes, NEW step \in HistoryStepType, NEW done \in SUBSET Touched(step),
           NEW f \in Reloads(done)
    PROVE  RestoredAs(step, f, done, RestoredImage(step, WithReloads(f), done))
<1> DEFINE mid == WithReloads(f)
           img == RestoredImage(step, mid, done)
           replacement == [t \in done |-> step.entries[t].storage]
<1>1. /\ done \in SUBSET Tile /\ replacement \in [done -> MaybeStorage]
  BY StepBytesIsNumber DEF RetainedTile
<1>2. /\ mid \in Picture
      /\ DOMAIN f \subseteq done
      /\ \A t \in Tile : mid.storage[t] = IF t \in DOMAIN f THEN f[t] ELSE image.storage[t]
      /\ mid.backed = image.backed
      /\ mid.generation = image.generation
      /\ mid.epoch = image.epoch
      /\ \A t \in done : ~Evicted(mid, t)
  <2>1. image \in Picture
    BY DEF HistoryTypes
  <2>2. ReloadedAs(done, f)
    BY <1>1, <2>1, ReloadedPicture
  <2> QED BY <2>2 DEF ReloadedAs
<1> HIDE DEF mid
<1>3. ExchangedAs(mid, replacement, done, img)
  <2> HIDE DEF replacement
  <2>1. ExchangedAs(mid, replacement, done, ExchangedAll(mid, replacement))
    BY <1>1, <1>2, ExchangeEffect
  <2> QED BY <2>1 DEF RestoredImage, replacement
<1> HIDE DEF img
<1>4. \A t \in done : replacement[t] = step.entries[t].storage
  OBVIOUS
<1> HIDE DEF replacement
<1>5. \A t \in Tile : img.storage[t] = IF t \in done THEN step.entries[t].storage
                                       ELSE image.storage[t]
  BY <1>2, <1>3, <1>4 DEF ExchangedAs
<1>6. \A t \in Tile : img.generation[t] =
          IF t \in done /\ mid.storage[t] # step.entries[t].storage
            THEN image.generation[t] + 1 ELSE image.generation[t]
  BY <1>2, <1>3, <1>4 DEF ExchangedAs
<1>7. ASSUME NEW t \in Tile
      PROVE  Evicted(img, t) <=> t \notin done /\ Evicted(image, t)
  <2>1. img.backed = image.backed \ { u \in done : mid.storage[u] # replacement[u] }
    BY <1>2, <1>3 DEF ExchangedAs
  <2>2. CASE t \in done
    <3>1. img.storage[t] = replacement[t]
      BY <1>4, <1>5, <2>2
    <3>2. ~(mid.storage[t] = NoStorage /\ t \in image.backed)
      BY <1>2, <2>2 DEF Evicted, Resident
    <3> QED BY <2>1, <2>2, <3>1, <3>2 DEF Evicted, Resident
  <2>3. CASE t \notin done
    <3>1. img.storage[t] = image.storage[t] /\ (t \in img.backed <=> t \in image.backed)
      BY <1>5, <2>1, <2>3
    <3> QED BY <2>3, <3>1 DEF Evicted, Resident
  <2> QED BY <2>2, <2>3
<1>8. img \in Picture /\ image.epoch <= img.epoch
  BY <1>2, <1>3 DEF ExchangedAs
<1> QED BY <1>5, <1>6, <1>7, <1>8 DEF RestoredAs, mid, img

\* What an undo or redo makes of its step: the tiles in done are turned
\* round, the others are as they were.
TurnedAs(step, f, done, img, turned) ==
    /\ turned \in HistoryStepType
    /\ Touched(turned) = Touched(step)
    /\ StepBytes(turned) = StepBytes(step)
    /\ \A t \in done : turned.entries[t] =
          Entry(WithReloads(f).storage[t], img.generation[t],
                step.entries[t].seen, step.entries[t].kept)
    /\ \A t \in Touched(step) \ done : turned.entries[t] = step.entries[t]

\* The turned step.
LEMMA SwappedEffect ==
    ASSUME HistoryTypes, NEW step \in HistoryStepType, NEW done \in SUBSET Touched(step),
           NEW f \in Reloads(done)
    PROVE  /\ TurnedAs(step, f, done, RestoredImage(step, WithReloads(f), done),
                       SwappedStep(step, WithReloads(f), done))
           /\ SwappedStep(step, WithReloads(f), done).layer = step.layer
<1> DEFINE mid == WithReloads(f)
           img == RestoredImage(step, mid, done)
           entries == [t \in Touched(step) |->
                         IF t \in done
                           THEN Swapped(step.entries[t], mid.storage[t], img.generation[t])
                           ELSE step.entries[t]]
           turned == SwappedStep(step, mid, done)
<1>1. /\ Touched(step) \in SUBSET Tile /\ step.entries \in [Touched(step) -> RetainedTile]
      /\ step.layer \in Command \cup {None}
  BY StepBytesIsNumber DEF HistoryStepType
<1>2. mid \in Picture /\ img \in Picture
  BY <1>1, ReloadedPicture, RestoredEffect DEF HistoryTypes, RestoredAs, ReloadedAs
<1>3. turned = [entries |-> entries, layer |-> step.layer]
  BY <1>1 DEF SwappedStep, HistoryStepType
<1> HIDE DEF turned, mid, img
<1>4. entries \in [Touched(step) -> RetainedTile]
  <2>1. ASSUME NEW t \in Touched(step)
        PROVE  Swapped(step.entries[t], mid.storage[t], img.generation[t]) \in RetainedTile
    BY <1>1, <1>2 DEF Swapped, Entry, RetainedTile, Picture
  <2> QED BY <1>1, <2>1
<1>5. \A t \in Touched(step) :
        entries[t] = IF t \in done
                       THEN Entry(mid.storage[t], img.generation[t],
                                  step.entries[t].seen, step.entries[t].kept)
                       ELSE step.entries[t]
  BY DEF Swapped
<1> HIDE DEF entries
<1>6. turned \in HistoryStepType /\ Touched(turned) = Touched(step)
  BY <1>1, <1>3, <1>4 DEF HistoryStepType, OnTiles, Touched
<1>7. StepBytes(turned) = StepBytes(step)
  BY <1>6 DEF StepBytes, Touched
<1>8. /\ \A t \in done : turned.entries[t] =
            Entry(mid.storage[t], img.generation[t], step.entries[t].seen, step.entries[t].kept)
      /\ \A t \in Touched(step) \ done : turned.entries[t] = step.entries[t]
  BY <1>3, <1>5
<1> QED BY <1>3, <1>6, <1>7, <1>8 DEF TurnedAs, turned, mid, img

\* The step an undo or redo moves to the other stack.
LEMMA MovedEffect ==
    ASSUME HistoryTypes, NEW step \in HistoryStepType, NEW f \in Reloads(Touched(step))
    PROVE  /\ TurnedAs(step, f, Touched(step),
                       RestoredImage(step, WithReloads(f), Touched(step)), MovedStep(step, f))
           /\ MovedStep(step, f).layer = ReversedLayer(step)
           /\ ReversedLayer(step) \in Command \cup {None}
           /\ ReversedLayer(step) = None <=> step.layer = None
<1> DEFINE swapped == SwappedStep(step, WithReloads(f), Touched(step))
           moved == MovedStep(step, f)
           img == RestoredImage(step, WithReloads(f), Touched(step))
<1>1. TurnedAs(step, f, Touched(step), img, swapped)
  BY SwappedEffect
<1>2. /\ ReversedLayer(step) \in Command \cup {None}
      /\ ReversedLayer(step) = None <=> step.layer = None
  <2>1. CASE step.layer = None
    BY <2>1 DEF ReversedLayer
  <2>2. CASE step.layer # None
    <3>1. step.layer \in Command /\ layers.revision \in Nat
      BY <2>2 DEF HistoryStepType, HistoryTypes, Stack
    <3>2. ReversedLayer(step) \in Command
      BY <2>2, <3>1 DEF ReversedLayer, LayerCommand, Command
    <3>3. None \notin Command
      BY HistoryAssumption DEF Command
    <3> QED BY <2>2, <3>2, <3>3
  <2> QED BY <2>1, <2>2
<1>3. moved = [swapped EXCEPT !.layer = ReversedLayer(step)]
  BY DEF MovedStep
<1> HIDE DEF moved, swapped, img
<1>4. swapped \in HistoryStepType
  BY <1>1 DEF TurnedAs
<1>5. /\ moved \in HistoryStepType /\ moved.entries = swapped.entries
      /\ moved.layer = ReversedLayer(step)
  BY <1>2, <1>3, <1>4 DEF HistoryStepType
<1>6. TurnedAs(step, f, Touched(step), img, moved)
  BY <1>1, <1>5 DEF TurnedAs, Touched, StepBytes
<1> QED BY <1>2, <1>5, <1>6 DEF moved, img

\* The step a failed undo or redo leaves on its stack.
LEMMA TornEffect ==
    ASSUME HistoryTypes, NEW step \in HistoryStepType, NEW t \in Touched(step),
           NEW done \in SUBSET (Touched(step) \ {t}), NEW f \in Reloads(done)
    PROVE  /\ TornStep(step, f, t, done) \in HistoryStepType
           /\ Touched(TornStep(step, f, t, done)) = Touched(step)
           /\ StepBytes(TornStep(step, f, t, done)) = StepBytes(step)
           /\ TornStep(step, f, t, done).layer = step.layer
           /\ TornStep(step, f, t, done).entries[t].storage = NoStorage
           /\ \A u \in Touched(step) \ {t} :
                 TornStep(step, f, t, done).entries[u]
                    = SwappedStep(step, WithReloads(f), done).entries[u]
<1> DEFINE swapped == SwappedStep(step, WithReloads(f), done)
           torn == TornStep(step, f, t, done)
<1>1. /\ swapped \in HistoryStepType /\ Touched(swapped) = Touched(step)
      /\ swapped.layer = step.layer
  BY SwappedEffect DEF TurnedAs
<1>2. torn = [swapped EXCEPT !.entries[t].storage = NoStorage]
  BY DEF TornStep
<1>3. /\ swapped.entries \in [Touched(step) -> RetainedTile] /\ Touched(step) \in SUBSET Tile
      /\ t \in Touched(step)
  BY <1>1, StepBytesIsNumber
<1> DEFINE entries == [swapped.entries EXCEPT ![t] = [@ EXCEPT !.storage = NoStorage]]
<1> HIDE DEF torn, swapped
<1>4. torn = [swapped EXCEPT !.entries = entries]
  BY <1>2
<1>5. /\ entries \in [Touched(step) -> RetainedTile]
      /\ entries[t].storage = NoStorage
      /\ \A u \in Touched(step) \ {t} : entries[u] = swapped.entries[u]
  BY <1>3 DEF RetainedTile, MaybeStorage
<1> HIDE DEF entries
<1>6. /\ torn \in HistoryStepType /\ torn.entries = entries /\ torn.layer = step.layer
  BY <1>1, <1>3, <1>4, <1>5 DEF HistoryStepType, OnTiles
<1>7. Touched(torn) = Touched(step) /\ StepBytes(torn) = StepBytes(step)
  BY <1>5, <1>6 DEF Touched, StepBytes
<1> QED BY <1>5, <1>6, <1>7 DEF torn, swapped

-----------------------------------------------------------------------------
(* Types and budget *)

\* The steps an undo or redo works on.
LEMMA NewestStep ==
    ASSUME HistoryTypes
    PROVE  /\ undo # <<>> => /\ Last(undo) \in HistoryStepType /\ Last(undo) \in Steps
                             /\ Front(undo) \in Seq(HistoryStepType)
                             /\ ToSet(Front(undo)) \subseteq ToSet(undo)
           /\ redo # <<>> => /\ Last(redo) \in HistoryStepType /\ Last(redo) \in Steps
                             /\ Front(redo) \in Seq(HistoryStepType)
                             /\ ToSet(Front(redo)) \subseteq ToSet(redo)
<1>1. undo \in Seq(HistoryStepType) /\ redo \in Seq(HistoryStepType)
  BY DEF HistoryTypes
<1> QED BY <1>1, StackSets DEF Steps

\* The step a capture becomes.
LEMMA CapturedStepType ==
    ASSUME HistoryTypes, capture # None
    PROVE  LET step == Step([t \in ChangedTargets |->
                          Entry(capture.entries[t].storage, image.generation[t],
                                CapturedBytes(t), Bytes(t))], None)
           IN step \in HistoryStepType /\ StepBytes(step) = Cardinality(ChangedTargets)
<1> DEFINE entries == [t \in ChangedTargets |->
                         Entry(capture.entries[t].storage, image.generation[t],
                               CapturedBytes(t), Bytes(t))]
<1>1. /\ ChangedTargets \in SUBSET Tile
      /\ \A t \in ChangedTargets : capture.entries[t].storage \in MaybeStorage
  BY OpenTypes DEF ChangedTargets, CapturedTile
<1>2. \A t \in Tile : image.generation[t] \in Nat
  BY DEF HistoryTypes, Picture
<1>3. entries \in [ChangedTargets -> RetainedTile]
  BY <1>1, <1>2, BytesAreValues DEF Entry, RetainedTile, CapturedBytes
<1> HIDE DEF entries
<1>4. entries \in OnTiles(RetainedTile) /\ DOMAIN entries = ChangedTargets
  BY <1>1, <1>3 DEF OnTiles
<1>5. Step(entries, None) \in HistoryStepType
  BY <1>4 DEF Step, HistoryStepType
<1>6. StepBytes(Step(entries, None)) = Cardinality(ChangedTargets)
  BY <1>4 DEF Step, StepBytes
<1> QED BY <1>5, <1>6 DEF entries

\* The step a transaction becomes.
LEMMA TransactionStepType ==
    ASSUME HistoryTypes, txn # None
    PROVE  /\ TransactionStep \in HistoryStepType
           /\ StepBytes(TransactionStep) = Cardinality(StagedTargets)
           /\ Touched(TransactionStep) = StagedTargets
           /\ StagedTargets \in SUBSET Tile
           /\ LayersStaged => TransactionStep.layer # None
           /\ ~NothingStaged => Effective(TransactionStep)
<1> DEFINE entries == [t \in StagedTargets |->
                         Entry(image.storage[t], image.generation[t] + 1,
                               Bytes(t), BytesIn(txn.image.storage[t]))]
           layer == IF LayersStaged
                      THEN LayerCommand(txn.staged.revision, layers.content, txn.staged.content)
                      ELSE None
<1>1. /\ txn \in Transaction /\ StagedTargets \in SUBSET Tile
      /\ txn.image \in Picture /\ txn.staged \in Stack
  BY OpenTypes DEF StagedTargets, Transaction
<1>2. \A t \in Tile : /\ image.generation[t] \in Nat /\ image.storage[t] \in MaybeStorage
                      /\ txn.image.storage[t] \in MaybeStorage
  BY <1>1 DEF HistoryTypes, Picture
<1>3. entries \in [StagedTargets -> RetainedTile]
  BY <1>1, <1>2, BytesAreValues DEF Entry, RetainedTile
<1>4. /\ layer \in Command \cup {None}
      /\ LayersStaged => layer # None
  <2>1. LayerCommand(txn.staged.revision, layers.content, txn.staged.content) \in Command
    BY <1>1 DEF HistoryTypes, Stack, LayerCommand, Command
  <2>2. None \notin Command
    BY HistoryAssumption DEF Command
  <2> QED BY <2>1, <2>2
<1>5. TransactionStep = [entries |-> entries, layer |-> layer]
  BY DEF TransactionStep, Step
<1> HIDE DEF entries, layer
<1>6. entries \in OnTiles(RetainedTile) /\ DOMAIN entries = StagedTargets
  BY <1>1, <1>3 DEF OnTiles
<1>7. TransactionStep \in HistoryStepType
  BY <1>4, <1>5, <1>6 DEF HistoryStepType
<1>8. /\ StepBytes(TransactionStep) = Cardinality(StagedTargets)
      /\ Touched(TransactionStep) = StagedTargets
      /\ TransactionStep.layer = layer
  BY <1>5, <1>6 DEF StepBytes, Touched
<1>9. ~NothingStaged => Effective(TransactionStep)
  <2>1. IsFiniteSet(StagedTargets)
    BY <1>1, HistoryAssumption, FS_Subset
  <2>2. StagedTargets # {} => Cardinality(StagedTargets) > 0
    BY <2>1, FS_EmptySet, FS_CardinalityType
  <2> QED BY <1>4, <1>8, <2>2 DEF NothingStaged, Effective
<1> QED BY <1>1, <1>4, <1>7, <1>8, <1>9

\* The specification starts well typed and with nothing charged.
LEMMA TypesInit == Init => HistoryTypes /\ BudgetInv
<1> SUFFICES ASSUME Init PROVE HistoryTypes /\ BudgetInv
  OBVIOUS
<1>1. NewImage \in Picture
  BY DEF NewImage, Picture, MaybeStorage
<1>2. /\ undo = <<>> /\ redo = <<>> /\ undoBytes = 0 /\ redoBytes = 0 /\ budget \in Nat
  BY HistoryAssumption DEF Init
<1>3. HistoryTypes
  <2>1. <<>> \in Seq(HistoryStepType)
    OBVIOUS
  <2>2. heap \in [Storage -> Value] /\ backing \in [Tile -> Value] /\ layers \in Stack
    <3>1. \A s \in [content : LayerContent, revision : {0}] : s \in Stack
      BY DEF Stack
    <3> QED BY <3>1, HistoryAssumption DEF Init
  <2> QED BY <1>1, <1>2, <2>1, <2>2 DEF Init, HistoryTypes
<1>4. BudgetInv
  <2>1. Steps = {}
    BY <1>2 DEF Steps, ToSet
  <2> QED BY <1>2, <2>1, BytesOfStacks DEF BudgetInv
<1> QED BY <1>3, <1>4

\* Actions that leave the stacks alone keep the budget.
LEMMA BudgetKept ==
    ASSUME BudgetInv, UNCHANGED <<undo, redo, undoBytes, redoBytes, budget>>
    PROVE  BudgetInv'
BY DEF BudgetInv, Steps, Effective, StepBytes

\* A push keeps types and budget.
LEMMA PushTypes ==
    ASSUME HistoryTypes, BudgetInv, NEW step \in HistoryStepType,
           StepBytes(step) <= budget, Effective(step), Push(step)
    PROVE  /\ undo' = Pushed(step) /\ undo' \in Seq(HistoryStepType)
           /\ redo' = <<>> /\ redo' \in Seq(HistoryStepType)
           /\ undoBytes' \in Nat /\ redoBytes' \in Nat /\ budget' \in Nat /\ sequence' \in Nat
           /\ BudgetInv'
           /\ Steps' \subseteq Steps \cup {step}
           /\ Steps' = ToSet(Pushed(step))
<1>1. /\ undo' = Pushed(step) /\ redo' = <<>> /\ redoBytes' = 0 /\ budget' = budget
      /\ undoBytes' = TotalBytes(Pushed(step)) /\ sequence' = sequence + 1
  BY PushEffect DEF Push
<1>2. /\ Pushed(step) \in Seq(HistoryStepType) /\ TotalBytes(Pushed(step)) \in 0 .. budget
      /\ ToSet(Pushed(step)) \subseteq ToSet(undo) \cup {step}
  BY PushEffect
<1>3. Steps' = ToSet(Pushed(step)) /\ Steps' \subseteq Steps \cup {step}
  <2>1. ToSet(<<>>) = {}
    BY DEF ToSet
  <2> QED BY <1>1, <1>2, <2>1 DEF Steps
<1>4. budget \in Nat /\ sequence \in Nat
  BY DEF HistoryTypes
<1>5. /\ undoBytes' = TotalBytes(undo') /\ redoBytes' = TotalBytes(redo')
      /\ undoBytes' + redoBytes' <= budget'
  BY <1>1, <1>2, <1>4, BytesOfStacks
<1>6. \A x \in Steps' : Effective(x)
  BY <1>3 DEF BudgetInv
<1>7. BudgetInv'
  BY <1>5, <1>6 DEF BudgetInv, Effective, StepBytes
<1> QED BY <1>1, <1>2, <1>3, <1>4, <1>7

\* Moving the newest step of one stack to the other, turned round.
LEMMA MovedBytes ==
    ASSUME NEW from \in Seq(HistoryStepType), from # <<>>, NEW to \in Seq(HistoryStepType),
           NEW moved \in HistoryStepType, StepBytes(moved) = StepBytes(Last(from)),
           Effective(Last(from)) => Effective(moved)
    PROVE  /\ Front(from) \in Seq(HistoryStepType)
           /\ Append(to, moved) \in Seq(HistoryStepType)
           /\ ToSet(Front(from)) \subseteq ToSet(from)
           /\ ToSet(Append(to, moved)) = ToSet(to) \cup {moved}
           /\ TotalBytes(Front(from)) = TotalBytes(from) - StepBytes(Last(from))
           /\ TotalBytes(Append(to, moved)) = TotalBytes(to) + StepBytes(Last(from))
           /\ TotalBytes(Front(from)) \in Nat /\ TotalBytes(Append(to, moved)) \in Nat
<1>1. Front(from) \in Seq(HistoryStepType) /\ ToSet(Front(from)) \subseteq ToSet(from)
  BY StackSets
<1>2. /\ Append(to, moved) \in Seq(HistoryStepType)
      /\ ToSet(Append(to, moved)) = ToSet(to) \cup {moved}
  BY AppendedSteps
<1>3. \A steps \in Seq(HistoryStepType) : TotalBytes(steps) \in Nat
  BY BytesAddUp DEF RunsUp
<1> QED BY <1>1, <1>2, <1>3, BytesOfStacks

\* An undo keeps types and budget.
LEMMA UndoTypes ==
    ASSUME HistoryTypes, BudgetInv, Undo
    PROVE  HistoryTypes' /\ BudgetInv'
<1> DEFINE step == Last(undo)
<1>1. undo # <<>> /\ step \in HistoryStepType /\ Effective(step)
  BY NewestStep DEF Undo, BudgetInv
<1>2. PICK f \in Reloads(Touched(step)) :
         LET moved == MovedStep(step, f)
         IN /\ undo' = Front(undo)
            /\ redo' = Append(redo, moved)
            /\ RestoreLive(step, f, Append(Front(undo) \o redo, moved))
  BY DEF Undo
<1> DEFINE moved == MovedStep(step, f)
           img == RestoredImage(step, WithReloads(f), Touched(step))
<1>3. /\ undoBytes' = undoBytes - StepBytes(step) /\ redoBytes' = redoBytes + StepBytes(step)
  BY DEF Undo
<1>4. /\ undo' = Front(undo) /\ redo' = Append(redo, moved)
      /\ image' = img
      /\ heap' = Swept(HeapWith(f), img, Append(Front(undo) \o redo, moved), capture, txn)
      /\ layers' = RestoredLayers(step)
      /\ sequence' = sequence + 1
      /\ UNCHANGED <<backing, budget, capture, txn>>
  BY <1>2 DEF RestoreLive
<1> HIDE DEF step
<1>5. RestoredAs(step, f, Touched(step), img) /\ Touched(step) \in SUBSET Tile
  BY <1>1, RestoredEffect, StepBytesIsNumber
<1>6. /\ moved \in HistoryStepType /\ StepBytes(moved) = StepBytes(step) /\ Effective(moved)
  BY <1>1, MovedEffect DEF TurnedAs, Effective
<1> HIDE DEF moved, img
<1>7. image' \in Picture /\ heap' \in [Storage -> Value]
  <2>1. HeapWith(f) \in [Storage -> Value]
    BY <1>5, ReloadedHeap
  <2> QED BY <1>4, <1>5, <2>1, SweptHeap DEF RestoredAs
<1>8. layers' \in Stack
  BY <1>1, <1>4 DEF RestoredLayers, HistoryTypes, Stack, HistoryStepType, Command
<1>9. /\ undo' \in Seq(HistoryStepType) /\ redo' \in Seq(HistoryStepType)
      /\ undoBytes' = TotalBytes(undo') /\ redoBytes' = TotalBytes(redo')
      /\ undoBytes' \in Nat /\ redoBytes' \in Nat
      /\ Steps' \subseteq Steps \cup {moved}
  BY <1>1, <1>3, <1>4, <1>6, MovedBytes DEF step, HistoryTypes, BudgetInv, Steps
<1>10. undoBytes' + redoBytes' = undoBytes + redoBytes
  BY <1>1, <1>3, StepBytesIsNumber DEF HistoryTypes
<1>11. BudgetInv'
  BY <1>4, <1>6, <1>9, <1>10 DEF BudgetInv, Effective, StepBytes
<1> QED BY <1>4, <1>7, <1>8, <1>9, <1>11 DEF HistoryTypes

\* A redo keeps types and budget.
LEMMA RedoTypes ==
    ASSUME HistoryTypes, BudgetInv, Redo
    PROVE  HistoryTypes' /\ BudgetInv'
<1> DEFINE step == Last(redo)
<1>1. redo # <<>> /\ step \in HistoryStepType /\ Effective(step)
  BY NewestStep DEF Redo, BudgetInv
<1>2. PICK f \in Reloads(Touched(step)) :
         LET moved == MovedStep(step, f)
         IN /\ redo' = Front(redo)
            /\ undo' = Append(undo, moved)
            /\ RestoreLive(step, f, Append(undo \o Front(redo), moved))
  BY DEF Redo
<1> DEFINE moved == MovedStep(step, f)
           img == RestoredImage(step, WithReloads(f), Touched(step))
<1>3. /\ redoBytes' = redoBytes - StepBytes(step) /\ undoBytes' = undoBytes + StepBytes(step)
  BY DEF Redo
<1>4. /\ redo' = Front(redo) /\ undo' = Append(undo, moved)
      /\ image' = img
      /\ heap' = Swept(HeapWith(f), img, Append(undo \o Front(redo), moved), capture, txn)
      /\ layers' = RestoredLayers(step)
      /\ sequence' = sequence + 1
      /\ UNCHANGED <<backing, budget, capture, txn>>
  BY <1>2 DEF RestoreLive
<1> HIDE DEF step
<1>5. RestoredAs(step, f, Touched(step), img) /\ Touched(step) \in SUBSET Tile
  BY <1>1, RestoredEffect, StepBytesIsNumber
<1>6. /\ moved \in HistoryStepType /\ StepBytes(moved) = StepBytes(step) /\ Effective(moved)
  BY <1>1, MovedEffect DEF TurnedAs, Effective
<1> HIDE DEF moved, img
<1>7. image' \in Picture /\ heap' \in [Storage -> Value]
  <2>1. HeapWith(f) \in [Storage -> Value]
    BY <1>5, ReloadedHeap
  <2> QED BY <1>4, <1>5, <2>1, SweptHeap DEF RestoredAs
<1>8. layers' \in Stack
  BY <1>1, <1>4 DEF RestoredLayers, HistoryTypes, Stack, HistoryStepType, Command
<1>9. /\ undo' \in Seq(HistoryStepType) /\ redo' \in Seq(HistoryStepType)
      /\ undoBytes' = TotalBytes(undo') /\ redoBytes' = TotalBytes(redo')
      /\ undoBytes' \in Nat /\ redoBytes' \in Nat
      /\ Steps' \subseteq Steps \cup {moved}
  BY <1>1, <1>3, <1>4, <1>6, MovedBytes DEF step, HistoryTypes, BudgetInv, Steps
<1>10. undoBytes' + redoBytes' = undoBytes + redoBytes
  BY <1>1, <1>3, StepBytesIsNumber DEF HistoryTypes
<1>11. BudgetInv'
  BY <1>4, <1>6, <1>9, <1>10 DEF BudgetInv, Effective, StepBytes
<1> QED BY <1>4, <1>7, <1>8, <1>9, <1>11 DEF HistoryTypes

\* A restore that failed midway keeps types and budget.
LEMMA TornTypes ==
    ASSUME HistoryTypes, BudgetInv, NEW t \in Tile, NEW done \in SUBSET Tile,
           UndoFailsMidway(t, done) \/ RedoFailsMidway(t, done)
    PROVE  HistoryTypes' /\ BudgetInv'
<1>1. ASSUME NEW from \in {undo, redo}, NEW f \in Reloads(done), NEW left, NEW all,
             MayTear(from, t, done), TearLive(Last(from), f, done, all),
             left = Append(Front(from), TornStep(Last(from), f, t, done))
      PROVE  /\ image' \in Picture /\ heap' \in [Storage -> Value]
             /\ left \in Seq(HistoryStepType)
             /\ TotalBytes(left) = TotalBytes(from)
             /\ \A step \in ToSet(left) : Effective(step)
  <2> DEFINE step == Last(from)
             torn == TornStep(step, f, t, done)
             img == RestoredImage(step, WithReloads(f), done)
  <2>1. /\ from \in Seq(HistoryStepType) /\ from # <<>> /\ ToSet(from) \subseteq Steps
        /\ t \in Touched(step) /\ done \in SUBSET (Touched(step) \ {t})
        /\ step \in HistoryStepType /\ step \in Steps
    <3>1. /\ from # <<>> /\ t \in Touched(step) /\ done \subseteq Touched(step) \ {t}
      BY <1>1 DEF MayTear
    <3>2. from \in Seq(HistoryStepType) /\ ToSet(from) \subseteq Steps
      BY DEF HistoryTypes, Steps
    <3>3. step \in HistoryStepType /\ step \in Steps
      BY <3>1, NewestStep
    <3> QED BY <3>1, <3>2, <3>3
  <2>2. /\ image' = img /\ heap' = Swept(HeapWith(f), img, all, capture, txn)
    BY <1>1 DEF TearLive
  <2> HIDE DEF step
  <2>3. RestoredAs(step, f, done, img)
    BY <1>1, <2>1, RestoredEffect
  <2>4. torn \in HistoryStepType /\ StepBytes(torn) = StepBytes(step) /\ Effective(torn)
    BY <1>1, <2>1, TornEffect DEF Effective, BudgetInv
  <2>5. HeapWith(f) \in [Storage -> Value]
    BY <1>1, <2>1, ReloadedHeap
  <2> HIDE DEF torn, img
  <2>6. image' \in Picture /\ heap' \in [Storage -> Value]
    BY <2>2, <2>3, <2>5, SweptHeap DEF RestoredAs
  <2>7. /\ Front(from) \in Seq(HistoryStepType) /\ ToSet(Front(from)) \subseteq ToSet(from)
        /\ TotalBytes(Front(from)) = TotalBytes(from) - StepBytes(step)
        /\ TotalBytes(from) \in Nat
    BY <2>1, StackSets, BytesOfStacks, BytesAddUp DEF step, RunsUp
  <2>8. /\ left \in Seq(HistoryStepType) /\ ToSet(left) = ToSet(Front(from)) \cup {torn}
        /\ TotalBytes(left) = TotalBytes(Front(from)) + StepBytes(torn)
    BY <1>1, <2>4, <2>7, AppendedSteps, BytesOfStacks DEF step, torn
  <2>9. TotalBytes(left) = TotalBytes(from)
    BY <2>1, <2>4, <2>7, <2>8, StepBytesIsNumber
  <2>10. \A x \in ToSet(left) : Effective(x)
    BY <2>1, <2>4, <2>7, <2>8 DEF BudgetInv
  <2> QED BY <2>6, <2>8, <2>9, <2>10
<1>2. CASE UndoFailsMidway(t, done)
  <2>1. PICK f \in Reloads(done) :
          /\ undo' = Append(Front(undo), TornStep(Last(undo), f, t, done))
          /\ TearLive(Last(undo), f, done, undo' \o redo)
    BY <1>2 DEF UndoFailsMidway
  <2>2. MayTear(undo, t, done) /\ redo' = redo
    BY <1>2 DEF UndoFailsMidway
  <2>3. UNCHANGED <<backing, layers, undoBytes, redoBytes, budget, sequence, capture, txn>>
    BY <2>1 DEF TearLive
  <2>4. /\ image' \in Picture /\ heap' \in [Storage -> Value]
        /\ undo' \in Seq(HistoryStepType)
        /\ TotalBytes(undo') = TotalBytes(undo)
        /\ \A step \in ToSet(undo') : Effective(step)
    BY <1>1, <2>1, <2>2
  <2>5. HistoryTypes'
    BY <2>2, <2>3, <2>4 DEF HistoryTypes
  <2> QED BY <2>2, <2>3, <2>4, <2>5 DEF BudgetInv, Steps, Effective, StepBytes
<1>3. CASE RedoFailsMidway(t, done)
  <2>1. PICK f \in Reloads(done) :
          /\ redo' = Append(Front(redo), TornStep(Last(redo), f, t, done))
          /\ TearLive(Last(redo), f, done, undo \o redo')
    BY <1>3 DEF RedoFailsMidway
  <2>2. MayTear(redo, t, done) /\ undo' = undo
    BY <1>3 DEF RedoFailsMidway
  <2>3. UNCHANGED <<backing, layers, undoBytes, redoBytes, budget, sequence, capture, txn>>
    BY <2>1 DEF TearLive
  <2>4. /\ image' \in Picture /\ heap' \in [Storage -> Value]
        /\ redo' \in Seq(HistoryStepType)
        /\ TotalBytes(redo') = TotalBytes(redo)
        /\ \A step \in ToSet(redo') : Effective(step)
    BY <1>1, <2>1, <2>2
  <2>5. HistoryTypes'
    BY <2>2, <2>3, <2>4 DEF HistoryTypes
  <2> QED BY <2>2, <2>3, <2>4, <2>5 DEF BudgetInv, Steps, Effective, StepBytes
<1> QED BY <1>2, <1>3

\* The actions of the history keep types and budget.
LEMMA HistoryStepTypes ==
    ASSUME HistoryTypes, BudgetInv, HistoryStep
    PROVE  HistoryTypes' /\ BudgetInv'
<1>0. /\ image \in Picture /\ heap \in [Storage -> Value] /\ layers \in Stack
      /\ budget \in Nat /\ sequence \in Nat
  BY DEF HistoryTypes
<1>1. ASSUME NEW targets \in SUBSET Tile, BeginStep(targets)
      PROVE  HistoryTypes' /\ BudgetInv'
  <2>1. PICK f \in Reloads(targets) :
          /\ image' = WithReloads(f)
          /\ capture' = CaptureOf(WithReloads(f), targets)
          /\ heap' = Swept(HeapWith(f), WithReloads(f), undo \o redo,
                           CaptureOf(WithReloads(f), targets), txn)
    BY <1>1 DEF BeginStep
  <2>2. UNCHANGED <<backing, layers, stackVars, txn>>
    BY <1>1 DEF BeginStep
  <2>3. image' \in Picture
    BY <1>0, <2>1, ReloadedPicture DEF ReloadedAs
  <2>4. capture' \in Capture
    BY <1>0, <2>1, <2>3, CaptureTakes
  <2>5. heap' \in [Storage -> Value]
    BY <2>1, ReloadedHeap, SweptHeap
  <2> QED BY <2>2, <2>3, <2>4, <2>5, BudgetKept DEF HistoryTypes, stackVars
<1>2. ASSUME NEW targets \in SUBSET Tile, BeginTransaction(targets)
      PROVE  HistoryTypes' /\ BudgetInv'
  <2>1. PICK f \in Reloads(Tile) :
          LET img == WithReloads(f)
              tx  == [ sequence |-> sequence,
                       entries  |-> CaptureOf(img, targets).entries,
                       layers   |-> layers,
                       image    |-> [img EXCEPT !.backed = {}],
                       staged   |-> layers ]
          IN /\ image' = img
             /\ txn' = tx
             /\ heap' = Swept(HeapWith(f), img, undo \o redo, capture, tx)
    BY <1>2 DEF BeginTransaction
  <2>2. UNCHANGED <<backing, layers, stackVars, capture>>
    BY <1>2 DEF BeginTransaction
  <2> DEFINE img == WithReloads(f)
  <2>3. img \in Picture
    BY <1>0, ReloadedPicture DEF ReloadedAs
  <2>4. image' = img
    BY <2>1
  <2>5. txn' \in Transaction
    <3>1. CaptureOf(img, targets).entries \in OnTiles(CapturedTile)
      BY <1>0, <2>3, CaptureTakes DEF OnTiles
    <3>2. [img EXCEPT !.backed = {}] \in Picture
      BY <2>3 DEF Picture
    <3> QED BY <1>0, <2>1, <3>1, <3>2 DEF Transaction
  <2>6. heap' \in [Storage -> Value]
    BY <2>1, ReloadedHeap, SweptHeap
  <2> QED BY <2>2, <2>3, <2>4, <2>5, <2>6, BudgetKept DEF HistoryTypes, stackVars
<1>3. CASE CommitStepRefused
  <2>1. /\ capture' = None /\ heap' = Swept(heap, image, undo \o redo, None, txn)
        /\ UNCHANGED <<image, backing, layers, stackVars, txn>>
    BY <1>3 DEF CommitStepRefused, DropCapture
  <2>2. heap' \in [Storage -> Value]
    BY <1>0, <2>1, SweptHeap
  <2> QED BY <2>1, <2>2, BudgetKept DEF HistoryTypes, stackVars
<1>4. CASE CommitStep
  <2> DEFINE step == Step([t \in ChangedTargets |->
                          Entry(capture.entries[t].storage, image.generation[t],
                                CapturedBytes(t), Bytes(t))], None)
  <2>1. /\ capture # None /\ ChangedTargets # {} /\ Cardinality(ChangedTargets) <= budget
        /\ Push(step) /\ capture' = None /\ heap' = Swept(heap, image, Pushed(step), None, txn)
        /\ UNCHANGED <<image, backing, layers, txn>>
    BY <1>4 DEF CommitStep, DropCapture
  <2>2. /\ step \in HistoryStepType /\ StepBytes(step) = Cardinality(ChangedTargets)
    BY <2>1, CapturedStepType
  <2>3. Cardinality(ChangedTargets) > 0
    <3>1. ChangedTargets \in SUBSET Tile
      BY <2>1, OpenTypes DEF ChangedTargets
    <3>2. IsFiniteSet(ChangedTargets)
      BY <3>1, HistoryAssumption, FS_Subset
    <3> QED BY <2>1, <3>2, FS_EmptySet, FS_CardinalityType
  <2>4. Effective(step) /\ StepBytes(step) <= budget
    BY <2>1, <2>2, <2>3 DEF Effective
  <2> HIDE DEF step
  <2>5. /\ undo' \in Seq(HistoryStepType) /\ redo' \in Seq(HistoryStepType)
        /\ undoBytes' \in Nat /\ redoBytes' \in Nat /\ budget' \in Nat /\ sequence' \in Nat
        /\ BudgetInv'
    BY <2>1, <2>2, <2>4, PushTypes
  <2>6. heap' \in [Storage -> Value]
    BY <1>0, <2>1, SweptHeap
  <2> QED BY <2>1, <2>5, <2>6 DEF HistoryTypes
<1>5. ASSUME NEW t \in Tile, NEW v \in Value, StagedWrite(t, v)
      PROVE  HistoryTypes' /\ BudgetInv'
  <2>1. txn # None /\ UNCHANGED <<image, backing, layers, stackVars, capture>>
    BY <1>5 DEF StagedWrite
  <2>2. txn \in Transaction /\ txn.image \in Picture
    BY <2>1, OpenTypes DEF Transaction
  <2>3. PICK s \in WriteTargets(txn.image, t, SharedWithStaged) :
          /\ txn' = [txn EXCEPT !.image = Publish(txn.image, t, s)]
          /\ heap' = Swept([heap EXCEPT ![s] = v], image, undo \o redo, capture,
                           [txn EXCEPT !.image = Publish(txn.image, t, s)])
    BY <1>5, <2>2 DEF StagedWrite, Transaction
  <2>4. s \in Storage
    BY <2>2, WriteTargetsAre
  <2>5. Publish(txn.image, t, s) \in Picture
    BY <2>2, <2>4, PublishPicture DEF PublishedAs, MaybeStorage
  <2>6. txn' \in Transaction
    BY <2>2, <2>3, <2>5 DEF Transaction
  <2>7. heap' \in [Storage -> Value]
    <3>1. [heap EXCEPT ![s] = v] \in [Storage -> Value]
      BY <1>0, <2>4
    <3> QED BY <2>3, <3>1, SweptHeap
  <2> QED BY <2>1, <2>6, <2>7, BudgetKept DEF HistoryTypes, stackVars
<1>6. ASSUME NEW c \in LayerContent, StagedLayers(c)
      PROVE  HistoryTypes' /\ BudgetInv'
  <2>1. /\ txn # None /\ UNCHANGED <<liveVars, stackVars, capture>>
        /\ txn' = [txn EXCEPT !.staged = [content |-> c, revision |-> @.revision + 1]]
    BY <1>6 DEF StagedLayers
  <2>2. txn \in Transaction
    BY <2>1, OpenTypes
  <2>3. txn' \in Transaction
    <3>1. [content |-> c, revision |-> txn.staged.revision + 1] \in Stack
      BY <2>2 DEF Transaction, Stack
    <3> QED BY <2>1, <2>2, <3>1 DEF Transaction
  <2> QED BY <2>1, <2>3, BudgetKept DEF HistoryTypes, stackVars, liveVars
<1>7. CASE EndTransaction
  <2>1. /\ txn' = None /\ heap' = Swept(heap, image, undo \o redo, capture, None)
        /\ UNCHANGED <<image, backing, layers, stackVars, capture>>
    BY <1>7 DEF EndTransaction
  <2>2. heap' \in [Storage -> Value]
    BY <1>0, <2>1, SweptHeap
  <2> QED BY <2>1, <2>2, BudgetKept DEF HistoryTypes, stackVars
<1>8. CASE CommitTransaction
  <2> DEFINE replacement == [t \in StagedTargets |-> txn.image.storage[t]]
             img == ExchangedAll(image, replacement)
  <2>1. /\ txn # None /\ ~NothingStaged /\ Cardinality(StagedTargets) <= budget
        /\ Push(TransactionStep)
        /\ image' = img
        /\ heap' = Swept(heap, img, Pushed(TransactionStep), capture, None)
        /\ layers' = CommittedLayers /\ txn' = None
        /\ UNCHANGED <<backing, capture>>
    BY <1>8 DEF CommitTransaction
  <2>2. /\ TransactionStep \in HistoryStepType
        /\ StepBytes(TransactionStep) <= budget
        /\ Effective(TransactionStep)
        /\ StagedTargets \in SUBSET Tile
    BY <2>1, TransactionStepType
  <2>3. /\ undo' \in Seq(HistoryStepType) /\ redo' \in Seq(HistoryStepType)
        /\ undoBytes' \in Nat /\ redoBytes' \in Nat /\ budget' \in Nat /\ sequence' \in Nat
        /\ BudgetInv'
    BY <2>1, <2>2, PushTypes
  <2>4. txn \in Transaction /\ txn.image \in Picture /\ txn.staged \in Stack
    BY <2>1, OpenTypes DEF Transaction
  <2>5. replacement \in [StagedTargets -> MaybeStorage]
    BY <2>2, <2>4 DEF Picture
  <2> HIDE DEF replacement
  <2>6. img \in Picture
    BY <1>0, <2>2, <2>5, ExchangeEffect DEF ExchangedAs
  <2> HIDE DEF img
  <2>7. heap' \in [Storage -> Value]
    BY <1>0, <2>1, SweptHeap
  <2>8. layers' \in Stack
    BY <1>0, <2>1, <2>4 DEF CommittedLayers
  <2> QED BY <2>1, <2>3, <2>6, <2>7, <2>8 DEF HistoryTypes
<1>9. ASSUME NEW b \in Budget, ConfigureBudget(b)
      PROVE  HistoryTypes' /\ BudgetInv'
  <2>1. /\ b >= undoBytes + redoBytes /\ budget' = b
        /\ UNCHANGED <<liveVars, undo, redo, undoBytes, redoBytes, sequence, capture, txn>>
    BY <1>9 DEF ConfigureBudget
  <2>2. b \in Nat
    BY HistoryAssumption
  <2>3. undoBytes' + redoBytes' <= budget'
    BY <2>1, <2>2 DEF HistoryTypes
  <2> QED BY <2>1, <2>2, <2>3 DEF HistoryTypes, BudgetInv, Steps, Effective, StepBytes, liveVars
<1> QED BY <1>1, <1>2, <1>3, <1>4, <1>5, <1>6, <1>7, <1>8, <1>9, UndoTypes, RedoTypes, TornTypes
        DEF HistoryStep

\* The actions of the rest of the texture set keep types and budget.
LEMMA HostStepTypes ==
    ASSUME HistoryTypes, BudgetInv, HostStep
    PROVE  HistoryTypes' /\ BudgetInv'
<1>0. /\ image \in Picture /\ heap \in [Storage -> Value] /\ layers \in Stack
      /\ backing \in [Tile -> Value]
  BY DEF HistoryTypes
<1>1. ASSUME NEW t \in Tile, NEW v \in Value, WriteLive(t, v)
      PROVE  HistoryTypes' /\ BudgetInv'
  <2>1. PICK s \in WriteTargets(image, t, SharedWithLive) :
          /\ image' = Publish(image, t, s)
          /\ heap' = Swept([heap EXCEPT ![s] = v], Publish(image, t, s), undo \o redo,
                           capture, txn)
    BY <1>1 DEF WriteLive
  <2>2. UNCHANGED <<backing, layers, stackVars, capture, txn>>
    BY <1>1 DEF WriteLive
  <2>3. s \in Storage
    BY <1>0, WriteTargetsAre
  <2>4. image' \in Picture
    BY <1>0, <2>1, <2>3, PublishPicture DEF PublishedAs, MaybeStorage
  <2>5. heap' \in [Storage -> Value]
    <3>1. [heap EXCEPT ![s] = v] \in [Storage -> Value]
      BY <1>0, <2>3
    <3> QED BY <2>1, <3>1, SweptHeap
  <2> QED BY <2>2, <2>4, <2>5, BudgetKept DEF HistoryTypes, stackVars
<1>2. ASSUME NEW c \in LayerContent, EditLayers(c)
      PROVE  HistoryTypes' /\ BudgetInv'
  <2>1. /\ layers' = [content |-> c, revision |-> layers.revision + 1]
        /\ UNCHANGED <<image, heap, backing, stackVars, capture, txn>>
    BY <1>2 DEF EditLayers
  <2>2. layers' \in Stack
    BY <1>0, <2>1 DEF Stack
  <2> QED BY <2>1, <2>2, BudgetKept DEF HistoryTypes, stackVars
<1>3. CASE ClearChannels
  <2>1. /\ image' = Cleared(image)
        /\ heap' = Swept(heap, Cleared(image), undo \o redo, capture, txn)
        /\ UNCHANGED <<backing, layers, stackVars, capture, txn>>
    BY <1>3 DEF ClearChannels
  <2>2. image' \in Picture /\ heap' \in [Storage -> Value]
    BY <1>0, <2>1, ClearedPicture, SweptHeap
  <2> QED BY <2>1, <2>2, BudgetKept DEF HistoryTypes, stackVars
<1>4. ASSUME NEW t \in Tile, EvictTile(t)
      PROVE  HistoryTypes' /\ BudgetInv'
  <2>1. /\ backing' = [backing EXCEPT ![t] = Bytes(t)]
        /\ image' = Unloaded(image, t)
        /\ heap' = Swept(heap, Unloaded(image, t), undo \o redo, capture, txn)
        /\ UNCHANGED <<layers, stackVars, capture, txn>>
    BY <1>4 DEF EvictTile
  <2>2. image' \in Picture /\ heap' \in [Storage -> Value]
    BY <1>0, <2>1, UnloadedPicture, SweptHeap
  <2>3. backing' \in [Tile -> Value]
    BY <1>0, <2>1, BytesAreValues
  <2> QED BY <2>1, <2>2, <2>3, BudgetKept DEF HistoryTypes, stackVars
<1>5. ASSUME NEW t \in Tile, ReadLive(t)
      PROVE  HistoryTypes' /\ BudgetInv'
  <2>1. PICK f \in Reloads({t}) : image' = WithReloads(f) /\ heap' = HeapWith(f)
    BY <1>5 DEF ReadLive
  <2>2. UNCHANGED <<backing, layers, stackVars, capture, txn>>
    BY <1>5 DEF ReadLive
  <2>3. image' \in Picture /\ heap' \in [Storage -> Value]
    <3>1. {t} \in SUBSET Tile
      OBVIOUS
    <3> QED BY <1>0, <2>1, <3>1, ReloadedPicture, ReloadedHeap DEF ReloadedAs
  <2> QED BY <2>2, <2>3, BudgetKept DEF HistoryTypes, stackVars
<1> QED BY <1>1, <1>2, <1>3, <1>4, <1>5 DEF HostStep

\* Every step keeps types and budget.
LEMMA TypesStep == HistoryTypes /\ BudgetInv /\ [Next]_vars => HistoryTypes' /\ BudgetInv'
<1> SUFFICES ASSUME HistoryTypes, BudgetInv, [Next]_vars
             PROVE  HistoryTypes' /\ BudgetInv'
  OBVIOUS
<1>1. CASE UNCHANGED vars
  BY <1>1, BudgetKept DEF vars, HistoryTypes
<1>2. CASE Next
  BY <1>2, HistoryStepTypes, HostStepTypes DEF Next
<1> QED BY <1>1, <1>2

\* Whatever hosts do, the running byte counts are those of the retained
\* steps, they fit the budget and no step is empty: "On commit it SHALL
\* discard the oldest undo steps rather than exceed the ceiling".
THEOREM BudgetIsExact == Spec => []BudgetExact
<1>1. HistoryTypes /\ BudgetInv => BudgetExact
  <2> SUFFICES ASSUME HistoryTypes, BudgetInv PROVE BudgetExact
    OBVIOUS
  <2>1. \A i \in DOMAIN undo : undo[i] \in Steps
    BY DEF Steps, ToSet, HistoryTypes
  <2> QED BY <2>1 DEF BudgetInv, BudgetExact, Effective
<1> QED BY <1>1, TypesInit, TypesStep, PTL DEF Spec

-----------------------------------------------------------------------------
(* Captured versions stay synced *)

\* Generations only grow, and a tile that is not evicted keeps its storage
\* while it keeps its generation.
TileMoves(img, t) ==
    /\ image.generation[t] <= img.generation[t]
    /\ image.generation[t] = img.generation[t] /\ ~Evicted(image, t) =>
          img.storage[t] = image.storage[t] /\ ~Evicted(img, t)

Moves(img) == image.epoch <= img.epoch /\ \A t \in Tile : TileMoves(img, t)

\* The layers change only with their revision.
LayersMove ==
    /\ layers.revision <= layers'.revision
    /\ layers.revision = layers'.revision => layers' = layers

\* Reloads move an image on.
LEMMA ReloadMoves ==
    ASSUME image \in Picture, NEW tiles \in SUBSET Tile, NEW f \in Reloads(tiles)
    PROVE  Moves(WithReloads(f))
<1>1. ReloadedAs(tiles, f)
  BY ReloadedPicture
<1>2. \A t \in Tile : image.generation[t] \in Nat /\ image.epoch \in Nat
  BY DEF Picture
<1>3. ASSUME NEW t \in Tile
      PROVE  TileMoves(WithReloads(f), t)
  <2>1. ~Evicted(image, t) => t \notin DOMAIN f
    BY <1>1 DEF ReloadedAs
  <2>2. ~Evicted(image, t) => WithReloads(f).storage[t] = image.storage[t]
    BY <1>1, <2>1 DEF ReloadedAs
  <2>3. WithReloads(f).backed = image.backed /\ WithReloads(f).generation = image.generation
    BY <1>1 DEF ReloadedAs
  <2> QED BY <1>2, <2>2, <2>3 DEF TileMoves, Evicted, Resident
<1>4. image.epoch <= WithReloads(f).epoch
  BY <1>1 DEF ReloadedAs, Picture
<1> QED BY <1>3, <1>4 DEF Moves

\* A publication does.
LEMMA PublishMoves ==
    ASSUME image \in Picture, NEW t \in Tile, NEW s \in MaybeStorage
    PROVE  Moves(Publish(image, t, s))
<1>1. PublishedAs(image, t, s, Publish(image, t, s))
  BY PublishPicture
<1> DEFINE img == Publish(image, t, s)
<1>2. /\ img.storage = [image.storage EXCEPT ![t] = s]
      /\ img.backed = image.backed \ {t}
      /\ img.generation = [image.generation EXCEPT ![t] = @ + 1]
      /\ image.epoch <= img.epoch
  BY <1>1 DEF PublishedAs
<1> HIDE DEF img
<1>3. image.storage \in [Tile -> MaybeStorage] /\ image.generation \in [Tile -> Nat]
  BY DEF Picture
<1>4. ASSUME NEW u \in Tile
      PROVE  TileMoves(img, u)
  BY <1>2, <1>3 DEF TileMoves, Evicted, Resident
<1> QED BY <1>2, <1>4 DEF Moves, img

\* The exchanges of a commit do.
LEMMA ExchangeMoves ==
    ASSUME image \in Picture, NEW D \in SUBSET Tile, NEW replacement \in [D -> MaybeStorage],
           NEW img, ExchangedAs(image, replacement, D, img)
    PROVE  Moves(img)
<1>1. \A t \in Tile : image.generation[t] \in Nat
  BY DEF Picture
<1>2. ASSUME NEW t \in Tile
      PROVE  TileMoves(img, t)
  <2>1. CASE t \in D /\ image.storage[t] # replacement[t]
    <3>1. img.generation[t] = image.generation[t] + 1
      BY <2>1 DEF ExchangedAs
    <3> QED BY <1>1, <3>1 DEF TileMoves
  <2>2. CASE ~(t \in D /\ image.storage[t] # replacement[t])
    <3>1. /\ img.generation[t] = image.generation[t] /\ img.storage[t] = image.storage[t]
          /\ t \in img.backed => t \in image.backed
      BY <2>2 DEF ExchangedAs
    <3> QED BY <1>1, <3>1 DEF TileMoves, Evicted, Resident
  <2> QED BY <2>1, <2>2
<1>3. image.epoch <= img.epoch
  BY DEF ExchangedAs
<1> QED BY <1>2, <1>3 DEF Moves

\* The exchanges of an undo or redo do.
LEMMA RestoredMoves ==
    ASSUME image \in Picture, NEW step, NEW done \in SUBSET Tile, NEW f \in Reloads(done), NEW img,
           RestoredAs(step, f, done, img)
    PROVE  Moves(img)
<1>1. ReloadedAs(done, f)
  BY ReloadedPicture
<1>2. \A t \in Tile : image.generation[t] \in Nat
  BY DEF Picture
<1>3. ASSUME NEW t \in Tile
      PROVE  TileMoves(img, t)
  <2>1. ~Evicted(image, t) => WithReloads(f).storage[t] = image.storage[t]
    BY <1>1 DEF ReloadedAs
  <2>2. Evicted(img, t) <=> t \notin done /\ Evicted(image, t)
    BY DEF RestoredAs
  <2>3. CASE t \in done /\ WithReloads(f).storage[t] # step.entries[t].storage
    <3>1. img.generation[t] = image.generation[t] + 1
      BY <2>3 DEF RestoredAs
    <3> QED BY <1>2, <3>1 DEF TileMoves
  <2>4. CASE ~(t \in done /\ WithReloads(f).storage[t] # step.entries[t].storage)
    <3>1. img.generation[t] = image.generation[t]
      BY <2>4 DEF RestoredAs
    <3>2. img.storage[t] = IF t \in done THEN WithReloads(f).storage[t] ELSE image.storage[t]
      BY <2>4 DEF RestoredAs
    <3> QED BY <1>2, <2>1, <2>2, <3>1, <3>2 DEF TileMoves
  <2> QED BY <2>3, <2>4
<1>4. image.epoch <= img.epoch
  BY DEF RestoredAs
<1> QED BY <1>3, <1>4 DEF Moves

\* An image that stays moves on too.
LEMMA StillMoves == image \in Picture => Moves(image)
BY DEF Moves, TileMoves, Picture

\* A captured version stays synced while the image moves on.
LEMMA SyncedKept ==
    ASSUME image \in Picture, image' \in Picture, Moves(image'), NEW t \in Tile,
           NEW e \in CapturedTile, Synced(e, t, image)
    PROVE  Synced(e, t, image')
<1>1. /\ e.epoch \in Nat /\ e.generation \in Nat
      /\ image.epoch \in Nat /\ image'.epoch \in Nat
      /\ image.generation[t] \in Nat /\ image'.generation[t] \in Nat
  BY DEF CapturedTile, Picture
<1>2. image.epoch <= image'.epoch /\ TileMoves(image', t)
  BY DEF Moves
<1>3. e.epoch <= image'.epoch
  BY <1>1, <1>2 DEF Synced
<1>4. ASSUME e.epoch = image'.epoch \/ "clear" \notin Activities
      PROVE  /\ e.generation <= image'.generation[t]
             /\ e.generation = image'.generation[t] =>
                   e.storage = image'.storage[t] /\ ~Evicted(image', t)
  <2>1. e.epoch = image.epoch \/ "clear" \notin Activities
    BY <1>1, <1>2, <1>4 DEF Synced
  <2>2. /\ e.generation <= image.generation[t]
        /\ e.generation = image.generation[t] =>
              e.storage = image.storage[t] /\ ~Evicted(image, t)
    BY <2>1 DEF Synced
  <2>3. e.generation = image'.generation[t] =>
          e.generation = image.generation[t] /\ image.generation[t] = image'.generation[t]
    BY <1>1, <1>2, <2>2 DEF TileMoves
  <2> QED BY <1>1, <1>2, <2>2, <2>3 DEF TileMoves
<1> QED BY <1>3, <1>4 DEF Synced

\* A version just captured is synced.
LEMMA FreshlySynced ==
    ASSUME image' \in Picture, NEW t \in Tile, NEW e, ~Evicted(image', t),
           e.epoch = image'.epoch, e.generation = image'.generation[t],
           e.storage = image'.storage[t]
    PROVE  Synced(e, t, image')
<1>1. image'.epoch \in Nat /\ image'.generation[t] \in Nat
  BY DEF Picture
<1> QED BY <1>1 DEF Synced

\* An open capture stays synced.
LEMMA CaptureStaysSynced ==
    ASSUME HistoryTypes, HistoryTypes', CaptureSync, Moves(image'), capture' \in {capture, None}
    PROVE  CaptureSync'
<1> SUFFICES ASSUME capture' # None, NEW t \in DOMAIN capture'.entries
             PROVE  Synced(capture'.entries[t], t, image')
  BY DEF CaptureSync
<1>1. capture' = capture /\ capture # None
  OBVIOUS
<1>2. t \in Tile /\ capture.entries[t] \in CapturedTile
  BY <1>1, OpenTypes
<1>3. Synced(capture.entries[t], t, image)
  BY <1>1 DEF CaptureSync
<1>4. image \in Picture /\ image' \in Picture
  BY DEF HistoryTypes
<1>5. \A x \in CapturedTile : Synced(x, t, image) => Synced(x, t, image')
  BY <1>2, <1>4, SyncedKept
<1>6. capture'.entries[t] = capture.entries[t]
  BY <1>1
<1> QED BY <1>2, <1>3, <1>5, <1>6

\* An open transaction stays synced.
LEMMA TransactionStaysSynced ==
    ASSUME HistoryTypes, HistoryTypes', TransactionSync, Moves(image'), LayersMove,
           txn' # None => /\ txn # None
                          /\ txn'.entries = txn.entries /\ txn'.layers = txn.layers
                          /\ StagedAhead(txn')
    PROVE  TransactionSync'
<1> SUFFICES ASSUME txn' # None
             PROVE  /\ \A t \in DOMAIN txn'.entries : Synced(txn'.entries[t], t, image')
                    /\ txn'.layers.revision <= layers'.revision
                    /\ txn'.layers.revision = layers'.revision => txn'.layers = layers'
                    /\ StagedAhead(txn')
  BY DEF TransactionSync
<1>1. txn # None /\ txn'.entries = txn.entries /\ txn'.layers = txn.layers
  OBVIOUS
<1>2. image \in Picture /\ image' \in Picture
  BY DEF HistoryTypes
<1>3. ASSUME NEW t \in DOMAIN txn'.entries
      PROVE  Synced(txn'.entries[t], t, image')
  <2>1. t \in Tile /\ txn.entries[t] \in CapturedTile
    BY <1>1, OpenTypes
  <2>2. Synced(txn.entries[t], t, image)
    BY <1>1 DEF TransactionSync
  <2>3. \A x \in CapturedTile : Synced(x, t, image) => Synced(x, t, image')
    BY <1>2, <2>1, SyncedKept
  <2> QED BY <1>1, <2>1, <2>2, <2>3
<1>4. /\ txn'.layers.revision <= layers'.revision
      /\ txn'.layers.revision = layers'.revision => txn'.layers = layers'
  <2>1. /\ txn.layers.revision \in Nat /\ layers.revision \in Nat /\ layers'.revision \in Nat
    BY <1>1, OpenTypes DEF HistoryTypes, Stack, Transaction
  <2> QED BY <1>1, <2>1 DEF TransactionSync, LayersMove
<1> QED BY <1>3, <1>4

\* The layers and the open transaction move on with a commit.
LEMMA CommittedLayersMove ==
    ASSUME HistoryTypes, TransactionSync, txn # None, ~TransactionStale,
           layers' = CommittedLayers
    PROVE  LayersMove
<1>1. layers \in Stack /\ txn.staged \in Stack /\ txn.layers = layers
  BY OpenTypes DEF HistoryTypes, Transaction, TransactionStale, TransactionSync
<1>2. LayersStaged => layers.revision < txn.staged.revision
  BY <1>1 DEF TransactionSync, StagedAhead, LayersStaged
<1> QED BY <1>1, <1>2 DEF CommittedLayers, LayersMove, Stack

\* Undo and redo move the layers on.
LEMMA RestoredLayersMove ==
    ASSUME HistoryTypes, NEW step, layers' = RestoredLayers(step)
    PROVE  LayersMove
BY DEF HistoryTypes, Stack, RestoredLayers, LayersMove

\* Except for a clear and an eviction, every action moves the image and the
\* layers on.
LEMMA HistoryMovesOn ==
    ASSUME HistoryTypes, TransactionSync, HistoryStep
    PROVE  Moves(image') /\ LayersMove
<1>0. image \in Picture /\ layers \in Stack
  BY DEF HistoryTypes
<1>1. layers' = layers => LayersMove
  BY <1>0 DEF LayersMove, Stack
<1>2. image' = image => Moves(image')
  BY <1>0, StillMoves
<1>3. ASSUME NEW targets \in SUBSET Tile, BeginStep(targets) \/ BeginTransaction(targets)
      PROVE  Moves(image') /\ LayersMove
  <2>1. \E tiles \in SUBSET Tile : \E f \in Reloads(tiles) : image' = WithReloads(f)
    BY <1>3 DEF BeginStep, BeginTransaction
  <2>2. layers' = layers
    BY <1>3 DEF BeginStep, BeginTransaction
  <2> QED BY <1>0, <1>1, <2>1, <2>2, ReloadMoves
<1>4. CASE CommitStepRefused \/ CommitStep \/ EndTransaction
  <2>1. UNCHANGED <<image, layers>>
    BY <1>4 DEF CommitStepRefused, CommitStep, EndTransaction
  <2> QED BY <1>1, <1>2, <2>1
<1>5. ASSUME NEW t \in Tile, NEW v \in Value, StagedWrite(t, v)
      PROVE  Moves(image') /\ LayersMove
  BY <1>1, <1>2, <1>5 DEF StagedWrite
<1>6. ASSUME NEW c \in LayerContent, StagedLayers(c)
      PROVE  Moves(image') /\ LayersMove
  BY <1>1, <1>2, <1>6 DEF StagedLayers, liveVars
<1>7. CASE CommitTransaction
  <2> DEFINE replacement == [t \in StagedTargets |-> txn.image.storage[t]]
  <2>1. /\ txn # None /\ ~TransactionStale
        /\ image' = ExchangedAll(image, replacement) /\ layers' = CommittedLayers
    BY <1>7 DEF CommitTransaction
  <2>2. txn.image \in Picture /\ StagedTargets \in SUBSET Tile
    BY <2>1, OpenTypes DEF Transaction, StagedTargets
  <2>3. replacement \in [StagedTargets -> MaybeStorage]
    BY <2>2 DEF Picture
  <2> HIDE DEF replacement
  <2>4. ExchangedAs(image, replacement, StagedTargets, image')
    BY <1>0, <2>1, <2>2, <2>3, ExchangeEffect
  <2>5. Moves(image')
    BY <1>0, <2>2, <2>3, <2>4, ExchangeMoves
  <2> QED BY <2>1, <2>5, CommittedLayersMove
<1>8. ASSUME NEW step \in HistoryStepType, NEW f \in Reloads(Touched(step)),
             image' = RestoredImage(step, WithReloads(f), Touched(step)),
             layers' = RestoredLayers(step)
      PROVE  Moves(image') /\ LayersMove
  <2>1. Touched(step) \in SUBSET Tile
    BY StepBytesIsNumber
  <2>2. RestoredAs(step, f, Touched(step), image')
    BY <1>8, RestoredEffect
  <2>3. Moves(image')
    BY <1>0, <2>1, <2>2, RestoredMoves
  <2> QED BY <1>8, <2>3, RestoredLayersMove
<1>9. CASE Undo
  <2>1. Last(undo) \in HistoryStepType
    BY <1>9, NewestStep DEF Undo
  <2>2. \E f \in Reloads(Touched(Last(undo))) :
          /\ image' = RestoredImage(Last(undo), WithReloads(f), Touched(Last(undo)))
          /\ layers' = RestoredLayers(Last(undo))
    BY <1>9 DEF Undo, RestoreLive
  <2> QED BY <1>8, <2>1, <2>2
<1>10. CASE Redo
  <2>1. Last(redo) \in HistoryStepType
    BY <1>10, NewestStep DEF Redo
  <2>2. \E f \in Reloads(Touched(Last(redo))) :
          /\ image' = RestoredImage(Last(redo), WithReloads(f), Touched(Last(redo)))
          /\ layers' = RestoredLayers(Last(redo))
    BY <1>10 DEF Redo, RestoreLive
  <2> QED BY <1>8, <2>1, <2>2
<1>11. ASSUME NEW t \in Tile, NEW done \in SUBSET Tile,
              UndoFailsMidway(t, done) \/ RedoFailsMidway(t, done)
       PROVE  Moves(image') /\ LayersMove
  <2>1. PICK from \in {undo, redo} : \E f \in Reloads(done) :
           /\ MayTear(from, t, done)
           /\ image' = RestoredImage(Last(from), WithReloads(f), done)
           /\ layers' = layers
    BY <1>11 DEF UndoFailsMidway, RedoFailsMidway, TearLive
  <2>2. PICK f \in Reloads(done) : image' = RestoredImage(Last(from), WithReloads(f), done)
    BY <2>1
  <2>3. from # <<>> /\ done \in SUBSET Touched(Last(from))
    BY <2>1 DEF MayTear
  <2>4. Last(from) \in HistoryStepType
    BY <2>3, NewestStep
  <2>5. RestoredAs(Last(from), f, done, image')
    BY <2>2, <2>3, <2>4, RestoredEffect
  <2>6. Moves(image')
    BY <1>0, <2>5, RestoredMoves
  <2> QED BY <1>1, <2>1, <2>6
<1>12. ASSUME NEW b \in Budget, ConfigureBudget(b)
       PROVE  Moves(image') /\ LayersMove
  BY <1>1, <1>2, <1>12 DEF ConfigureBudget, liveVars
<1> QED BY <1>3, <1>4, <1>5, <1>6, <1>7, <1>9, <1>10, <1>11, <1>12 DEF HistoryStep

\* The same for a write, a layer edit and a read.
LEMMA HostMovesOn ==
    ASSUME HistoryTypes,
           \/ \E t \in Tile, v \in Value : WriteLive(t, v)
           \/ \E c \in LayerContent : EditLayers(c)
           \/ \E t \in Tile : ReadLive(t)
    PROVE  Moves(image') /\ LayersMove /\ UNCHANGED <<capture, txn>>
<1>0. image \in Picture /\ layers \in Stack
  BY DEF HistoryTypes
<1>1. layers' = layers => LayersMove
  BY <1>0 DEF LayersMove, Stack
<1>2. ASSUME NEW t \in Tile, NEW v \in Value, WriteLive(t, v)
      PROVE  Moves(image') /\ LayersMove /\ UNCHANGED <<capture, txn>>
  <2>1. PICK s \in WriteTargets(image, t, SharedWithLive) : image' = Publish(image, t, s)
    BY <1>2 DEF WriteLive
  <2>2. s \in MaybeStorage
    BY <1>0, WriteTargetsAre DEF MaybeStorage
  <2>3. Moves(image')
    BY <1>0, <2>1, <2>2, PublishMoves
  <2> QED BY <1>1, <1>2, <2>3 DEF WriteLive
<1>3. ASSUME NEW c \in LayerContent, EditLayers(c)
      PROVE  Moves(image') /\ LayersMove /\ UNCHANGED <<capture, txn>>
  <2>1. /\ layers' = [content |-> c, revision |-> layers.revision + 1]
        /\ UNCHANGED <<image, capture, txn>>
    BY <1>3 DEF EditLayers
  <2>2. LayersMove
    BY <1>0, <2>1 DEF LayersMove, Stack
  <2> QED BY <1>0, <2>1, <2>2, StillMoves
<1>4. ASSUME NEW t \in Tile, ReadLive(t)
      PROVE  Moves(image') /\ LayersMove /\ UNCHANGED <<capture, txn>>
  <2>1. PICK f \in Reloads({t}) : image' = WithReloads(f)
    BY <1>4 DEF ReadLive
  <2>2. {t} \in SUBSET Tile
    OBVIOUS
  <2>3. Moves(image')
    BY <1>0, <2>1, <2>2, ReloadMoves
  <2> QED BY <1>1, <1>4, <2>3 DEF ReadLive
<1> QED BY <1>2, <1>3, <1>4

\* Begun captures and transactions are synced, open ones stay it.
LEMMA HistoryStepSynced ==
    ASSUME HistoryTypes, HistoryTypes', SyncInv, HistoryStep
    PROVE  SyncInv'
<1>0. Moves(image') /\ LayersMove /\ CaptureSync /\ TransactionSync
  BY HistoryMovesOn DEF SyncInv
<1>1. capture' \in {capture, None} => CaptureSync'
  BY <1>0, CaptureStaysSynced
<1>2. ( txn' # None => /\ txn # None
                       /\ txn'.entries = txn.entries /\ txn'.layers = txn.layers
                       /\ StagedAhead(txn') ) => TransactionSync'
  BY <1>0, TransactionStaysSynced
<1>3. txn # None => StagedAhead(txn)
  BY <1>0 DEF TransactionSync
<1>4. txn' \in {txn, None} => TransactionSync'
  BY <1>2, <1>3
<1>5. image \in Picture /\ image' \in Picture /\ sequence \in Nat /\ layers \in Stack
  BY DEF HistoryTypes
<1>6. ASSUME NEW targets \in SUBSET Tile, NEW f, f \in Reloads(targets) \cup Reloads(Tile),
             image' = WithReloads(f), NEW t \in targets
      PROVE  Synced(CaptureOf(image', targets).entries[t], t, image')
  <2>1. ~Evicted(image', t)
    BY <1>5, <1>6, ReloadedPicture DEF ReloadedAs
  <2>2. LET e == CaptureOf(image', targets).entries[t]
        IN /\ e.epoch = image'.epoch /\ e.generation = image'.generation[t]
           /\ e.storage = image'.storage[t]
    BY <1>5, CaptureTakes
  <2> QED BY <1>5, <2>1, <2>2, FreshlySynced
<1>7. ASSUME NEW targets \in SUBSET Tile, BeginStep(targets)
      PROVE  SyncInv'
  <2>1. PICK f \in Reloads(targets) :
          image' = WithReloads(f) /\ capture' = CaptureOf(image', targets)
    BY <1>7 DEF BeginStep
  <2>2. DOMAIN capture'.entries = targets
    BY <1>5, <2>1, CaptureTakes
  <2>3. \A t \in targets : Synced(capture'.entries[t], t, image')
    BY <1>6, <2>1
  <2>4. CaptureSync'
    BY <2>2, <2>3 DEF CaptureSync
  <2>5. txn' = txn
    BY <1>7 DEF BeginStep
  <2> QED BY <1>4, <2>4, <2>5 DEF SyncInv
<1>8. ASSUME NEW targets \in SUBSET Tile, BeginTransaction(targets)
      PROVE  SyncInv'
  <2>1. PICK f \in Reloads(Tile) :
          /\ image' = WithReloads(f)
          /\ txn' = [ sequence |-> sequence,
                      entries  |-> CaptureOf(image', targets).entries,
                      layers   |-> layers,
                      image    |-> [image' EXCEPT !.backed = {}],
                      staged   |-> layers ]
    BY <1>8 DEF BeginTransaction
  <2>2. /\ capture' = capture /\ layers' = layers
        /\ txn'.entries = CaptureOf(image', targets).entries
        /\ txn'.layers = layers /\ txn'.staged = layers
    BY <1>8, <2>1 DEF BeginTransaction
  <2>3. DOMAIN txn'.entries = targets
    BY <1>5, <2>2, CaptureTakes
  <2>4. \A t \in targets : Synced(txn'.entries[t], t, image')
    BY <1>6, <2>1, <2>2
  <2>5. TransactionSync'
    BY <1>5, <2>2, <2>3, <2>4 DEF TransactionSync, StagedAhead, Stack
  <2> QED BY <1>1, <2>2, <2>5 DEF SyncInv
<1>9. CASE CommitStepRefused \/ CommitStep
  BY <1>1, <1>4, <1>9 DEF CommitStepRefused, CommitStep, DropCapture, SyncInv
<1>10. ASSUME NEW t \in Tile, NEW v \in Value, StagedWrite(t, v)
       PROVE  SyncInv'
  <2>1. txn # None /\ capture' = capture
    BY <1>10 DEF StagedWrite
  <2>2. \E s : txn' = [txn EXCEPT !.image = Publish(@, t, s)]
    BY <1>10 DEF StagedWrite
  <2>3. txn \in Transaction
    BY <2>1, OpenTypes
  <2>4. /\ txn'.entries = txn.entries /\ txn'.layers = txn.layers /\ txn'.staged = txn.staged
    BY <2>2, <2>3 DEF Transaction
  <2> QED BY <1>1, <1>2, <1>3, <2>1, <2>4 DEF SyncInv, StagedAhead
<1>11. ASSUME NEW c \in LayerContent, StagedLayers(c)
       PROVE  SyncInv'
  <2>1. /\ txn # None /\ capture' = capture
        /\ txn' = [txn EXCEPT !.staged = [content |-> c, revision |-> @.revision + 1]]
    BY <1>11 DEF StagedLayers
  <2>2. txn \in Transaction /\ txn.layers.revision \in Nat /\ txn.staged.revision \in Nat
    BY <2>1, OpenTypes DEF Transaction, Stack
  <2>3. /\ txn'.entries = txn.entries /\ txn'.layers = txn.layers
        /\ txn'.staged.revision = txn.staged.revision + 1
    BY <2>1, <2>2 DEF Transaction
  <2>4. StagedAhead(txn')
    <3>1. txn.layers.revision <= txn.staged.revision
      BY <1>3, <2>1, <2>2 DEF StagedAhead
    <3> QED BY <2>2, <2>3, <3>1 DEF StagedAhead
  <2> QED BY <1>1, <1>2, <2>1, <2>3, <2>4 DEF SyncInv
<1>12. CASE EndTransaction \/ CommitTransaction
  BY <1>1, <1>4, <1>12 DEF EndTransaction, CommitTransaction, SyncInv
<1>13. CASE Undo \/ Redo
  <2>1. UNCHANGED <<capture, txn>>
    BY <1>13 DEF Undo, Redo, RestoreLive
  <2> QED BY <1>1, <1>4, <2>1 DEF SyncInv
<1>14. ASSUME NEW t \in Tile, NEW done \in SUBSET Tile,
              UndoFailsMidway(t, done) \/ RedoFailsMidway(t, done)
       PROVE  SyncInv'
  <2>1. UNCHANGED <<capture, txn>>
    BY <1>14 DEF UndoFailsMidway, RedoFailsMidway, TearLive
  <2> QED BY <1>1, <1>4, <2>1 DEF SyncInv
<1>15. ASSUME NEW b \in Budget, ConfigureBudget(b)
       PROVE  SyncInv'
  BY <1>1, <1>4, <1>15 DEF ConfigureBudget, SyncInv
<1> QED BY <1>7, <1>8, <1>9, <1>10, <1>11, <1>12, <1>13, <1>14, <1>15 DEF HistoryStep

\* Captures hold their storages, so what they hold is not evicted.
LEMMA HeldByCaptures ==
    ASSUME HistoryTypes, NEW s \in Storage, s \notin SharedWithLive
    PROVE  /\ capture # None => \A t \in DOMAIN capture.entries : capture.entries[t].storage # s
           /\ txn # None => \A t \in DOMAIN txn.entries : txn.entries[t].storage # s
<1> DEFINE bare == [image EXCEPT !.storage = [t \in Tile |-> NoStorage]]
<1>1. ~Owns(bare, ToSet(undo \o redo), capture, txn, s)
  BY OwnersAre, StorageAssumption DEF SharedWithLive
<1> QED BY <1>1 DEF Owns

\* A clear, an eviction and the other actions on the texture set.
LEMMA HostStepSynced ==
    ASSUME HistoryTypes, HistoryTypes', SyncInv, HostStep
    PROVE  SyncInv'
<1>0. image \in Picture /\ image' \in Picture /\ layers \in Stack /\ CaptureSync /\ TransactionSync
  BY DEF HistoryTypes, SyncInv
<1>1. ASSUME \/ \E t \in Tile, v \in Value : WriteLive(t, v)
             \/ \E c \in LayerContent : EditLayers(c)
             \/ \E t \in Tile : ReadLive(t)
      PROVE  SyncInv'
  <2>1. Moves(image') /\ LayersMove /\ UNCHANGED <<capture, txn>>
    BY <1>1, HostMovesOn
  <2>2. txn # None => StagedAhead(txn)
    BY <1>0 DEF TransactionSync
  <2> QED BY <1>0, <2>1, <2>2, CaptureStaysSynced, TransactionStaysSynced DEF SyncInv
<1>2. ASSUME UNCHANGED <<capture, txn, layers>>,
             \A t \in Tile, e \in CapturedTile :
                /\ Synced(e, t, image)
                /\ \/ capture # None /\ t \in DOMAIN capture.entries /\ e = capture.entries[t]
                   \/ txn # None /\ t \in DOMAIN txn.entries /\ e = txn.entries[t]
                => Synced(e, t, image')
      PROVE  SyncInv'
  <2>1. ASSUME capture # None, NEW t \in DOMAIN capture.entries
        PROVE  Synced(capture.entries[t], t, image')
    BY <1>0, <1>2, <2>1, OpenTypes DEF CaptureSync
  <2>2. ASSUME txn # None, NEW t \in DOMAIN txn.entries
        PROVE  Synced(txn.entries[t], t, image')
    BY <1>0, <1>2, <2>2, OpenTypes DEF TransactionSync
  <2>3. CaptureSync'
    BY <1>2, <2>1 DEF CaptureSync
  <2>4. TransactionSync'
    BY <1>0, <1>2, <2>2 DEF TransactionSync
  <2> QED BY <2>3, <2>4 DEF SyncInv
<1>3. CASE ClearChannels
  <2>1. /\ "clear" \in Activities /\ image' = Cleared(image) /\ UNCHANGED <<capture, txn, layers>>
    BY <1>3 DEF ClearChannels
  <2>2. image'.epoch = image.epoch + 1 /\ image.epoch \in Nat
    BY <1>0, <2>1, ClearedPicture DEF Picture
  <2>3. \A t \in Tile, e \in CapturedTile : Synced(e, t, image) => Synced(e, t, image')
    <3> SUFFICES ASSUME NEW t \in Tile, NEW e \in CapturedTile, Synced(e, t, image)
                 PROVE  Synced(e, t, image')
      OBVIOUS
    <3>1. e.epoch <= image.epoch /\ e.epoch \in Nat
      BY DEF Synced, CapturedTile
    <3>2. e.epoch <= image'.epoch /\ e.epoch # image'.epoch
      BY <2>2, <3>1
    <3> QED BY <2>1, <3>2 DEF Synced
  <2> QED BY <1>2, <2>1, <2>3
<1>4. ASSUME NEW u \in Tile, EvictTile(u)
      PROVE  SyncInv'
  <2>1. /\ Resident(image, u) /\ image.storage[u] \notin SharedWithLive
        /\ image' = Unloaded(image, u) /\ UNCHANGED <<capture, txn, layers>>
    BY <1>4 DEF EvictTile
  <2>2. /\ image'.storage = [image.storage EXCEPT ![u] = NoStorage]
        /\ image'.backed = image.backed \cup {u}
        /\ image'.generation = image.generation /\ image'.epoch = image.epoch
    BY <1>0, <2>1, UnloadedPicture
  <2>3. image.storage \in [Tile -> MaybeStorage] /\ image.storage[u] \in Storage
    BY <1>0, <2>1 DEF Picture, Resident, MaybeStorage
  <2>4. /\ capture # None => \A t \in DOMAIN capture.entries :
                               capture.entries[t].storage # image.storage[u]
        /\ txn # None => \A t \in DOMAIN txn.entries : txn.entries[t].storage # image.storage[u]
    BY <2>1, <2>3, HeldByCaptures
  <2>5. ASSUME NEW t \in Tile, NEW e \in CapturedTile, Synced(e, t, image),
               e.storage # image.storage[u]
        PROVE  Synced(e, t, image')
    <3>1. CASE t = u
      BY <2>2, <2>5, <3>1 DEF Synced
    <3>2. CASE t # u
      <4>1. image'.storage[t] = image.storage[t] /\ (t \in image'.backed <=> t \in image.backed)
        BY <2>2, <2>3, <3>2
      <4> QED BY <2>2, <2>5, <4>1 DEF Synced, Evicted, Resident
    <3> QED BY <3>1, <3>2
  <2> QED BY <1>2, <2>1, <2>4, <2>5
<1> QED BY <1>1, <1>3, <1>4 DEF HostStep

\* Captured versions stay synced in every behaviour.
LEMMA Syncing == Spec => [](HistoryTypes /\ BudgetInv /\ SyncInv)
<1>1. Init => SyncInv
  BY DEF Init, SyncInv, CaptureSync, TransactionSync
<1>2. HistoryTypes /\ HistoryTypes' /\ SyncInv /\ [Next]_vars => SyncInv'
  <2> SUFFICES ASSUME HistoryTypes, HistoryTypes', SyncInv, [Next]_vars
               PROVE  SyncInv'
    OBVIOUS
  <2>1. CASE UNCHANGED vars
    BY <2>1 DEF vars, SyncInv, CaptureSync, TransactionSync
  <2>2. CASE Next
    BY <2>2, HistoryStepSynced, HostStepSynced DEF Next
  <2> QED BY <2>1, <2>2
<1> QED BY <1>1, <1>2, TypesInit, TypesStep, PTL DEF Spec

\* Whatever happens beside an open transaction - writes, clears, evictions,
\* undo and redo - if its commit would pass the staleness checks, the tiles
\* and layers it declared are the ones it was opened on: committing loses no
\* other edit.
THEOREM CommitLosesNoUpdate == Spec => []NoLostUpdate
<1>1. HistoryTypes /\ SyncInv => NoLostUpdate
  <2> SUFFICES ASSUME HistoryTypes, SyncInv, txn # None, ~TransactionStale
               PROVE  /\ \A t \in DOMAIN txn.entries : Bytes(t) = BytesIn(txn.entries[t].storage)
                      /\ layers.content = txn.layers.content
    BY DEF NoLostUpdate
  <2>1. TransactionSync
    BY DEF SyncInv
  <2>2. ASSUME NEW t \in DOMAIN txn.entries
        PROVE  Bytes(t) = BytesIn(txn.entries[t].storage)
    <3> DEFINE e == txn.entries[t]
    <3>1. <<image.epoch, image.tileRev[t], image.generation[t]>>
             = <<e.epoch, e.revision, e.generation>>
      BY DEF TransactionStale
    <3>2. Synced(e, t, image)
      BY <2>1 DEF TransactionSync
    <3>3. e.storage = image.storage[t] /\ ~Evicted(image, t)
      BY <3>1, <3>2 DEF Synced
    <3> QED BY <3>3 DEF Bytes
  <2>3. layers = txn.layers
    BY <2>1 DEF TransactionSync, TransactionStale
  <2> QED BY <2>2, <2>3
<1> QED BY <1>1, Syncing, PTL

\* Unless the channels are cleared under it, a capture that would be admitted
\* misses no declared tile whose bytes changed: the generation tells.
THEOREM CapturesSeeEveryChange ==
    ASSUME "clear" \notin Activities
    PROVE  Spec => []CaptureSeesEveryChange
<1>1. HistoryTypes /\ SyncInv => CaptureSeesEveryChange
  <2> SUFFICES ASSUME HistoryTypes, SyncInv, capture # None, NEW t \in DOMAIN capture.entries,
                      t \notin ChangedTargets
               PROVE  Bytes(t) = BytesIn(capture.entries[t].storage)
    BY DEF CaptureSeesEveryChange
  <2>1. image.generation[t] = capture.entries[t].generation
    BY DEF ChangedTargets
  <2>2. Synced(capture.entries[t], t, image)
    BY DEF SyncInv, CaptureSync
  <2>3. capture.entries[t].storage = image.storage[t] /\ ~Evicted(image, t)
    BY <2>1, <2>2 DEF Synced
  <2> QED BY <2>3 DEF Bytes
<1> QED BY <1>1, Syncing, PTL

-----------------------------------------------------------------------------
(* Ownership *)

\* What is held for a tile is owned, hence not free.
LEMMA HeldIsOwned ==
    ASSUME HistoryTypes, NEW t \in Tile, NEW s \in HeldFor(t), s # NoStorage
    PROVE  s \in Storage /\ s \notin Free
<1>1. s \in MaybeStorage
  <2>1. s = image.storage[t] => s \in MaybeStorage
    BY DEF HistoryTypes, Picture
  <2>2. s \in HeldInHistory(t) => s \in MaybeStorage
    <3>1. \A step \in Steps : step \in HistoryStepType
      BY StackSets DEF Steps, HistoryTypes
    <3>2. \A step \in HistoryStepType : t \in Touched(step) => step.entries[t].storage \in MaybeStorage
      BY StepBytesIsNumber DEF RetainedTile
    <3> QED BY <3>1, <3>2 DEF HeldInHistory
  <2>3. s \in HeldInCapture(t) => s \in MaybeStorage
    BY OpenTypes DEF HeldInCapture, CapturedTile
  <2>4. s \in HeldInTransaction(t) => s \in MaybeStorage
    BY OpenTypes DEF HeldInTransaction, CapturedTile
  <2>5. s \in StagedFor(t) => s \in MaybeStorage
    BY OpenTypes DEF StagedFor, Transaction, Picture
  <2> QED BY <2>1, <2>2, <2>3, <2>4, <2>5 DEF HeldFor, PublishedFor
<1>2. Owns(image, Steps, capture, txn, s)
  BY DEF Owns, HeldFor, PublishedFor, HeldInHistory, HeldInCapture, HeldInTransaction, StagedFor
<1> QED BY <1>1, <1>2, FreeIs DEF MaybeStorage

\* What the live image or the staged one may not share is published.
LEMMA PublishedIsShared ==
    ASSUME HistoryTypes, NEW t \in Tile
    PROVE  /\ txn # None => PublishedFor(t) \subseteq SharedWithStaged
           /\ \A s \in PublishedFor(t) \cup StagedFor(t) :
                 s = NoStorage \/ s = image.storage[t] \/ s \in SharedWithLive
<1>1. ASSUME txn # None, NEW s \in PublishedFor(t)
      PROVE  s \in SharedWithStaged
  <2>1. s = image.storage[t] => s \in StoragesIn(image)
    BY DEF StoragesIn
  <2>2. s \in HeldInHistory(t) => s \in { e.storage : e \in EntriesOf(undo \o redo) }
    <3>1. ToSet(undo \o redo) = Steps
      BY FreeIs
    <3>2. s \in { e.storage : e \in EntriesOf(undo \o redo) } <=>
            \E step \in Steps : \E u \in Touched(step) : step.entries[u].storage = s
      BY <3>1, EntriesHold
    <3> QED BY <3>2 DEF HeldInHistory
  <2>3. s \in HeldInCapture(t) => capture # None /\ s \in CapturedStorages(capture)
    BY DEF HeldInCapture, CapturedStorages
  <2>4. s \in HeldInTransaction(t) => s \in CapturedStorages(txn)
    BY DEF HeldInTransaction, CapturedStorages
  <2> QED BY <1>1, <2>1, <2>2, <2>3, <2>4 DEF PublishedFor, SharedWithStaged
<1>2. ASSUME NEW s \in PublishedFor(t) \cup StagedFor(t), s # NoStorage, s # image.storage[t]
      PROVE  s \in SharedWithLive
  <2> DEFINE bare == [image EXCEPT !.storage = [u \in Tile |-> NoStorage]]
  <2>1. Owns(bare, Steps, capture, txn, s)
    BY <1>2 DEF Owns, PublishedFor, HeldInHistory, HeldInCapture, HeldInTransaction, StagedFor
  <2>2. ToSet(undo \o redo) = Steps
    BY FreeIs
  <2> HIDE DEF bare
  <2>3. s \in Owners(bare, undo \o redo, capture, txn)
    BY <1>2, <2>1, <2>2, OwnersAre
  <2> QED BY <2>3 DEF SharedWithLive, bare
<1> QED BY <1>1, <1>2

\* The distinct free storages f that an action takes for the tiles D.
Fresh(D, f) ==
    /\ D \subseteq Tile
    /\ \A t \in D : f[t] \in Free
    /\ \A t, u \in D : t # u => f[t] # f[u]

FreshFor(t, D, f) == IF t \in D THEN {f[t], NoStorage} ELSE {NoStorage}

\* Tiles go on sharing nothing when each takes storages of its own only.
LEMMA StillDisjoint ==
    ASSUME HistoryTypes, OwnershipInv, NEW D, NEW f, Fresh(D, f),
           \A t \in Tile : HeldFor(t)' \subseteq HeldFor(t) \cup FreshFor(t, D, f)
    PROVE  \A t, u \in Tile : t # u => HeldFor(t)' \cap HeldFor(u)' \subseteq {NoStorage}
<1> SUFFICES ASSUME NEW t \in Tile, NEW u \in Tile, t # u,
                    NEW s, s \in HeldFor(t)', s \in HeldFor(u)', s # NoStorage
             PROVE  FALSE
  OBVIOUS
<1>1. s \in HeldFor(t) \cup FreshFor(t, D, f) /\ s \in HeldFor(u) \cup FreshFor(u, D, f)
  OBVIOUS
<1>2. ~(s \in HeldFor(t) /\ s \in HeldFor(u))
  BY DEF OwnershipInv
<1>3. s \in HeldFor(t) \/ s \in HeldFor(u) => s \notin Free
  BY HeldIsOwned
<1>4. s \in FreshFor(t, D, f) => t \in D /\ s = f[t] /\ s \in Free
  BY DEF FreshFor, Fresh
<1>5. s \in FreshFor(u, D, f) => u \in D /\ s = f[u] /\ s \in Free
  BY DEF FreshFor, Fresh
<1> QED BY <1>1, <1>2, <1>3, <1>4, <1>5 DEF Fresh

\* Where an action may find a storage for a tile; the staged one only as the
\* transaction ends.
Origin(t, D, f) ==
    (IF txn' = None THEN HeldFor(t) ELSE PublishedFor(t)) \cup FreshFor(t, D, f)

\* Ownership is kept by actions that take storages from there and leave the
\* staged image alone.
LEMMA OwnershipKept ==
    ASSUME HistoryTypes, OwnershipInv, NEW D, NEW f, Fresh(D, f),
           \A t \in Tile : image'.storage[t] \in Origin(t, D, f),
           \A step \in Steps' : \A t \in Touched(step) :
              step \in Steps \/ step.entries[t].storage \in Origin(t, D, f),
           \/ capture' \in {capture, None}
           \/ \A t \in DOMAIN capture'.entries :
                 capture'.entries[t].storage \in Origin(t, D, f),
           txn' # None => /\ txn # None
                          /\ txn'.entries = txn.entries /\ txn'.image = txn.image
    PROVE  OwnershipInv'
<1>1. ASSUME NEW t \in Tile
      PROVE  PublishedFor(t)' \subseteq Origin(t, D, f)
  <2>0. PublishedFor(t) \subseteq Origin(t, D, f)
    BY DEF Origin, HeldFor
  <2>1. HeldInHistory(t)' \subseteq Origin(t, D, f)
    <3> SUFFICES ASSUME NEW step \in Steps', t \in Touched(step)
                 PROVE  step.entries[t].storage \in Origin(t, D, f)
      BY DEF HeldInHistory, Touched
    <3>1. step \in Steps => step.entries[t].storage \in PublishedFor(t)
      BY DEF PublishedFor, HeldInHistory
    <3> QED BY <2>0, <3>1
  <2>2. HeldInCapture(t)' \subseteq Origin(t, D, f)
    <3> SUFFICES ASSUME capture' # None, t \in DOMAIN capture'.entries
                 PROVE  capture'.entries[t].storage \in Origin(t, D, f)
      BY DEF HeldInCapture
    <3>1. CASE capture' = capture
      BY <2>0, <3>1 DEF PublishedFor, HeldInCapture
    <3> QED BY <3>1
  <2>3. HeldInTransaction(t)' \subseteq Origin(t, D, f)
    BY <2>0 DEF PublishedFor, HeldInTransaction
  <2> QED BY <2>1, <2>2, <2>3 DEF PublishedFor
<1>2. ASSUME NEW t \in Tile
      PROVE  HeldFor(t)' \subseteq HeldFor(t) \cup FreshFor(t, D, f)
  <2>1. Origin(t, D, f) \subseteq HeldFor(t) \cup FreshFor(t, D, f)
    BY DEF Origin, HeldFor
  <2>2. StagedFor(t)' \subseteq HeldFor(t)
    BY DEF StagedFor, HeldFor
  <2> QED BY <1>1, <2>1, <2>2 DEF HeldFor
<1>3. ASSUME txn' # None, NEW t \in StagedTargets'
      PROVE  txn'.image.storage[t] \notin PublishedFor(t)' \cup {NoStorage}
  <2>1. txn # None /\ StagedTargets' = StagedTargets /\ t \in Tile
    BY <1>3, OpenTypes DEF StagedTargets
  <2> DEFINE s == txn.image.storage[t]
  <2>2. s \notin PublishedFor(t) \cup {NoStorage} /\ s \in HeldFor(t)
    BY <2>1 DEF OwnershipInv, HeldFor, StagedFor
  <2>3. s \notin Free
    BY <2>1, <2>2, HeldIsOwned
  <2>4. s \notin FreshFor(t, D, f)
    BY <2>2, <2>3 DEF FreshFor, Fresh
  <2>5. PublishedFor(t)' \subseteq PublishedFor(t) \cup FreshFor(t, D, f)
    BY <1>1, <1>3, <2>1 DEF Origin
  <2> QED BY <1>3, <2>2, <2>4, <2>5
<1>4. \A t, u \in Tile : t # u => HeldFor(t)' \cap HeldFor(u)' \subseteq {NoStorage}
  BY <1>2, StillDisjoint
<1> QED BY <1>3, <1>4 DEF OwnershipInv

\* No storage is fresh.
LEMMA NothingFresh == \A f : Fresh({}, f)
BY DEF Fresh

\* Reloads take fresh storages.
LEMMA ReloadsAreFresh ==
    ASSUME HistoryTypes, NEW tiles \in SUBSET Tile, NEW f \in Reloads(tiles)
    PROVE  /\ Fresh(DOMAIN f, f)
           /\ \A t \in Tile : WithReloads(f).storage[t] \in {image.storage[t]} \cup FreshFor(t, DOMAIN f, f)
<1>1. ReloadedAs(tiles, f)
  BY ReloadedPicture DEF HistoryTypes
<1> QED BY <1>1 DEF ReloadedAs, Fresh, FreshFor

\* An image, a stack or a capture that stays has its storages from there.
LEMMA OldOrigins ==
    ASSUME NEW D, NEW f, NEW t
    PROVE  /\ image.storage[t] \in Origin(t, D, f)
           /\ NoStorage \in Origin(t, D, f)
           /\ FreshFor(t, D, f) \subseteq Origin(t, D, f)
           /\ \A step \in Steps : t \in Touched(step) =>
                 step.entries[t].storage \in Origin(t, D, f)
           /\ capture # None /\ t \in DOMAIN capture.entries =>
                 capture.entries[t].storage \in Origin(t, D, f)
           /\ txn # None /\ txn' = None => txn.image.storage[t] \in Origin(t, D, f)
BY DEF Origin, HeldFor, PublishedFor, HeldInHistory, HeldInCapture, StagedFor, FreshFor

\* Beginning a step or reading a tile reloads.
LEMMA ReloadKeepsOwnership ==
    ASSUME HistoryTypes, OwnershipInv,
           NEW tiles \in SUBSET Tile, NEW f \in Reloads(tiles), image' = WithReloads(f),
           UNCHANGED <<undo, redo, txn>>,
           capture' = capture \/ \E targets \in SUBSET Tile : capture' = CaptureOf(image', targets)
    PROVE  OwnershipInv'
<1>1. Fresh(DOMAIN f, f)
  BY ReloadsAreFresh
<1>2. \A t \in Tile : image'.storage[t] \in Origin(t, DOMAIN f, f)
  BY ReloadsAreFresh, OldOrigins
<1>3. Steps' = Steps
  BY DEF Steps
<1>4. \/ capture' = capture
      \/ \A t \in DOMAIN capture'.entries : capture'.entries[t].storage \in Origin(t, DOMAIN f, f)
  <2> SUFFICES ASSUME NEW targets \in SUBSET Tile, capture' = CaptureOf(image', targets)
               PROVE  \A t \in DOMAIN capture'.entries :
                         capture'.entries[t].storage \in Origin(t, DOMAIN f, f)
    OBVIOUS
  <2>1. image' \in Picture /\ sequence \in Nat
    BY ReloadedPicture DEF ReloadedAs, HistoryTypes
  <2> QED BY <1>2, <2>1, CaptureTakes
<1> QED BY <1>1, <1>2, <1>3, <1>4, OwnershipKept

\* Where neither the live image nor the steps change.
LEMMA StillOwnership ==
    ASSUME HistoryTypes, OwnershipInv, UNCHANGED <<image, undo, redo>>,
           capture' \in {capture, None},
           txn' # None => /\ txn # None
                          /\ txn'.entries = txn.entries /\ txn'.image = txn.image
    PROVE  OwnershipInv'
<1>1. Steps' = Steps
  BY DEF Steps
<1> QED BY <1>1, NothingFresh, OldOrigins, OwnershipKept

\* A transaction starts from the live image.
LEMMA BeginKeepsOwnership ==
    ASSUME HistoryTypes, OwnershipInv, NEW targets \in SUBSET Tile, BeginTransaction(targets)
    PROVE  OwnershipInv'
<1>1. PICK f \in Reloads(Tile) :
        /\ image' = WithReloads(f)
        /\ txn' = [ sequence |-> sequence,
                    entries  |-> CaptureOf(image', targets).entries,
                    layers   |-> layers,
                    image    |-> [image' EXCEPT !.backed = {}],
                    staged   |-> layers ]
  BY DEF BeginTransaction
<1>2. UNCHANGED <<undo, redo, capture>> /\ txn = None
  BY DEF BeginTransaction, stackVars
<1>3. image' \in Picture /\ sequence \in Nat
  BY <1>1, ReloadedPicture DEF ReloadedAs, HistoryTypes
<1>4. /\ txn'.entries = CaptureOf(image', targets).entries
      /\ txn'.image.storage = image'.storage /\ txn'.image.generation = image'.generation
  BY <1>1, <1>3 DEF Picture
<1>5. /\ DOMAIN txn'.entries = targets
      /\ \A t \in targets : /\ txn'.entries[t].generation = image'.generation[t]
                            /\ txn'.entries[t].storage = image'.storage[t]
  BY <1>3, <1>4, CaptureTakes
<1>6. StagedTargets' = {}
  BY <1>4, <1>5 DEF StagedTargets
<1>7. ASSUME NEW t \in Tile
      PROVE  HeldFor(t)' \subseteq HeldFor(t) \cup FreshFor(t, DOMAIN f, f)
  <2>1. image'.storage[t] \in HeldFor(t) \cup FreshFor(t, DOMAIN f, f)
    BY <1>1, ReloadsAreFresh DEF HeldFor, PublishedFor
  <2>2. HeldInHistory(t)' = HeldInHistory(t) /\ HeldInCapture(t)' = HeldInCapture(t)
    BY <1>2 DEF HeldInHistory, HeldInCapture, Steps
  <2>3. HeldInTransaction(t)' \subseteq {image'.storage[t]}
    BY <1>5 DEF HeldInTransaction
  <2>4. StagedFor(t)' \subseteq {image'.storage[t]}
    BY <1>4 DEF StagedFor
  <2> QED BY <2>1, <2>2, <2>3, <2>4 DEF HeldFor, PublishedFor
<1>8. \A t, u \in Tile : t # u => HeldFor(t)' \cap HeldFor(u)' \subseteq {NoStorage}
  BY <1>7, ReloadsAreFresh, StillDisjoint
<1> QED BY <1>6, <1>8 DEF OwnershipInv

\* A staged write takes a storage of its own.
LEMMA StagedWriteKeepsOwnership ==
    ASSUME HistoryTypes, OwnershipInv, NEW t \in Tile, NEW v \in Value, StagedWrite(t, v)
    PROVE  OwnershipInv'
<1>1. txn # None /\ UNCHANGED <<image, undo, redo, capture>>
  BY DEF StagedWrite, stackVars
<1>2. txn \in Transaction /\ txn.image \in Picture
  BY <1>1, OpenTypes DEF Transaction
<1>3. PICK s \in WriteTargets(txn.image, t, SharedWithStaged) :
        txn' = [txn EXCEPT !.image = Publish(txn.image, t, s)]
  BY <1>2 DEF StagedWrite, Transaction
<1>4. s \in Storage /\ (s \in Free \/ (s = txn.image.storage[t] /\ s \notin SharedWithStaged))
  BY <1>2, WriteTargetsAre
<1>5. PublishedAs(txn.image, t, s, Publish(txn.image, t, s))
  BY <1>2, <1>4, PublishPicture DEF MaybeStorage
<1>6. /\ txn'.entries = txn.entries
      /\ txn'.image.storage = [txn.image.storage EXCEPT ![t] = s]
      /\ txn'.image.generation = [txn.image.generation EXCEPT ![t] = @ + 1]
  BY <1>2, <1>3, <1>5 DEF PublishedAs, Transaction
<1>7. txn.image.storage \in [Tile -> MaybeStorage] /\ txn.image.generation \in [Tile -> Nat]
  BY <1>2 DEF Picture
<1>8. ASSUME NEW u \in Tile
      PROVE  PublishedFor(u)' = PublishedFor(u) \/ txn' = None
  BY <1>1, <1>6 DEF PublishedFor, HeldInHistory, HeldInCapture, HeldInTransaction, Steps
<1>9. CASE txn' = None
  BY <1>1, <1>9, StillOwnership
<1>10. CASE txn' # None
  <2> DEFINE D == IF s \in Free THEN {t} ELSE {}
             f == [u \in {t} |-> s]
  <2>1. Fresh(D, f)
    BY DEF Fresh
  <2>2. ASSUME NEW u \in Tile
        PROVE  HeldFor(u)' \subseteq HeldFor(u) \cup FreshFor(u, D, f)
    <3>1. StagedFor(u)' = {IF u = t THEN s ELSE txn.image.storage[u]}
      BY <1>6, <1>7, <1>10 DEF StagedFor
    <3>2. txn.image.storage[u] \in HeldFor(u)
      BY <1>1 DEF HeldFor, StagedFor
    <3>3. u = t => s \in HeldFor(u) \cup FreshFor(u, D, f)
      BY <1>4, <3>2 DEF FreshFor
    <3> QED BY <1>8, <1>10, <3>1, <3>2, <3>3 DEF HeldFor
  <2>3. \A u, w \in Tile : u # w => HeldFor(u)' \cap HeldFor(w)' \subseteq {NoStorage}
    <3> HIDE DEF D, f
    <3> QED BY <2>1, <2>2, StillDisjoint
  <2>4. ASSUME NEW u \in StagedTargets'
        PROVE  txn'.image.storage[u] \notin PublishedFor(u)' \cup {NoStorage}
    <3>1. u \in Tile /\ u \in DOMAIN txn.entries
      BY <1>1, <1>6, OpenTypes DEF StagedTargets
    <3>2. CASE u = t
      <4>1. s \notin PublishedFor(t)
        <5>1. s \in Free => s \notin HeldFor(t) \/ s = NoStorage
          BY HeldIsOwned
        <5>2. PublishedFor(t) \subseteq SharedWithStaged
          BY <1>1, PublishedIsShared
        <5> QED BY <1>4, <5>1, <5>2, StorageAssumption DEF HeldFor
      <4> QED BY <1>4, <1>6, <1>7, <1>8, <1>10, <3>2, <4>1, StorageAssumption
    <3>3. CASE u # t
      <4>1. u \in StagedTargets /\ txn'.image.storage[u] = txn.image.storage[u]
        BY <1>6, <1>7, <3>1, <3>3 DEF StagedTargets
      <4> QED BY <1>1, <1>8, <1>10, <3>1, <4>1 DEF OwnershipInv
    <3> QED BY <3>2, <3>3
  <2> QED BY <2>3, <2>4 DEF OwnershipInv
<1> QED BY <1>9, <1>10

\* A live write takes a storage of its own.
LEMMA WriteKeepsOwnership ==
    ASSUME HistoryTypes, OwnershipInv, NEW t \in Tile, NEW v \in Value, WriteLive(t, v)
    PROVE  OwnershipInv'
<1>1. PICK s \in WriteTargets(image, t, SharedWithLive) : image' = Publish(image, t, s)
  BY DEF WriteLive
<1>2. UNCHANGED <<undo, redo, capture, txn>> /\ image \in Picture
  BY DEF WriteLive, stackVars, HistoryTypes
<1>3. s \in Storage /\ (s \in Free \/ s = image.storage[t])
  BY <1>2, WriteTargetsAre
<1>4. image'.storage = [image.storage EXCEPT ![t] = s]
  <2>1. s \in MaybeStorage
    BY <1>3 DEF MaybeStorage
  <2>2. PublishedAs(image, t, s, image')
    BY <1>1, <1>2, <2>1, PublishPicture
  <2> QED BY <2>2 DEF PublishedAs
<1>5. image.storage \in [Tile -> MaybeStorage]
  BY <1>2 DEF Picture
<1> DEFINE D == IF s \in Free THEN {t} ELSE {}
           f == [u \in {t} |-> s]
<1>6. Fresh(D, f)
  BY DEF Fresh
<1>7. ASSUME NEW u \in Tile
      PROVE  image'.storage[u] \in Origin(u, D, f)
  <2>1. image.storage[u] \in Origin(u, D, f)
    BY OldOrigins
  <2>2. u = t /\ s \in Free => s \in Origin(u, D, f)
    BY DEF Origin, FreshFor
  <2> QED BY <1>3, <1>4, <1>5, <2>1, <2>2
<1>8. Steps' = Steps
  BY <1>2 DEF Steps
<1> HIDE DEF D, f
<1> QED BY <1>2, <1>6, <1>7, <1>8, OwnershipKept

\* Clearing and evicting only drop storages.
LEMMA DropKeepsOwnership ==
    ASSUME HistoryTypes, OwnershipInv, ClearChannels \/ \E t \in Tile : EvictTile(t)
    PROVE  OwnershipInv'
<1>1. UNCHANGED <<undo, redo, capture, txn>> /\ image \in Picture
  BY DEF ClearChannels, EvictTile, stackVars, HistoryTypes
<1>2. \A u \in Tile : image'.storage[u] \in {image.storage[u], NoStorage}
  <2>1. CASE ClearChannels
    BY <1>1, <2>1, ClearedPicture DEF ClearChannels
  <2>2. ASSUME NEW t \in Tile, EvictTile(t)
        PROVE  \A u \in Tile : image'.storage[u] \in {image.storage[u], NoStorage}
    <3>1. image'.storage = [image.storage EXCEPT ![t] = NoStorage]
      BY <1>1, <2>2, UnloadedPicture DEF EvictTile
    <3> QED BY <1>1, <3>1 DEF Picture
  <2> QED BY <2>1, <2>2
<1>3. Steps' = Steps
  BY <1>1 DEF Steps
<1>4. \A f : \A u \in Tile : image'.storage[u] \in Origin(u, {}, f)
  BY <1>2, OldOrigins
<1> QED BY <1>1, <1>3, <1>4, NothingFresh, OwnershipKept

\* A push adds one step and may drop others.
LEMMA PushAdds ==
    ASSUME HistoryTypes, BudgetInv, NEW step \in HistoryStepType, StepBytes(step) <= budget,
           Push(step)
    PROVE  Steps' = ToSet(Pushed(step)) /\ Steps' \subseteq Steps \cup {step}
<1>1. /\ undo' = Pushed(step) /\ redo' = <<>>
      /\ ToSet(Pushed(step)) \subseteq ToSet(undo) \cup {step}
  BY PushEffect DEF Push
<1>2. ToSet(<<>>) = {}
  BY DEF ToSet
<1> QED BY <1>1, <1>2 DEF Steps

\* A commit of a captured step hands the captured storages to the step.
LEMMA CommitStepKeepsOwnership ==
    ASSUME HistoryTypes, BudgetInv, OwnershipInv, CommitStep
    PROVE  OwnershipInv'
<1> DEFINE step == Step([t \in ChangedTargets |->
                          Entry(capture.entries[t].storage, image.generation[t],
                                CapturedBytes(t), Bytes(t))], None)
<1>1. /\ capture # None /\ Push(step) /\ capture' = None /\ UNCHANGED <<image, txn>>
      /\ Cardinality(ChangedTargets) <= budget /\ ChangedTargets # {}
  BY DEF CommitStep, DropCapture
<1>2. step \in HistoryStepType /\ StepBytes(step) = Cardinality(ChangedTargets)
  BY <1>1, CapturedStepType
<1>3. /\ Touched(step) = ChangedTargets
      /\ \A t \in ChangedTargets : step.entries[t].storage = capture.entries[t].storage
  BY DEF Step, Entry, Touched
<1>4. ChangedTargets \subseteq DOMAIN capture.entries
  BY DEF ChangedTargets
<1> HIDE DEF step
<1>5. Steps' \subseteq Steps \cup {step}
  BY <1>1, <1>2, PushAdds
<1>6. \A f : \A x \in Steps' : \A t \in Touched(x) :
         x \in Steps \/ x.entries[t].storage \in Origin(t, {}, f)
  BY <1>1, <1>3, <1>4, <1>5, OldOrigins
<1>7. \A f : \A t \in Tile : image'.storage[t] \in Origin(t, {}, f)
  BY <1>1, OldOrigins
<1> QED BY <1>1, <1>6, <1>7, NothingFresh, OwnershipKept

\* A commit of a transaction exchanges live and staged storages.
LEMMA CommitTransactionKeepsOwnership ==
    ASSUME HistoryTypes, BudgetInv, OwnershipInv, CommitTransaction
    PROVE  OwnershipInv'
<1> DEFINE replacement == [t \in StagedTargets |-> txn.image.storage[t]]
<1>1. /\ txn # None /\ txn' = None /\ capture' = capture
      /\ image' = ExchangedAll(image, replacement)
      /\ Push(TransactionStep) /\ Cardinality(StagedTargets) <= budget
  BY DEF CommitTransaction
<1>2. /\ image \in Picture /\ txn.image \in Picture /\ StagedTargets \in SUBSET Tile
  BY <1>1, OpenTypes DEF HistoryTypes, Transaction, StagedTargets
<1>3. /\ replacement \in [StagedTargets -> MaybeStorage]
      /\ \A t \in StagedTargets : replacement[t] = txn.image.storage[t]
  BY <1>2 DEF Picture
<1> HIDE DEF replacement
<1>4. ExchangedAs(image, replacement, StagedTargets, image')
  BY <1>1, <1>2, <1>3, ExchangeEffect
<1>5. /\ TransactionStep \in HistoryStepType
      /\ StepBytes(TransactionStep) = Cardinality(StagedTargets)
      /\ Touched(TransactionStep) = StagedTargets
  BY <1>1, TransactionStepType
<1>6. \A t \in StagedTargets : TransactionStep.entries[t].storage = image.storage[t]
  BY DEF TransactionStep, Step, Entry
<1>7. Steps' \subseteq Steps \cup {TransactionStep}
  BY <1>1, <1>5, PushAdds
<1>8. \A f : \A t \in Tile : image'.storage[t] \in Origin(t, {}, f)
  <2>1. \A t \in Tile : image'.storage[t] = IF t \in StagedTargets THEN txn.image.storage[t]
                                            ELSE image.storage[t]
    BY <1>3, <1>4 DEF ExchangedAs
  <2> QED BY <1>1, <2>1, OldOrigins
<1>9. \A f : \A x \in Steps' : \A t \in Touched(x) :
         x \in Steps \/ x.entries[t].storage \in Origin(t, {}, f)
  BY <1>5, <1>6, <1>7, OldOrigins
<1> QED BY <1>1, <1>8, <1>9, NothingFresh, OwnershipKept

\* A restore hands the storages of the exchanged tiles to each other.
LEMMA RestoreKeepsOwnership ==
    ASSUME HistoryTypes, OwnershipInv, NEW step \in Steps,
           NEW done \in SUBSET Touched(step), NEW f \in Reloads(done),
           image' = RestoredImage(step, WithReloads(f), done),
           NEW turned, Steps' \subseteq Steps \cup {turned}, Touched(turned) = Touched(step),
           \A t \in done : turned.entries[t].storage = WithReloads(f).storage[t],
           \A t \in Touched(step) \ done :
              turned.entries[t].storage \in {step.entries[t].storage, NoStorage},
           UNCHANGED <<capture, txn>>
    PROVE  OwnershipInv'
<1>1. step \in HistoryStepType /\ Touched(step) \in SUBSET Tile
  <2>1. step \in HistoryStepType
    BY StackSets DEF Steps, HistoryTypes
  <2> QED BY <2>1, StepBytesIsNumber
<1>2. RestoredAs(step, f, done, image')
  BY <1>1, RestoredEffect
<1>3. /\ Fresh(DOMAIN f, f)
      /\ \A t \in Tile : WithReloads(f).storage[t] \in {image.storage[t]} \cup FreshFor(t, DOMAIN f, f)
  BY <1>1, ReloadsAreFresh
<1>4. \A t \in Tile : image'.storage[t] \in Origin(t, DOMAIN f, f)
  <2>1. \A t \in Tile : image'.storage[t] = IF t \in done THEN step.entries[t].storage
                                            ELSE image.storage[t]
    BY <1>2 DEF RestoredAs
  <2> QED BY <2>1, OldOrigins
<1>5. ASSUME NEW t \in Touched(turned)
      PROVE  turned.entries[t].storage \in Origin(t, DOMAIN f, f)
  <2>1. CASE t \in done
    BY <1>1, <1>3, <2>1, OldOrigins
  <2>2. CASE t \notin done
    BY <2>2, OldOrigins
  <2> QED BY <2>1, <2>2
<1>6. \A x \in Steps' : \A t \in Touched(x) :
         x \in Steps \/ x.entries[t].storage \in Origin(t, DOMAIN f, f)
  BY <1>5
<1> QED BY <1>3, <1>4, <1>6, OwnershipKept

\* The fields of an entry that was turned round.
LEMMA TurnedFields ==
    ASSUME NEW step, NEW f, NEW done, NEW img, NEW turned, TurnedAs(step, f, done, img, turned),
           NEW t \in done
    PROVE  /\ turned.entries[t].storage = WithReloads(f).storage[t]
           /\ turned.entries[t].expected = img.generation[t]
           /\ turned.entries[t].kept = step.entries[t].seen
           /\ turned.entries[t].seen = step.entries[t].kept
<1>1. turned.entries[t] = Entry(WithReloads(f).storage[t], img.generation[t],
                                step.entries[t].seen, step.entries[t].kept)
  BY DEF TurnedAs
<1> QED BY <1>1 DEF Entry

\* An undo or redo of step: what becomes of the live side, and that all
\* steps but this one stay where they were or on the other stack.
Restores(step, f) ==
    /\ Restorable(step)
    /\ image' = RestoredImage(step, WithReloads(f), Touched(step))
    /\ Steps' \subseteq Steps \cup {MovedStep(step, f)}
    /\ \E left : /\ ToSet(left) = Steps'
                 /\ heap' = Swept(HeapWith(f), image', left, capture, txn)
    /\ layers' = RestoredLayers(step)
    /\ UNCHANGED <<backing, capture, txn>>

\* The steps of two stacks and one more.
LEMMA JoinedStacks ==
    ASSUME NEW a \in Seq(HistoryStepType), NEW b \in Seq(HistoryStepType), NEW x \in HistoryStepType
    PROVE  /\ ToSet(Append(a, x)) = ToSet(a) \cup {x}
           /\ ToSet(Append(b, x)) = ToSet(b) \cup {x}
           /\ ToSet(Append(a \o b, x)) = ToSet(a) \cup ToSet(b) \cup {x}
<1>1. a \o b \in Seq(HistoryStepType) /\ ToSet(a \o b) = ToSet(a) \cup ToSet(b)
  BY StackSets
<1>2. /\ ToSet(Append(a, x)) = ToSet(a) \cup {x}
      /\ ToSet(Append(b, x)) = ToSet(b) \cup {x}
      /\ ToSet(Append(a \o b, x)) = ToSet(a \o b) \cup {x}
  BY <1>1, AppendedSteps
<1> QED BY <1>1, <1>2

\* An undo restores the newest step and passes it to the other stack.
LEMMA UndoCrosses ==
    ASSUME HistoryTypes, Undo
    PROVE  /\ undo # <<>>
           /\ \E f \in Reloads(Touched(Last(undo))) :
                 /\ Restores(Last(undo), f)
                 /\ undo' = Front(undo) /\ redo' = Append(redo, MovedStep(Last(undo), f))
<1> DEFINE step == Last(undo)
<1>1. /\ undo # <<>> /\ step \in HistoryStepType /\ step \in Steps
      /\ Front(undo) \in Seq(HistoryStepType) /\ ToSet(Front(undo)) \subseteq ToSet(undo)
      /\ undo \in Seq(HistoryStepType) /\ redo \in Seq(HistoryStepType)
  BY NewestStep DEF Undo, HistoryTypes
<1>2. PICK f \in Reloads(Touched(step)) :
        /\ undo' = Front(undo) /\ redo' = Append(redo, MovedStep(step, f))
        /\ RestoreLive(step, f, Append(Front(undo) \o redo, MovedStep(step, f)))
  BY DEF Undo
<1>3. Restorable(step)
  BY DEF Undo
<1> HIDE DEF step
<1>4. MovedStep(step, f) \in HistoryStepType
  BY <1>1, MovedEffect DEF TurnedAs
<1> DEFINE left == Append(Front(undo) \o redo, MovedStep(step, f))
<1>5. /\ ToSet(left) = ToSet(Front(undo)) \cup ToSet(redo) \cup {MovedStep(step, f)}
      /\ ToSet(Append(redo, MovedStep(step, f))) = ToSet(redo) \cup {MovedStep(step, f)}
  BY <1>1, <1>4, JoinedStacks
<1>6. ToSet(left) = Steps' /\ Steps' \subseteq Steps \cup {MovedStep(step, f)}
  BY <1>1, <1>2, <1>5 DEF Steps
<1>7. Restores(step, f)
  <2>1. \E l : ToSet(l) = Steps' /\ heap' = Swept(HeapWith(f), image', l, capture, txn)
    BY <1>2, <1>6 DEF RestoreLive
  <2> QED BY <1>2, <1>3, <1>6, <2>1 DEF RestoreLive, Restores
<1> QED BY <1>1, <1>2, <1>7 DEF step

\* So does a redo.
LEMMA RedoCrosses ==
    ASSUME HistoryTypes, Redo
    PROVE  /\ redo # <<>>
           /\ \E f \in Reloads(Touched(Last(redo))) :
                 /\ Restores(Last(redo), f)
                 /\ redo' = Front(redo) /\ undo' = Append(undo, MovedStep(Last(redo), f))
<1> DEFINE step == Last(redo)
<1>1. /\ redo # <<>> /\ step \in HistoryStepType /\ step \in Steps
      /\ Front(redo) \in Seq(HistoryStepType) /\ ToSet(Front(redo)) \subseteq ToSet(redo)
      /\ undo \in Seq(HistoryStepType) /\ redo \in Seq(HistoryStepType)
  BY NewestStep DEF Redo, HistoryTypes
<1>2. PICK f \in Reloads(Touched(step)) :
        /\ redo' = Front(redo) /\ undo' = Append(undo, MovedStep(step, f))
        /\ RestoreLive(step, f, Append(undo \o Front(redo), MovedStep(step, f)))
  BY DEF Redo
<1>3. Restorable(step)
  BY DEF Redo
<1> HIDE DEF step
<1>4. MovedStep(step, f) \in HistoryStepType
  BY <1>1, MovedEffect DEF TurnedAs
<1> DEFINE left == Append(undo \o Front(redo), MovedStep(step, f))
<1>5. /\ ToSet(left) = ToSet(undo) \cup ToSet(Front(redo)) \cup {MovedStep(step, f)}
      /\ ToSet(Append(undo, MovedStep(step, f))) = ToSet(undo) \cup {MovedStep(step, f)}
  BY <1>1, <1>4, JoinedStacks
<1>6. ToSet(left) = Steps' /\ Steps' \subseteq Steps \cup {MovedStep(step, f)}
  BY <1>1, <1>2, <1>5 DEF Steps
<1>7. Restores(step, f)
  <2>1. \E l : ToSet(l) = Steps' /\ heap' = Swept(HeapWith(f), image', l, capture, txn)
    BY <1>2, <1>6 DEF RestoreLive
  <2> QED BY <1>2, <1>3, <1>6, <2>1 DEF RestoreLive, Restores
<1> QED BY <1>1, <1>2, <1>7 DEF step

\* Every undo and every redo restores a retained step.
LEMMA UndoRestores ==
    ASSUME HistoryTypes, Undo \/ Redo
    PROVE  \E step \in Steps : step \in HistoryStepType /\ \E f \in Reloads(Touched(step)) : Restores(step, f)
BY UndoCrosses, RedoCrosses, NewestStep

\* A restore that fails midway keeps ownership too.
LEMMA TornKeepsOwnership ==
    ASSUME HistoryTypes, OwnershipInv, NEW t \in Tile, NEW done \in SUBSET Tile,
           UndoFailsMidway(t, done) \/ RedoFailsMidway(t, done)
    PROVE  OwnershipInv'
<1>1. PICK from \in {undo, redo}, f \in Reloads(done) :
        /\ MayTear(from, t, done)
        /\ image' = RestoredImage(Last(from), WithReloads(f), done)
        /\ UNCHANGED <<capture, txn>>
        /\ \/ /\ from = undo /\ redo' = redo
              /\ undo' = Append(Front(undo), TornStep(Last(from), f, t, done))
           \/ /\ from = redo /\ undo' = undo
              /\ redo' = Append(Front(redo), TornStep(Last(from), f, t, done))
  BY DEF UndoFailsMidway, RedoFailsMidway, TearLive
<1> DEFINE step == Last(from)
           torn == TornStep(step, f, t, done)
<1>2. from # <<>> /\ t \in Touched(step) /\ done \in SUBSET (Touched(step) \ {t})
  BY <1>1 DEF MayTear
<1>3. /\ step \in HistoryStepType /\ step \in Steps
      /\ Front(from) \in Seq(HistoryStepType) /\ ToSet(Front(from)) \subseteq ToSet(from)
  BY <1>2, NewestStep
<1>4. image' = RestoredImage(step, WithReloads(f), done)
  BY <1>1
<1> HIDE DEF step
<1>5. /\ torn \in HistoryStepType /\ Touched(torn) = Touched(step)
      /\ torn.entries[t].storage = NoStorage
      /\ \A u \in Touched(step) \ {t} :
            torn.entries[u] = SwappedStep(step, WithReloads(f), done).entries[u]
  BY <1>2, <1>3, TornEffect
<1>6. TurnedAs(step, f, done, RestoredImage(step, WithReloads(f), done),
               SwappedStep(step, WithReloads(f), done))
  BY <1>2, <1>3, SwappedEffect
<1>7. Steps' \subseteq Steps \cup {torn}
  <2>1. ToSet(Append(Front(from), torn)) = ToSet(Front(from)) \cup {torn}
    BY <1>3, <1>5, AppendedSteps
  <2>2. \/ from = undo /\ redo' = redo /\ undo' = Append(Front(from), torn)
        \/ from = redo /\ undo' = undo /\ redo' = Append(Front(from), torn)
    BY <1>1 DEF step
  <2> HIDE DEF torn
  <2> QED BY <1>3, <2>1, <2>2 DEF Steps
<1> HIDE DEF torn
<1>8. \A u \in done : torn.entries[u].storage = WithReloads(f).storage[u]
  BY <1>2, <1>5, <1>6, TurnedFields
<1>9. \A u \in Touched(step) \ done : torn.entries[u].storage \in {step.entries[u].storage, NoStorage}
  BY <1>2, <1>5, <1>6 DEF TurnedAs
<1>10. done \in SUBSET Touched(step) /\ UNCHANGED <<capture, txn>>
  BY <1>1, <1>2
<1> QED BY <1>3, <1>4, <1>5, <1>7, <1>8, <1>9, <1>10, RestoreKeepsOwnership

\* Every step keeps ownership.
LEMMA OwnershipStep ==
    ASSUME HistoryTypes, BudgetInv, OwnershipInv, [Next]_vars
    PROVE  OwnershipInv'
<1>1. CASE UNCHANGED vars
  BY <1>1, StillOwnership DEF vars
<1>2. ASSUME NEW targets \in SUBSET Tile, BeginStep(targets)
      PROVE  OwnershipInv'
  <2>1. /\ \E f \in Reloads(targets) :
             image' = WithReloads(f) /\ capture' = CaptureOf(image', targets)
        /\ UNCHANGED <<undo, redo, txn>>
    BY <1>2 DEF BeginStep, stackVars
  <2> QED BY <2>1, ReloadKeepsOwnership
<1>3. CASE CommitStepRefused \/ EndTransaction
  BY <1>3, StillOwnership DEF CommitStepRefused, DropCapture, EndTransaction, stackVars
<1>4. ASSUME NEW c \in LayerContent, StagedLayers(c) \/ EditLayers(c)
      PROVE  OwnershipInv'
  <2>1. txn # None => txn \in Transaction
    BY OpenTypes
  <2> QED BY <1>4, <2>1, StillOwnership DEF StagedLayers, EditLayers, stackVars, liveVars, Transaction
<1>5. ASSUME NEW b \in Budget, ConfigureBudget(b)
      PROVE  OwnershipInv'
  BY <1>5, StillOwnership DEF ConfigureBudget, liveVars
<1>6. CASE Undo \/ Redo
  <2>0. PICK step \in Steps :
          step \in HistoryStepType /\ \E f \in Reloads(Touched(step)) : Restores(step, f)
    BY <1>6, UndoRestores
  <2>1. PICK f \in Reloads(Touched(step)) : Restores(step, f)
    BY <2>0
  <2>2. TurnedAs(step, f, Touched(step),
                 RestoredImage(step, WithReloads(f), Touched(step)), MovedStep(step, f))
    BY <2>0, MovedEffect
  <2>3. /\ Touched(MovedStep(step, f)) = Touched(step)
        /\ \A t \in Touched(step) : MovedStep(step, f).entries[t].storage = WithReloads(f).storage[t]
    <3>1. \A t \in Touched(step) : MovedStep(step, f).entries[t].storage = WithReloads(f).storage[t]
      BY <2>2, TurnedFields
    <3> QED BY <2>2, <3>1 DEF TurnedAs
  <2>4. /\ image' = RestoredImage(step, WithReloads(f), Touched(step))
        /\ Steps' \subseteq Steps \cup {MovedStep(step, f)} /\ UNCHANGED <<capture, txn>>
    BY <2>1 DEF Restores
  <2> QED BY <2>3, <2>4, RestoreKeepsOwnership
<1>7. ASSUME NEW t \in Tile, ReadLive(t)
      PROVE  OwnershipInv'
  <2>1. /\ \E f \in Reloads({t}) : image' = WithReloads(f)
        /\ UNCHANGED <<undo, redo, txn, capture>>
        /\ {t} \in SUBSET Tile
    BY <1>7 DEF ReadLive, stackVars
  <2> QED BY <2>1, ReloadKeepsOwnership
<1> QED BY <1>1, <1>2, <1>3, <1>4, <1>5, <1>6, <1>7, BeginKeepsOwnership, StagedWriteKeepsOwnership,
           CommitStepKeepsOwnership, CommitTransactionKeepsOwnership, TornKeepsOwnership,
           WriteKeepsOwnership, DropKeepsOwnership
        DEF Next, HistoryStep, HostStep

\* Tiles never share a storage, and a transaction never writes a storage
\* anything else holds.
THEOREM StoragesAreOwned == Spec => []OwnershipInv
<1>1. Init => OwnershipInv
  <2> SUFFICES ASSUME Init PROVE OwnershipInv
    OBVIOUS
  <2>1. /\ \A t \in Tile : image.storage[t] = NoStorage
        /\ Steps = {} /\ capture = None /\ txn = None
    BY DEF Init, NewImage, Steps, ToSet
  <2>2. \A t \in Tile : HeldFor(t) = {NoStorage}
    BY <2>1 DEF HeldFor, PublishedFor, HeldInHistory, HeldInCapture, HeldInTransaction, StagedFor
  <2> QED BY <2>1, <2>2 DEF OwnershipInv
<1>2. HistoryTypes /\ BudgetInv /\ OwnershipInv /\ [Next]_vars => OwnershipInv'
  BY OwnershipStep
<1> QED BY <1>1, <1>2, TypesInit, TypesStep, PTL DEF Spec

-----------------------------------------------------------------------------
(* Retained bytes *)

\* The steps are typed.
LEMMA StepsTyped ==
    ASSUME HistoryTypes
    PROVE  \A step \in Steps : /\ step \in HistoryStepType /\ Touched(step) \in SUBSET Tile
                               /\ step.entries \in [Touched(step) -> RetainedTile]
<1>1. Steps \subseteq HistoryStepType
  BY StackSets DEF Steps, HistoryTypes
<1> QED BY <1>1, StepBytesIsNumber

\* Generations only grow; a tile that keeps its generation keeps its bytes,
\* and so does what retained steps hold.
BytesMove ==
    /\ \A t \in Tile : /\ image.generation[t] <= image'.generation[t]
                       /\ image.generation[t] = image'.generation[t] =>
                             TileBytes(t, image', heap', backing') = TileBytes(t, image, heap, backing)
    /\ \A step \in Steps \cap Steps' : \A t \in Touched(step) :
          HeldBytes(step.entries[t].storage, heap') = HeldBytes(step.entries[t].storage, heap)

\* All parts of a step are exact in the next state.
NextExact(step) ==
    /\ \A t \in Touched(step) : EntryExact(step.entries[t], t, image', heap', backing')
    /\ step.layer # None => LayerExact(step.layer, layers')

\* Exactness survives moving bytes and layers; new steps must bring it.
LEMMA ExactKept ==
    ASSUME HistoryTypes, HistoryTypes', ExactInv, BytesMove, LayersMove,
           \A step \in Steps' : step \in Steps \/ NextExact(step)
    PROVE  ExactInv'
<1>1. ASSUME NEW step \in Steps, step \in Steps', NEW t \in Touched(step)
      PROVE  EntryExact(step.entries[t], t, image', heap', backing')
  <2> DEFINE e == step.entries[t]
  <2>1. t \in Tile /\ e \in RetainedTile
    BY StepsTyped
  <2>2. /\ e.expected \in Nat /\ image.generation[t] \in Nat /\ image'.generation[t] \in Nat
    BY <2>1 DEF RetainedTile, HistoryTypes, Picture
  <2>3. EntryExact(e, t, image, heap, backing)
    BY DEF ExactInv
  <2>4. /\ image.generation[t] <= image'.generation[t]
        /\ image.generation[t] = image'.generation[t] =>
              TileBytes(t, image', heap', backing') = TileBytes(t, image, heap, backing)
        /\ HeldBytes(e.storage, heap') = HeldBytes(e.storage, heap)
    BY <1>1, <2>1 DEF BytesMove
  <2> HIDE DEF e
  <2>5. e.expected = image'.generation[t] =>
          e.expected = image.generation[t] /\ image.generation[t] = image'.generation[t]
    BY <2>2, <2>3, <2>4 DEF EntryExact
  <2>6. e.expected <= image'.generation[t]
    BY <2>2, <2>3, <2>4 DEF EntryExact
  <2>7. EntryExact(e, t, image', heap', backing')
    BY <2>3, <2>4, <2>5, <2>6 DEF EntryExact
  <2> QED BY <2>7 DEF e
<1>2. ASSUME NEW step \in Steps, step.layer # None
      PROVE  LayerExact(step.layer, layers')
  <2>1. LayerExact(step.layer, layers)
    BY <1>2 DEF ExactInv
  <2>2. /\ step.layer.expected \in Nat /\ layers.revision \in Nat /\ layers'.revision \in Nat
    BY <1>2, StepsTyped DEF HistoryStepType, Command, HistoryTypes, Stack
  <2> QED BY <2>1, <2>2 DEF LayerExact, LayersMove
<1>3. \A step \in Steps' : NextExact(step)
  BY <1>1, <1>2 DEF NextExact
<1> QED BY <1>3 DEF ExactInv, NextExact, Touched

\* A sweep keeps what tiles and steps have.
KeepsBytes(img, S, hp, after) ==
    /\ \A t \in Tile : \A bk : TileBytes(t, img, after, bk) = TileBytes(t, img, hp, bk)
    /\ \A step \in S : \A t \in Touched(step) :
          HeldBytes(step.entries[t].storage, after) = HeldBytes(step.entries[t].storage, hp)

\* Sweeping storages nobody owns keeps what tiles and steps have.
LEMMA SweptBytes ==
    ASSUME NEW hp \in [Storage -> Value], NEW img \in Picture, NEW steps, NEW cap, NEW tx,
           \A step \in ToSet(steps) : \A t \in Touched(step) : step.entries[t].storage \in MaybeStorage
    PROVE  KeepsBytes(img, ToSet(steps), hp, Swept(hp, img, steps, cap, tx))
<1> DEFINE after == Swept(hp, img, steps, cap, tx)
<1>1. \A s \in Storage : Owns(img, ToSet(steps), cap, tx, s) => after[s] = hp[s]
  BY SweptHeap
<1> HIDE DEF after
<1>2. ASSUME NEW s \in MaybeStorage, Owns(img, ToSet(steps), cap, tx, s)
      PROVE  HeldBytes(s, after) = HeldBytes(s, hp)
  BY <1>1, <1>2 DEF HeldBytes, MaybeStorage
<1>3. ASSUME NEW t \in Tile
      PROVE  HeldBytes(img.storage[t], after) = HeldBytes(img.storage[t], hp)
  <2>1. img.storage[t] \in MaybeStorage /\ Owns(img, ToSet(steps), cap, tx, img.storage[t])
    BY DEF Picture, Owns
  <2> QED BY <1>2, <2>1
<1>4. ASSUME NEW step \in ToSet(steps), NEW t \in Touched(step)
      PROVE  HeldBytes(step.entries[t].storage, after) = HeldBytes(step.entries[t].storage, hp)
  <2>1. Owns(img, ToSet(steps), cap, tx, step.entries[t].storage)
    BY DEF Owns
  <2> QED BY <1>2, <2>1
<1>5. \A t \in Tile : \A bk : TileBytes(t, img, after, bk) = TileBytes(t, img, hp, bk)
  BY <1>3 DEF TileBytes
<1> QED BY <1>4, <1>5 DEF KeepsBytes, after

\* Bytes move on when they do in the heap hp that is swept at the end.
LEMMA BytesMoveVia ==
    ASSUME HistoryTypes, HistoryTypes', NEW hp \in [Storage -> Value],
           \/ heap' = hp
           \/ \E steps : /\ ToSet(steps) = Steps'
                         /\ heap' = Swept(hp, image', steps, capture', txn'),
           \A t \in Tile : /\ image.generation[t] <= image'.generation[t]
                           /\ image.generation[t] = image'.generation[t] =>
                                 TileBytes(t, image', hp, backing') = TileBytes(t, image, heap, backing),
           \A step \in Steps : \A t \in Touched(step) :
              HeldBytes(step.entries[t].storage, hp) = HeldBytes(step.entries[t].storage, heap)
    PROVE  BytesMove /\ KeepsBytes(image', Steps', hp, heap')
<1>1. KeepsBytes(image', Steps', hp, heap')
  <2>1. CASE heap' = hp
    BY <2>1 DEF KeepsBytes
  <2>2. CASE \E steps : /\ ToSet(steps) = Steps'
                        /\ heap' = Swept(hp, image', steps, capture', txn')
    <3>1. PICK steps : ToSet(steps) = Steps' /\ heap' = Swept(hp, image', steps, capture', txn')
      BY <2>2
    <3>2. \A step \in Steps' : \A t \in Touched(step) : step.entries[t].storage \in MaybeStorage
      <4>1. Steps' \subseteq HistoryStepType
        <5>1. undo' \in Seq(HistoryStepType) /\ redo' \in Seq(HistoryStepType)
          BY DEF HistoryTypes
        <5>2. ToSet(undo') \subseteq HistoryStepType /\ ToSet(redo') \subseteq HistoryStepType
          BY <5>1, StackSets
        <5> QED BY <5>2 DEF Steps
      <4> QED BY <4>1, StepBytesIsNumber DEF RetainedTile
    <3>3. image' \in Picture
      BY DEF HistoryTypes
    <3> QED BY <3>1, <3>2, <3>3, SweptBytes
  <2> QED BY <2>1, <2>2
<1>2. BytesMove
  BY <1>1 DEF BytesMove, KeepsBytes
<1> QED BY <1>1, <1>2

\* Where neither image, layers nor steps change.
LEMMA StillExact ==
    ASSUME HistoryTypes, HistoryTypes', ExactInv, UNCHANGED <<image, backing, undo, redo>>, LayersMove,
           \/ heap' = heap
           \/ heap' = Swept(heap, image, undo \o redo, capture', txn')
    PROVE  ExactInv'
<1>1. Steps' = Steps /\ ToSet(undo \o redo) = Steps
  BY FreeIs DEF Steps
<1>2. heap \in [Storage -> Value] /\ \A t \in Tile : image.generation[t] \in Nat
  BY DEF HistoryTypes, Picture
<1>3. BytesMove
  <2>1. \/ heap' = heap
        \/ \E steps : ToSet(steps) = Steps' /\ heap' = Swept(heap, image', steps, capture', txn')
    BY <1>1
  <2> QED BY <1>2, <2>1, BytesMoveVia
<1> QED BY <1>1, <1>3, ExactKept

\* Reloads keep the bytes of tiles and steps.
LEMMA ReloadedBytes ==
    ASSUME HistoryTypes, NEW tiles \in SUBSET Tile, NEW f \in Reloads(tiles)
    PROVE  /\ \A t \in Tile : TileBytes(t, WithReloads(f), HeapWith(f), backing)
                                 = TileBytes(t, image, heap, backing)
           /\ \A step \in Steps : \A t \in Touched(step) :
                 HeldBytes(step.entries[t].storage, HeapWith(f))
                    = HeldBytes(step.entries[t].storage, heap)
<1>1. ReloadedAs(tiles, f)
  BY ReloadedPicture DEF HistoryTypes
<1>2. /\ \A s \in Storage : s \notin Free => HeapWith(f)[s] = heap[s]
      /\ \A t \in DOMAIN f : HeapWith(f)[f[t]] = backing[t]
  BY ReloadedHeap
<1>3. ASSUME NEW t \in Tile, NEW s \in HeldFor(t)
      PROVE  HeldBytes(s, HeapWith(f)) = HeldBytes(s, heap)
  BY <1>2, HeldIsOwned DEF HeldBytes
<1>4. ASSUME NEW t \in Tile
      PROVE  TileBytes(t, WithReloads(f), HeapWith(f), backing) = TileBytes(t, image, heap, backing)
  <2>1. CASE t \in DOMAIN f
    <3>1. f[t] \in Storage /\ WithReloads(f).storage[t] = f[t] /\ Evicted(image, t)
      BY <1>1, <2>1 DEF ReloadedAs
    <3>2. ~Evicted(WithReloads(f), t) /\ HeldBytes(f[t], HeapWith(f)) = backing[t]
      BY <1>2, <2>1, <3>1, StorageAssumption DEF Evicted, Resident, HeldBytes
    <3> QED BY <3>1, <3>2 DEF TileBytes
  <2>2. CASE t \notin DOMAIN f
    <3>1. /\ WithReloads(f).storage[t] = image.storage[t]
          /\ WithReloads(f).backed = image.backed
      BY <1>1, <2>2 DEF ReloadedAs
    <3>2. image.storage[t] \in HeldFor(t)
      BY DEF HeldFor, PublishedFor
    <3> QED BY <1>3, <3>1, <3>2 DEF TileBytes, Evicted, Resident
  <2> QED BY <2>1, <2>2
<1>5. ASSUME NEW step \in Steps, NEW t \in Touched(step)
      PROVE  HeldBytes(step.entries[t].storage, HeapWith(f)) = HeldBytes(step.entries[t].storage, heap)
  <2>1. t \in Tile /\ step.entries[t].storage \in HeldFor(t)
    BY StepsTyped DEF HeldFor, PublishedFor, HeldInHistory
  <2> QED BY <1>3, <2>1
<1> QED BY <1>4, <1>5

\* Beginning a step or a transaction and reading a tile change no bytes.
LEMMA ReloadKeepsExact ==
    ASSUME HistoryTypes, HistoryTypes', ExactInv, UNCHANGED <<backing, layers, undo, redo>>,
           NEW tiles \in SUBSET Tile, NEW f \in Reloads(tiles), image' = WithReloads(f),
           \/ heap' = HeapWith(f)
           \/ heap' = Swept(HeapWith(f), image', undo \o redo, capture', txn')
    PROVE  ExactInv'
<1>1. Steps' = Steps /\ ToSet(undo \o redo) = Steps
  BY FreeIs DEF Steps
<1>2. HeapWith(f) \in [Storage -> Value] /\ Moves(image')
  BY ReloadedHeap, ReloadMoves DEF HistoryTypes
<1>3. BytesMove
  <2>1. \/ heap' = HeapWith(f)
        \/ \E steps : ToSet(steps) = Steps' /\ heap' = Swept(HeapWith(f), image', steps, capture', txn')
    BY <1>1
  <2>2. \A t \in Tile : /\ image.generation[t] <= image'.generation[t]
                        /\ TileBytes(t, image', HeapWith(f), backing') = TileBytes(t, image, heap, backing)
    BY <1>2, ReloadedBytes DEF Moves, TileMoves
  <2> QED BY <1>2, <2>1, <2>2, ReloadedBytes, BytesMoveVia
<1>4. LayersMove
  BY DEF LayersMove, HistoryTypes, Stack
<1> QED BY <1>1, <1>3, <1>4, ExactKept

\* Neither a storage of another tile nor the rest of the heap is written.
LEMMA OtherBytes ==
    ASSUME HistoryTypes, NEW s \in Storage, NEW v \in Value, NEW r \in MaybeStorage, r # s
    PROVE  HeldBytes(r, [heap EXCEPT ![s] = v]) = HeldBytes(r, heap)
BY DEF HistoryTypes, HeldBytes, MaybeStorage

\* What steps hold is shared with the live image.
LEMMA StepsAreShared ==
    ASSUME HistoryTypes
    PROVE  \A step \in Steps : \A t \in Touched(step) :
              step.entries[t].storage = NoStorage \/ step.entries[t].storage \in SharedWithLive
<1> DEFINE bare == [image EXCEPT !.storage = [t \in Tile |-> NoStorage]]
<1>1. \A s : s \in SharedWithLive <=> s # NoStorage /\ Owns(bare, Steps, capture, txn, s)
  <2> HIDE DEF bare
  <2>1. \A s : s \in Owners(bare, undo \o redo, capture, txn) <=>
                 s # NoStorage /\ Owns(bare, Steps, capture, txn, s)
    BY FreeIs, OwnersAre
  <2> QED BY <2>1 DEF SharedWithLive, bare
<1> HIDE DEF bare
<1>2. \A step \in Steps : \A t \in Touched(step) :
         Owns(bare, Steps, capture, txn, step.entries[t].storage)
  BY DEF Owns
<1> QED BY <1>1, <1>2

\* A staged write touches no live tile and no step.
LEMMA StagedWriteKeepsExact ==
    ASSUME HistoryTypes, HistoryTypes', ExactInv, NEW t \in Tile, NEW v \in Value, StagedWrite(t, v)
    PROVE  ExactInv'
<1>1. txn # None /\ UNCHANGED <<image, backing, layers, undo, redo, capture>>
  BY DEF StagedWrite, stackVars
<1>2. txn \in Transaction /\ txn.image \in Picture
  BY <1>1, OpenTypes DEF Transaction
<1>3. PICK s \in WriteTargets(txn.image, t, SharedWithStaged) :
        heap' = Swept([heap EXCEPT ![s] = v], image, undo \o redo, capture, txn')
  BY DEF StagedWrite
<1>4. s \in Storage /\ (s \in Free \/ s \notin SharedWithStaged)
  BY <1>2, WriteTargetsAre
<1> DEFINE hp == [heap EXCEPT ![s] = v]
<1>5. hp \in [Storage -> Value]
  BY <1>4 DEF HistoryTypes
<1>6. ASSUME NEW u \in Tile, NEW r \in PublishedFor(u), r \in MaybeStorage
      PROVE  HeldBytes(r, hp) = HeldBytes(r, heap)
  <2>1. r = NoStorage \/ (r \notin Free /\ r \in SharedWithStaged)
    BY <1>1, HeldIsOwned, PublishedIsShared DEF HeldFor
  <2> QED BY <1>4, <1>6, <2>1, OtherBytes DEF HeldBytes
<1> HIDE DEF hp
<1>7. ASSUME NEW u \in Tile
      PROVE  /\ image.generation[u] <= image'.generation[u]
             /\ TileBytes(u, image', hp, backing') = TileBytes(u, image, heap, backing)
  <2>1. image.storage[u] \in PublishedFor(u) /\ image.storage[u] \in MaybeStorage
    BY DEF PublishedFor, HistoryTypes, Picture
  <2>2. image.generation[u] \in Nat
    BY DEF HistoryTypes, Picture
  <2> QED BY <1>1, <1>6, <2>1, <2>2 DEF TileBytes
<1>8. ASSUME NEW step \in Steps, NEW u \in Touched(step)
      PROVE  HeldBytes(step.entries[u].storage, hp) = HeldBytes(step.entries[u].storage, heap)
  <2>1. /\ u \in Tile /\ step.entries[u].storage \in MaybeStorage
        /\ step.entries[u].storage \in PublishedFor(u)
    BY StepsTyped DEF PublishedFor, HeldInHistory, RetainedTile
  <2> QED BY <1>6, <2>1
<1>9. Steps' = Steps /\ ToSet(undo \o redo) = Steps
  BY <1>1, FreeIs DEF Steps
<1>10. BytesMove
  <2>1. \E steps : ToSet(steps) = Steps' /\ heap' = Swept(hp, image', steps, capture', txn')
    BY <1>1, <1>3, <1>9 DEF hp
  <2> QED BY <1>5, <1>7, <1>8, <2>1, BytesMoveVia
<1>11. LayersMove
  BY <1>1 DEF LayersMove, HistoryTypes, Stack
<1> QED BY <1>9, <1>10, <1>11, ExactKept

\* A live write changes the bytes of its tile only, and the generation of
\* that tile with them.
LEMMA WriteKeepsExact ==
    ASSUME HistoryTypes, HistoryTypes', ExactInv, OwnershipInv,
           NEW t \in Tile, NEW v \in Value, WriteLive(t, v)
    PROVE  ExactInv'
<1>1. UNCHANGED <<backing, layers, undo, redo, capture, txn>>
  BY DEF WriteLive, stackVars
<1>2. image \in Picture
  BY DEF HistoryTypes
<1>3. PICK s \in WriteTargets(image, t, SharedWithLive) :
        /\ image' = Publish(image, t, s)
        /\ heap' = Swept([heap EXCEPT ![s] = v], image', undo \o redo, capture, txn)
  BY DEF WriteLive
<1>4. s \in Storage /\ (s \in Free \/ (s = image.storage[t] /\ s \notin SharedWithLive))
  BY <1>2, WriteTargetsAre
<1>5. PublishedAs(image, t, s, image')
  BY <1>2, <1>3, <1>4, PublishPicture DEF MaybeStorage
<1>6. /\ image'.storage = [image.storage EXCEPT ![t] = s]
      /\ image'.backed = image.backed \ {t}
      /\ image'.generation = [image.generation EXCEPT ![t] = @ + 1]
      /\ image.storage \in [Tile -> MaybeStorage] /\ image.generation \in [Tile -> Nat]
  BY <1>2, <1>5 DEF PublishedAs, Picture
<1> DEFINE hp == [heap EXCEPT ![s] = v]
<1>7. hp \in [Storage -> Value]
  BY <1>4 DEF HistoryTypes
<1>8. ASSUME NEW u \in Tile
      PROVE  /\ image.generation[u] <= image'.generation[u]
             /\ image.generation[u] = image'.generation[u] =>
                   TileBytes(u, image', hp, backing') = TileBytes(u, image, heap, backing)
  <2>1. image.generation[u] \in Nat
    BY <1>6
  <2>2. CASE u = t
    BY <1>6, <2>1, <2>2
  <2>3. CASE u # t
    <3>1. /\ image'.storage[u] = image.storage[u] /\ (u \in image'.backed <=> u \in image.backed)
          /\ image'.generation[u] = image.generation[u]
      BY <1>6, <2>3
    <3>2. image.storage[u] = NoStorage \/ image.storage[u] # s
      <4>1. image.storage[u] \in HeldFor(u) /\ image.storage[t] \in HeldFor(t)
        BY DEF HeldFor, PublishedFor
      <4>2. s \in Free => image.storage[u] # s \/ image.storage[u] = NoStorage
        BY <4>1, HeldIsOwned
      <4>3. image.storage[u] = image.storage[t] => image.storage[u] = NoStorage
        BY <2>3, <4>1 DEF OwnershipInv
      <4> QED BY <1>4, <4>2, <4>3
    <3>3. HeldBytes(image.storage[u], hp) = HeldBytes(image.storage[u], heap)
      <4>1. image.storage[u] \in MaybeStorage
        BY <1>6
      <4> QED BY <1>4, <3>2, <4>1, OtherBytes DEF HeldBytes
    <3> HIDE DEF hp
    <3> QED BY <1>1, <2>1, <3>1, <3>3 DEF TileBytes, Evicted, Resident
  <2> QED BY <2>2, <2>3
<1>9. ASSUME NEW step \in Steps, NEW u \in Touched(step)
      PROVE  HeldBytes(step.entries[u].storage, hp) = HeldBytes(step.entries[u].storage, heap)
  <2> DEFINE r == step.entries[u].storage
  <2>1. u \in Tile /\ r \in MaybeStorage /\ r \in HeldFor(u)
    BY StepsTyped DEF HeldFor, PublishedFor, HeldInHistory, RetainedTile
  <2>2. r = NoStorage \/ (r \notin Free /\ r \in SharedWithLive)
    BY <2>1, StepsAreShared, HeldIsOwned
  <2> HIDE DEF r
  <2>3. HeldBytes(r, hp) = HeldBytes(r, heap)
    BY <1>4, <2>1, <2>2, OtherBytes DEF HeldBytes
  <2> QED BY <2>3 DEF r
<1> HIDE DEF hp
<1>10. Steps' = Steps /\ ToSet(undo \o redo) = Steps
  BY <1>1, FreeIs DEF Steps
<1>11. BytesMove
  <2>1. \E steps : ToSet(steps) = Steps' /\ heap' = Swept(hp, image', steps, capture', txn')
    BY <1>1, <1>3, <1>10 DEF hp
  <2> QED BY <1>7, <1>8, <1>9, <2>1, BytesMoveVia
<1>12. LayersMove
  BY <1>1 DEF LayersMove, HistoryTypes, Stack
<1> QED BY <1>10, <1>11, <1>12, ExactKept

\* Eviction moves the bytes of a tile to the backing store.
LEMMA EvictKeepsExact ==
    ASSUME HistoryTypes, HistoryTypes', ExactInv, NEW t \in Tile, EvictTile(t)
    PROVE  ExactInv'
<1>1. /\ UNCHANGED <<layers, undo, redo, capture, txn>>
      /\ backing' = [backing EXCEPT ![t] = Bytes(t)]
      /\ image' = Unloaded(image, t)
      /\ heap' = Swept(heap, image', undo \o redo, capture, txn)
  BY DEF EvictTile, stackVars
<1>2. /\ image \in Picture /\ heap \in [Storage -> Value] /\ backing \in [Tile -> Value]
  BY DEF HistoryTypes
<1>3. /\ image'.storage = [image.storage EXCEPT ![t] = NoStorage]
      /\ image'.backed = image.backed \cup {t}
      /\ image'.generation = image.generation
      /\ image.storage \in [Tile -> MaybeStorage] /\ image.generation \in [Tile -> Nat]
  BY <1>1, <1>2, UnloadedPicture DEF Picture
<1>4. ASSUME NEW u \in Tile
      PROVE  /\ image.generation[u] <= image'.generation[u]
             /\ TileBytes(u, image', heap, backing') = TileBytes(u, image, heap, backing)
  <2>1. CASE u = t
    <3>1. Evicted(image', u) /\ backing'[u] = Bytes(u)
      BY <1>1, <1>2, <1>3, <2>1 DEF Evicted, Resident
    <3> QED BY <1>3, <3>1 DEF TileBytes, Bytes, BytesIn, HeldBytes
  <2>2. CASE u # t
    <3>1. /\ image'.storage[u] = image.storage[u] /\ (u \in image'.backed <=> u \in image.backed)
          /\ backing'[u] = backing[u]
      BY <1>1, <1>2, <1>3, <2>2
    <3> QED BY <1>3, <3>1 DEF TileBytes, Evicted, Resident
  <2> QED BY <2>1, <2>2
<1>5. Steps' = Steps /\ ToSet(undo \o redo) = Steps
  BY <1>1, FreeIs DEF Steps
<1>6. BytesMove
  <2>1. \E steps : ToSet(steps) = Steps' /\ heap' = Swept(heap, image', steps, capture', txn')
    BY <1>1, <1>5
  <2> QED BY <1>2, <1>4, <2>1, BytesMoveVia
<1>7. LayersMove
  BY <1>1 DEF LayersMove, HistoryTypes, Stack
<1> QED BY <1>5, <1>6, <1>7, ExactKept

\* A step that is pushed over bytes in motion.
LEMMA PushKeepsExact ==
    ASSUME HistoryTypes, HistoryTypes', BudgetInv, ExactInv, LayersMove, backing' = backing,
           NEW step \in HistoryStepType, StepBytes(step) <= budget, Push(step),
           heap' = Swept(heap, image', Pushed(step), capture', txn'),
           \A t \in Tile : /\ image.generation[t] <= image'.generation[t]
                           /\ image.generation[t] = image'.generation[t] =>
                                 TileBytes(t, image', heap, backing) = TileBytes(t, image, heap, backing),
           KeepsBytes(image', Steps', heap, heap') /\ step \in Steps' => NextExact(step)
    PROVE  ExactInv'
<1>1. Steps' = ToSet(Pushed(step)) /\ Steps' \subseteq Steps \cup {step}
  BY PushAdds
<1>2. step \in Steps'
  BY <1>1, PushEffect
<1>3. BytesMove /\ KeepsBytes(image', Steps', heap, heap')
  <2>1. heap \in [Storage -> Value]
    BY DEF HistoryTypes
  <2>2. \E steps : ToSet(steps) = Steps' /\ heap' = Swept(heap, image', steps, capture', txn')
    BY <1>1
  <2> QED BY <2>1, <2>2, BytesMoveVia
<1>4. \A x \in Steps' : x \in Steps \/ NextExact(x)
  BY <1>1, <1>2, <1>3
<1> QED BY <1>3, <1>4, ExactKept

\* A committed capture retains the bytes it captured.
LEMMA CommitStepKeepsExact ==
    ASSUME HistoryTypes, HistoryTypes', BudgetInv, ExactInv, CommitStep
    PROVE  ExactInv'
<1> DEFINE step == Step([t \in ChangedTargets |->
                          Entry(capture.entries[t].storage, image.generation[t],
                                CapturedBytes(t), Bytes(t))], None)
<1>1. /\ capture # None /\ Push(step) /\ UNCHANGED <<image, txn, backing, layers>>
      /\ Cardinality(ChangedTargets) <= budget
      /\ heap' = Swept(heap, image, Pushed(step), None, txn) /\ capture' = None
  BY DEF CommitStep, DropCapture
<1>2. step \in HistoryStepType /\ StepBytes(step) = Cardinality(ChangedTargets)
  BY <1>1, CapturedStepType
<1>3. /\ Touched(step) = ChangedTargets /\ step.layer = None
      /\ \A t \in ChangedTargets :
            /\ step.entries[t].storage = capture.entries[t].storage
            /\ step.entries[t].expected = image.generation[t]
            /\ step.entries[t].kept = CapturedBytes(t)
            /\ step.entries[t].seen = Bytes(t)
  BY DEF Step, Entry, Touched
<1> HIDE DEF step
<1>4. LayersMove /\ \A t \in Tile : image.generation[t] \in Nat
  BY <1>1 DEF LayersMove, HistoryTypes, Stack, Picture
<1>5. ASSUME KeepsBytes(image', Steps', heap, heap'), step \in Steps'
      PROVE  NextExact(step)
  <2>1. ASSUME NEW t \in Touched(step)
        PROVE  EntryExact(step.entries[t], t, image', heap', backing')
    <3>1. t \in Tile
      BY <1>2, StepBytesIsNumber
    <3>2. HeldBytes(step.entries[t].storage, heap') = HeldBytes(step.entries[t].storage, heap)
      BY <1>5 DEF KeepsBytes
    <3>3. TileBytes(t, image', heap', backing') = TileBytes(t, image', heap, backing')
      BY <1>5, <3>1 DEF KeepsBytes
    <3>4. /\ CapturedBytes(t) = HeldBytes(capture.entries[t].storage, heap)
          /\ Bytes(t) = TileBytes(t, image, heap, backing)
      BY DEF CapturedBytes, BytesIn, HeldBytes, Bytes, TileBytes
    <3> QED BY <1>1, <1>3, <1>4, <3>1, <3>2, <3>3, <3>4 DEF EntryExact
  <2> QED BY <1>3, <2>1 DEF NextExact
<1> QED BY <1>1, <1>2, <1>4, <1>5, PushKeepsExact

\* What a committed transaction makes of a tile it staged, and of the others.
LEMMA CommitExchanges ==
    ASSUME HistoryTypes, SyncInv, OwnershipInv, CommitTransaction, NEW t \in Tile
    PROVE  /\ t \in StagedTargets =>
                 /\ image'.storage[t] = txn.image.storage[t] /\ Resident(image', t)
                 /\ image'.generation[t] = image.generation[t] + 1
                 /\ ~Evicted(image, t)
           /\ t \notin StagedTargets =>
                 /\ image'.generation[t] = image.generation[t]
                 /\ \A hp, bk : TileBytes(t, image', hp, bk) = TileBytes(t, image, hp, bk)
<1> DEFINE replacement == [u \in StagedTargets |-> txn.image.storage[u]]
<1>1. /\ txn # None /\ ~TransactionStale /\ image' = ExchangedAll(image, replacement)
  BY DEF CommitTransaction
<1>2. /\ image \in Picture /\ txn.image \in Picture /\ StagedTargets \in SUBSET Tile
      /\ StagedTargets \subseteq DOMAIN txn.entries
  BY <1>1, OpenTypes DEF HistoryTypes, Transaction, StagedTargets
<1>3. /\ replacement \in [StagedTargets -> MaybeStorage]
      /\ \A u \in StagedTargets : replacement[u] = txn.image.storage[u]
  BY <1>2 DEF Picture
<1> HIDE DEF replacement
<1>4. ExchangedAs(image, replacement, StagedTargets, image')
  BY <1>1, <1>2, <1>3, ExchangeEffect
<1>5. ASSUME t \in StagedTargets
      PROVE  /\ image'.storage[t] = txn.image.storage[t] /\ Resident(image', t)
             /\ image'.generation[t] = image.generation[t] + 1
             /\ ~Evicted(image, t)
  <2>1. image.storage[t] # txn.image.storage[t] /\ txn.image.storage[t] # NoStorage
    BY <1>1, <1>5 DEF OwnershipInv, PublishedFor
  <2>2. /\ image'.storage[t] = txn.image.storage[t]
        /\ image'.generation[t] = image.generation[t] + 1
    BY <1>3, <1>4, <1>5, <2>1 DEF ExchangedAs
  <2>3. <<image.epoch, image.tileRev[t], image.generation[t]>>
           = <<txn.entries[t].epoch, txn.entries[t].revision, txn.entries[t].generation>>
    BY <1>1, <1>2, <1>5 DEF TransactionStale
  <2>4. Synced(txn.entries[t], t, image)
    BY <1>1, <1>2, <1>5 DEF SyncInv, TransactionSync
  <2> QED BY <2>1, <2>2, <2>3, <2>4 DEF Resident, Synced
<1>6. ASSUME t \notin StagedTargets
      PROVE  /\ image'.generation[t] = image.generation[t]
             /\ \A hp, bk : TileBytes(t, image', hp, bk) = TileBytes(t, image, hp, bk)
  BY <1>4, <1>6 DEF ExchangedAs, TileBytes, Evicted, Resident
<1> QED BY <1>5, <1>6

\* A committed transaction retains the bytes it replaced.
LEMMA CommitTransactionKeepsExact ==
    ASSUME HistoryTypes, HistoryTypes', BudgetInv, SyncInv, OwnershipInv, ExactInv,
           CommitTransaction
    PROVE  ExactInv'
<1> DEFINE step == TransactionStep
<1>1. /\ txn # None /\ txn' = None /\ ~TransactionStale /\ UNCHANGED <<capture, backing>>
      /\ Push(step) /\ Cardinality(StagedTargets) <= budget
      /\ layers' = CommittedLayers
      /\ heap' = Swept(heap, image', Pushed(step), capture, None)
  BY DEF CommitTransaction
<1>2. /\ step \in HistoryStepType /\ StepBytes(step) = Cardinality(StagedTargets)
      /\ Touched(step) = StagedTargets /\ StagedTargets \in SUBSET Tile
  BY <1>1, TransactionStepType
<1>3. /\ \A t \in StagedTargets :
            /\ step.entries[t].storage = image.storage[t]
            /\ step.entries[t].expected = image.generation[t] + 1
            /\ step.entries[t].kept = Bytes(t)
            /\ step.entries[t].seen = BytesIn(txn.image.storage[t])
      /\ step.layer = IF LayersStaged
                        THEN LayerCommand(txn.staged.revision, layers.content, txn.staged.content)
                        ELSE None
  BY DEF TransactionStep, Step, Entry
<1> HIDE DEF step
<1>4. LayersMove
  BY <1>1, CommittedLayersMove DEF SyncInv
<1>5. ASSUME NEW t \in Tile
      PROVE  /\ image.generation[t] <= image'.generation[t]
             /\ image.generation[t] = image'.generation[t] =>
                   TileBytes(t, image', heap, backing) = TileBytes(t, image, heap, backing)
  <2>1. image.generation[t] \in Nat
    BY DEF HistoryTypes, Picture
  <2> QED BY <2>1, CommitExchanges
<1>6. ASSUME KeepsBytes(image', Steps', heap, heap'), step \in Steps'
      PROVE  NextExact(step)
  <2>1. ASSUME NEW t \in Touched(step)
        PROVE  EntryExact(step.entries[t], t, image', heap', backing')
    <3>1. t \in Tile /\ t \in StagedTargets /\ image.generation[t] \in Nat
      BY <1>2, <2>1 DEF HistoryTypes, Picture
    <3>2. HeldBytes(step.entries[t].storage, heap') = HeldBytes(step.entries[t].storage, heap)
      BY <1>6 DEF KeepsBytes
    <3>3. TileBytes(t, image', heap', backing') = TileBytes(t, image', heap, backing')
      BY <1>6, <3>1 DEF KeepsBytes
    <3>4. /\ image'.storage[t] = txn.image.storage[t] /\ Resident(image', t)
          /\ image'.generation[t] = image.generation[t] + 1
          /\ ~Evicted(image, t)
      BY <3>1, CommitExchanges
    <3>5. Bytes(t) = HeldBytes(image.storage[t], heap)
      BY <3>4 DEF Bytes, BytesIn, HeldBytes
    <3>6. TileBytes(t, image', heap, backing') = BytesIn(txn.image.storage[t])
      BY <3>4 DEF TileBytes, Evicted, BytesIn, HeldBytes
    <3>7. /\ step.entries[t].storage = image.storage[t]
          /\ step.entries[t].expected = image.generation[t] + 1
          /\ step.entries[t].kept = Bytes(t)
          /\ step.entries[t].seen = BytesIn(txn.image.storage[t])
      BY <1>3, <3>1
    <3> QED BY <3>1, <3>2, <3>3, <3>4, <3>5, <3>6, <3>7 DEF EntryExact
  <2>2. step.layer # None => LayerExact(step.layer, layers')
    <3>1. txn.staged \in Stack
      BY <1>1, OpenTypes DEF Transaction
    <3> QED BY <1>1, <1>3, <3>1 DEF CommittedLayers, LayerCommand, LayerExact, Stack
  <2> QED BY <2>1, <2>2 DEF NextExact
<1> QED BY <1>1, <1>2, <1>4, <1>5, <1>6, PushKeepsExact

\* The live side of a restore: tiles of the step get its bytes, the others
\* keep theirs.
LEMMA RestoreMovesBytes ==
    ASSUME HistoryTypes, ExactInv, NEW step \in Steps, NEW f \in Reloads(Touched(step)),
           RestoredAs(step, f, Touched(step), image'), Restorable(step)
    PROVE  /\ \A t \in Tile : /\ image.generation[t] <= image'.generation[t]
                              /\ image.generation[t] = image'.generation[t] =>
                                    TileBytes(t, image', HeapWith(f), backing)
                                       = TileBytes(t, image, heap, backing)
           /\ \A t \in Touched(step) :
                 /\ TileBytes(t, image', HeapWith(f), backing) = step.entries[t].kept
                 /\ HeldBytes(WithReloads(f).storage[t], HeapWith(f)) = step.entries[t].seen
<1>1. Touched(step) \in SUBSET Tile
  BY StepsTyped
<1>2. ReloadedAs(Touched(step), f)
  BY <1>1, ReloadedPicture DEF HistoryTypes
<1>3. /\ \A t \in Tile : TileBytes(t, WithReloads(f), HeapWith(f), backing)
                                 = TileBytes(t, image, heap, backing)
      /\ \A t \in Touched(step) :
            HeldBytes(step.entries[t].storage, HeapWith(f))
               = HeldBytes(step.entries[t].storage, heap)
  BY <1>1, ReloadedBytes
<1>4. ASSUME NEW t \in Touched(step)
      PROVE  /\ TileBytes(t, image', HeapWith(f), backing)
                   = HeldBytes(step.entries[t].storage, HeapWith(f))
             /\ TileBytes(t, image, heap, backing)
                   = HeldBytes(WithReloads(f).storage[t], HeapWith(f))
  <2>1. ~Evicted(image', t) /\ image'.storage[t] = step.entries[t].storage /\ t \in Tile
    BY <1>1 DEF RestoredAs
  <2>2. ~Evicted(WithReloads(f), t)
    BY <1>2 DEF ReloadedAs
  <2> QED BY <1>3, <2>1, <2>2 DEF TileBytes
<1>5. ASSUME NEW t \in Touched(step)
      PROVE  /\ TileBytes(t, image', HeapWith(f), backing) = step.entries[t].kept
             /\ HeldBytes(WithReloads(f).storage[t], HeapWith(f)) = step.entries[t].seen
  <2>1. EntryExact(step.entries[t], t, image, heap, backing)
    BY DEF ExactInv
  <2>2. image.generation[t] = step.entries[t].expected
    BY DEF Restorable
  <2> QED BY <1>3, <1>4, <2>1, <2>2 DEF EntryExact
<1>6. ASSUME NEW t \in Tile
      PROVE  /\ image.generation[t] <= image'.generation[t]
             /\ image.generation[t] = image'.generation[t] =>
                   TileBytes(t, image', HeapWith(f), backing) = TileBytes(t, image, heap, backing)
  <2>1. image.generation[t] \in Nat
    BY DEF HistoryTypes, Picture
  <2>2. /\ image'.generation[t] =
             IF t \in Touched(step) /\ WithReloads(f).storage[t] # step.entries[t].storage
               THEN image.generation[t] + 1 ELSE image.generation[t]
        /\ image'.storage[t] = IF t \in Touched(step) THEN step.entries[t].storage
                               ELSE image.storage[t]
        /\ Evicted(image', t) <=> t \notin Touched(step) /\ Evicted(image, t)
    BY DEF RestoredAs
  <2>3. CASE t \in Touched(step)
    BY <1>4, <2>1, <2>2, <2>3
  <2>4. CASE t \notin Touched(step)
    <3>1. WithReloads(f).storage[t] = image.storage[t] /\ WithReloads(f).backed = image.backed
      BY <1>2, <2>4 DEF ReloadedAs
    <3>2. TileBytes(t, image', HeapWith(f), backing) = TileBytes(t, WithReloads(f), HeapWith(f), backing)
      BY <2>2, <2>4, <3>1 DEF TileBytes, Evicted, Resident
    <3> QED BY <1>3, <2>1, <2>2, <2>4, <3>2
  <2> QED BY <2>3, <2>4
<1> QED BY <1>5, <1>6

\* A restore keeps what steps retain exact, the moved one included.
LEMMA RestoreKeepsExact ==
    ASSUME HistoryTypes, HistoryTypes', ExactInv, Undo \/ Redo
    PROVE  ExactInv'
<1>0. PICK step \in Steps :
        step \in HistoryStepType /\ \E f \in Reloads(Touched(step)) : Restores(step, f)
  BY UndoRestores
<1>1. PICK f \in Reloads(Touched(step)) : Restores(step, f)
  BY <1>0
<1> DEFINE moved == MovedStep(step, f)
           hp == HeapWith(f)
<1>2. /\ Restorable(step) /\ image' = RestoredImage(step, WithReloads(f), Touched(step))
      /\ Steps' \subseteq Steps \cup {moved}
      /\ \E left : ToSet(left) = Steps' /\ heap' = Swept(hp, image', left, capture, txn)
      /\ layers' = RestoredLayers(step) /\ UNCHANGED <<backing, capture, txn>>
  BY <1>1 DEF Restores
<1>3. /\ TurnedAs(step, f, Touched(step), image', moved)
      /\ moved.layer = ReversedLayer(step)
      /\ ReversedLayer(step) = None <=> step.layer = None
  BY <1>0, <1>2, MovedEffect
<1>4. RestoredAs(step, f, Touched(step), image')
  BY <1>0, <1>2, RestoredEffect
<1>5. /\ Touched(step) \in SUBSET Tile /\ hp \in [Storage -> Value]
      /\ \A x \in Steps : \A t \in Touched(x) :
            HeldBytes(x.entries[t].storage, hp) = HeldBytes(x.entries[t].storage, heap)
  <2>1. Touched(step) \in SUBSET Tile
    BY StepsTyped
  <2> QED BY <2>1, ReloadedBytes, ReloadedHeap
<1>6. /\ \A t \in Tile : /\ image.generation[t] <= image'.generation[t]
                         /\ image.generation[t] = image'.generation[t] =>
                               TileBytes(t, image', hp, backing) = TileBytes(t, image, heap, backing)
      /\ \A t \in Touched(step) :
            /\ TileBytes(t, image', hp, backing) = step.entries[t].kept
            /\ HeldBytes(WithReloads(f).storage[t], hp) = step.entries[t].seen
  BY <1>2, <1>4, RestoreMovesBytes
<1> HIDE DEF hp, moved
<1>7. BytesMove /\ KeepsBytes(image', Steps', hp, heap')
  <2>1. \E left : ToSet(left) = Steps' /\ heap' = Swept(hp, image', left, capture', txn')
    BY <1>2
  <2>2. backing' = backing
    BY <1>2
  <2> QED BY <1>5, <1>6, <2>1, <2>2, BytesMoveVia
<1>8. LayersMove
  BY <1>2, RestoredLayersMove
<1>9. ASSUME moved \in Steps'
      PROVE  NextExact(moved)
  <2>1. ASSUME NEW t \in Touched(step)
        PROVE  EntryExact(moved.entries[t], t, image', heap', backing')
    <3>1. /\ moved.entries[t].storage = WithReloads(f).storage[t]
          /\ moved.entries[t].expected = image'.generation[t]
          /\ moved.entries[t].kept = step.entries[t].seen
          /\ moved.entries[t].seen = step.entries[t].kept
      BY <1>3, TurnedFields
    <3>2. t \in Tile /\ t \in Touched(moved) /\ image'.generation[t] \in Nat
      BY <1>3, <1>5 DEF TurnedAs, HistoryTypes, Picture
    <3>3. HeldBytes(moved.entries[t].storage, heap') = HeldBytes(moved.entries[t].storage, hp)
      BY <1>7, <1>9, <3>2 DEF KeepsBytes
    <3>4. TileBytes(t, image', heap', backing') = TileBytes(t, image', hp, backing')
      BY <1>7, <3>2 DEF KeepsBytes
    <3> QED BY <1>2, <1>6, <3>1, <3>2, <3>3, <3>4 DEF EntryExact
  <2>2. moved.layer # None => LayerExact(moved.layer, layers')
    <3> SUFFICES ASSUME moved.layer # None PROVE LayerExact(moved.layer, layers')
      OBVIOUS
    <3>1. /\ moved.layer = LayerCommand(layers.revision + 1, step.layer.seen, step.layer.kept)
          /\ layers' = [content |-> step.layer.kept, revision |-> layers.revision + 1]
          /\ layers.revision \in Nat
      BY <1>2, <1>3 DEF ReversedLayer, RestoredLayers, HistoryTypes, Stack
    <3> QED BY <3>1 DEF LayerExact, LayerCommand
  <2> QED BY <1>3, <2>1, <2>2 DEF NextExact, TurnedAs
<1>10. \A x \in Steps' : x \in Steps \/ NextExact(x)
  BY <1>2, <1>9
<1> QED BY <1>7, <1>8, <1>10, ExactKept

\* Exactness in a step of the gentle system.
LEMMA ExactStep ==
    ASSUME Gentle, HistoryTypes, HistoryTypes', BudgetInv, SyncInv, OwnershipInv, ExactInv,
           [Next]_vars
    PROVE  ExactInv'
<1>1. "clear" \notin Activities /\ "reload failure" \notin Activities
  BY DEF Gentle
<1>2. LayersMove \/ ~UNCHANGED layers
  BY DEF LayersMove, HistoryTypes, Stack
<1>3. CASE HistoryStep
  <2>1. ASSUME NEW targets \in SUBSET Tile, BeginStep(targets)
        PROVE  ExactInv'
    <3>1. PICK f \in Reloads(targets) :
            /\ image' = WithReloads(f)
            /\ heap' = Swept(HeapWith(f), image', undo \o redo, capture', txn')
      BY <2>1 DEF BeginStep
    <3>2. UNCHANGED <<backing, layers, undo, redo>>
      BY <2>1 DEF BeginStep, stackVars
    <3> QED BY <3>1, <3>2, ReloadKeepsExact
  <2>2. ASSUME NEW targets \in SUBSET Tile, BeginTransaction(targets)
        PROVE  ExactInv'
    <3>1. PICK f \in Reloads(Tile) :
            /\ image' = WithReloads(f)
            /\ heap' = Swept(HeapWith(f), image', undo \o redo, capture', txn')
      BY <2>2 DEF BeginTransaction
    <3>2. UNCHANGED <<backing, layers, undo, redo>>
      BY <2>2 DEF BeginTransaction, stackVars
    <3> QED BY <3>1, <3>2, ReloadKeepsExact
  <2>3. CASE CommitStepRefused \/ EndTransaction
    <3>1. /\ UNCHANGED <<image, backing, layers, undo, redo>>
          /\ heap' = Swept(heap, image, undo \o redo, capture', txn')
      BY <2>3 DEF CommitStepRefused, EndTransaction, DropCapture, stackVars
    <3> QED BY <1>2, <3>1, StillExact
  <2>4. CASE CommitStep
    BY <2>4, CommitStepKeepsExact
  <2>5. ASSUME NEW t \in Tile, NEW v \in Value, StagedWrite(t, v)
        PROVE  ExactInv'
    BY <2>5, StagedWriteKeepsExact
  <2>6. CASE \E c \in LayerContent : StagedLayers(c)
    <3>1. UNCHANGED <<image, heap, backing, layers, undo, redo>>
      BY <2>6 DEF StagedLayers, stackVars, liveVars
    <3> QED BY <1>2, <3>1, StillExact
  <2>7. CASE CommitTransaction
    BY <2>7, CommitTransactionKeepsExact
  <2>8. CASE Undo \/ Redo
    BY <2>8, RestoreKeepsExact
  <2>9. ASSUME NEW t \in Tile, NEW done \in SUBSET Tile,
               UndoFailsMidway(t, done) \/ RedoFailsMidway(t, done)
        PROVE  ExactInv'
    BY <1>1, <2>9 DEF UndoFailsMidway, RedoFailsMidway, MayTear
  <2>10. CASE \E b \in Budget : ConfigureBudget(b)
    <3>1. UNCHANGED <<image, heap, backing, layers, undo, redo>>
      BY <2>10 DEF ConfigureBudget, liveVars
    <3> QED BY <1>2, <3>1, StillExact
  <2> QED BY <1>3, <2>1, <2>2, <2>3, <2>4, <2>5, <2>6, <2>7, <2>8, <2>9, <2>10 DEF HistoryStep
<1>4. CASE HostStep
  <2>1. ASSUME NEW t \in Tile, NEW v \in Value, WriteLive(t, v)
        PROVE  ExactInv'
    BY <2>1, WriteKeepsExact
  <2>2. CASE \E c \in LayerContent : EditLayers(c)
    <3>1. UNCHANGED <<image, heap, backing, undo, redo>>
      BY <2>2 DEF EditLayers, stackVars
    <3>2. LayersMove
      BY <2>2, HostMovesOn
    <3> QED BY <3>1, <3>2, StillExact
  <2>3. CASE ClearChannels
    BY <1>1, <2>3 DEF ClearChannels
  <2>4. ASSUME NEW t \in Tile, EvictTile(t)
        PROVE  ExactInv'
    BY <2>4, EvictKeepsExact
  <2>5. ASSUME NEW t \in Tile, ReadLive(t)
        PROVE  ExactInv'
    <3>1. PICK f \in Reloads({t}) : image' = WithReloads(f) /\ heap' = HeapWith(f)
      BY <2>5 DEF ReadLive
    <3>2. UNCHANGED <<backing, layers, undo, redo>>
      BY <2>5 DEF ReadLive, stackVars
    <3> QED BY <3>1, <3>2, ReloadKeepsExact
  <2> QED BY <1>4, <2>1, <2>2, <2>3, <2>4, <2>5 DEF HostStep
<1>5. CASE UNCHANGED vars
  <2>1. UNCHANGED <<image, heap, backing, layers, undo, redo>>
    BY <1>5 DEF vars
  <2> QED BY <1>2, <2>1, StillExact
<1> QED BY <1>3, <1>4, <1>5 DEF Next

\* All parts of the invariant hold together in the gentle system.
LEMMA Exactness ==
    ASSUME Gentle
    PROVE  Spec => [](HistoryTypes /\ ExactInv)
<1>1. Init => ExactInv
  <2>1. ToSet(<<>>) = {}
    BY DEF ToSet
  <2> QED BY <2>1 DEF Init, ExactInv, Steps
<1>2. /\ HistoryTypes /\ BudgetInv /\ SyncInv /\ OwnershipInv /\ ExactInv /\ [Next]_vars
      /\ HistoryTypes'
      => ExactInv'
  BY ExactStep
<1>3. Spec => [](HistoryTypes /\ BudgetInv /\ SyncInv)
  BY Syncing
<1>4. Spec => []OwnershipInv
  BY StoragesAreOwned
<1> QED BY <1>1, <1>2, <1>3, <1>4, PTL DEF Spec

\* Without clears and failed reloads, a retained step owns the bytes it is to
\* restore for as long as it is retained, whatever is written, evicted,
\* committed or restored meanwhile.
THEOREM RetainedBytesStay ==
    ASSUME Gentle
    PROVE  Spec => []RetainedBytesIntact
<1>1. HistoryTypes /\ ExactInv => RetainedBytesIntact
  <2> SUFFICES ASSUME HistoryTypes, ExactInv, NEW i \in DOMAIN (undo \o redo),
                      NEW t \in Touched((undo \o redo)[i])
               PROVE  BytesIn((undo \o redo)[i].entries[t].storage)
                         = (undo \o redo)[i].entries[t].kept
    BY DEF RetainedBytesIntact
  <2>1. (undo \o redo)[i] \in Steps
    <3>1. (undo \o redo)[i] \in ToSet(undo \o redo)
      BY DEF ToSet
    <3> QED BY <3>1, FreeIs
  <2> QED BY <2>1 DEF ExactInv, EntryExact, HeldBytes, BytesIn
<1> QED BY <1>1, Exactness, PTL

\* Without clears and failed reloads, an undo or redo that passes the checks
\* replaces exactly the tiles and layers its step left: nothing that changed
\* outside history is overwritten.
THEOREM AcceptedRestoresAreExact ==
    ASSUME Gentle
    PROVE  Spec => []AcceptedRestoreIsExact
<1>1. HistoryTypes /\ ExactInv => AcceptedRestoreIsExact
  <2> SUFFICES ASSUME HistoryTypes, ExactInv, NEW steps \in {undo, redo}, steps # <<>>,
                      Restorable(Last(steps))
               PROVE  /\ \A t \in Touched(Last(steps)) : Bytes(t) = Last(steps).entries[t].seen
                      /\ Last(steps).layer # None => layers.content = Last(steps).layer.seen
    BY DEF AcceptedRestoreIsExact
  <2> DEFINE step == Last(steps)
  <2>1. step \in Steps
    BY NewestStep
  <2>2. Restorable(step)
    OBVIOUS
  <2> HIDE DEF step
  <2>3. ASSUME NEW t \in Touched(step)
        PROVE  Bytes(t) = step.entries[t].seen
    <3>1. EntryExact(step.entries[t], t, image, heap, backing)
      BY <2>1 DEF ExactInv
    <3>2. Bytes(t) = TileBytes(t, image, heap, backing)
      BY DEF Bytes, TileBytes, BytesIn, HeldBytes
    <3> QED BY <2>2, <3>1, <3>2 DEF EntryExact, Restorable
  <2>4. step.layer # None => layers.content = step.layer.seen
    BY <2>1, <2>2 DEF ExactInv, LayerExact, Restorable
  <2> QED BY <2>3, <2>4 DEF step
<1> QED BY <1>1, Exactness, PTL

-----------------------------------------------------------------------------
(* The history as an implementation of EditHistory *)

\* What undoing a step changes, and what redoing it does.
KeptToSeen == [step \in HistoryStepType |-> Change(step, "kept", "seen")]

SeenToKept == [step \in HistoryStepType |-> Change(step, "seen", "kept")]

Changes == { KeptToSeen[step] : step \in HistoryStepType }
             \cup { SeenToKept[step] : step \in HistoryStepType }

\* A stack of changes for a stack of steps.
Mapped(steps, g) == [i \in DOMAIN steps |-> g[steps[i]]]

Past == [i \in DOMAIN undo |-> Change(undo[i], "kept", "seen")]

Future == [i \in DOMAIN redo |-> Change(redo[i], "seen", "kept")]

\* A document with what the step names on one of its sides.
Shown(d, step, side) ==
    [i \in Tile \cup {Layers} |->
        IF i = Layers THEN IF step.layer = None THEN d[i] ELSE step.layer[side]
        ELSE IF i \in Touched(step) THEN step.entries[i][side] ELSE d[i]]

\* Mapped(s, g) grows and shrinks as s does.
SameShape(s, g, S, R) ==
    /\ Mapped(s, g) \in Seq(R)
    /\ Len(Mapped(s, g)) = Len(s)
    /\ \A x \in S : Mapped(Append(s, x), g) = Append(Mapped(s, g), g[x])
    /\ \A k \in 0 .. Len(s) :
          Mapped(SubSeq(s, k + 1, Len(s)), g) = SubSeq(Mapped(s, g), k + 1, Len(s))
    /\ s # <<>> => /\ Mapped(s, g) # <<>>
                   /\ Mapped(Front(s), g) = SubSeq(Mapped(s, g), 1, Len(s) - 1)
                   /\ Mapped(s, g)[Len(s)] = g[Last(s)]

\* Where a step is the other turned round.
Opposite(moved, step) ==
    /\ Touched(moved) = Touched(step)
    /\ \A t \in Touched(step) : /\ moved.entries[t].kept = step.entries[t].seen
                                /\ moved.entries[t].seen = step.entries[t].kept
    /\ moved.layer = None <=> step.layer = None
    /\ step.layer # None => /\ moved.layer.kept = step.layer.seen
                            /\ moved.layer.seen = step.layer.kept

\* Mapping a stack keeps its shape.
LEMMA MappedStacks ==
    ASSUME NEW S, NEW R, NEW g, \A x \in S : g[x] \in R, NEW s \in Seq(S)
    PROVE  SameShape(s, g, S, R)
<1> DEFINE m == Mapped(s, g)
<1>1. /\ Len(s) \in Nat /\ DOMAIN s = 1 .. Len(s) /\ \A i \in 1 .. Len(s) : s[i] \in S
  OBVIOUS
<1>2. m = [i \in 1 .. Len(s) |-> g[s[i]]]
  BY <1>1 DEF Mapped
<1>3. m \in [1 .. Len(s) -> R]
  BY <1>1, <1>2
<1>4. m \in Seq(R) /\ Len(m) = Len(s)
  BY <1>1, <1>3
<1> HIDE DEF m
<1>5. ASSUME NEW x \in S
      PROVE  Mapped(Append(s, x), g) = Append(m, g[x])
  <2>1. /\ DOMAIN Append(s, x) = 1 .. Len(s) + 1
        /\ \A i \in 1 .. Len(s) : Append(s, x)[i] = s[i]
        /\ Append(s, x)[Len(s) + 1] = x
    BY <1>1
  <2>2. /\ DOMAIN Append(m, g[x]) = 1 .. Len(s) + 1
        /\ \A i \in 1 .. Len(s) : Append(m, g[x])[i] = m[i]
        /\ Append(m, g[x])[Len(s) + 1] = g[x]
        /\ Append(m, g[x]) \in Seq(R)
    BY <1>1, <1>4
  <2>3. Append(m, g[x]) = [i \in 1 .. Len(s) + 1 |-> Append(m, g[x])[i]]
    BY <2>2
  <2>4. \A i \in 1 .. Len(s) + 1 : g[Append(s, x)[i]] = Append(m, g[x])[i]
    BY <1>1, <1>2, <2>1, <2>2
  <2> QED BY <2>1, <2>3, <2>4 DEF Mapped
<1>6. ASSUME NEW a \in 1 .. Len(s) + 1, NEW b \in 0 .. Len(s), a <= b + 1
      PROVE  Mapped(SubSeq(s, a, b), g) = SubSeq(m, a, b)
  <2>1. /\ DOMAIN SubSeq(s, a, b) = 1 .. b - a + 1
        /\ \A i \in 1 .. b - a + 1 : SubSeq(s, a, b)[i] = s[a + i - 1]
    BY <1>1
  <2>2. /\ DOMAIN SubSeq(m, a, b) = 1 .. b - a + 1
        /\ \A i \in 1 .. b - a + 1 : SubSeq(m, a, b)[i] = m[a + i - 1]
        /\ SubSeq(m, a, b) \in Seq(R)
    BY <1>1, <1>4
  <2>3. SubSeq(m, a, b) = [i \in 1 .. b - a + 1 |-> SubSeq(m, a, b)[i]]
    BY <2>2
  <2>4. \A i \in 1 .. b - a + 1 : g[SubSeq(s, a, b)[i]] = SubSeq(m, a, b)[i]
    <3> SUFFICES ASSUME NEW i \in 1 .. b - a + 1
                 PROVE  g[SubSeq(s, a, b)[i]] = SubSeq(m, a, b)[i]
      OBVIOUS
    <3>1. a + i - 1 \in 1 .. Len(s)
      BY <1>1
    <3> QED BY <1>2, <2>1, <2>2, <3>1
  <2> QED BY <2>1, <2>3, <2>4 DEF Mapped
<1>7. ASSUME s # <<>>
      PROVE  /\ m # <<>>
             /\ Mapped(Front(s), g) = SubSeq(m, 1, Len(s) - 1)
             /\ m[Len(s)] = g[Last(s)]
  <2>1. Len(s) \in 1 .. Len(s) /\ Len(s) - 1 \in 0 .. Len(s)
    BY <1>1, <1>7
  <2>2. Front(s) = SubSeq(s, 1, Len(s) - 1) /\ Last(s) = s[Len(s)]
    BY DEF Front, Last
  <2>3. m # <<>>
    BY <1>4, <2>1
  <2>4. Mapped(SubSeq(s, 1, Len(s) - 1), g) = SubSeq(m, 1, Len(s) - 1)
    <3>1. 1 \in 1 .. Len(s) + 1 /\ 1 <= Len(s) - 1 + 1
      BY <1>1, <2>1
    <3> QED BY <1>6, <2>1, <3>1
  <2> QED BY <1>2, <2>1, <2>2, <2>3, <2>4
<1>8. \A k \in 0 .. Len(s) : Mapped(SubSeq(s, k + 1, Len(s)), g) = SubSeq(m, k + 1, Len(s))
  <2> SUFFICES ASSUME NEW k \in 0 .. Len(s)
               PROVE  Mapped(SubSeq(s, k + 1, Len(s)), g) = SubSeq(m, k + 1, Len(s))
    OBVIOUS
  <2>1. k + 1 \in 1 .. Len(s) + 1 /\ Len(s) \in 0 .. Len(s) /\ k + 1 <= Len(s) + 1
    BY <1>1
  <2> QED BY <1>6, <2>1
<1> QED BY <1>4, <1>5, <1>7, <1>8 DEF m, SameShape

\* Both stacks of changes are such.
LEMMA StacksOfChanges ==
    ASSUME NEW s \in Seq(HistoryStepType)
    PROVE  /\ [i \in DOMAIN s |-> Change(s[i], "kept", "seen")] = Mapped(s, KeptToSeen)
           /\ [i \in DOMAIN s |-> Change(s[i], "seen", "kept")] = Mapped(s, SeenToKept)
<1>1. \A i \in DOMAIN s : s[i] \in HistoryStepType
  OBVIOUS
<1> QED BY <1>1 DEF Mapped, KeptToSeen, SeenToKept

\* Every step has its changes.
LEMMA ChangesTyped ==
    \A step \in HistoryStepType :
       /\ KeptToSeen[step] \in Changes /\ SeenToKept[step] \in Changes
       /\ KeptToSeen[step] = Change(step, "kept", "seen")
       /\ SeenToKept[step] = Change(step, "seen", "kept")
BY DEF Changes, KeptToSeen, SeenToKept

\* The stacks of changes grow and shrink with the stacks of steps.
LEMMA ChangeStacks ==
    ASSUME NEW s \in Seq(HistoryStepType)
    PROVE  /\ SameShape(s, KeptToSeen, HistoryStepType, Changes)
           /\ SameShape(s, SeenToKept, HistoryStepType, Changes)
<1>1. /\ \A x \in HistoryStepType : KeptToSeen[x] \in Changes
      /\ \A x \in HistoryStepType : SeenToKept[x] \in Changes
  BY ChangesTyped
<1> QED BY <1>1, MappedStacks

\* Tiles are not the layer stack.
LEMMA TouchedTiles ==
    ASSUME NEW step \in HistoryStepType
    PROVE  Touched(step) \subseteq Tile /\ Layers \notin Tile
<1>1. step.entries \in OnTiles(RetainedTile)
  BY DEF HistoryStepType
<1>2. DOMAIN step.entries \subseteq Tile
  BY <1>1 DEF OnTiles
<1> QED BY <1>2, HistoryAssumption DEF Touched, Layers

\* The sides of a change are those of its step.
LEMMA SidesShown ==
    ASSUME NEW step \in HistoryStepType
    PROVE  /\ Abstract!Applied(Change(step, "kept", "seen"), Abstract!To) = Shown(Document, step, "seen")
           /\ Abstract!Applied(Change(step, "kept", "seen"), Abstract!From) = Shown(Document, step, "kept")
           /\ Abstract!Applied(Change(step, "seen", "kept"), Abstract!To) = Shown(Document, step, "kept")
           /\ Abstract!Applied(Change(step, "seen", "kept"), Abstract!From) = Shown(Document, step, "seen")
<1>1. Touched(step) \subseteq Tile /\ Layers \notin Tile
  BY TouchedTiles
<1>2. ASSUME NEW from, NEW to
      PROVE  /\ DOMAIN Change(step, from, to) =
                   Touched(step) \cup (IF step.layer = None THEN {} ELSE {Layers})
             /\ \A t \in Touched(step) :
                   /\ Change(step, from, to)[t].from = step.entries[t][from]
                   /\ Change(step, from, to)[t].to = step.entries[t][to]
             /\ step.layer # None =>
                   /\ Change(step, from, to)[Layers].from = step.layer[from]
                   /\ Change(step, from, to)[Layers].to = step.layer[to]
  BY <1>1 DEF Change
<1>3. ASSUME NEW from, NEW to
      PROVE  /\ Abstract!Applied(Change(step, from, to), Abstract!To) = Shown(Document, step, to)
             /\ Abstract!Applied(Change(step, from, to), Abstract!From) = Shown(Document, step, from)
  <2>1. ASSUME NEW i \in Tile \cup {Layers}
        PROVE  /\ (IF i \in DOMAIN Change(step, from, to) THEN Change(step, from, to)[i].to
                                                          ELSE Document[i])
                     = Shown(Document, step, to)[i]
               /\ (IF i \in DOMAIN Change(step, from, to) THEN Change(step, from, to)[i].from
                                                          ELSE Document[i])
                     = Shown(Document, step, from)[i]
    BY <1>1, <1>2 DEF Shown
  <2>2. /\ Abstract!Applied(Change(step, from, to), Abstract!To) =
             [i \in Tile \cup {Layers} |->
                IF i \in DOMAIN Change(step, from, to) THEN Change(step, from, to)[i].to
                                                       ELSE Document[i]]
        /\ Abstract!Applied(Change(step, from, to), Abstract!From) =
             [i \in Tile \cup {Layers} |->
                IF i \in DOMAIN Change(step, from, to) THEN Change(step, from, to)[i].from
                                                       ELSE Document[i]]
    BY DEF Abstract!Applied, Abstract!To, Abstract!From
  <2>3. \A side : Shown(Document, step, side) =
             [i \in Tile \cup {Layers} |-> Shown(Document, step, side)[i]]
    BY DEF Shown
  <2> QED BY <2>1, <2>2, <2>3
<1> QED BY <1>3

\* A step turned round has its change turned round.
LEMMA OppositeChanges ==
    ASSUME NEW moved, NEW step, Opposite(moved, step), Layers \notin Touched(step)
    PROVE  /\ Change(moved, "seen", "kept") = Change(step, "kept", "seen")
           /\ Change(moved, "kept", "seen") = Change(step, "seen", "kept")
<1> DEFINE items == Touched(step) \cup (IF step.layer = None THEN {} ELSE {Layers})
<1>1. items = Touched(moved) \cup (IF moved.layer = None THEN {} ELSE {Layers})
  BY DEF Opposite
<1>2. ASSUME NEW i \in items
      PROVE  LET a == IF i = Layers THEN moved.layer ELSE moved.entries[i]
                 b == IF i = Layers THEN step.layer ELSE step.entries[i]
             IN  a["kept"] = b["seen"] /\ a["seen"] = b["kept"]
  BY DEF Opposite
<1> QED BY <1>1, <1>2 DEF Change

\* A new change at the end of the past, with or without the oldest ones.
LEMMA RecordFrom ==
    ASSUME NEW p \in Seq(Changes), NEW c \in Changes, NEW k \in 0 .. Len(p),
           Past = p, Past' = Append(SubSeq(p, k + 1, Len(p)), c), Future' = <<>>,
           Document' = Abstract!Applied(c, Abstract!To),
           Document' = Document \/ Document = Abstract!Applied(c, Abstract!From)
    PROVE  Abstract!Record
<1> DEFINE rest == SubSeq(p, k + 1, Len(p))
<1>1. rest \in Seq(Changes)
  OBVIOUS
<1> HIDE DEF rest
<1>2. /\ Append(rest, c) # <<>>
      /\ Append(rest, c)[Len(Append(rest, c))] = c
      /\ SubSeq(Append(rest, c), 1, Len(Append(rest, c)) - 1) = rest
  <2>1. Append(rest, c) \in Seq(Changes) /\ Len(Append(rest, c)) = Len(rest) + 1
    BY <1>1
  <2>2. Append(rest, c) # <<>> /\ Append(rest, c)[Len(rest) + 1] = c
    BY <1>1, <2>1
  <2>3. SubSeq(Append(rest, c), 1, Len(rest)) = rest
    BY <1>1, <2>1
  <2> QED BY <1>1, <2>1, <2>2, <2>3
<1>3. Past' = Append(rest, c)
  BY DEF rest
<1>4. Past' # <<>> /\ Abstract!Top(Past') = c /\ Abstract!Below(Past') = rest
  BY <1>2, <1>3 DEF Abstract!Top, Abstract!Below
<1>5. /\ Past' # <<>>
      /\ Document' = Abstract!Applied(Abstract!Top(Past'), Abstract!To)
      /\ Document' = Document \/ Document = Abstract!Applied(Abstract!Top(Past'), Abstract!From)
      /\ \E j \in 0 .. Len(Past) : Abstract!Below(Past') = SubSeq(Past, j + 1, Len(Past))
      /\ Future' = <<>>
  BY <1>4 DEF rest
<1> QED BY <1>5 DEF Abstract!Record, Past, Future

\* The last change of the past, undone whole.
LEMMA UndoneFrom ==
    ASSUME NEW c, NEW p, Past = p, p # <<>>, p[Len(p)] = c,
           Past' = SubSeq(p, 1, Len(p) - 1), Future' = Append(Future, c),
           Document = Abstract!Applied(c, Abstract!To),
           Document' = Abstract!Applied(c, Abstract!From)
    PROVE  Abstract!Undo
<1>1. Abstract!Top(Past) = c /\ Abstract!Below(Past) = Past'
  BY DEF Abstract!Top, Abstract!Below
<1>2. /\ Past # <<>>
      /\ Document = Abstract!Applied(Abstract!Top(Past), Abstract!To)
      /\ Document' = Abstract!Applied(Abstract!Top(Past), Abstract!From)
      /\ Past' = Abstract!Below(Past)
      /\ Future' = Append(Future, Abstract!Top(Past))
  BY <1>1
<1> QED BY <1>2 DEF Abstract!Undo, Past, Future

\* The last change of the future, redone whole.
LEMMA RedoneFrom ==
    ASSUME NEW c, NEW p, Future = p, p # <<>>, p[Len(p)] = c,
           Future' = SubSeq(p, 1, Len(p) - 1), Past' = Append(Past, c),
           Document = Abstract!Applied(c, Abstract!From),
           Document' = Abstract!Applied(c, Abstract!To)
    PROVE  Abstract!Redo
<1>1. Abstract!Top(Future) = c /\ Abstract!Below(Future) = Future'
  BY DEF Abstract!Top, Abstract!Below
<1>2. /\ Future # <<>>
      /\ Document = Abstract!Applied(Abstract!Top(Future), Abstract!From)
      /\ Document' = Abstract!Applied(Abstract!Top(Future), Abstract!To)
      /\ Future' = Abstract!Below(Future)
      /\ Past' = Append(Past, Abstract!Top(Future))
  BY <1>1
<1> QED BY <1>2 DEF Abstract!Redo, Past, Future

\* A document that shows a side of a step, tile by tile.
LEMMA ShownNow ==
    ASSUME NEW step \in HistoryStepType, NEW side \in {"kept", "seen"},
           \A t \in Touched(step) : Bytes(t) = step.entries[t][side],
           step.layer # None => layers.content = step.layer[side]
    PROVE  Document = Shown(Document, step, side)
<1>1. Layers \notin Tile
  BY TouchedTiles
<1>2. Document = [i \in Tile \cup {Layers} |-> Document[i]]
  BY DEF Document
<1>3. ASSUME NEW i \in Tile \cup {Layers}
      PROVE  Document[i] = IF i = Layers THEN IF step.layer = None THEN Document[i] ELSE step.layer[side]
                           ELSE IF i \in Touched(step) THEN step.entries[i][side] ELSE Document[i]
  BY DEF Document
<1> QED BY <1>2, <1>3 DEF Shown

\* And one that a step is about to show.
LEMMA ShownNext ==
    ASSUME NEW step \in HistoryStepType, NEW side \in {"kept", "seen"},
           \A t \in Tile : Bytes(t)' = IF t \in Touched(step) THEN step.entries[t][side]
                                                            ELSE Bytes(t),
           layers'.content = IF step.layer = None THEN layers.content ELSE step.layer[side]
    PROVE  Document' = Shown(Document, step, side)
<1>1. Touched(step) \subseteq Tile /\ Layers \notin Tile
  BY TouchedTiles
<1>2. Document' = [i \in Tile \cup {Layers} |-> IF i = Layers THEN layers'.content ELSE Bytes(i)']
  BY DEF Document
<1>3. /\ Document[Layers] = layers.content
      /\ \A t \in Tile : Document[t] = Bytes(t)
  BY <1>1 DEF Document
<1>4. ASSUME NEW i \in Tile \cup {Layers}
      PROVE  (IF i = Layers THEN layers'.content ELSE Bytes(i)')
               = IF i = Layers THEN IF step.layer = None THEN Document[i] ELSE step.layer[side]
                 ELSE IF i \in Touched(step) THEN step.entries[i][side] ELSE Document[i]
  BY <1>1, <1>3
<1> QED BY <1>2, <1>4 DEF Shown

\* Both stacks as sequences of changes.
LEMMA StacksMapped ==
    ASSUME HistoryTypes
    PROVE  Past = Mapped(undo, KeptToSeen) /\ Future = Mapped(redo, SeenToKept)
BY StacksOfChanges DEF HistoryTypes, Past, Future

\* The same in the next state.
LEMMA StacksMappedNext ==
    ASSUME HistoryTypes'
    PROVE  Past' = Mapped(undo', KeptToSeen) /\ Future' = Mapped(redo', SeenToKept)
BY StacksOfChanges DEF HistoryTypes, Past, Future

\* What a push adds to the past.
LEMMA PushRecords ==
    ASSUME HistoryTypes, HistoryTypes', BudgetInv, NEW step \in HistoryStepType,
           StepBytes(step) <= budget, Push(step),
           Document' = Shown(Document, step, "seen"),
           Document' = Document \/ Document = Shown(Document, step, "kept")
    PROVE  Abstract!Record
<1> DEFINE p == Mapped(undo, KeptToSeen)
           c == KeptToSeen[step]
<1>1. PICK k \in 0 .. Len(undo) : Pushed(step) = Append(SubSeq(undo, k + 1, Len(undo)), step)
  BY PushEffect
<1>2. /\ undo \in Seq(HistoryStepType) /\ SubSeq(undo, k + 1, Len(undo)) \in Seq(HistoryStepType)
  BY StackSets DEF HistoryTypes
<1>3. /\ p \in Seq(Changes) /\ Len(p) = Len(undo)
      /\ Mapped(SubSeq(undo, k + 1, Len(undo)), KeptToSeen) = SubSeq(p, k + 1, Len(undo))
  <2>1. SameShape(undo, KeptToSeen, HistoryStepType, Changes)
    BY <1>2, ChangeStacks
  <2> QED BY <2>1 DEF SameShape
<1>4. Mapped(Append(SubSeq(undo, k + 1, Len(undo)), step), KeptToSeen)
        = Append(Mapped(SubSeq(undo, k + 1, Len(undo)), KeptToSeen), c)
  <2>1. SameShape(SubSeq(undo, k + 1, Len(undo)), KeptToSeen, HistoryStepType, Changes)
    BY <1>2, ChangeStacks
  <2> QED BY <2>1 DEF SameShape
<1>5. undo' = Pushed(step) /\ redo' = <<>>
  BY DEF Push
<1>6. Past = p /\ Past' = Append(SubSeq(p, k + 1, Len(p)), c) /\ Future' = <<>>
  <2>1. Future' = Mapped(<<>>, SeenToKept)
    BY <1>5, StacksMappedNext
  <2>2. Mapped(<<>>, SeenToKept) = <<>>
    BY DEF Mapped
  <2> HIDE DEF p, c
  <2> QED BY <1>1, <1>3, <1>4, <1>5, <2>1, <2>2, StacksMapped, StacksMappedNext DEF p
<1>7. c \in Changes /\ c = Change(step, "kept", "seen")
  BY ChangesTyped
<1>8. /\ Document' = Abstract!Applied(c, Abstract!To)
      /\ Document' = Document \/ Document = Abstract!Applied(c, Abstract!From)
  BY <1>7, SidesShown
<1> HIDE DEF p, c
<1> QED BY <1>3, <1>6, <1>7, <1>8, RecordFrom

\* A tile's bytes, now and next.
LEMMA BytesAre ==
    ASSUME NEW t
    PROVE  /\ Bytes(t) = TileBytes(t, image, heap, backing)
           /\ Bytes(t)' = TileBytes(t, image', heap', backing')
BY DEF Bytes, TileBytes, BytesIn, HeldBytes

\* A committed capture is a change that is already made.
LEMMA CommitStepRecords ==
    ASSUME HistoryTypes, HistoryTypes', BudgetInv, CommitStep
    PROVE  Abstract!Record
<1> DEFINE step == Step([t \in ChangedTargets |->
                          Entry(capture.entries[t].storage, image.generation[t],
                                CapturedBytes(t), Bytes(t))], None)
<1>1. /\ capture # None /\ Push(step) /\ UNCHANGED <<image, txn, backing, layers>>
      /\ Cardinality(ChangedTargets) <= budget
      /\ heap' = Swept(heap, image, Pushed(step), None, txn) /\ capture' = None
  BY DEF CommitStep, DropCapture
<1>2. step \in HistoryStepType /\ StepBytes(step) = Cardinality(ChangedTargets)
  BY <1>1, CapturedStepType
<1>3. /\ Touched(step) = ChangedTargets /\ step.layer = None
      /\ \A t \in ChangedTargets : step.entries[t].seen = Bytes(t)
  BY DEF Step, Entry, Touched
<1> HIDE DEF step
<1>4. KeepsBytes(image', Steps', heap, heap')
  <2>1. Steps' = ToSet(Pushed(step))
    BY <1>1, <1>2, PushAdds
  <2>2. \E steps : ToSet(steps) = Steps' /\ heap' = Swept(heap, image', steps, capture', txn')
    BY <1>1, <2>1
  <2>3. heap \in [Storage -> Value] /\ \A t \in Tile : image.generation[t] \in Nat
    BY DEF HistoryTypes, Picture
  <2> QED BY <1>1, <2>2, <2>3, BytesMoveVia
<1>5. ASSUME NEW t \in Tile PROVE Bytes(t)' = Bytes(t)
  BY <1>1, <1>4, BytesAre DEF KeepsBytes
<1>6. Document' = Document
  BY <1>1, <1>5 DEF Document, Layers
<1>7. Document = Shown(Document, step, "seen")
  BY <1>2, <1>3, ShownNow
<1> QED BY <1>1, <1>2, <1>6, <1>7, PushRecords

\* A committed transaction is a change from the document as it was.
LEMMA CommitTransactionRecords ==
    ASSUME HistoryTypes, HistoryTypes', BudgetInv, SyncInv, OwnershipInv, CommitTransaction
    PROVE  Abstract!Record
<1> DEFINE step == TransactionStep
<1>1. /\ txn # None /\ txn' = None /\ UNCHANGED <<capture, backing>>
      /\ Push(step) /\ Cardinality(StagedTargets) <= budget
      /\ layers' = CommittedLayers
      /\ heap' = Swept(heap, image', Pushed(step), capture, None)
  BY DEF CommitTransaction
<1>2. /\ step \in HistoryStepType /\ StepBytes(step) = Cardinality(StagedTargets)
      /\ Touched(step) = StagedTargets /\ StagedTargets \in SUBSET Tile
      /\ LayersStaged => step.layer # None
  BY <1>1, TransactionStepType
<1>3. /\ \A t \in StagedTargets : /\ step.entries[t].kept = Bytes(t)
                                  /\ step.entries[t].seen = BytesIn(txn.image.storage[t])
      /\ step.layer = IF LayersStaged
                        THEN LayerCommand(txn.staged.revision, layers.content, txn.staged.content)
                        ELSE None
  BY DEF TransactionStep, Step, Entry
<1> HIDE DEF step
<1>4. KeepsBytes(image', Steps', heap, heap')
  <2>1. Steps' = ToSet(Pushed(step))
    BY <1>1, <1>2, PushAdds
  <2>2. \E steps : ToSet(steps) = Steps' /\ heap' = Swept(heap, image', steps, capture', txn')
    BY <1>1, <2>1
  <2>3. ASSUME NEW t \in Tile
        PROVE  /\ image.generation[t] <= image'.generation[t]
               /\ image.generation[t] = image'.generation[t] =>
                     TileBytes(t, image', heap, backing') = TileBytes(t, image, heap, backing)
    <3>1. image.generation[t] \in Nat
      BY DEF HistoryTypes, Picture
    <3> QED BY <1>1, <3>1, CommitExchanges
  <2>4. heap \in [Storage -> Value]
    BY DEF HistoryTypes
  <2> QED BY <2>2, <2>3, <2>4, BytesMoveVia
<1>5. ASSUME NEW t \in Tile
      PROVE  Bytes(t)' = IF t \in Touched(step) THEN step.entries[t].seen ELSE Bytes(t)
  <2>1. Bytes(t)' = TileBytes(t, image', heap, backing)
    BY <1>1, <1>4, BytesAre DEF KeepsBytes
  <2>2. CASE t \in StagedTargets
    <3>1. image'.storage[t] = txn.image.storage[t] /\ Resident(image', t)
      BY <2>2, CommitExchanges
    <3>2. TileBytes(t, image', heap, backing) = BytesIn(txn.image.storage[t])
      BY <3>1 DEF TileBytes, Evicted, BytesIn, HeldBytes
    <3> QED BY <1>2, <1>3, <2>1, <2>2, <3>2
  <2>3. CASE t \notin StagedTargets
    BY <1>2, <2>1, <2>3, CommitExchanges, BytesAre
  <2> QED BY <2>2, <2>3
<1>6. layers'.content = IF step.layer = None THEN layers.content ELSE step.layer.seen
  BY <1>1, <1>2, <1>3 DEF CommittedLayers, LayerCommand
<1>7. Document' = Shown(Document, step, "seen")
  BY <1>2, <1>5, <1>6, ShownNext
<1>8. Document = Shown(Document, step, "kept")
  BY <1>2, <1>3, ShownNow DEF LayerCommand
<1> QED BY <1>1, <1>2, <1>7, <1>8, PushRecords

\* A restore takes the document from one side of the step to the other, and
\* turns the step round.
LEMMA RestoreShows ==
    ASSUME HistoryTypes, HistoryTypes', ExactInv, NEW step \in Steps, step \in HistoryStepType,
           NEW f \in Reloads(Touched(step)), Restores(step, f)
    PROVE  /\ Document = Shown(Document, step, "seen")
           /\ Document' = Shown(Document, step, "kept")
           /\ MovedStep(step, f) \in HistoryStepType
           /\ Opposite(MovedStep(step, f), step)
<1> DEFINE moved == MovedStep(step, f)
           hp == HeapWith(f)
<1>1. /\ Restorable(step) /\ image' = RestoredImage(step, WithReloads(f), Touched(step))
      /\ \E left : ToSet(left) = Steps' /\ heap' = Swept(hp, image', left, capture', txn')
      /\ layers' = RestoredLayers(step) /\ backing' = backing
  BY DEF Restores
<1>2. /\ TurnedAs(step, f, Touched(step), image', moved)
      /\ moved.layer = ReversedLayer(step)
      /\ ReversedLayer(step) = None <=> step.layer = None
  BY <1>1, MovedEffect
<1>3. RestoredAs(step, f, Touched(step), image')
  BY <1>1, RestoredEffect
<1>4. /\ Touched(step) \in SUBSET Tile /\ hp \in [Storage -> Value]
      /\ \A x \in Steps : \A t \in Touched(x) :
            HeldBytes(x.entries[t].storage, hp) = HeldBytes(x.entries[t].storage, heap)
  <2>1. Touched(step) \in SUBSET Tile
    BY StepsTyped
  <2> QED BY <2>1, ReloadedBytes, ReloadedHeap
<1>5. /\ \A t \in Tile : /\ image.generation[t] <= image'.generation[t]
                         /\ image.generation[t] = image'.generation[t] =>
                               TileBytes(t, image', hp, backing) = TileBytes(t, image, heap, backing)
      /\ \A t \in Touched(step) : TileBytes(t, image', hp, backing) = step.entries[t].kept
  BY <1>1, <1>3, RestoreMovesBytes
<1> HIDE DEF hp, moved
<1>6. KeepsBytes(image', Steps', hp, heap')
  BY <1>1, <1>4, <1>5, BytesMoveVia
<1>7. ASSUME NEW t \in Tile
      PROVE  Bytes(t)' = IF t \in Touched(step) THEN step.entries[t].kept ELSE Bytes(t)
  <2>1. Bytes(t)' = TileBytes(t, image', hp, backing)
    BY <1>1, <1>6, BytesAre DEF KeepsBytes
  <2>2. CASE t \in Touched(step)
    BY <1>5, <2>1, <2>2
  <2>3. CASE t \notin Touched(step)
    <3>1. image'.generation[t] = image.generation[t]
      BY <2>3, <1>3 DEF RestoredAs
    <3> QED BY <1>5, <2>1, <2>3, <3>1, BytesAre
  <2> QED BY <2>2, <2>3
<1>8. layers'.content = IF step.layer = None THEN layers.content ELSE step.layer.kept
  BY <1>1 DEF RestoredLayers
<1>9. Document' = Shown(Document, step, "kept")
  BY <1>7, <1>8, ShownNext
<1>10. Document = Shown(Document, step, "seen")
  <2>1. ASSUME NEW t \in Touched(step) PROVE Bytes(t) = step.entries[t].seen
    BY <1>1, BytesAre DEF ExactInv, EntryExact, Restorable
  <2>2. step.layer # None => layers.content = step.layer.seen
    BY <1>1 DEF ExactInv, LayerExact, Restorable
  <2> QED BY <2>1, <2>2, ShownNow
<1>11. Opposite(moved, step)
  <2>1. \A t \in Touched(step) : /\ moved.entries[t].kept = step.entries[t].seen
                                 /\ moved.entries[t].seen = step.entries[t].kept
    BY <1>2, TurnedFields
  <2>2. step.layer # None =>
          moved.layer = LayerCommand(layers.revision + 1, step.layer.seen, step.layer.kept)
    BY <1>2 DEF ReversedLayer
  <2> QED BY <1>2, <2>1, <2>2 DEF Opposite, TurnedAs, LayerCommand
<1> QED BY <1>2, <1>9, <1>10, <1>11 DEF moved, TurnedAs

\* Undoing a step undoes its change.
LEMMA UndoUndoes ==
    ASSUME HistoryTypes, HistoryTypes', ExactInv, Undo
    PROVE  Abstract!Undo
<1> DEFINE step == Last(undo)
           p == Mapped(undo, KeptToSeen)
           q == Mapped(redo, SeenToKept)
<1>1. undo # <<>> /\ step \in Steps /\ step \in HistoryStepType
  BY UndoCrosses, NewestStep
<1>2. PICK f \in Reloads(Touched(step)) :
        /\ Restores(step, f)
        /\ undo' = Front(undo) /\ redo' = Append(redo, MovedStep(step, f))
  BY UndoCrosses
<1>3. /\ p # <<>> /\ p[Len(p)] = KeptToSeen[step]
      /\ Mapped(Front(undo), KeptToSeen) = SubSeq(p, 1, Len(p) - 1)
  <2>1. SameShape(undo, KeptToSeen, HistoryStepType, Changes)
    BY ChangeStacks DEF HistoryTypes
  <2> QED BY <1>1, <2>1 DEF SameShape
<1> HIDE DEF step, p
<1>4. /\ Document = Shown(Document, step, "seen") /\ Document' = Shown(Document, step, "kept")
      /\ MovedStep(step, f) \in HistoryStepType
      /\ Opposite(MovedStep(step, f), step)
  BY <1>1, <1>2, RestoreShows
<1>5. Mapped(Append(redo, MovedStep(step, f)), SeenToKept) = Append(q, SeenToKept[MovedStep(step, f)])
  <2>1. SameShape(redo, SeenToKept, HistoryStepType, Changes)
    BY ChangeStacks DEF HistoryTypes
  <2> QED BY <1>4, <2>1 DEF SameShape
<1> HIDE DEF q
<1>6. /\ KeptToSeen[step] = Change(step, "kept", "seen")
      /\ SeenToKept[MovedStep(step, f)] = Change(step, "kept", "seen")
  <2>1. Layers \notin Touched(step)
    BY <1>1, TouchedTiles
  <2> QED BY <1>1, <1>4, <2>1, ChangesTyped, OppositeChanges
<1>7. /\ Past = p /\ Past' = SubSeq(p, 1, Len(p) - 1)
      /\ Future' = Append(Future, Change(step, "kept", "seen"))
  BY <1>2, <1>3, <1>5, <1>6, StacksMapped, StacksMappedNext DEF p, q
<1>8. /\ Document = Abstract!Applied(Change(step, "kept", "seen"), Abstract!To)
      /\ Document' = Abstract!Applied(Change(step, "kept", "seen"), Abstract!From)
  BY <1>1, <1>4, SidesShown
<1> QED BY <1>3, <1>6, <1>7, <1>8, UndoneFrom

\* Redoing a step redoes its change.
LEMMA RedoRedoes ==
    ASSUME HistoryTypes, HistoryTypes', ExactInv, Redo
    PROVE  Abstract!Redo
<1> DEFINE step == Last(redo)
           p == Mapped(redo, SeenToKept)
           q == Mapped(undo, KeptToSeen)
<1>1. redo # <<>> /\ step \in Steps /\ step \in HistoryStepType
  BY RedoCrosses, NewestStep
<1>2. PICK f \in Reloads(Touched(step)) :
        /\ Restores(step, f)
        /\ redo' = Front(redo) /\ undo' = Append(undo, MovedStep(step, f))
  BY RedoCrosses
<1>3. /\ p # <<>> /\ p[Len(p)] = SeenToKept[step]
      /\ Mapped(Front(redo), SeenToKept) = SubSeq(p, 1, Len(p) - 1)
  <2>1. SameShape(redo, SeenToKept, HistoryStepType, Changes)
    BY ChangeStacks DEF HistoryTypes
  <2> QED BY <1>1, <2>1 DEF SameShape
<1> HIDE DEF step, p
<1>4. /\ Document = Shown(Document, step, "seen") /\ Document' = Shown(Document, step, "kept")
      /\ MovedStep(step, f) \in HistoryStepType
      /\ Opposite(MovedStep(step, f), step)
  BY <1>1, <1>2, RestoreShows
<1>5. Mapped(Append(undo, MovedStep(step, f)), KeptToSeen) = Append(q, KeptToSeen[MovedStep(step, f)])
  <2>1. SameShape(undo, KeptToSeen, HistoryStepType, Changes)
    BY ChangeStacks DEF HistoryTypes
  <2> QED BY <1>4, <2>1 DEF SameShape
<1> HIDE DEF q
<1>6. /\ SeenToKept[step] = Change(step, "seen", "kept")
      /\ KeptToSeen[MovedStep(step, f)] = Change(step, "seen", "kept")
  <2>1. Layers \notin Touched(step)
    BY <1>1, TouchedTiles
  <2> QED BY <1>1, <1>4, <2>1, ChangesTyped, OppositeChanges
<1>7. /\ Future = p /\ Future' = SubSeq(p, 1, Len(p) - 1)
      /\ Past' = Append(Past, Change(step, "seen", "kept"))
  BY <1>2, <1>3, <1>5, <1>6, StacksMapped, StacksMappedNext DEF p, q
<1>8. /\ Document = Abstract!Applied(Change(step, "seen", "kept"), Abstract!From)
      /\ Document' = Abstract!Applied(Change(step, "seen", "kept"), Abstract!To)
  BY <1>1, <1>4, SidesShown
<1> QED BY <1>3, <1>6, <1>7, <1>8, RedoneFrom

\* What leaves both stacks alone is an edit.
LEMMA OthersEdit ==
    ASSUME UNCHANGED <<undo, redo>>
    PROVE  Abstract!Edit
BY DEF Abstract!Edit

\* Every step of the gentle system is a step of the abstract one.
LEMMA StepsImplement ==
    ASSUME Gentle, HistoryTypes, HistoryTypes', BudgetInv, SyncInv, OwnershipInv, ExactInv,
           [Next]_vars
    PROVE  Abstract!Next
<1>1. "reload failure" \notin Activities
  BY DEF Gentle
<1>2. ASSUME UNCHANGED <<undo, redo>> PROVE Abstract!Next
  BY <1>2, OthersEdit DEF Abstract!Next
<1>3. CASE HistoryStep
  <2>1. CASE \/ \E targets \in SUBSET Tile : BeginStep(targets) \/ BeginTransaction(targets)
             \/ CommitStepRefused \/ EndTransaction
             \/ \E t \in Tile, v \in Value : StagedWrite(t, v)
             \/ \E c \in LayerContent : StagedLayers(c)
             \/ \E b \in Budget : ConfigureBudget(b)
    <3>1. UNCHANGED <<undo, redo>>
      BY <2>1 DEF BeginStep, BeginTransaction, CommitStepRefused, EndTransaction, StagedWrite,
                  StagedLayers, ConfigureBudget, stackVars
    <3> QED BY <1>2, <3>1
  <2>2. CASE CommitStep
    BY <2>2, CommitStepRecords DEF Abstract!Next
  <2>3. CASE CommitTransaction
    BY <2>3, CommitTransactionRecords DEF Abstract!Next
  <2>4. CASE Undo
    BY <2>4, UndoUndoes DEF Abstract!Next
  <2>5. CASE Redo
    BY <2>5, RedoRedoes DEF Abstract!Next
  <2>6. CASE \E t \in Tile, done \in SUBSET Tile :
                UndoFailsMidway(t, done) \/ RedoFailsMidway(t, done)
    BY <1>1, <2>6 DEF UndoFailsMidway, RedoFailsMidway, MayTear
  <2> QED BY <1>3, <2>1, <2>2, <2>3, <2>4, <2>5, <2>6 DEF HistoryStep
<1>4. CASE HostStep
  <2>1. UNCHANGED <<undo, redo>>
    BY <1>4 DEF HostStep, WriteLive, EditLayers, ClearChannels, EvictTile, ReadLive, stackVars
  <2> QED BY <1>2, <2>1
<1>5. CASE UNCHANGED vars
  <2>1. UNCHANGED <<undo, redo>>
    BY <1>5 DEF vars
  <2> QED BY <1>2, <2>1
<1> QED BY <1>3, <1>4, <1>5 DEF Next

\* Without clears and failed reloads, the history is what EditHistory
\* promises: undo and redo are whole, in order, and only over exactly the
\* document their change left.
THEOREM EditHistoryImplemented ==
    ASSUME Gentle
    PROVE  Spec => ImplementsEditHistory
<1>1. Init => Abstract!Init
  BY DEF Init, Abstract!Init
<1>2. /\ HistoryTypes /\ BudgetInv /\ SyncInv /\ OwnershipInv /\ ExactInv /\ [Next]_vars
      /\ HistoryTypes'
      => [Abstract!Next]_(Abstract!historyVars)
  BY StepsImplement
<1>3. Spec => [](HistoryTypes /\ BudgetInv /\ SyncInv)
  BY Syncing
<1>4. Spec => []OwnershipInv
  BY StoragesAreOwned
<1>5. Spec => [](HistoryTypes /\ ExactInv)
  BY Exactness
<1> QED BY <1>1, <1>2, <1>3, <1>4, <1>5, PTL DEF Spec, ImplementsEditHistory, Abstract!Spec
=============================================================================
