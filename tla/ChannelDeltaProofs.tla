------------------------ MODULE ChannelDeltaProofs ------------------------
(***************************************************************************)
(* Proofs about ChannelDelta for every set of tiles, storages and tokens   *)
(* and every value of the limits: while a host that drops its cursor with  *)
(* a disabled channel keeps asking for deltas, none omits a changed tile,  *)
(* a token keeps the bytes of its cursor until it is released, and the     *)
(* host's mirror shows the image as it was at the host's cursor.           *)
(***************************************************************************)
EXTENDS ChannelDelta, TiledImageProofs, FiniteSetTheorems

\* What a token says of the present: the tiles not changed since its cursor
\* read as they did then.
TokenTells(k) ==
    LET token == tokens[k] IN
    /\ token.cursor.revision <= image.revision
    /\ SameEpoch
    /\ \A t \in DOMAIN token.storage : token.versions[t].revision <= token.cursor.revision
    /\ \A t \in Tile : image.tileRev[t] <= token.cursor.revision =>
          token.content[t] = Bytes(t)

Cursors == [epoch : Nat, revision : Nat]

\* What a token is, whatever became of the image: it pins the bytes the tiles
\* had at its cursor.
TokenPins(k) ==
    /\ tokens[k].cursor \in Cursors
    /\ DOMAIN tokens[k].storage \subseteq Tile
    /\ tokens[k].content \in [Tile -> Content]
    /\ \A t \in DOMAIN tokens[k].storage :
          /\ tokens[k].storage[t] \in held
          /\ heap[tokens[k].storage[t]] = tokens[k].content[t]

TokenGood(k) ==
    /\ TokenPins(k)
    /\ tokens[k].cursor.epoch <= image.epoch
    /\ tokens[k].cursor.epoch = image.epoch => TokenTells(k)

\* The host may still apply token k.
Applicable(k) ==
    /\ tokens[k].cursor.epoch = host.cursor.epoch
    /\ tokens[k].cursor.revision >= host.cursor.revision

\* A tile that token k does not list read the same at the host's cursor, and
\* at the cursor of any token the host may apply before k, as at that of k.
TokenFits(k) ==
    Applicable(k) => \A t \in Tile \ DOMAIN tokens[k].storage :
        /\ host.bytes[t] = tokens[k].content[t]
        /\ \A j \in DOMAIN tokens :
              Applicable(j) /\ tokens[j].cursor.revision <= tokens[k].cursor.revision
                 => tokens[j].content[t] = tokens[k].content[t]

\* Tokens of one epoch that list one version of a tile saw the same bytes.
SameVersionSameBytes(j, k) ==
    tokens[j].cursor.epoch = tokens[k].cursor.epoch =>
        \A t \in (DOMAIN tokens[j].storage) \cap (DOMAIN tokens[k].storage) :
            tokens[j].versions[t] = tokens[k].versions[t]
               => tokens[j].content[t] = tokens[k].content[t]

\* What the tokens are to each other and to the host's mirror.
TokensAgree ==
    /\ \A k \in DOMAIN tokens : TokenFits(k)
    /\ \A j, k \in DOMAIN tokens : SameVersionSameBytes(j, k)

HostState ==
    [ cursor  : Cursors,
      bytes   : [Tile -> Content],
      content : [Tile -> Content] ]

\* The mirror shows what the image was at its cursor, and is right about every
\* tile that did not change since.
MirrorGood ==
    /\ host.cursor.epoch <= image.epoch
    /\ host \in HostState
    /\ host.bytes = host.content
    /\ SameEpoch =>
          /\ host.cursor.revision <= image.revision
          /\ \A t \in Tile : image.tileRev[t] <= host.cursor.revision =>
                host.bytes[t] = Bytes(t)

\* The inductive invariant.
DeltaInv ==
    /\ Inv
    /\ MirrorGood
    /\ \A k \in DOMAIN tokens : TokenGood(k)
    /\ TokensAgree

-----------------------------------------------------------------------------
(* What the delta lists *)

\* The delta from a revision lists exactly the tiles changed after it.
LEMMA DeltaLists ==
    ASSUME Inv, NEW t \in Tile, NEW rev \in Nat
    PROVE  t \in ChangedAfter(image, rev) <=> image.tileRev[t] > rev
<1>1. image.index = { [revision |-> image.tileRev[u], tile |-> u] :
                         u \in { w \in Tile : image.tileRev[w] # 0 } }
  BY DEF Inv, BookkeepingExact, IndexExact
<1>2. image.tileRev \in [Tile -> Nat]
  BY ImageFieldTypes
<1>3. ASSUME t \in ChangedAfter(image, rev)
      PROVE  image.tileRev[t] > rev
  <2>1. PICK e \in image.index : e.revision > rev /\ e.tile = t
    BY <1>3 DEF ChangedAfter
  <2>2. PICK u \in Tile : e = [revision |-> image.tileRev[u], tile |-> u]
    BY <1>1, <2>1
  <2> QED BY <2>1, <2>2
<1>4. ASSUME image.tileRev[t] > rev
      PROVE  t \in ChangedAfter(image, rev)
  <2> DEFINE e == [revision |-> image.tileRev[t], tile |-> t]
  <2>1. image.tileRev[t] # 0
    BY <1>2, <1>4
  <2>2. e \in image.index /\ e.revision > rev /\ e.tile = t
    BY <1>1, <1>4, <2>1
  <2> HIDE DEF e
  <2> QED BY <2>2 DEF ChangedAfter
<1> QED BY <1>3, <1>4

\* Tiles in a delta are tiles.
LEMMA ChangedAreTiles ==
    ASSUME Inv
    PROVE  Changed \subseteq Tile
<1>1. image.index \subseteq IndexEntry
  BY ImageFieldTypes DEF ImageState
<1> QED BY <1>1 DEF Changed, ChangedAfter, IndexEntry

\* No tile's revision is past the image's.
LEMMA RevisionsBounded ==
    ASSUME Inv, NEW t \in Tile
    PROVE  image.tileRev[t] <= image.revision
BY DEF Inv, BookkeepingExact, RevisionsDistinct

-----------------------------------------------------------------------------
(* Reloading many tiles at once *)

\* A record that differs in the storages of evicted tiles stays consistent.
LEMMA ReloadedAllConsistent ==
    ASSUME Inv, NEW tiles \in SUBSET Tile, NEW f \in ReloadsOf(tiles)
    PROVE  /\ Consistent(ReloadedAll(f))
           /\ ReloadedAll(f).storage =
                 [t \in Tile |-> IF t \in DOMAIN f THEN f[t] ELSE image.storage[t]]
           /\ ReloadedAll(f).backed = image.backed
           /\ ReloadedAll(f).generation = image.generation
           /\ ReloadedAll(f).epoch = image.epoch
           /\ ReloadedAll(f).revision = image.revision
           /\ ReloadedAll(f).tileRev = image.tileRev
<1> DEFINE new == ReloadedAll(f)
           storage == [t \in Tile |-> IF t \in DOMAIN f THEN f[t] ELSE image.storage[t]]
<1>1. image \in ImageState /\ Consistent(image)
  BY InvConsistent, ImageFieldTypes
<1>2. /\ DOMAIN f = { t \in tiles : Evicted(image, t) }
      /\ \A t \in DOMAIN f : f[t] \in Free /\ t \in Tile /\ t \in image.backed
  BY DEF ReloadsOf, Evicted
<1>3. \A t \in DOMAIN f : f[t] \in Storage /\ f[t] # NoStorage
  BY <1>2, StorageAssumption DEF Free
<1>4. storage \in [Tile -> Storage \cup {NoStorage}]
  BY <1>1, <1>3 DEF ImageState
<1>5. /\ new.storage = storage
      /\ new.backed = image.backed /\ new.allocated = image.allocated
      /\ new.generation = image.generation /\ new.epoch = image.epoch
      /\ new.revision = image.revision /\ new.tileRev = image.tileRev
      /\ new.index = image.index
  BY <1>1 DEF ReloadedAll, ImageState
<1>6. new \in ImageState
  BY <1>1, <1>4 DEF ReloadedAll, ImageState
<1>7. IndexExact(new) /\ RevisionsDistinct(new)
  BY <1>1, <1>5 DEF Consistent, IndexExact, RevisionsDistinct
<1>8. AllocatedExact(new)
  <2>1. \A t \in Tile : Resident(new, t) \/ t \in new.backed
                            <=> Resident(image, t) \/ t \in image.backed
    BY <1>2, <1>3, <1>5 DEF Resident
  <2> QED BY <1>1, <1>5, <2>1 DEF Consistent, AllocatedExact
<1> QED BY <1>5, <1>6, <1>7, <1>8 DEF Consistent

\* A batch of reloads is a good step and no tile reads differently after it.
LEMMA BatchReloadIsGood ==
    ASSUME Inv, NEW tiles \in SUBSET Tile, NEW f \in ReloadsOf(tiles),
           NEW owners \in SUBSET Storage, held \subseteq owners,
           Become(ReloadedAll(f), owners, HeapWith(f)), store' = store
    PROVE  /\ GoodStep
           /\ \A t \in Tile : Bytes(t)' = Bytes(t)
           /\ image'.epoch = image.epoch /\ image'.revision = image.revision
           /\ image'.tileRev = image.tileRev
           /\ \A s \in held : heap'[s] = heap[s]
           /\ held' = owners
           /\ \A t \in Tile : Resident(image, t) => image'.storage[t] = image.storage[t]
           /\ \A t \in DOMAIN f : image'.storage[t] = f[t]
<1> DEFINE new == ReloadedAll(f)
           hp == HeapWith(f)
<1>1. /\ Consistent(new)
      /\ new.storage = [t \in Tile |-> IF t \in DOMAIN f THEN f[t] ELSE image.storage[t]]
      /\ new.backed = image.backed /\ new.generation = image.generation
      /\ new.epoch = image.epoch /\ new.revision = image.revision
      /\ new.tileRev = image.tileRev
  BY ReloadedAllConsistent
<1>2. /\ DOMAIN f \subseteq Tile
      /\ \A t \in DOMAIN f : Evicted(image, t) /\ f[t] \in Free
      /\ \A t, u \in DOMAIN f : f[t] = f[u] => t = u
  BY DEF ReloadsOf, IsInjective
<1>3. \A t \in DOMAIN f : /\ f[t] \in Storage /\ f[t] # NoStorage /\ f[t] \notin held
                          /\ \A u \in Tile : image.storage[u] # f[t]
  BY <1>2, FreeStorage, StorageAssumption
<1>4. \A t \in DOMAIN f : hp[f[t]] = Bytes(t)
  <2> SUFFICES ASSUME NEW t \in DOMAIN f PROVE hp[f[t]] = Bytes(t)
    OBVIOUS
  <2>1. (CHOOSE u \in DOMAIN f : f[u] = f[t]) = t
    BY <1>2
  <2> QED BY <1>3, <2>1 DEF HeapWith
<1>5. \A s \in Storage : (\A t \in DOMAIN f : f[t] # s) => hp[s] = heap[s]
  BY DEF HeapWith
<1>6. hp \in [Storage -> Content]
  <2>1. heap \in [Storage -> Content]
    BY HeapType
  <2>2. ASSUME NEW s \in Storage PROVE hp[s] \in Content
    <3>1. CASE \E t \in DOMAIN f : f[t] = s
      BY <1>2, <1>4, <3>1, BytesType
    <3>2. CASE \A t \in DOMAIN f : f[t] # s
      BY <1>5, <2>1, <3>2
    <3> QED BY <3>1, <3>2
  <2>3. hp = [s \in Storage |-> hp[s]]
    BY DEF HeapWith
  <2> HIDE DEF hp
  <2> QED BY <2>2, <2>3
<1> HIDE DEF new, hp
<1>7. /\ image' = new /\ held' = owners /\ heap' \in [Storage -> Content]
      /\ \A x \in Storage : x \in OwnedBy(new) \cup owners => heap'[x] = hp[x]
  BY <1>6, BecomeHeap DEF new, hp
<1>8. \A t \in DOMAIN f : image'.storage[t] = f[t] /\ heap'[f[t]] = Bytes(t)
  <2> SUFFICES ASSUME NEW t \in DOMAIN f
               PROVE  image'.storage[t] = f[t] /\ heap'[f[t]] = Bytes(t)
    OBVIOUS
  <2>1. new.storage[t] = f[t] /\ t \in Tile
    BY <1>1, <1>2
  <2>2. f[t] \in OwnedBy(new)
    BY <1>3, <2>1 DEF OwnedBy
  <2> QED BY <1>3, <1>4, <1>7, <2>1, <2>2
<1>9. \A s \in held : heap'[s] = heap[s]
  BY <1>3, <1>5, <1>7, HeapType
<1>10. \A t \in Tile : Resident(image, t) =>
          image'.storage[t] = image.storage[t]
          /\ heap'[image.storage[t]] = heap[image.storage[t]]
  <2> SUFFICES ASSUME NEW t \in Tile, Resident(image, t)
               PROVE  /\ image'.storage[t] = image.storage[t]
                      /\ heap'[image.storage[t]] = heap[image.storage[t]]
    OBVIOUS
  <2>1. t \notin DOMAIN f
    BY <1>2 DEF Evicted
  <2>2. new.storage[t] = image.storage[t]
    BY <1>1, <2>1
  <2>3. image.storage[t] \in Storage /\ image.storage[t] \in OwnedBy(new)
    BY <2>2, ResidentStorage, OwnedStorage DEF Resident
  <2>4. \A u \in DOMAIN f : f[u] # image.storage[t]
    BY <1>3
  <2> QED BY <1>5, <1>7, <2>2, <2>3, <2>4
<1>11. \A k : KeyOf(image', k) = KeyOf(image, k)
  BY <1>1, <1>7 DEF KeyOf
<1>12. \A t \in Tile : Bytes(t)' = Bytes(t)
  <2> SUFFICES ASSUME NEW t \in Tile PROVE Bytes(t)' = Bytes(t)
    OBVIOUS
  <2>1. CASE t \in DOMAIN f
    BY <1>3, <1>8, <2>1 DEF Bytes, BytesOf, Resident
  <2>2. CASE t \notin DOMAIN f
    <3>1. image'.storage[t] = image.storage[t]
      BY <1>1, <1>7, <2>2
    <3> QED BY <1>1, <1>7, <1>10, <3>1, UntouchedTileReadsSame
  <2> QED BY <2>1, <2>2
<1>13. TypeOK'
  BY <1>1, <1>7 DEF TypeOK, Inv, Consistent
<1>14. BookkeepingExact'
  BY <1>1, <1>7 DEF BookkeepingExact, Consistent
<1>15. BackingExact'
  <2>1. DOMAIN store' = { KeyOf(image', u) : u \in image'.backed }
    BY <1>1, <1>7, <1>11 DEF Inv, BackingExact
  <2>2. ASSUME NEW u \in image'.backed, Resident(image', u)
        PROVE  heap'[image'.storage[u]] = store'[KeyOf(image', u)]
    <3>0. u \in Tile /\ u \in image.backed
      BY <1>1, <1>7, ImageFieldTypes
    <3>1. CASE u \in DOMAIN f
      <4>1. Bytes(u) = store[KeyOf(image, u)]
        BY <1>2, <3>1 DEF Evicted, Bytes, BytesOf
      <4> QED BY <1>8, <1>11, <3>1, <4>1
    <3>2. CASE u \notin DOMAIN f
      <4>1. image'.storage[u] = image.storage[u]
        BY <1>1, <1>7, <3>0, <3>2
      <4>2. Resident(image, u)
        BY <2>2, <4>1 DEF Resident
      <4>3. heap[image.storage[u]] = store[KeyOf(image, u)]
        BY <3>0, <4>2 DEF Inv, BackingExact
      <4> QED BY <1>10, <1>11, <3>0, <4>2, <4>3
    <3> QED BY <3>1, <3>2
  <2> QED BY <2>1, <2>2 DEF BackingExact
<1>16. HeldKept /\ ChangesPublished
  BY <1>9, <1>12 DEF HeldKept, ChangesPublished
<1>17. VersionAdvanced
  BY <1>1, <1>7, ImageFieldTypes DEF VersionAdvanced
<1> QED BY <1>1, <1>7, <1>8, <1>9, <1>10, <1>12, <1>13, <1>14, <1>15, <1>16, <1>17
        DEF GoodStep, Inv

-----------------------------------------------------------------------------
(* Steps *)

\* Numbers that are compared below.
LEMMA DeltaNumbers ==
    ASSUME DeltaInv
    PROVE  /\ image.epoch \in Nat /\ image.revision \in Nat
           /\ image.tileRev \in [Tile -> Nat]
           /\ host.cursor.epoch \in Nat /\ host.cursor.revision \in Nat
           /\ \A k \in DOMAIN tokens :
                 tokens[k].cursor.epoch \in Nat /\ tokens[k].cursor.revision \in Nat
BY ImageFieldTypes DEF DeltaInv, HostState, Cursors, MirrorGood, TokenGood, TokenPins

\* A good step within an epoch leaves the tiles alone that it does not stamp
\* with a revision above all there were.
LEMMA OldTilesRest ==
    ASSUME Inv, GoodStep, image'.epoch = image.epoch,
           NEW t \in Tile, NEW rev \in Nat, rev <= image.revision, image'.tileRev[t] <= rev
    PROVE  /\ image'.tileRev[t] = image.tileRev[t]
           /\ Bytes(t)' = Bytes(t)
<1>1. /\ image.revision \in Nat /\ image.tileRev[t] \in Nat
      /\ image.tileRev[t] <= image.revision
  BY ImageFieldTypes, RevisionsBounded
<1>2. image'.tileRev[t] \in Nat
  <2>1. Inv'
    BY DEF GoodStep
  <2>2. image' \in ImageState /\ MaxRevision \in Nat
    BY <2>1, LimitsAssumption DEF Inv, TypeOK
  <2> QED BY <2>2 DEF ImageState
<1>3. ~(image'.tileRev[t] > image.revision)
  BY <1>1, <1>2
<1> QED BY <1>3 DEF GoodStep, VersionAdvanced, ChangesPublished

\* Good steps of the image, with tokens released or not, keep the invariant as
\* long as the storages that are still pinned keep an owner.
LEMMA ImageMovesKeep ==
    ASSUME DeltaInv, GoodStep, host' = host,
           DOMAIN tokens' \subseteq DOMAIN tokens,
           \A k \in DOMAIN tokens' : /\ tokens'[k] = tokens[k]
                                     /\ PinnedBy(k) \subseteq held'
    PROVE  DeltaInv'
<1>1. Inv' /\ Inv
  BY DEF GoodStep, DeltaInv
<1>2. /\ image'.epoch \in Nat /\ image.epoch <= image'.epoch
      /\ image'.epoch = image.epoch => image.revision <= image'.revision
      /\ image'.revision \in Nat
  <2>1. image' \in ImageState /\ MaxRevision \in Nat /\ MaxEpoch \in Nat
    BY <1>1, LimitsAssumption DEF Inv, TypeOK
  <2>2. image'.epoch \in Nat /\ image'.revision \in Nat
    BY <2>1 DEF ImageState
  <2> QED BY <2>2, DeltaNumbers DEF GoodStep, VersionAdvanced
<1>3. MirrorGood'
  <2>1. ASSUME SameEpoch'
        PROVE  /\ SameEpoch /\ image'.epoch = image.epoch
               /\ host.cursor.revision <= image'.revision
    BY <1>2, <2>1, DeltaNumbers DEF DeltaInv, MirrorGood, SameEpoch
  <2>2. ASSUME SameEpoch', NEW t \in Tile, image'.tileRev[t] <= host.cursor.revision
        PROVE  host.bytes[t] = Bytes(t)'
    <3>1. host.cursor.revision <= image.revision
      BY <2>1, <2>2 DEF DeltaInv, MirrorGood
    <3>2. image'.tileRev[t] = image.tileRev[t] /\ Bytes(t)' = Bytes(t)
      BY <1>1, <2>1, <2>2, <3>1, OldTilesRest, DeltaNumbers
    <3> QED BY <2>1, <2>2, <3>2 DEF DeltaInv, MirrorGood
  <2>3. host.cursor.epoch <= image'.epoch
    BY <1>2, DeltaNumbers DEF DeltaInv, MirrorGood
  <2> QED BY <2>1, <2>2, <2>3, DeltaNumbers DEF DeltaInv, MirrorGood
<1>4. ASSUME NEW k \in DOMAIN tokens' PROVE TokenGood(k)'
  <2>1. k \in DOMAIN tokens /\ tokens'[k] = tokens[k] /\ TokenGood(k) /\ TokenPins(k)
    BY <1>4 DEF DeltaInv, TokenGood
  <2>2. \A t \in DOMAIN tokens[k].storage :
           /\ tokens[k].storage[t] \in held /\ tokens[k].storage[t] \in held'
           /\ heap'[tokens[k].storage[t]] = heap[tokens[k].storage[t]]
    BY <1>4, <2>1 DEF TokenPins, PinnedBy, GoodStep, HeldKept
  <2>3. /\ tokens[k].cursor.epoch \in Nat /\ tokens[k].cursor.revision \in Nat
        /\ tokens[k].cursor.epoch <= image'.epoch
    BY <1>2, <2>1, DeltaNumbers DEF TokenGood, TokenPins
  <2>4. ASSUME tokens[k].cursor.epoch = image'.epoch PROVE TokenTells(k)'
    <3>1. image'.epoch = image.epoch /\ TokenTells(k)
      BY <1>2, <2>1, <2>4, DeltaNumbers DEF TokenGood
    <3>2. tokens[k].cursor.revision <= image.revision
      BY <3>1 DEF TokenTells
    <3>3. tokens[k].cursor.revision <= image'.revision
      BY <1>2, <2>3, <3>1, <3>2, DeltaNumbers
    <3>4. ASSUME NEW t \in Tile, image'.tileRev[t] <= tokens[k].cursor.revision
          PROVE  tokens[k].content[t] = Bytes(t)'
      <4>1. image'.tileRev[t] = image.tileRev[t] /\ Bytes(t)' = Bytes(t)
        BY <1>1, <2>3, <3>1, <3>2, <3>4, OldTilesRest
      <4> QED BY <3>1, <3>4, <4>1 DEF TokenTells
    <3> QED BY <2>1, <3>1, <3>3, <3>4 DEF TokenTells, SameEpoch
  <2>5. TokenPins(k)'
    BY <2>1, <2>2 DEF TokenPins
  <2> QED BY <2>1, <2>3, <2>4, <2>5 DEF TokenGood
<1>5. TokensAgree'
  <2>1. ASSUME NEW k \in DOMAIN tokens' PROVE TokenFits(k)'
    <3>1. k \in DOMAIN tokens /\ TokenFits(k)
      BY <2>1 DEF DeltaInv, TokensAgree
    <3> QED BY <2>1, <3>1 DEF TokenFits, Applicable
  <2>2. ASSUME NEW j \in DOMAIN tokens', NEW k \in DOMAIN tokens'
        PROVE  SameVersionSameBytes(j, k)'
    <3>1. SameVersionSameBytes(j, k)
      BY <2>2 DEF DeltaInv, TokensAgree
    <3> QED BY <2>2, <3>1 DEF SameVersionSameBytes
  <2> QED BY <2>1, <2>2 DEF TokensAgree
<1> QED BY <1>1, <1>3, <1>4, <1>5 DEF DeltaInv

\* Edits, evictions, undo exchanges and resets of the image.
LEMMA ImageStepKeeps ==
    ASSUME DeltaInv, ImageStep \/ UNCHANGED deltaVars
    PROVE  DeltaInv'
<1>1. GoodStep
  BY StepIsGood DEF DeltaInv, ImageStep, deltaVars, imageVars
<1>2. host' = host /\ tokens' = tokens
  BY DEF ImageStep, deltaVars
<1>3. Pinned \subseteq held'
  <2>1. CASE ImageStep
    BY <2>1 DEF ImageStep, TokensKeepPins
  <2>2. CASE UNCHANGED deltaVars
    BY <2>2 DEF deltaVars, DeltaInv, TokenGood, TokenPins, Pinned, PinnedBy
  <2> QED BY <2>1, <2>2
<1>4. \A k \in DOMAIN tokens : PinnedBy(k) \subseteq held'
  BY <1>3 DEF Pinned
<1> QED BY <1>1, <1>2, <1>4, ImageMovesKeep

\* A released token takes only its own pins along.
LEMMA ReleaseSnapshotKeeps ==
    ASSUME DeltaInv, NEW k \in Token, ReleaseSnapshot(k)
    PROVE  DeltaInv'
<1>1. PICK kept \in SUBSET PinnedBy(k) :
         Become(image, (held \ PinnedBy(k)) \cup kept \cup OtherPins(k), heap)
  BY DEF ReleaseSnapshot
<1> DEFINE owners == (held \ PinnedBy(k)) \cup kept \cup OtherPins(k)
<1>2. \A j \in DOMAIN tokens : PinnedBy(j) \subseteq held
  BY DEF DeltaInv, TokenGood, TokenPins, PinnedBy
<1>3. owners \in SUBSET Storage
  <2>1. held \in SUBSET Storage
    BY HeapType DEF DeltaInv
  <2>2. k \in DOMAIN tokens
    BY DEF ReleaseSnapshot
  <2>3. OtherPins(k) \subseteq held
    BY <1>2 DEF OtherPins
  <2>4. kept \subseteq held
    BY <1>2, <2>2
  <2> QED BY <2>1, <2>3, <2>4
<1>4. GoodStep /\ held' = owners
  <2>1. store' = store /\ Inv
    BY DEF ReleaseSnapshot, DeltaInv
  <2>2. held' = owners
    BY <1>1 DEF Become
  <2> QED BY <1>1, <1>3, <2>1, <2>2, SameImageStep
<1>5. /\ DOMAIN tokens' = DOMAIN tokens \ {k} /\ host' = host
      /\ \A j \in DOMAIN tokens' : tokens'[j] = tokens[j]
  BY DEF ReleaseSnapshot
<1>6. \A j \in DOMAIN tokens' : PinnedBy(j) \subseteq held'
  BY <1>4, <1>5 DEF OtherPins
<1> QED BY <1>4, <1>5, <1>6, ImageMovesKeep

\* Reading a snapshot back brings the mirror to the snapshot's cursor.
LEMMA ApplySnapshotKeeps ==
    ASSUME DeltaInv, NEW k \in Token, ApplySnapshot(k)
    PROVE  DeltaInv'
<1>1. /\ k \in DOMAIN tokens /\ TokenGood(k) /\ TokenPins(k) /\ TokenFits(k) /\ Applicable(k)
      /\ image' = image /\ heap' = heap /\ held' = held /\ store' = store
      /\ tokens' = tokens
  BY DEF ApplySnapshot, DeltaInv, TokenGood, TokensAgree, Applicable, imageVars
<1>2. Inv' /\ \A t \in Tile : Bytes(t)' = Bytes(t)
  BY <1>1 DEF DeltaInv, Inv, TypeOK, BookkeepingExact, BackingExact, Bytes, BytesOf,
              Resident, KeyOf
<1>3. host' = [cursor |-> tokens[k].cursor, bytes |-> tokens[k].content,
               content |-> tokens[k].content]
  <2> DEFINE read == [t \in Tile |-> IF t \in DOMAIN ReadBack(k)
                                      THEN ReadBack(k)[t] ELSE host.bytes[t]]
  <2>1. ASSUME NEW t \in Tile PROVE read[t] = tokens[k].content[t]
    <3>1. CASE t \in DOMAIN tokens[k].storage
      BY <1>1, <3>1 DEF ReadBack, TokenPins
    <3>2. CASE t \notin DOMAIN tokens[k].storage
      <4>1. read[t] = host.bytes[t]
        BY <3>2 DEF ReadBack
      <4> QED BY <1>1, <3>2, <4>1 DEF TokenFits
    <3> QED BY <3>1, <3>2
  <2>2. read = tokens[k].content
    <3>1. tokens[k].content \in [Tile -> Content]
      BY <1>1 DEF TokenPins
    <3>2. read = [t \in Tile |-> read[t]]
      OBVIOUS
    <3> HIDE DEF read
    <3> QED BY <2>1, <3>1, <3>2
  <2> QED BY <2>2 DEF ApplySnapshot
<1>4. SameEpoch' <=> SameEpoch
  BY <1>1, <1>3 DEF SameEpoch, Applicable
<1>5. MirrorGood'
  <2>1. ASSUME SameEpoch PROVE TokenTells(k)
    BY <1>1, <2>1 DEF TokenGood, SameEpoch, Applicable
  <2>2. host' \in HostState /\ host'.bytes = host'.content
    BY <1>1, <1>3 DEF TokenPins, HostState
  <2>3. host'.cursor.epoch <= image'.epoch
    BY <1>1, <1>3 DEF TokenGood
  <2>4. SameEpoch' => /\ host'.cursor.revision <= image'.revision
                      /\ \A t \in Tile : image'.tileRev[t] <= host'.cursor.revision =>
                            host'.bytes[t] = Bytes(t)'
    BY <1>1, <1>2, <1>3, <1>4, <2>1 DEF TokenTells
  <2> QED BY <2>2, <2>3, <2>4 DEF MirrorGood
<1>6. ASSUME NEW j \in DOMAIN tokens' PROVE TokenGood(j)'
  <2>1. TokenGood(j) /\ TokenPins(j)
    BY <1>1, <1>6 DEF DeltaInv, TokenGood
  <2>2. TokenPins(j)'
    BY <1>1, <2>1 DEF TokenPins
  <2>3. TokenTells(j) => TokenTells(j)'
    BY <1>1, <1>2, <1>4 DEF TokenTells
  <2> QED BY <1>1, <2>1, <2>2, <2>3 DEF TokenGood
<1>7. ASSUME NEW j \in DOMAIN tokens' PROVE TokenFits(j)'
  <2>1. j \in DOMAIN tokens /\ TokenFits(j)
    BY <1>1, <1>7 DEF DeltaInv, TokensAgree
  <2>2. \A i \in DOMAIN tokens : Applicable(i)' =>
           Applicable(i) /\ tokens[k].cursor.revision <= tokens[i].cursor.revision
    BY <1>1, <1>3, DeltaNumbers DEF Applicable
  <2>3. ASSUME Applicable(j)', NEW t \in Tile \ DOMAIN tokens[j].storage
        PROVE  /\ host'.bytes[t] = tokens[j].content[t]
               /\ \A i \in DOMAIN tokens :
                     Applicable(i)' /\ tokens[i].cursor.revision <= tokens[j].cursor.revision
                        => tokens[i].content[t] = tokens[j].content[t]
    <3>1. /\ Applicable(j) /\ Applicable(k)
          /\ tokens[k].cursor.revision <= tokens[j].cursor.revision
      BY <1>1, <2>1, <2>2, <2>3
    <3>2. tokens[k].content[t] = tokens[j].content[t]
      BY <1>1, <2>1, <2>3, <3>1 DEF TokenFits
    <3> QED BY <1>3, <2>1, <2>2, <2>3, <3>1, <3>2 DEF TokenFits
  <2> QED BY <1>1, <2>3 DEF TokenFits, Applicable
<1>8. \A i, j \in DOMAIN tokens' : SameVersionSameBytes(i, j)'
  BY <1>1 DEF DeltaInv, TokensAgree, SameVersionSameBytes
<1> QED BY <1>2, <1>5, <1>6, <1>7, <1>8 DEF DeltaInv, TokensAgree

\* A token that an admitted query hands out pins what it lists, and all it does
\* not list reads as it did at the cursors the host may still pass through.
LEMMA NewTokenKeeps ==
    ASSUME DeltaInv, NEW k \in Token, k \notin DOMAIN tokens, SameEpoch,
           \A t \in Changed : HasStorage(t),
           NEW f \in ReloadsOf(Changed), NEW pins,
           pins = [t \in Changed |-> ReloadedAll(f).storage[t]],
           tokens' = [j \in DOMAIN tokens \cup {k} |->
                        IF j = k THEN [ cursor   |-> Cursor(image),
                                        versions |-> VersionsOf(image, Changed),
                                        storage  |-> pins,
                                        content  |-> Contents ]
                        ELSE tokens[j]],
           Become(ReloadedAll(f), held \cup { pins[t] : t \in Changed }, HeapWith(f)),
           store' = store, host' = host
    PROVE  DeltaInv'
<1> DEFINE owners == held \cup { pins[t] : t \in Changed }
<1>1. Inv /\ Changed \subseteq Tile /\ held \in SUBSET Storage
  BY ChangedAreTiles, HeapType DEF DeltaInv
<1>2. /\ ReloadedAll(f).storage =
            [t \in Tile |-> IF t \in DOMAIN f THEN f[t] ELSE image.storage[t]]
      /\ DOMAIN f = { t \in Changed : Evicted(image, t) }
      /\ \A t \in DOMAIN f : f[t] \in Storage
  <2>1. ReloadedAll(f).storage =
            [t \in Tile |-> IF t \in DOMAIN f THEN f[t] ELSE image.storage[t]]
    BY <1>1, ReloadedAllConsistent
  <2>2. DOMAIN f = { t \in Changed : Evicted(image, t) } /\ \A t \in DOMAIN f : f[t] \in Free
    BY DEF ReloadsOf
  <2> QED BY <1>1, <2>1, <2>2, FreeStorage
<1>3. \A t \in Changed : /\ pins[t] = ReloadedAll(f).storage[t]
                         /\ t \notin DOMAIN f => Resident(image, t)
                                                 /\ pins[t] = image.storage[t]
                         /\ t \in DOMAIN f => pins[t] = f[t]
                         /\ pins[t] \in Storage
  <2> SUFFICES ASSUME NEW t \in Changed
               PROVE  /\ pins[t] = ReloadedAll(f).storage[t]
                      /\ t \notin DOMAIN f => Resident(image, t) /\ pins[t] = image.storage[t]
                      /\ t \in DOMAIN f => pins[t] = f[t]
                      /\ pins[t] \in Storage
    OBVIOUS
  <2>1. pins[t] = ReloadedAll(f).storage[t] /\ t \in Tile
    BY <1>1
  <2>2. CASE t \in DOMAIN f
    BY <1>2, <2>1, <2>2
  <2>3. CASE t \notin DOMAIN f
    <3>1. Resident(image, t)
      BY <1>2, <2>3 DEF HasStorage, Evicted
    <3>2. pins[t] = image.storage[t]
      BY <1>2, <2>1, <2>3
    <3> QED BY <1>1, <2>1, <2>3, <3>1, <3>2, ResidentStorage
  <2> QED BY <2>2, <2>3
<1>4. owners \in SUBSET Storage /\ held \subseteq owners
  BY <1>1, <1>3
<1>5. /\ GoodStep
      /\ \A t \in Tile : Bytes(t)' = Bytes(t)
      /\ image'.epoch = image.epoch /\ image'.revision = image.revision
      /\ image'.tileRev = image.tileRev
      /\ \A s \in held : heap'[s] = heap[s]
      /\ held' = owners
      /\ \A t \in Tile : Resident(image, t) => image'.storage[t] = image.storage[t]
      /\ \A t \in DOMAIN f : image'.storage[t] = f[t]
  BY <1>1, <1>4, BatchReloadIsGood
<1>6. image' = ReloadedAll(f)
  BY DEF Become
<1> HIDE DEF owners
<1>7. \A t \in Changed : pins[t] \in held' /\ heap'[pins[t]] = Bytes(t)'
  <2> SUFFICES ASSUME NEW t \in Changed
               PROVE  pins[t] \in held' /\ heap'[pins[t]] = Bytes(t)'
    OBVIOUS
  <2>1. pins[t] \in held'
    BY <1>5 DEF owners
  <2>2. image'.storage[t] = pins[t] /\ pins[t] \in Storage
    BY <1>3, <1>6
  <2>3. Resident(image', t)
    BY <2>2, StorageAssumption DEF Resident
  <2> QED BY <2>1, <2>2, <2>3 DEF Bytes, BytesOf
<1>8. Inv' /\ MirrorGood'
  <2>1. Inv'
    BY <1>5 DEF GoodStep
  <2>2. SameEpoch' <=> SameEpoch
    BY <1>5 DEF SameEpoch
  <2> QED BY <1>5, <2>1, <2>2 DEF DeltaInv, MirrorGood
<1>9. ASSUME NEW j \in DOMAIN tokens', j # k
      PROVE  TokenGood(j)'
  <2>1. j \in DOMAIN tokens /\ tokens'[j] = tokens[j] /\ TokenGood(j) /\ TokenPins(j)
    BY <1>9 DEF DeltaInv, TokenGood
  <2>2. \A t \in DOMAIN tokens[j].storage :
           /\ t \in Tile /\ tokens[j].storage[t] \in held'
           /\ heap'[tokens[j].storage[t]] = heap[tokens[j].storage[t]]
    BY <1>5, <2>1 DEF TokenPins, owners
  <2>3. TokenPins(j)'
    BY <2>1, <2>2 DEF TokenPins
  <2>4. TokenTells(j) => TokenTells(j)'
    BY <1>5, <2>1 DEF TokenTells, SameEpoch
  <2> QED BY <1>5, <2>1, <2>3, <2>4 DEF TokenGood
<1>10. /\ tokens'[k].cursor = [epoch |-> image.epoch, revision |-> image.revision]
       /\ tokens'[k].storage = pins /\ DOMAIN pins = Changed
       /\ tokens'[k].content = Contents
       /\ \A t \in Changed : tokens'[k].versions[t].revision = image.tileRev[t]
  BY DEF Cursor, VersionsOf
<1>11. Contents \in [Tile -> Content] /\ \A t \in Tile : Contents[t] = Bytes(t)
  BY <1>1, BytesType DEF Contents
<1>12. \A t \in Tile : image.tileRev[t] <= image.revision
  BY <1>1, RevisionsBounded
<1>13. TokenGood(k)'
  <2>1. image.revision \in Nat /\ image.epoch \in Nat
    BY DeltaNumbers
  <2>2. TokenTells(k)'
    <3>1. SameEpoch'
      BY <1>5 DEF SameEpoch
    <3>2. \A t \in DOMAIN tokens'[k].storage :
             tokens'[k].versions[t].revision <= tokens'[k].cursor.revision
      BY <1>1, <1>10, <1>12
    <3>3. \A t \in Tile : tokens'[k].content[t] = Bytes(t)'
      BY <1>5, <1>10, <1>11
    <3>4. tokens'[k].cursor.revision <= image'.revision
      BY <1>5, <1>10, <2>1
    <3> QED BY <3>1, <3>2, <3>3, <3>4 DEF TokenTells
  <2>3. TokenPins(k)'
    <3>1. \A t \in DOMAIN tokens'[k].storage :
             /\ tokens'[k].storage[t] \in held'
             /\ heap'[tokens'[k].storage[t]] = tokens'[k].content[t]
      BY <1>1, <1>5, <1>7, <1>10, <1>11
    <3> QED BY <1>1, <1>10, <1>11, <2>1, <3>1 DEF TokenPins, Cursors
  <2>4. tokens'[k].cursor.epoch <= image'.epoch
    BY <1>5, <1>10, <2>1
  <2> QED BY <2>2, <2>3, <2>4 DEF TokenGood
<1>14. \A j \in DOMAIN tokens : /\ j \in DOMAIN tokens' /\ j # k
                                 /\ tokens'[j] = tokens[j]
  OBVIOUS
<1>15. ASSUME NEW j \in DOMAIN tokens, tokens[j].cursor.epoch = image.epoch
       PROVE  /\ tokens[j].cursor.revision <= image.revision
              /\ \A t \in Tile : image.tileRev[t] <= tokens[j].cursor.revision =>
                    tokens[j].content[t] = Contents[t]
              /\ \A t \in DOMAIN tokens[j].storage :
                    t \in Tile /\ tokens[j].versions[t].revision <= tokens[j].cursor.revision
  BY <1>11, <1>15 DEF DeltaInv, TokenGood, TokenPins, TokenTells
<1>16. ASSUME NEW t \in Tile, t \notin Changed
       PROVE  image.tileRev[t] <= host.cursor.revision /\ host.bytes[t] = Contents[t]
  <2>1. image.tileRev[t] \in Nat /\ host.cursor.revision \in Nat
    BY DeltaNumbers
  <2>2. ~(image.tileRev[t] > host.cursor.revision)
    BY <1>1, <1>16, <2>1, DeltaLists DEF Changed
  <2>3. image.tileRev[t] <= host.cursor.revision
    BY <2>1, <2>2
  <2> QED BY <1>11, <2>3 DEF DeltaInv, MirrorGood
<1>17. \A j \in DOMAIN tokens : Applicable(j)' <=> Applicable(j)
  BY <1>14 DEF Applicable
<1>18. TokenFits(k)'
  <2>1. ASSUME NEW t \in Tile \ Changed, NEW j \in DOMAIN tokens, Applicable(j)
        PROVE  tokens[j].content[t] = Contents[t]
    <3>1. /\ tokens[j].cursor.epoch = image.epoch
          /\ host.cursor.revision <= tokens[j].cursor.revision
      BY <2>1, DeltaNumbers DEF Applicable, SameEpoch
    <3>2. image.tileRev[t] <= tokens[j].cursor.revision
      BY <1>16, <2>1, <3>1, DeltaNumbers
    <3> QED BY <1>15, <2>1, <3>1, <3>2
  <2>2. ASSUME NEW t \in Tile \ Changed, NEW j \in DOMAIN tokens', Applicable(j)'
        PROVE  tokens'[j].content[t] = Contents[t]
    <3>1. CASE j = k
      BY <1>10, <3>1
    <3>2. CASE j # k
      <4>1. j \in DOMAIN tokens
        BY <2>2, <3>2
      <4> QED BY <1>14, <1>17, <2>1, <2>2, <4>1
    <3> QED BY <3>1, <3>2
  <2>3. \A t \in Tile \ Changed : host'.bytes[t] = Contents[t]
    BY <1>16
  <2>4. ASSUME NEW t \in Tile \ DOMAIN tokens'[k].storage
        PROVE  /\ host'.bytes[t] = tokens'[k].content[t]
               /\ \A j \in DOMAIN tokens' :
                     Applicable(j)' /\ tokens'[j].cursor.revision <= tokens'[k].cursor.revision
                        => tokens'[j].content[t] = tokens'[k].content[t]
    <3>1. t \in Tile \ Changed
      BY <1>10, <2>4
    <3>2. tokens'[k].content[t] = Contents[t]
      BY <1>10
    <3> QED BY <2>2, <2>3, <3>1, <3>2
  <2> QED BY <2>4 DEF TokenFits
<1>19. ASSUME NEW j \in DOMAIN tokens PROVE TokenFits(j)'
  <2>1. TokenFits(j)
    BY DEF DeltaInv, TokensAgree
  <2>2. ASSUME Applicable(j), NEW t \in Tile \ DOMAIN tokens[j].storage,
               image.revision <= tokens[j].cursor.revision
        PROVE  Contents[t] = tokens[j].content[t]
    <3>1. tokens[j].cursor.epoch = image.epoch
      BY <2>2 DEF Applicable, SameEpoch
    <3>2. tokens[j].cursor.revision = image.revision
      BY <1>15, <2>2, <3>1, DeltaNumbers
    <3> QED BY <1>12, <1>15, <3>1, <3>2
  <2>3. ASSUME Applicable(j), NEW t \in Tile \ DOMAIN tokens[j].storage,
               NEW i \in DOMAIN tokens', Applicable(i)',
               tokens'[i].cursor.revision <= tokens[j].cursor.revision
        PROVE  tokens'[i].content[t] = tokens[j].content[t]
    <3>1. CASE i = k
      BY <1>10, <2>2, <2>3, <3>1
    <3>2. CASE i # k
      <4>1. i \in DOMAIN tokens /\ tokens'[i] = tokens[i] /\ Applicable(i)
        BY <1>14, <1>17, <2>3, <3>2
      <4> QED BY <2>1, <2>3, <4>1 DEF TokenFits
    <3> QED BY <3>1, <3>2
  <2>4. tokens'[j] = tokens[j] /\ host' = host /\ (Applicable(j)' <=> Applicable(j))
    BY <1>14, <1>17
  <2>5. Applicable(j) => \A t \in Tile \ DOMAIN tokens[j].storage :
                            host.bytes[t] = tokens[j].content[t]
    BY <2>1 DEF TokenFits
  <2>6. ASSUME Applicable(j)', NEW t \in Tile \ DOMAIN tokens'[j].storage
        PROVE  /\ host'.bytes[t] = tokens'[j].content[t]
               /\ \A i \in DOMAIN tokens' :
                     Applicable(i)' /\ tokens'[i].cursor.revision <= tokens'[j].cursor.revision
                        => tokens'[i].content[t] = tokens'[j].content[t]
    <3>1. t \in Tile \ DOMAIN tokens[j].storage /\ Applicable(j)
      BY <2>4, <2>6
    <3>2. \A i \in DOMAIN tokens' :
             Applicable(i)' /\ tokens'[i].cursor.revision <= tokens[j].cursor.revision
                => tokens'[i].content[t] = tokens[j].content[t]
      BY <2>3, <3>1
    <3> QED BY <2>4, <2>5, <3>1, <3>2
  <2> QED BY <2>6 DEF TokenFits
<1>20. ASSUME NEW j \in DOMAIN tokens, tokens[j].cursor.epoch = image.epoch,
              NEW t \in (DOMAIN tokens[j].storage) \cap Changed,
              tokens[j].versions[t] = tokens'[k].versions[t]
       PROVE  tokens[j].content[t] = tokens'[k].content[t]
  <2>1. tokens[j].versions[t].revision = image.tileRev[t]
    BY <1>10, <1>20
  <2> QED BY <1>10, <1>15, <1>20, <2>1
<1>21. ASSUME NEW i \in DOMAIN tokens', NEW j \in DOMAIN tokens'
       PROVE  SameVersionSameBytes(i, j)'
  <2>1. CASE i = k /\ j = k
    BY <2>1 DEF SameVersionSameBytes
  <2>2. CASE i = k /\ j # k
    <3>1. j \in DOMAIN tokens /\ tokens'[j] = tokens[j]
      BY <1>14, <1>21, <2>2
    <3> QED BY <1>10, <1>20, <2>2, <3>1 DEF SameVersionSameBytes
  <2>3. CASE i # k /\ j = k
    <3>1. i \in DOMAIN tokens /\ tokens'[i] = tokens[i]
      BY <1>14, <1>21, <2>3
    <3> QED BY <1>10, <1>20, <2>3, <3>1 DEF SameVersionSameBytes
  <2>4. CASE i # k /\ j # k
    <3>1. /\ i \in DOMAIN tokens /\ tokens'[i] = tokens[i]
          /\ j \in DOMAIN tokens /\ tokens'[j] = tokens[j]
      BY <1>14, <1>21, <2>4
    <3>2. SameVersionSameBytes(i, j)
      BY <3>1 DEF DeltaInv, TokensAgree
    <3> QED BY <3>1, <3>2 DEF SameVersionSameBytes
  <2> QED BY <2>1, <2>2, <2>3, <2>4
<1>22. TokensAgree'
  <2>1. \A j \in DOMAIN tokens' : j = k \/ j \in DOMAIN tokens
    OBVIOUS
  <2> QED BY <1>18, <1>19, <1>21, <2>1 DEF TokensAgree
<1> QED BY <1>8, <1>9, <1>13, <1>22 DEF DeltaInv

\* A query, admitted or over the pool's budget.
LEMMA QueryDeltaKeeps ==
    ASSUME DeltaInv, NEW k \in Token, QueryDelta(k)
    PROVE  DeltaInv'
<1>1. PICK f \in ReloadsOf(Changed) :
         LET img  == ReloadedAll(f)
             pins == [t \in Changed |-> img.storage[t]]
         IN \/ /\ Fits(pins)
               /\ tokens' = [j \in DOMAIN tokens \cup {k} |->
                               IF j = k THEN [ cursor   |-> Cursor(image),
                                               versions |-> VersionsOf(image, Changed),
                                               storage  |-> pins,
                                               content  |-> Contents ]
                               ELSE tokens[j]]
               /\ pool' = Acquired(pins)
               /\ Become(img, held \cup { pins[t] : t \in Changed }, HeapWith(f))
            \/ /\ ~Fits(pins)
               /\ Become(img, held, HeapWith(f))
               /\ UNCHANGED <<tokens, pool>>
  BY DEF QueryDelta
<1>2. /\ k \notin DOMAIN tokens /\ SameEpoch /\ \A t \in Changed : HasStorage(t)
      /\ store' = store /\ host' = host
  BY DEF QueryDelta
<1> DEFINE pins == [t \in Changed |-> ReloadedAll(f).storage[t]]
<1>3. CASE /\ tokens' = [j \in DOMAIN tokens \cup {k} |->
                           IF j = k THEN [ cursor   |-> Cursor(image),
                                           versions |-> VersionsOf(image, Changed),
                                           storage  |-> pins,
                                           content  |-> Contents ]
                           ELSE tokens[j]]
           /\ Become(ReloadedAll(f), held \cup { pins[t] : t \in Changed }, HeapWith(f))
  <2> HIDE DEF pins
  <2>1. pins = [t \in Changed |-> ReloadedAll(f).storage[t]]
    BY DEF pins
  <2> QED BY <1>2, <1>3, <2>1, NewTokenKeeps
<1>4. CASE Become(ReloadedAll(f), held, HeapWith(f)) /\ tokens' = tokens
  <2>1. Inv /\ Changed \in SUBSET Tile /\ held \in SUBSET Storage
    BY ChangedAreTiles, HeapType DEF DeltaInv
  <2>2. GoodStep /\ held' = held
    BY <1>2, <1>4, <2>1, BatchReloadIsGood
  <2>3. \A j \in DOMAIN tokens : PinnedBy(j) \subseteq held
    BY DEF DeltaInv, TokenGood, TokenPins, PinnedBy
  <2> QED BY <1>2, <1>4, <2>2, <2>3, ImageMovesKeep
<1> QED BY <1>1, <1>3, <1>4

\* Reading everything: the tokens of earlier epochs say nothing any more.
LEMMA FullResynchronizationKeeps ==
    ASSUME DeltaInv, FullResynchronization
    PROVE  DeltaInv'
<1>1. /\ ~SameEpoch
      /\ host' = [ cursor  |-> [epoch |-> image.epoch, revision |-> image.revision],
                   bytes   |-> Contents,
                   content |-> Contents ]
      /\ image' = image /\ heap' = heap /\ held' = held /\ store' = store
      /\ tokens' = tokens
  BY DEF FullResynchronization, imageVars, Cursor
<1>2. Inv' /\ \A t \in Tile : Bytes(t)' = Bytes(t)
  BY <1>1 DEF DeltaInv, Inv, TypeOK, BookkeepingExact, BackingExact, Bytes, BytesOf,
              Resident, KeyOf
<1>3. MirrorGood'
  <2>1. Contents \in [Tile -> Content] /\ \A t \in Tile : Contents[t] = Bytes(t)
    BY BytesType DEF Contents, DeltaInv
  <2>2. host' \in HostState
    BY <1>1, <2>1, DeltaNumbers DEF HostState, Cursors
  <2> QED BY <1>1, <1>2, <2>1, <2>2, DeltaNumbers DEF MirrorGood
<1>4. ASSUME NEW j \in DOMAIN tokens'
      PROVE  TokenGood(j)' /\ tokens[j].cursor.epoch # image.epoch
  <2>1. TokenGood(j) /\ TokenPins(j)
    BY <1>1, <1>4 DEF DeltaInv, TokenGood
  <2>2. tokens[j].cursor.epoch # image.epoch
    BY <1>1, <2>1 DEF TokenGood, TokenTells
  <2>3. TokenPins(j)'
    BY <1>1, <2>1 DEF TokenPins
  <2> QED BY <1>1, <2>1, <2>2, <2>3 DEF TokenGood
<1>5. \A j \in DOMAIN tokens' : TokenFits(j)'
  BY <1>1, <1>4 DEF TokenFits, Applicable
<1>6. \A i, j \in DOMAIN tokens' : SameVersionSameBytes(i, j)'
  BY <1>1 DEF DeltaInv, TokensAgree, SameVersionSameBytes
<1> QED BY <1>2, <1>3, <1>4, <1>5, <1>6 DEF DeltaInv, TokensAgree

\* The empty image of a channel that was just enabled.
LEMMA NewImageIsGood ==
    ASSUME image' = NewImage, held' \in SUBSET Storage, heap' \in [Storage -> Content],
           store' = [k \in {} |-> ClearContent]
    PROVE  Inv'
<1>1. NewImage \in ImageState
  BY LimitsAssumption DEF NewImage, ImageState
<1>2. TypeOK'
  BY <1>1 DEF TypeOK
<1>3. BookkeepingExact'
  BY StorageAssumption DEF BookkeepingExact, IndexExact, RevisionsDistinct, AllocatedExact,
                           NewImage, Resident
<1>4. BackingExact'
  BY DEF BackingExact, NewImage
<1> QED BY <1>2, <1>3, <1>4 DEF Inv

\* A channel enabled again, by a host that dropped its cursor and its tokens.
LEMMA ReenableChannelKeeps ==
    ASSUME DeltaInv, ForgetsOnDisable, ReenableChannel
    PROVE  DeltaInv'
<1>1. /\ DOMAIN tokens = {} /\ tokens' = tokens
      /\ image' = NewImage /\ host'.cursor = UnknownCursor
      /\ host' = [cursor |-> UnknownCursor, bytes |-> host.bytes, content |-> host.content]
      /\ store' = [k \in {} |-> ClearContent]
      /\ Become(NewImage, held, heap)
  <2>1. host' = [host EXCEPT !.cursor = UnknownCursor]
    BY DEF ReenableChannel
  <2>2. host \in HostState
    BY DEF DeltaInv, MirrorGood
  <2> QED BY <2>1, <2>2 DEF ReenableChannel, Become, HostState
<1>2. held' \in SUBSET Storage /\ heap' \in [Storage -> Content]
  BY <1>1, HeapType, BecomeHeap DEF DeltaInv
<1>3. Inv'
  BY <1>1, <1>2, NewImageIsGood
<1>4. MirrorGood'
  <2>1. host' \in HostState /\ host'.bytes = host'.content
    BY <1>1 DEF DeltaInv, MirrorGood, HostState, Cursors, UnknownCursor
  <2> QED BY <1>1, <2>1 DEF MirrorGood, SameEpoch, UnknownCursor, NewImage
<1>5. TokensAgree'
  BY <1>1 DEF TokensAgree
<1> QED BY <1>1, <1>3, <1>4, <1>5 DEF DeltaInv

-----------------------------------------------------------------------------
(* Theorems *)

\* The inductive invariant holds of every host that drops its cursor and its
\* tokens when it disables a channel.
THEOREM DeltaInvariant ==
    ASSUME ForgetsOnDisable
    PROVE  DeltaSpec => []DeltaInv
<1>1. DeltaInit => DeltaInv
  <2> SUFFICES ASSUME DeltaInit PROVE DeltaInv
    OBVIOUS
  <2>1. Inv
    BY InitInv DEF DeltaInit
  <2>2. /\ image = NewImage /\ DOMAIN tokens = {}
        /\ host = [cursor |-> UnknownCursor, bytes |-> Contents, content |-> Contents]
    BY DEF DeltaInit, ImageInit
  <2>3. Contents \in [Tile -> Content]
    BY <2>1, BytesType DEF Contents
  <2>4. MirrorGood
    <3>1. host \in HostState
      BY <2>2, <2>3 DEF HostState, Cursors, UnknownCursor
    <3> QED BY <2>2, <3>1 DEF MirrorGood, SameEpoch, UnknownCursor, NewImage
  <2>5. TokensAgree
    BY <2>2 DEF TokensAgree
  <2> QED BY <2>1, <2>2, <2>4, <2>5 DEF DeltaInv
<1>2. DeltaInv /\ [DeltaNext]_deltaVars => DeltaInv'
  <2> SUFFICES ASSUME DeltaInv, [DeltaNext]_deltaVars PROVE DeltaInv'
    OBVIOUS
  <2>1. CASE ImageStep \/ UNCHANGED deltaVars
    BY <2>1, ImageStepKeeps
  <2>2. ASSUME NEW k \in Token, QueryDelta(k) PROVE DeltaInv'
    BY <2>2, QueryDeltaKeeps
  <2>3. ASSUME NEW k \in Token, ApplySnapshot(k) PROVE DeltaInv'
    BY <2>3, ApplySnapshotKeeps
  <2>4. ASSUME NEW k \in Token, ReleaseSnapshot(k) PROVE DeltaInv'
    BY <2>4, ReleaseSnapshotKeeps
  <2>5. CASE FullResynchronization
    BY <2>5, FullResynchronizationKeeps
  <2>6. CASE ReenableChannel
    BY <2>6, ReenableChannelKeeps
  <2> QED BY <2>1, <2>2, <2>3, <2>4, <2>5, <2>6 DEF DeltaNext
<1> QED BY <1>1, <1>2, PTL DEF DeltaSpec

\* The answer to a delta query omits no changed tile, and the host's cursor is
\* never ahead of the image it names.
THEOREM DeltasAreComplete ==
    ASSUME ForgetsOnDisable
    PROVE  DeltaSpec => []DeltaComplete
<1>1. DeltaInv => DeltaComplete
  <2> SUFFICES ASSUME DeltaInv PROVE DeltaComplete
    OBVIOUS
  <2>1. ASSUME SameEpoch, NEW t \in Tile, t \notin Changed
        PROVE  Bytes(t) = host.bytes[t]
    <3>1. image.tileRev[t] \in Nat /\ host.cursor.revision \in Nat
      BY DeltaNumbers
    <3>2. ~(image.tileRev[t] > host.cursor.revision)
      BY <2>1, <3>1, DeltaLists DEF Changed, DeltaInv
    <3>3. image.tileRev[t] <= host.cursor.revision
      BY <3>1, <3>2
    <3> QED BY <2>1, <3>3 DEF DeltaInv, MirrorGood
  <2>2. SameEpoch => host.cursor.revision <= image.revision
    BY DEF DeltaInv, MirrorGood
  <2> QED BY <2>1, <2>2 DEF DeltaComplete, AdmittedDeltaCorrect
<1> QED BY <1>1, DeltaInvariant, PTL

\* Until it is released, a snapshot token's storages read what the tiles read
\* at the token's cursor, and its versions identify those bytes.
THEOREM SnapshotsStayExact ==
    ASSUME ForgetsOnDisable
    PROVE  DeltaSpec => []SnapshotsExact
<1>1. DeltaInv => SnapshotsExact
  <2> SUFFICES ASSUME DeltaInv, NEW k \in DOMAIN tokens, NEW t \in DOMAIN tokens[k].storage
               PROVE  /\ heap[tokens[k].storage[t]] = tokens[k].content[t]
                      /\ \A j \in DOMAIN tokens :
                            /\ t \in DOMAIN tokens[j].storage
                            /\ tokens[j].versions[t] = tokens[k].versions[t]
                            /\ tokens[j].cursor.epoch = tokens[k].cursor.epoch
                            => heap[tokens[j].storage[t]] = heap[tokens[k].storage[t]]
    BY DEF SnapshotsExact
  <2>1. \A j \in DOMAIN tokens : t \in DOMAIN tokens[j].storage =>
           heap[tokens[j].storage[t]] = tokens[j].content[t]
    BY DEF DeltaInv, TokenGood, TokenPins
  <2>2. \A j \in DOMAIN tokens : SameVersionSameBytes(j, k)
    BY DEF DeltaInv, TokensAgree
  <2> QED BY <2>1, <2>2 DEF SameVersionSameBytes
<1> QED BY <1>1, DeltaInvariant, PTL

\* Whatever is edited between a query and its readback, and in whatever order
\* readbacks of one base come, the mirror is the image as it was at one cursor.
THEOREM MirrorsShowTheirCursor ==
    ASSUME ForgetsOnDisable
    PROVE  DeltaSpec => []MirrorShowsCursor
<1>1. DeltaInv => MirrorShowsCursor
  BY DEF DeltaInv, MirrorGood, MirrorShowsCursor
<1> QED BY <1>1, DeltaInvariant, PTL

-----------------------------------------------------------------------------
(* The pool *)

\* The pins of a token: storages of tiles.
IsPins(pins) ==
    /\ DOMAIN pins \subseteq Tile
    /\ \A t \in DOMAIN pins : pins[t] \in Storage

\* The pins of one storage, by token and tile.
PinsOn(toks, s) ==
    { pin \in (DOMAIN toks) \X Tile :
        LET pins == toks[pin[1]].storage
        IN  pin[2] \in DOMAIN pins /\ pins[pin[2]] = s }

Holdings(toks) ==
    /\ IsFiniteSet(DOMAIN toks)
    /\ \A k \in DOMAIN toks : IsPins(toks[k].storage)

\* The storages that toks pin.
PinnedIn(toks) == UNION { { toks[k].storage[t] : t \in DOMAIN toks[k].storage } : k \in DOMAIN toks }

\* The pool's members are what toks make them.
Charged(p, toks) ==
    /\ \A s \in Storage : p.references[s] = Cardinality(PinsOn(toks, s))
    /\ p.pinned = Cardinality(PinnedIn(toks))
    /\ p.active = Cardinality(DOMAIN toks)

PoolInv ==
    /\ Inv
    /\ Holdings(tokens)
    /\ Charged(pool, tokens)
    /\ pool.pinned <= PinBudget

\* big has what small has, and the token k with pins.
Grown(small, big, k, pins) ==
    /\ k \notin DOMAIN small
    /\ DOMAIN big = DOMAIN small \cup {k}
    /\ big[k].storage = pins
    /\ \A j \in DOMAIN small : big[j].storage = small[j].storage

\* The tiles of pins that s backs are finitely many.
LEMMA TilesOnFinite ==
    ASSUME NEW pins, IsPins(pins), NEW s
    PROVE  /\ IsFiniteSet({ t \in DOMAIN pins : pins[t] = s })
           /\ TilesOn(pins, s) \in Nat
<1>1. { t \in DOMAIN pins : pins[t] = s } \subseteq Tile
  BY DEF IsPins
<1>2. IsFiniteSet({ t \in DOMAIN pins : pins[t] = s })
  BY <1>1, HostAssumption, FS_Subset
<1> QED BY <1>2, FS_CardinalityType DEF TilesOn

\* What a token pins is finite.
LEMMA PinnedRange ==
    ASSUME NEW pins, IsPins(pins)
    PROVE  /\ IsFiniteSet({ pins[t] : t \in DOMAIN pins })
           /\ { pins[t] : t \in DOMAIN pins } \subseteq Storage
<1> DEFINE range == { pins[t] : t \in DOMAIN pins }
           f == [t \in DOMAIN pins |-> pins[t]]
<1>1. IsFiniteSet(DOMAIN pins)
  BY HostAssumption, FS_Subset DEF IsPins
<1>2. f \in Surjection(DOMAIN pins, range)
  BY DEF Surjection
<1>3. IsFiniteSet(range)
  <2> HIDE DEF f, range
  <2> QED BY <1>1, <1>2, FS_Surjection
<1> QED BY <1>3 DEF IsPins

\* A new token adds its pins to those of every storage.
LEMMA PinsGrow ==
    ASSUME NEW small, NEW big, NEW k, NEW pins, Grown(small, big, k, pins),
           IsPins(pins), IsFiniteSet(DOMAIN small), NEW s
    PROVE  /\ Cardinality(PinsOn(small, s)) \in Nat
           /\ Cardinality(PinsOn(big, s)) = Cardinality(PinsOn(small, s)) + TilesOn(pins, s)
<1> DEFINE mine == { t \in DOMAIN pins : pins[t] = s }
<1>1. IsFiniteSet(mine) /\ Cardinality(mine) = TilesOn(pins, s) /\ TilesOn(pins, s) \in Nat
  BY TilesOnFinite DEF TilesOn
<1>2. IsFiniteSet(PinsOn(small, s)) /\ Cardinality(PinsOn(small, s)) \in Nat
  <2>1. IsFiniteSet((DOMAIN small) \X Tile)
    BY HostAssumption, FS_Product
  <2>2. PinsOn(small, s) \in SUBSET ((DOMAIN small) \X Tile)
    BY DEF PinsOn
  <2> QED BY <2>1, <2>2, FS_Subset, FS_CardinalityType
<1>3. IsFiniteSet({k} \X mine) /\ Cardinality({k} \X mine) = TilesOn(pins, s)
  <2>1. IsFiniteSet({k}) /\ Cardinality({k}) = 1
    BY FS_Singleton
  <2>2. IsFiniteSet({k} \X mine) /\ Cardinality({k} \X mine) = 1 * Cardinality(mine)
    BY <1>1, <2>1, FS_Product
  <2> QED BY <1>1, <2>2
<1>4. PinsOn(big, s) = PinsOn(small, s) \cup ({k} \X mine)
  <2>1. ASSUME NEW pin \in PinsOn(big, s)
        PROVE  pin \in PinsOn(small, s) \cup ({k} \X mine)
    <3>1. /\ pin \in (DOMAIN big) \X Tile
          /\ pin[2] \in DOMAIN big[pin[1]].storage
          /\ big[pin[1]].storage[pin[2]] = s
      BY DEF PinsOn
    <3>2. CASE pin[1] = k
      BY <3>1, <3>2 DEF Grown
    <3>3. CASE pin[1] # k
      BY <3>1, <3>3 DEF Grown, PinsOn
    <3> QED BY <3>2, <3>3
  <2>2. ASSUME NEW pin \in PinsOn(small, s)
        PROVE  pin \in PinsOn(big, s)
    BY DEF Grown, PinsOn
  <2>3. ASSUME NEW pin \in {k} \X mine
        PROVE  pin \in PinsOn(big, s)
    BY DEF Grown, PinsOn, IsPins
  <2> QED BY <2>1, <2>2, <2>3
<1>5. PinsOn(small, s) \cap ({k} \X mine) = {}
  BY DEF Grown, PinsOn
<1>6. Cardinality(PinsOn(big, s))
        = Cardinality(PinsOn(small, s)) + TilesOn(pins, s) - Cardinality({})
  <2> HIDE DEF mine
  <2> QED BY <1>2, <1>3, <1>4, <1>5, FS_Union
<1> QED BY <1>1, <1>2, <1>6, FS_EmptySet

\* And its storages to the pinned ones.
LEMMA PinnedGrow ==
    ASSUME NEW small, NEW big, NEW k, NEW pins, Grown(small, big, k, pins)
    PROVE  PinnedIn(big) = PinnedIn(small) \cup { pins[t] : t \in DOMAIN pins }
<1>1. ASSUME NEW s \in PinnedIn(big)
      PROVE  s \in PinnedIn(small) \cup { pins[t] : t \in DOMAIN pins }
  <2>1. PICK j \in DOMAIN big : \E t \in DOMAIN big[j].storage : s = big[j].storage[t]
    BY DEF PinnedIn
  <2>2. CASE j = k
    BY <2>1, <2>2 DEF Grown
  <2>3. CASE j # k
    BY <2>1, <2>3 DEF Grown, PinnedIn
  <2> QED BY <2>2, <2>3
<1>2. ASSUME NEW s \in PinnedIn(small)
      PROVE  s \in PinnedIn(big)
  <2>1. PICK j \in DOMAIN small : \E t \in DOMAIN small[j].storage : s = small[j].storage[t]
    BY DEF PinnedIn
  <2>2. j \in DOMAIN big /\ big[j].storage = small[j].storage
    BY DEF Grown
  <2> QED BY <2>1, <2>2 DEF PinnedIn
<1>3. ASSUME NEW t \in DOMAIN pins
      PROVE  pins[t] \in PinnedIn(big)
  BY DEF Grown, PinnedIn
<1> QED BY <1>1, <1>2, <1>3

\* Finitely many storages are pinned, and a storage is pinned if and only if
\* somebody counts it.
LEMMA PinnedAreCounted ==
    ASSUME NEW toks, Holdings(toks), NEW s
    PROVE  Cardinality(PinsOn(toks, s)) > 0 <=> s \in PinnedIn(toks)
<1>1. IsFiniteSet(PinsOn(toks, s))
  <2>1. IsFiniteSet((DOMAIN toks) \X Tile)
    BY HostAssumption, FS_Product DEF Holdings
  <2>2. PinsOn(toks, s) \in SUBSET ((DOMAIN toks) \X Tile)
    BY DEF PinsOn
  <2> QED BY <2>1, <2>2, FS_Subset
<1>2. Cardinality(PinsOn(toks, s)) > 0 <=> PinsOn(toks, s) # {}
  <2>1. Cardinality(PinsOn(toks, s)) \in Nat
    BY <1>1, FS_CardinalityType
  <2>2. Cardinality(PinsOn(toks, s)) = 0 <=> PinsOn(toks, s) = {}
    BY <1>1, FS_EmptySet
  <2> QED BY <2>1, <2>2
<1>3. PinsOn(toks, s) # {} => s \in PinnedIn(toks)
  BY DEF PinsOn, PinnedIn
<1>4. ASSUME s \in PinnedIn(toks) PROVE PinsOn(toks, s) # {}
  <2>1. PICK k \in DOMAIN toks : \E t \in DOMAIN toks[k].storage : s = toks[k].storage[t]
    BY <1>4 DEF PinnedIn
  <2>2. PICK t \in DOMAIN toks[k].storage : s = toks[k].storage[t]
    BY <2>1
  <2>3. t \in Tile
    BY DEF Holdings, IsPins
  <2>4. <<k, t>> \in PinsOn(toks, s)
    BY <2>2, <2>3 DEF PinsOn
  <2> QED BY <2>4
<1> QED BY <1>2, <1>3, <1>4

\* Finitely many storages are pinned.
LEMMA PinnedFinite ==
    ASSUME NEW toks, Holdings(toks)
    PROVE  /\ IsFiniteSet(PinnedIn(toks))
           /\ PinnedIn(toks) \subseteq Storage
<1> DEFINE all == { pin \in (DOMAIN toks) \X Tile : pin[2] \in DOMAIN toks[pin[1]].storage }
           f == [pin \in all |-> toks[pin[1]].storage[pin[2]]]
<1>1. IsFiniteSet(all)
  <2>1. IsFiniteSet((DOMAIN toks) \X Tile)
    BY HostAssumption, FS_Product DEF Holdings
  <2>2. all \in SUBSET ((DOMAIN toks) \X Tile)
    OBVIOUS
  <2> HIDE DEF all
  <2> QED BY <2>1, <2>2, FS_Subset
<1>2. \A s \in PinnedIn(toks) : \E pin \in all : f[pin] = s
  <2> SUFFICES ASSUME NEW s \in PinnedIn(toks) PROVE \E pin \in all : f[pin] = s
    OBVIOUS
  <2>1. PICK k \in DOMAIN toks : \E t \in DOMAIN toks[k].storage : s = toks[k].storage[t]
    BY DEF PinnedIn
  <2>2. PICK t \in DOMAIN toks[k].storage : s = toks[k].storage[t]
    BY <2>1
  <2>3. t \in Tile
    BY DEF Holdings, IsPins
  <2>4. <<k, t>> \in all /\ f[<<k, t>>] = s
    BY <2>2, <2>3
  <2> QED BY <2>4
<1>3. \A pin \in all : f[pin] \in PinnedIn(toks)
  BY DEF PinnedIn
<1>4. f \in [all -> PinnedIn(toks)]
  BY <1>3
<1>5. IsFiniteSet(PinnedIn(toks))
  <2>1. f \in Surjection(all, PinnedIn(toks))
    <3> HIDE DEF f, all
    <3> QED BY <1>2, <1>4 DEF Surjection
  <2> HIDE DEF f, all
  <2> QED BY <1>1, <2>1, FS_Surjection
<1>6. PinnedIn(toks) \subseteq Storage
  BY DEF PinnedIn, Holdings, IsPins
<1> QED BY <1>5, <1>6

\* The tokens a query leaves are holdings again.
LEMMA HoldingsGrow ==
    ASSUME NEW small, NEW big, NEW k, NEW pins, Grown(small, big, k, pins),
           Holdings(small), IsPins(pins)
    PROVE  /\ Holdings(big)
           /\ Cardinality(DOMAIN small) \in Nat
           /\ Cardinality(DOMAIN big) = Cardinality(DOMAIN small) + 1
<1>1. IsFiniteSet(DOMAIN big) /\ Cardinality(DOMAIN big) = Cardinality(DOMAIN small) + 1
  BY FS_AddElement DEF Grown, Holdings
<1>2. \A j \in DOMAIN big : IsPins(big[j].storage)
  BY DEF Grown, Holdings
<1> QED BY <1>1, <1>2, FS_CardinalityType DEF Holdings

\* So are those a release leaves.
LEMMA HoldingsShrink ==
    ASSUME NEW small, NEW big, NEW k, NEW pins, Grown(small, big, k, pins), Holdings(big)
    PROVE  Holdings(small) /\ IsPins(pins)
<1>1. IsFiniteSet(DOMAIN small)
  BY FS_Subset DEF Grown, Holdings
<1>2. \A j \in DOMAIN small : IsPins(small[j].storage)
  BY DEF Grown, Holdings
<1> QED BY <1>1, <1>2 DEF Grown, Holdings

\* Of two numbers, the smaller.
LEMMA SmallerOf ==
    ASSUME NEW a \in Nat, NEW b \in Nat, b <= a
    PROVE  Min({a, b}) = b
BY DEF Min

\* An admitted query charges what only it pins, within the ceiling.
LEMMA AcquiredIsCharged ==
    ASSUME Holdings(tokens), Charged(pool, tokens), pool.pinned <= PinBudget,
           NEW pins, IsPins(pins), Fits(pins),
           NEW big, NEW k, Grown(tokens, big, k, pins)
    PROVE  /\ Holdings(big)
           /\ Charged(Acquired(pins), big)
           /\ Acquired(pins).pinned <= PinBudget
<1> DEFINE range == { pins[t] : t \in DOMAIN pins }
           fresh == range \ { s \in Storage : pool.references[s] > 0 }
<1>1. /\ \A s \in Storage : Acquired(pins).references[s] = pool.references[s] + TilesOn(pins, s)
      /\ Acquired(pins).pinned = pool.pinned + Cardinality(fresh)
      /\ Acquired(pins).active = pool.active + 1
  BY DEF Acquired
<1>2. ASSUME NEW s \in Storage
      PROVE  Acquired(pins).references[s] = Cardinality(PinsOn(big, s))
  BY <1>1, PinsGrow DEF Holdings, Charged
<1>3. Acquired(pins).active = Cardinality(DOMAIN big)
  BY <1>1, HoldingsGrow DEF Charged
<1>4. IsFiniteSet(range) /\ range \subseteq Storage
  BY PinnedRange
<1>5. IsFiniteSet(PinnedIn(tokens)) /\ PinnedIn(tokens) \subseteq Storage
  BY PinnedFinite
<1>6. fresh = range \ PinnedIn(tokens)
  <2>1. \A s \in Storage : pool.references[s] > 0 <=> s \in PinnedIn(tokens)
    BY PinnedAreCounted DEF Charged
  <2> HIDE DEF range
  <2> QED BY <1>4, <2>1
<1>7. /\ Acquired(pins).pinned = Cardinality(PinnedIn(big))
      /\ Acquired(pins).pinned \in Nat /\ pool.pinned \in Nat
  <2> HIDE DEF range
  <2>1. IsFiniteSet(range \ PinnedIn(tokens))
    BY <1>4, FS_Difference
  <2>2. PinnedIn(big) = PinnedIn(tokens) \cup (range \ PinnedIn(tokens))
    BY PinnedGrow DEF range
  <2>3. PinnedIn(tokens) \cap (range \ PinnedIn(tokens)) = {}
    OBVIOUS
  <2>4. Cardinality(PinnedIn(big))
          = Cardinality(PinnedIn(tokens)) + Cardinality(range \ PinnedIn(tokens)) - 0
    BY <1>5, <2>1, <2>2, <2>3, FS_Union, FS_EmptySet
  <2>5. /\ Cardinality(PinnedIn(tokens)) \in Nat
        /\ Cardinality(range \ PinnedIn(tokens)) \in Nat
    BY <1>5, <2>1, FS_CardinalityType
  <2>6. pool.pinned = Cardinality(PinnedIn(tokens))
    BY DEF Charged
  <2> HIDE DEF fresh
  <2>7. Acquired(pins).pinned
          = Cardinality(PinnedIn(tokens)) + Cardinality(range \ PinnedIn(tokens))
    BY <1>1, <1>6, <2>6
  <2> QED BY <2>4, <2>5, <2>6, <2>7
<1>8. Acquired(pins).pinned <= PinBudget
  <2>1. PinBudget \in Nat
    BY HostAssumption
  <2>2. Min({PinBudget, pool.pinned}) = pool.pinned
    BY <1>7, <2>1, SmallerOf
  <2>3. Acquired(pins).pinned - pool.pinned <= PinBudget - pool.pinned
    BY <2>2 DEF Fits
  <2> HIDE DEF range
  <2> QED BY <1>7, <2>1, <2>3
<1>9. Holdings(big)
  BY HoldingsGrow
<1> QED BY <1>2, <1>3, <1>7, <1>8, <1>9 DEF Charged

\* A release discharges what nobody else pins.
LEMMA ReleasedIsCharged ==
    ASSUME Holdings(tokens), Charged(pool, tokens), pool.pinned <= PinBudget,
           NEW pins, NEW small, NEW k, Grown(small, tokens, k, pins)
    PROVE  /\ Holdings(small)
           /\ Charged(Released(pins), small)
           /\ Released(pins).pinned <= PinBudget
<1> DEFINE gone == { s \in Storage : /\ pool.references[s] > 0
                                     /\ pool.references[s] - TilesOn(pins, s) = 0 }
<1>1. /\ \A s \in Storage : Released(pins).references[s] = pool.references[s] - TilesOn(pins, s)
      /\ Released(pins).pinned = pool.pinned - Cardinality(gone)
      /\ Released(pins).active = IF pool.active = 0 THEN 0 ELSE pool.active - 1
  <2>1. gone = { s \in Storage :
                   /\ pool.references[s] > 0
                   /\ [x \in Storage |-> pool.references[x] - TilesOn(pins, x)][s] = 0 }
    OBVIOUS
  <2> HIDE DEF gone
  <2> QED BY <2>1 DEF Released
<1>2. Holdings(small) /\ IsPins(pins)
  BY HoldingsShrink
<1>3. ASSUME NEW s \in Storage
      PROVE  /\ Released(pins).references[s] = Cardinality(PinsOn(small, s))
             /\ pool.references[s] - TilesOn(pins, s) = Cardinality(PinsOn(small, s))
             /\ Cardinality(PinsOn(small, s)) \in Nat
  <2>1. /\ Cardinality(PinsOn(small, s)) \in Nat
        /\ Cardinality(PinsOn(tokens, s)) = Cardinality(PinsOn(small, s)) + TilesOn(pins, s)
    BY <1>2, PinsGrow DEF Holdings
  <2>2. TilesOn(pins, s) \in Nat
    BY <1>2, TilesOnFinite
  <2> QED BY <1>1, <2>1, <2>2 DEF Charged
<1>4. Released(pins).active = Cardinality(DOMAIN small)
  BY <1>1, <1>2, HoldingsGrow DEF Charged
<1>5. /\ IsFiniteSet(PinnedIn(tokens)) /\ PinnedIn(tokens) \subseteq Storage
      /\ IsFiniteSet(PinnedIn(small)) /\ PinnedIn(small) \subseteq Storage
  BY <1>2, PinnedFinite
<1>6. gone = PinnedIn(tokens) \ PinnedIn(small)
  <2>1. ASSUME NEW s \in Storage
        PROVE  s \in gone <=> s \in PinnedIn(tokens) /\ s \notin PinnedIn(small)
    <3>1. pool.references[s] > 0 <=> s \in PinnedIn(tokens)
      BY PinnedAreCounted DEF Charged
    <3>2. Cardinality(PinsOn(small, s)) > 0 <=> s \in PinnedIn(small)
      BY <1>2, PinnedAreCounted
    <3>3. pool.references[s] - TilesOn(pins, s) = 0 <=> s \notin PinnedIn(small)
      BY <1>3, <3>2
    <3> QED BY <3>1, <3>3
  <2>2. gone \subseteq Storage
    OBVIOUS
  <2> HIDE DEF gone
  <2> QED BY <1>5, <2>1, <2>2
<1>7. /\ Released(pins).pinned = Cardinality(PinnedIn(small))
      /\ Released(pins).pinned \in Nat /\ pool.pinned \in Nat
      /\ Released(pins).pinned <= pool.pinned
  <2>1. PinnedIn(small) \subseteq PinnedIn(tokens)
    BY PinnedGrow
  <2>2. PinnedIn(tokens) \cap PinnedIn(small) = PinnedIn(small)
    BY <2>1
  <2>3. Cardinality(PinnedIn(tokens) \ PinnedIn(small))
          = Cardinality(PinnedIn(tokens)) - Cardinality(PinnedIn(small))
    BY <1>5, <2>2, FS_Difference
  <2>4. /\ Cardinality(PinnedIn(tokens)) \in Nat /\ Cardinality(PinnedIn(small)) \in Nat
        /\ Cardinality(PinnedIn(small)) <= Cardinality(PinnedIn(tokens))
    BY <1>5, <2>1, FS_Subset, FS_CardinalityType
  <2> QED BY <1>1, <1>6, <2>3, <2>4 DEF Charged
<1>8. Released(pins).pinned <= PinBudget
  BY <1>7, HostAssumption
<1> QED BY <1>2, <1>3, <1>4, <1>7, <1>8 DEF Charged

\* A query leaves the pool exact, admitted or refused.
LEMMA QueryDeltaCharges ==
    ASSUME PoolInv, NEW k \in Token, QueryDelta(k)
    PROVE  PoolInv'
<1>1. PICK f \in ReloadsOf(Changed) :
         LET img  == ReloadedAll(f)
             pins == [t \in Changed |-> img.storage[t]]
         IN \/ /\ Fits(pins)
               /\ tokens' = [j \in DOMAIN tokens \cup {k} |->
                               IF j = k THEN [ cursor   |-> Cursor(image),
                                               versions |-> VersionsOf(image, Changed),
                                               storage  |-> pins,
                                               content  |-> Contents ]
                               ELSE tokens[j]]
               /\ pool' = Acquired(pins)
               /\ Become(img, held \cup { pins[t] : t \in Changed }, HeapWith(f))
            \/ /\ ~Fits(pins)
               /\ Become(img, held, HeapWith(f))
               /\ UNCHANGED <<tokens, pool>>
  BY DEF QueryDelta
<1>2. /\ k \notin DOMAIN tokens /\ \A t \in Changed : HasStorage(t)
      /\ store' = store
  BY DEF QueryDelta
<1>3. Inv /\ Changed \in SUBSET Tile /\ held \in SUBSET Storage
  BY ChangedAreTiles, HeapType DEF PoolInv
<1> DEFINE pins == [t \in Changed |-> ReloadedAll(f).storage[t]]
<1>4. IsPins(pins)
  <2>1. ASSUME NEW t \in Changed
        PROVE  ReloadedAll(f).storage[t] \in Storage
    <3>1. /\ t \in Tile
          /\ ReloadedAll(f).storage[t] = IF t \in DOMAIN f THEN f[t] ELSE image.storage[t]
      <4>1. ReloadedAll(f).storage =
               [u \in Tile |-> IF u \in DOMAIN f THEN f[u] ELSE image.storage[u]]
        BY <1>3, ReloadedAllConsistent
      <4>2. t \in Tile
        BY <1>3
      <4> QED BY <4>1, <4>2
    <3>2. CASE t \in DOMAIN f
      BY <3>1, <3>2 DEF ReloadsOf, Free
    <3>3. CASE t \notin DOMAIN f
      <4>1. ~Evicted(image, t) /\ HasStorage(t)
        BY <1>2, <3>3 DEF ReloadsOf
      <4>2. Resident(image, t)
        BY <4>1 DEF HasStorage, Evicted, Resident
      <4>3. image.storage[t] \in Storage \cup {NoStorage}
        BY <1>3, <3>1, ImageFieldTypes DEF Handle
      <4> QED BY <3>1, <3>3, <4>2, <4>3 DEF Resident
    <3> QED BY <3>2, <3>3
  <2> QED BY <1>3, <2>1 DEF IsPins
<1>5. CASE /\ Fits(pins)
           /\ tokens' = [j \in DOMAIN tokens \cup {k} |->
                           IF j = k THEN [ cursor   |-> Cursor(image),
                                           versions |-> VersionsOf(image, Changed),
                                           storage  |-> pins,
                                           content  |-> Contents ]
                           ELSE tokens[j]]
           /\ pool' = Acquired(pins)
           /\ Become(ReloadedAll(f), held \cup { pins[t] : t \in Changed }, HeapWith(f))
  <2>1. DOMAIN pins = Changed
    OBVIOUS
  <2> HIDE DEF pins
  <2>2. Grown(tokens, tokens', k, pins)
    BY <1>2, <1>5 DEF Grown
  <2>3. /\ Holdings(tokens') /\ Charged(Acquired(pins), tokens')
        /\ Acquired(pins).pinned <= PinBudget
    BY <1>4, <1>5, <2>2, AcquiredIsCharged DEF PoolInv
  <2>4. Inv'
    <3>1. held \cup { pins[t] : t \in Changed } \in SUBSET Storage
      BY <1>3, <1>4, <2>1 DEF IsPins
    <3> QED BY <1>2, <1>3, <1>5, <3>1, BatchReloadIsGood DEF GoodStep
  <2>5. Holdings(tokens)' /\ Charged(pool, tokens)' /\ (pool.pinned <= PinBudget)'
    BY <1>5, <2>3 DEF Holdings, Charged, IsPins, PinsOn, PinnedIn
  <2> QED BY <2>4, <2>5 DEF PoolInv
<1>6. CASE Become(ReloadedAll(f), held, HeapWith(f)) /\ UNCHANGED <<tokens, pool>>
  <2>1. Inv'
    BY <1>2, <1>3, <1>6, BatchReloadIsGood DEF GoodStep
  <2> QED BY <1>6, <2>1 DEF PoolInv, Holdings, Charged, IsPins, PinsOn, PinnedIn
<1> QED BY <1>1, <1>5, <1>6

\* A release leaves the pool exact.
LEMMA ReleaseSnapshotCharges ==
    ASSUME PoolInv, NEW k \in Token, ReleaseSnapshot(k)
    PROVE  PoolInv'
<1>1. PICK kept \in SUBSET PinnedBy(k) :
         Become(image, (held \ PinnedBy(k)) \cup kept \cup OtherPins(k), heap)
  BY DEF ReleaseSnapshot
<1>2. /\ k \in DOMAIN tokens /\ store' = store
      /\ pool' = Released(tokens[k].storage)
      /\ tokens' = [j \in DOMAIN tokens \ {k} |-> tokens[j]]
  BY DEF ReleaseSnapshot
<1>3. Inv'
  <2>1. held \in SUBSET Storage /\ Inv
    BY HeapType DEF PoolInv
  <2>2. \A j \in DOMAIN tokens : PinnedBy(j) \subseteq Storage
    BY DEF PoolInv, Holdings, IsPins, PinnedBy
  <2>3. (held \ PinnedBy(k)) \cup kept \cup OtherPins(k) \in SUBSET Storage
    BY <1>2, <2>1, <2>2 DEF OtherPins
  <2> QED BY <1>1, <1>2, <2>1, <2>3, SameImageStep DEF GoodStep
<1>4. Grown(tokens', tokens, k, tokens[k].storage)
  BY <1>2 DEF Grown
<1>5. /\ Holdings(tokens') /\ Charged(Released(tokens[k].storage), tokens')
      /\ Released(tokens[k].storage).pinned <= PinBudget
  BY <1>4, ReleasedIsCharged DEF PoolInv
<1>6. Holdings(tokens)' /\ Charged(pool, tokens)' /\ (pool.pinned <= PinBudget)'
  BY <1>2, <1>5 DEF Holdings, Charged, IsPins, PinsOn, PinnedIn
<1> QED BY <1>3, <1>6 DEF PoolInv

\* All other steps leave tokens and pool alone.
LEMMA OthersCharge ==
    ASSUME PoolInv, Inv', tokens' = tokens, pool' = pool
    PROVE  PoolInv'
BY DEF PoolInv, Holdings, Charged, IsPins, PinsOn, PinnedIn

\* The pool counts each pin once and each pinned allocation once, never above
\* its ceiling, whatever the host does with its cursor.
THEOREM PoolIsExact == DeltaSpec => []PoolExact
<1>1. DeltaInit => PoolInv
  <2> SUFFICES ASSUME DeltaInit PROVE PoolInv
    OBVIOUS
  <2>1. Inv
    BY InitInv DEF DeltaInit
  <2>2. /\ DOMAIN tokens = {}
        /\ \A s \in Storage : pool.references[s] = 0
        /\ pool.pinned = 0 /\ pool.active = 0
    BY DEF DeltaInit
  <2>3. PinnedIn(tokens) = {} /\ \A s : PinsOn(tokens, s) = {}
    BY <2>2 DEF PinnedIn, PinsOn
  <2>4. Holdings(tokens) /\ Charged(pool, tokens)
    BY <2>2, <2>3, FS_EmptySet DEF Holdings, Charged
  <2> QED BY <2>1, <2>2, <2>4, HostAssumption DEF PoolInv
<1>2. PoolInv /\ [DeltaNext]_deltaVars => PoolInv'
  <2> SUFFICES ASSUME PoolInv, [DeltaNext]_deltaVars PROVE PoolInv'
    OBVIOUS
  <2>1. CASE ImageStep
    <3>1. Inv'
      BY <2>1, StepIsGood DEF PoolInv, ImageStep, GoodStep
    <3> QED BY <2>1, <3>1, OthersCharge DEF ImageStep
  <2>2. ASSUME NEW k \in Token, QueryDelta(k) PROVE PoolInv'
    BY <2>2, QueryDeltaCharges
  <2>3. ASSUME NEW k \in Token, ReleaseSnapshot(k) PROVE PoolInv'
    BY <2>3, ReleaseSnapshotCharges
  <2>4. CASE (\E k \in Token : ApplySnapshot(k)) \/ FullResynchronization \/ UNCHANGED deltaVars
    <3>1. UNCHANGED imageVars /\ tokens' = tokens /\ pool' = pool
      BY <2>4 DEF ApplySnapshot, FullResynchronization, deltaVars, imageVars
    <3>2. Inv'
      BY <3>1, StepIsGood DEF PoolInv, GoodStep
    <3> QED BY <3>1, <3>2, OthersCharge
  <2>5. CASE ReenableChannel
    <3>1. /\ image' = NewImage /\ store' = [k \in {} |-> ClearContent]
          /\ Become(NewImage, held, heap) /\ tokens' = tokens /\ pool' = pool
      BY <2>5 DEF ReenableChannel, Become
    <3>2. held' \in SUBSET Storage /\ heap' \in [Storage -> Content]
      BY <3>1, HeapType, BecomeHeap DEF PoolInv
    <3>3. Inv'
      BY <3>1, <3>2, NewImageIsGood
    <3> QED BY <3>1, <3>3, OthersCharge
  <2> QED BY <2>1, <2>2, <2>3, <2>4, <2>5 DEF DeltaNext
<1>3. PoolInv => PoolExact
  <2> SUFFICES ASSUME PoolInv PROVE PoolExact
    OBVIOUS
  <2>1. PinnedIn(tokens) = Pinned
    BY DEF PinnedIn, Pinned, PinnedBy
  <2>2. ASSUME NEW s \in Storage
        PROVE  pool.references[s] =
                 Cardinality({ pin \in (DOMAIN tokens) \X Tile :
                     LET pins == tokens[pin[1]].storage
                     IN  pin[2] \in DOMAIN pins /\ pins[pin[2]] = s })
    BY DEF PoolInv, Charged, PinsOn
  <2> QED BY <2>1, <2>2 DEF PoolInv, Charged, PoolExact
<1> QED BY <1>1, <1>2, <1>3, PTL DEF DeltaSpec
=============================================================================
