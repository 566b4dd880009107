---------------------------- MODULE TileHistory ----------------------------
(***************************************************************************)
(* doc::TileHistory over the tiles of one channel image and the layer      *)
(* stack of a texture set: captured steps, isolated transactions, undo and *)
(* redo by exchange of tile storages, the byte budget, and the staleness   *)
(* checks by tile generation, revision epoch and layer revision.  Bytes    *)
(* are counted in tiles and a tile's pixels are one value.                 *)
(*                                                                         *)
(* Activities selects what hosts do besides undo and redo, so that an      *)
(* instance can study one hazard at a time.                                *)
(***************************************************************************)
EXTENDS TileOps, SequencesExt

CONSTANTS
    Value, ClearValue,      \* tile contents and the clear content
    LayerContent,           \* contents of the layer stack
    Budget,                 \* ceilings the host configures, in tiles
    MaxLayerRevision,       \* limit of the layer-stack revision
    MaxSequence,            \* limit of the history sequence
    None,                   \* an absent optional
    Activities              \* what the host does

ASSUME HistoryAssumption ==
    /\ IsFiniteSet(Tile)
    /\ "layers" \notin Tile
    /\ ClearValue \in Value
    /\ Budget \subseteq Nat
    /\ MaxLayerRevision \in Nat
    /\ MaxSequence \in Nat
    /\ None \notin [expected : Nat, kept : LayerContent, seen : LayerContent]
    /\ Activities \subseteq { "steps", "transactions", "layers", "outside",
                              "budget", "clear", "evict", "reload failure" }

VARIABLES
    image, heap,        \* live channel image, bytes of each storage
    backing,            \* bytes of the backing store for each backed tile
    layers,             \* live layer stack: content and revision
    undo, redo,         \* steps, newest last
    undoBytes, redoBytes, budget, sequence,
    capture,            \* an open tile-history capture, or None
    txn                 \* an open texture-set transaction, or None

vars == <<image, heap, backing, layers, undo, redo, undoBytes, redoBytes,
          budget, sequence, capture, txn>>

liveVars == <<image, heap, backing, layers>>
stackVars == <<undo, redo, undoBytes, redoBytes, budget, sequence>>

-----------------------------------------------------------------------------
(* Storages and their owners *)

EntriesOf(steps) == UNION { { steps[i].entries[t] : t \in DOMAIN steps[i].entries } :
                            i \in DOMAIN steps }

StoragesIn(img) == { img.storage[t] : t \in Tile }

CapturedStorages(c) == { c.entries[t].storage : t \in DOMAIN c.entries }

Owners(img, steps, cap, tx) ==
    ( StoragesIn(img)
      \cup { e.storage : e \in EntriesOf(steps) }
      \cup (IF cap = None THEN {} ELSE CapturedStorages(cap))
      \cup (IF tx = None THEN {} ELSE CapturedStorages(tx) \cup StoragesIn(tx.image))
    ) \ {NoStorage}

Free == Storage \ Owners(image, undo \o redo, capture, txn)

\* Freed storages read as clear, so that equal states look equal.
Swept(hp, img, steps, cap, tx) ==
    [s \in Storage |-> IF s \in Owners(img, steps, cap, tx) THEN hp[s] ELSE ClearValue]

BytesIn(s) == IF s = NoStorage THEN ClearValue ELSE heap[s]

Bytes(t) == IF Evicted(image, t) THEN backing[t] ELSE BytesIn(image.storage[t])

\* Every evicted tile of a set, reloaded into storages of its own.
Reloads(tiles) ==
    { f \in [{ t \in tiles : Evicted(image, t) } -> Free] : IsInjective(f) }

WithReloads(f) ==
    [image EXCEPT !.storage = [t \in Tile |-> IF t \in DOMAIN f THEN f[t] ELSE @[t]]]

\* Wrong variant of HeapWith: reloaded storages are never filled.
HeapUnfilled(f) == heap

HeapWith(f) ==
    [s \in Storage |-> IF \E t \in DOMAIN f : f[t] = s
                         THEN backing[CHOOSE t \in DOMAIN f : f[t] = s] ELSE heap[s]]

\* write_pixel on tile t of img; s is where allocate_tile puts the bytes.
WriteTargets(img, t, others) ==
    IF Resident(img, t) /\ img.storage[t] \notin others
      THEN {img.storage[t]} ELSE Free

-----------------------------------------------------------------------------
(* Captures and steps *)

CaptureOf(img, targets) ==
    [ sequence |-> sequence,
      entries  |-> [t \in targets |->
                      [ epoch      |-> img.epoch,
                        revision   |-> img.tileRev[t],
                        generation |-> img.generation[t],
                        storage    |-> img.storage[t] ]] ]

\* A retained tile: the storage to exchange and the generation the live tile
\* must have.  kept and seen are history variables: the bytes the entry is
\* to restore, and the bytes of the generation it expects to replace.
Entry(storage, expected, kept, seen) ==
    [storage |-> storage, expected |-> expected, kept |-> kept, seen |-> seen]

\* The reversible layer command, by the content it leads to.
LayerCommand(expected, kept, seen) ==
    [expected |-> expected, kept |-> kept, seen |-> seen]

Step(entries, layer) == [entries |-> entries, layer |-> layer]

StepBytes(step) == Cardinality(DOMAIN step.entries)

TotalBytes(steps) == FoldLeft(LAMBDA sum, step : sum + StepBytes(step), 0, steps)

\* How many of the oldest steps commit discards to make the new one fit.
Discarded(step) ==
    CHOOSE k \in 0..Len(undo) :
        /\ undoBytes - TotalBytes(SubSeq(undo, 1, k)) <= budget - StepBytes(step)
        /\ \A j \in 0..(k - 1) :
              undoBytes - TotalBytes(SubSeq(undo, 1, j)) > budget - StepBytes(step)

Pushed(step) == Append(SubSeq(undo, Discarded(step) + 1, Len(undo)), step)

\* Wrong variant of Discharged: discarded steps stay charged.
DischargedNothing(step) == 0

\* The bytes of the steps a push discards.
Discharged(step) == TotalBytes(SubSeq(undo, 1, Discarded(step)))

Push(step) ==
    /\ undo' = Pushed(step)
    /\ undoBytes' = undoBytes - Discharged(step) + StepBytes(step)
    /\ redo' = <<>>
    /\ redoBytes' = 0
    /\ sequence' = sequence + 1
    /\ UNCHANGED budget

\* exchange_tile_storage on a tile that is resident or sparse.
Exchanged(img, t, s) == IF img.storage[t] = s THEN img ELSE Publish(img, t, s)

ExchangedAll(img, replacement) ==
    FoldSet(LAMBDA t, acc : Exchanged(acc, t, replacement[t]), img, DOMAIN replacement)

-----------------------------------------------------------------------------
(* begin_step, commit_step *)

BeginStep(targets) ==
    /\ "steps" \in Activities
    /\ capture = None
    /\ targets # {}
    /\ Cardinality(targets) <= budget
    /\ \E f \in Reloads(targets) :
         LET img == WithReloads(f)
         IN /\ image' = img
            /\ capture' = CaptureOf(img, targets)
            /\ heap' = Swept(HeapWith(f), img, undo \o redo, CaptureOf(img, targets), txn)
    /\ UNCHANGED <<backing, layers, stackVars, txn>>

\* Wrong variant of ChangedTargets: revisions decide, not generations.
RevisedTargets ==
    { t \in DOMAIN capture.entries : image.tileRev[t] # capture.entries[t].revision }

ChangedTargets ==
    { t \in DOMAIN capture.entries : image.generation[t] # capture.entries[t].generation }

CaptureStale ==
    \/ capture.sequence # sequence
    \/ sequence = MaxSequence
    \/ \E t \in ChangedTargets :
          image.epoch # capture.entries[t].epoch \/ image.tileRev[t] = 0

DropCapture(steps) ==
    /\ capture' = None
    /\ heap' = Swept(heap, image, steps, None, txn)

\* Stale, unchanged and over-budget captures are consumed without a step.
CommitStepRefused ==
    /\ capture # None
    /\ \/ CaptureStale
       \/ ChangedTargets = {}
       \/ Cardinality(ChangedTargets) > budget
    /\ DropCapture(undo \o redo)
    /\ UNCHANGED <<image, backing, layers, stackVars, txn>>

\* The bytes the capture took, for the history variables of its step.
CapturedBytes(t) == BytesIn(capture.entries[t].storage)

CommitStep ==
    /\ capture # None
    /\ ~CaptureStale
    /\ ChangedTargets # {}
    /\ Cardinality(ChangedTargets) <= budget
    /\ LET step == Step([t \in ChangedTargets |->
                          Entry(capture.entries[t].storage, image.generation[t],
                                CapturedBytes(t), Bytes(t))], None)
       IN Push(step) /\ DropCapture(Pushed(step))
    /\ UNCHANGED <<image, backing, layers, txn>>

-----------------------------------------------------------------------------
(* Texture-set transactions *)

\* begin_transaction and the staged copy of the texture set, which reloads
\* every allocated tile and starts without a backing store.
BeginTransaction(targets) ==
    /\ "transactions" \in Activities
    /\ txn = None
    /\ Cardinality(targets) <= budget
    /\ \E f \in Reloads(Tile) :
         LET img == WithReloads(f)
             tx  == [ sequence |-> sequence,
                      entries  |-> CaptureOf(img, targets).entries,
                      layers   |-> layers,
                      image    |-> [img EXCEPT !.backed = {}],
                      staged   |-> layers ]
         IN /\ image' = img
            /\ txn' = tx
            /\ heap' = Swept(HeapWith(f), img, undo \o redo, capture, tx)
    /\ UNCHANGED <<backing, layers, stackVars, capture>>

SharedWithStaged ==
    StoragesIn(image) \cup CapturedStorages(txn)
      \cup { e.storage : e \in EntriesOf(undo \o redo) }
      \cup (IF capture = None THEN {} ELSE CapturedStorages(capture))

\* TextureSetTransaction::write_pixel on a declared tile.
StagedWrite(t, v) ==
    /\ txn # None
    /\ t \in DOMAIN txn.entries
    /\ BytesIn(txn.image.storage[t]) # v
    /\ CanPublish(txn.image, t)
    /\ \E s \in WriteTargets(txn.image, t, SharedWithStaged) :
         LET tx == [txn EXCEPT !.image = Publish(@, t, s)]
         IN /\ txn' = tx
            /\ heap' = Swept([heap EXCEPT ![s] = v], image, undo \o redo, capture, tx)
    /\ UNCHANGED <<image, backing, layers, stackVars, capture>>

\* TextureSetTransaction::apply_layer_operation.
StagedLayers(content) ==
    /\ txn # None
    /\ "layers" \in Activities
    /\ txn.staged.content # content
    /\ txn.staged.revision # MaxLayerRevision
    /\ txn' = [txn EXCEPT !.staged = [content |-> content, revision |-> @.revision + 1]]
    /\ UNCHANGED <<liveVars, stackVars, capture>>

StagedTargets ==
    { t \in DOMAIN txn.entries : txn.image.generation[t] # txn.entries[t].generation }

LayersStaged == txn.staged.content # txn.layers.content

\* Wrong variant of TransactionStale: only history itself is consulted.
HistoryMovedOn == txn.sequence # sequence \/ sequence = MaxSequence

\* Live and staged versions against the capture, and the revision space.
TransactionStale ==
    \/ txn.sequence # sequence
    \/ sequence = MaxSequence
    \/ layers.revision # txn.layers.revision
    \/ \E t \in DOMAIN txn.entries :
          LET c == txn.entries[t]
          IN \/ <<image.epoch, image.tileRev[t], image.generation[t]>>
                   # <<c.epoch, c.revision, c.generation>>
             \/ txn.image.epoch # c.epoch
             \/ t \in StagedTargets /\ txn.image.tileRev[t] = 0
             \/ t \notin StagedTargets /\ txn.image.tileRev[t] # c.revision
             \/ t \in StagedTargets /\ c.generation = MaxGeneration
    \/ Cardinality(StagedTargets) > MaxRevision - image.revision

NothingStaged == StagedTargets = {} /\ ~LayersStaged

\* cancel(), destruction, a refused commit or one without changes: the
\* staged state is gone and nothing else happened.
EndTransaction ==
    /\ txn # None
    /\ txn' = None
    /\ heap' = Swept(heap, image, undo \o redo, capture, None)
    /\ UNCHANGED <<image, backing, layers, stackVars, capture>>

TransactionStep ==
    Step([t \in StagedTargets |->
            Entry(image.storage[t], image.generation[t] + 1,
                  Bytes(t), BytesIn(txn.image.storage[t]))],
         IF LayersStaged
           THEN LayerCommand(txn.staged.revision, layers.content, txn.staged.content)
           ELSE None)

\* Wrong variant of CommittedLayers: only the pixels are published.
LayersAsTheyWere == layers

CommittedLayers == IF LayersStaged THEN txn.staged ELSE layers

CommitTransaction ==
    /\ txn # None
    /\ ~TransactionStale
    /\ ~NothingStaged
    /\ Cardinality(StagedTargets) <= budget
    /\ Push(TransactionStep)
    /\ LET img == ExchangedAll(image, [t \in StagedTargets |-> txn.image.storage[t]])
       IN /\ image' = img
          /\ heap' = Swept(heap, img, Pushed(TransactionStep), capture, None)
    /\ layers' = CommittedLayers
    /\ txn' = None
    /\ UNCHANGED <<backing, capture>>

-----------------------------------------------------------------------------
(* Undo and redo *)

Touched(step) == DOMAIN step.entries

\* Wrong variant of Restorable: the generation of a target is not compared.
RestorableByRevision(step) ==
    /\ sequence # MaxSequence
    /\ step.layer # None => /\ layers.revision = step.layer.expected
                            /\ layers.revision # MaxLayerRevision
    /\ \A t \in Touched(step) :
          image.tileRev[t] # 0 /\ image.generation[t] # MaxGeneration
    /\ Cardinality(Touched(step)) <= MaxRevision - image.revision

\* The checks restore makes before it exchanges anything.
Restorable(step) ==
    /\ sequence # MaxSequence
    /\ step.layer # None => /\ layers.revision = step.layer.expected
                            /\ layers.revision # MaxLayerRevision
    /\ \A t \in Touched(step) :
          /\ image.generation[t] = step.entries[t].expected
          /\ image.tileRev[t] # 0
          /\ image.generation[t] # MaxGeneration
    /\ Cardinality(Touched(step)) <= MaxRevision - image.revision

\* Wrong variant of Swapped: the storage moved out is not retained.
SwappedInPlace(e, previous, expected) == Entry(e.storage, expected, e.seen, e.kept)

\* The entry once its storage and the live one have changed places.
Swapped(e, previous, expected) == Entry(previous, expected, e.seen, e.kept)

\* The exchanges of the tiles in done, from the reloaded image img.
RestoredImage(step, img, done) ==
    ExchangedAll(img, [t \in done |-> step.entries[t].storage])

SwappedStep(step, img, done) ==
    LET after == RestoredImage(step, img, done)
    IN [step EXCEPT !.entries = [t \in Touched(step) |->
           IF t \in done
             THEN Swapped(@[t], img.storage[t], after.generation[t])
             ELSE @[t]]]

\* The command that leads back, expecting the revision assign() produced.
ReversedLayer(step) ==
    IF step.layer = None THEN None
    ELSE LayerCommand(layers.revision + 1, step.layer.seen, step.layer.kept)

MovedStep(step, f) ==
    [SwappedStep(step, WithReloads(f), Touched(step)) EXCEPT !.layer = ReversedLayer(step)]

RestoredLayers(step) ==
    IF step.layer = None THEN layers
    ELSE [content |-> step.layer.kept, revision |-> layers.revision + 1]

\* The live side of an undo or redo of step; left are the steps afterwards.
RestoreLive(step, f, left) ==
    LET img == RestoredImage(step, WithReloads(f), Touched(step))
    IN /\ image' = img
       /\ heap' = Swept(HeapWith(f), img, left, capture, txn)
       /\ layers' = RestoredLayers(step)
       /\ sequence' = sequence + 1
       /\ UNCHANGED <<backing, budget, capture, txn>>

Undo ==
    /\ undo # <<>>
    /\ Restorable(Last(undo))
    /\ \E f \in Reloads(Touched(Last(undo))) :
         LET moved == MovedStep(Last(undo), f)
         IN /\ undo' = Front(undo)
            /\ redo' = Append(redo, moved)
            /\ RestoreLive(Last(undo), f, Append(Front(undo) \o redo, moved))
    /\ undoBytes' = undoBytes - StepBytes(Last(undo))
    /\ redoBytes' = redoBytes + StepBytes(Last(undo))

Redo ==
    /\ redo # <<>>
    /\ Restorable(Last(redo))
    /\ \E f \in Reloads(Touched(Last(redo))) :
         LET moved == MovedStep(Last(redo), f)
         IN /\ redo' = Front(redo)
            /\ undo' = Append(undo, moved)
            /\ RestoreLive(Last(redo), f, Append(undo \o Front(redo), moved))
    /\ redoBytes' = redoBytes - StepBytes(Last(redo))
    /\ undoBytes' = undoBytes + StepBytes(Last(redo))

\* The step left behind when the backing store fails to load tile t in the
\* middle of a restore: the tiles done before it stay exchanged, and the
\* handle moved into the failed exchange is destroyed with it.
TornStep(step, f, t, done) ==
    [SwappedStep(step, WithReloads(f), done) EXCEPT !.entries[t].storage = NoStorage]

TearLive(step, f, done, left) ==
    LET img == RestoredImage(step, WithReloads(f), done)
    IN /\ image' = img
       /\ heap' = Swept(HeapWith(f), img, left, capture, txn)
       /\ UNCHANGED <<backing, layers, undoBytes, redoBytes, budget, sequence,
                      capture, txn>>

MayTear(steps, t, done) ==
    /\ "reload failure" \in Activities
    /\ steps # <<>>
    /\ Restorable(Last(steps))
    /\ t \in Touched(Last(steps)) /\ Evicted(image, t)
    /\ done \subseteq Touched(Last(steps)) \ {t}

UndoFailsMidway(t, done) ==
    /\ MayTear(undo, t, done)
    /\ \E f \in Reloads(done) :
         LET left == Append(Front(undo), TornStep(Last(undo), f, t, done))
         IN undo' = left /\ TearLive(Last(undo), f, done, left \o redo)
    /\ UNCHANGED redo

RedoFailsMidway(t, done) ==
    /\ MayTear(redo, t, done)
    /\ \E f \in Reloads(done) :
         LET left == Append(Front(redo), TornStep(Last(redo), f, t, done))
         IN redo' = left /\ TearLive(Last(redo), f, done, undo \o left)
    /\ UNCHANGED undo

ConfigureBudget(b) ==
    /\ "budget" \in Activities
    /\ b # budget
    /\ b >= undoBytes + redoBytes
    /\ budget' = b
    /\ UNCHANGED <<liveVars, undo, redo, undoBytes, redoBytes, sequence, capture, txn>>

-----------------------------------------------------------------------------
(* The rest of the texture set *)

SharedWithLive ==
    Owners([image EXCEPT !.storage = [t \in Tile |-> NoStorage]], undo \o redo, capture, txn)

\* A live write_pixel: of the step being captured, or of anyone else.
WriteLive(t, v) ==
    /\ \/ "outside" \in Activities
       \/ capture # None /\ t \in DOMAIN capture.entries
    /\ Bytes(t) # v
    /\ CanPublish(image, t)
    /\ \E s \in WriteTargets(image, t, SharedWithLive) :
         LET img == Publish(image, t, s)
         IN /\ image' = img
            /\ heap' = Swept([heap EXCEPT ![s] = v], img, undo \o redo, capture, txn)
    /\ UNCHANGED <<backing, layers, stackVars, capture, txn>>

\* A layer operation on the live stack.
EditLayers(content) ==
    /\ {"layers", "outside"} \subseteq Activities
    /\ layers.content # content
    /\ layers.revision # MaxLayerRevision
    /\ layers' = [content |-> content, revision |-> layers.revision + 1]
    /\ UNCHANGED <<image, heap, backing, stackVars, capture, txn>>

\* TextureSet::clear_channels, which keeps the history.
ClearChannels ==
    /\ "clear" \in Activities
    /\ image.allocated # {}
    /\ CanClear(image)
    /\ image' = Cleared(image)
    /\ heap' = Swept(heap, Cleared(image), undo \o redo, capture, txn)
    /\ UNCHANGED <<backing, layers, stackVars, capture, txn>>

EvictTile(t) ==
    /\ "evict" \in Activities
    /\ Resident(image, t)
    /\ image.storage[t] \notin SharedWithLive
    /\ backing' = [backing EXCEPT ![t] = Bytes(t)]
    /\ image' = Unloaded(image, t)
    /\ heap' = Swept(heap, Unloaded(image, t), undo \o redo, capture, txn)
    /\ UNCHANGED <<layers, stackVars, capture, txn>>

\* A read of an evicted tile reloads it.
ReadLive(t) ==
    /\ Evicted(image, t)
    /\ \E f \in Reloads({t}) :
         /\ image' = WithReloads(f)
         /\ heap' = HeapWith(f)
    /\ UNCHANGED <<backing, layers, stackVars, capture, txn>>

-----------------------------------------------------------------------------
(* Specification *)

Init ==
    /\ image = NewImage
    /\ heap = [s \in Storage |-> ClearValue]
    /\ backing = [t \in Tile |-> ClearValue]
    /\ layers \in [content : LayerContent, revision : {0}]
    /\ undo = <<>> /\ redo = <<>>
    /\ undoBytes = 0 /\ redoBytes = 0
    /\ budget \in Budget
    /\ sequence = 0
    /\ capture = None
    /\ txn = None

HistoryStep ==
    \/ \E targets \in SUBSET Tile : BeginStep(targets) \/ BeginTransaction(targets)
    \/ CommitStepRefused
    \/ CommitStep
    \/ \E t \in Tile, v \in Value : StagedWrite(t, v)
    \/ \E c \in LayerContent : StagedLayers(c)
    \/ EndTransaction
    \/ CommitTransaction
    \/ Undo
    \/ Redo
    \/ \E t \in Tile, done \in SUBSET Tile :
          UndoFailsMidway(t, done) \/ RedoFailsMidway(t, done)
    \/ \E b \in Budget : ConfigureBudget(b)

HostStep ==
    \/ \E t \in Tile, v \in Value : WriteLive(t, v)
    \/ \E c \in LayerContent : EditLayers(c)
    \/ ClearChannels
    \/ \E t \in Tile : EvictTile(t) \/ ReadLive(t)

Next == HistoryStep \/ HostStep

Spec == Init /\ [][Next]_vars

-----------------------------------------------------------------------------
(* Properties *)

\* "On commit it SHALL discard the oldest undo steps rather than exceed the
\* ceiling": the running byte counts are those of the retained steps through
\* every push, discard, undo and redo, they fit the ceiling, and no step is
\* empty.
BudgetExact ==
    /\ undoBytes = TotalBytes(undo)
    /\ redoBytes = TotalBytes(redo)
    /\ undoBytes + redoBytes <= budget
    /\ \A i \in DOMAIN undo : undo[i].layer # None \/ StepBytes(undo[i]) > 0

\* Whenever restore would accept the next undo or redo, the live tiles and
\* layers are exactly what the step left: nothing changed outside history
\* is overwritten.
AcceptedRestoreIsExact ==
    \A steps \in {undo, redo} :
        steps # <<>> /\ Restorable(Last(steps)) =>
            /\ \A t \in Touched(Last(steps)) : Bytes(t) = Last(steps).entries[t].seen
            /\ Last(steps).layer # None => layers.content = Last(steps).layer.seen

\* Steps own the bytes they are to restore, whatever is written, evicted or
\* restored since.  (Not through a restore that a failed reload cut short.)
RetainedBytesIntact ==
    \A i \in DOMAIN (undo \o redo) : \A t \in Touched((undo \o redo)[i]) :
        LET e == (undo \o redo)[i].entries[t]
        IN BytesIn(e.storage) = e.kept

\* A transaction the commit checks would admit still has under it the tiles
\* and layers it was opened on: its commit loses no other edit.
NoLostUpdate ==
    txn # None /\ ~TransactionStale =>
        /\ \A t \in DOMAIN txn.entries : Bytes(t) = BytesIn(txn.entries[t].storage)
        /\ layers.content = txn.layers.content

\* A capture that would be admitted sees every declared tile that changed.
CaptureSeesEveryChange ==
    capture # None /\ ~CaptureStale =>
        \A t \in DOMAIN capture.entries :
            Bytes(t) # BytesIn(capture.entries[t].storage) => t \in ChangedTargets

\* A counter a restore of the step needs has no value left.
CountersExhaustedFor(step) ==
    \/ sequence = MaxSequence
    \/ StepBytes(step) > MaxRevision - image.revision
    \/ \E t \in Touched(step) : image.generation[t] = MaxGeneration
    \/ step.layer # None /\ layers.revision = MaxLayerRevision

\* With edits made only through history, its steps stay restorable until a
\* counter is exhausted: "A target whose ... generation changed outside the
\* expected operation SHALL be refused as stale", and no other.
StaleOnlyFromOutside ==
    undo # <<>> /\ ~CountersExhaustedFor(Last(undo)) => Restorable(Last(undo))

-----------------------------------------------------------------------------
(* The history as an implementation of EditHistory *)

Layers == "layers"

Document == [i \in Tile \cup {Layers} |-> IF i = Layers THEN layers.content ELSE Bytes(i)]

\* An undo step leads from seen to kept; a redo step was turned round.
Change(step, from, to) ==
    [i \in Touched(step) \cup (IF step.layer = None THEN {} ELSE {Layers}) |->
        LET e == IF i = Layers THEN step.layer ELSE step.entries[i]
        IN [from |-> e[from], to |-> e[to]]]

Abstract == INSTANCE EditHistory WITH
    Item   <- Tile \cup {Layers},
    doc    <- Document,
    past   <- [i \in DOMAIN undo |-> Change(undo[i], "kept", "seen")],
    future <- [i \in DOMAIN redo |-> Change(redo[i], "seen", "kept")]

\* Undo and redo are whole, exact and in order, and only over the state the
\* step left: TileHistory implements EditHistory.
ImplementsEditHistory == Abstract!Spec
=============================================================================
