# A verification model of CyberTexel's document core

CyberTexel is a texture-authoring engine: hosts (DCC plug-ins, game editors,
command-line tools) paint into sparse tiled images, stack layers, undo, and
mirror the result on their own devices. This directory holds TLA+ models of the
parts of it whose correctness is a matter of order: versioned images, the
deltas hosts synchronize from, undo history and transactions, work executed on
a host's device, bakes that finish late, the ledger that admits work, and the
autosave that must survive a crash. TLC checks them on small instances; TLAPS
proves most of their invariants for every instance.

Paths below are relative to the repository. Line numbers are those of the
commit the models were written from.

## 1. The system and its components

| component | state it keeps | operations | what is hard |
| --- | --- | --- | --- |
| `image::TiledImage` (`src/image/image.cpp`) | tile storages (shared pointers), backed flags, allocation list, dirty flags, revision epoch, revision, per-tile revisions and generations, revision index | read, write pixel, write tile, evict, pin, snapshot, exchange, clear, reset history | copy-on-write decided by `use_count()`, redundant bookkeeping in five editing paths, exhausted counters, three places where bytes may live |
| backing store (host callback interface) | bytes by namespace, tile, generation | store, load, discard, release namespace | may refuse to store or load |
| delta query and snapshots (`src/xport/delta.cpp`, `snapshot.cpp`) | a pool ledger of pinned allocations, tokens | query, release, read back | deltas asked from old cursors; tokens outlive edits; shared allocations under one ceiling |
| tile readback (`src/xport/readback.cpp`) | pending host readback | begin, complete, fail, cancel | late or mismatched completions |
| `doc::TileHistory` (`src/doc/tile_history.cpp`) | undo and redo stacks of retained storages and layer commands, byte counters, ceiling, sequence | begin/commit step, commit transaction, undo, redo, configure budget | staleness decided by counters; multi-tile restore that can fail half way; discards at the ceiling |
| transactions (`src/doc/transaction.cpp`) | a staged copy of the texture set, a capture | write, layer operation, commit, cancel | isolation from live edits, all or nothing |
| channels, texture set, layer stack (`src/doc/channels.cpp`, `document.cpp`, `layer_stack.cpp`) | images by semantic, revisioned entries | enable, disable, replace, clear, assign | new images that restart their counters under old cursors and old history |
| resolution change, mesh replacement (`src/doc/resolution_change.cpp`, `mesh_replacement.cpp`) | their own undo stacks of whole channel sets | change, undo, redo | swaps images and tile history under hosts |
| `exec::HostExecutionSession` (`src/exec/host_execution.cpp`) | active submissions with phases, resource holds, committed resources, revision | submit, complete, establish recovery, cancel, device loss | late, duplicate and reordered completions; recovery evidence; holds shared by submissions |
| `xport::ResourceLedger` (`src/xport/resource_accounting.cpp`) | allocations, reservations, admission flag | admit, release, quiesce, wait | several threads, eviction callback under the lock |
| `ProjectAutosaveSession` (`src/io/project_autosave.cpp`) and the atomic save (`src/io/project_container.cpp`) | pending and saving snapshot, status, timer; the recovery file | submit, flush, wait, worker loop | worker thread, failed saves, shutdown, crashes, recovery files |
| project lifecycle (`ctex_project_lifecycle_quiesce` in `src/capi/capi.cpp`) | what the call has observed | quiesce, resume | two waits under one deadline over two objects other threads use |
| emission cache (`src/emit/emission_cache.cpp`) | entries, hit counters | get, clear | producer outside the lock |
| `AsyncBakeSession` (`src/maps/bake_provider.cpp`) | requests by generation, settings history | request, complete, cancel, edit and undo settings | late completions after edits and undo |
| material graph, emitters, painting, picking, importers and exporters, C ABI, bindings | mostly values | mostly pure functions | large, sequential |

How they interact. A texture set owns channels, each channel owns one tiled
image. Painting and generators write images. Tile history and transactions
retain tile storages by shared pointer and put them back by exchange, which
publishes a new revision and generation. Hosts poll `query_channel_delta` with
the cursor they last applied, pin the changed storages in a snapshot token, and
copy them later. Eviction hands unshared storages to the backing store.
Autosave pins storages in the same way. So one object, the tile storage, is
shared by edits, history, staged copies, snapshots and saves, and two numbers,
the revision cursor and the tile generation, are all that tells these users
whether what they hold is still current. The image-based models are about
exactly that. The other components follow the same pattern with other numbers:
a host's completion names the revision it was submitted against, a bake names
the generation, mesh and settings it was requested under, a snapshot its
document revision. Each is compared with the present when the answer arrives,
and the models let everything else happen in between. Quiescing ties two of
them together: it closes the ledger's gate, waits for the work in flight and
for the autosave to reach the project's revision.

What makes each part correct:

* **image**: the redundant fields agree; no storage another owner retains
  changes; bytes never change without a new version; versions never repeat;
  the backing store never holds a stale or leaked copy.
* **delta and snapshots**: no tile the host shows wrongly is missing from an
  admitted answer; a token keeps the bytes its tiles had at its cursor until it
  is released, and a mirror never mixes two states; the pool ledger equals what
  is pinned.
* **history and transactions**: undo and redo restore exactly, whole or not at
  all, and only over the state the step left; nothing edited outside history is
  overwritten; retained bytes stay within the ceiling; a transaction loses no
  other edit.
* **resolution history**: a tile history always belongs to the image it is used
  with; copies of a texture set never see each other's steps; the bytes
  reported are those retained.
* **host execution**: one publication per revision, none from a stale,
  cancelled or lost submission; every hold is released once.
* **ledger**: reservations plus allocations fit the limits they were admitted
  under; quiescence is final until resumed.
* **autosave**: a revision shown as saved is never lost, what was accepted last
  is held, saved or shown as failed, the recovery file goes back only after a
  failure, snapshots are taken up and a flush returns.
* **lifecycle**: a report of durability means no work is left and the revision
  survives whatever comes.
* **emission cache**: a hit returns what its key's producer returns.
* **bake session**: only the newest request of the current settings and mesh
  binds, and what was bound under undone settings goes with them.

`PROJECT.json` lists every component with what is modelled of it, and every
hazard at its line with the properties that watch it.

## 2. Modules

| module | what it is |
| --- | --- |
| `TileOps` | an image as a record and the pure steps on it: publish, epoch change, clear, reload, evict, delta. Shared by all image-based models. |
| `TiledImage` | the image as a state machine with bytes, outside owners and the backing store; its properties |
| `TiledImageProofs` | the TLAPS proofs about `TiledImage` |
| `ChannelDelta` | `TiledImage` plus the snapshot pool, tokens and a mirroring host |
| `EditHistory` | abstract specification: what an undo history promises |
| `TileHistory`, `TileHistoryProofs` | tile history, transactions, layer stack and live edits; implements `EditHistory`; proofs |
| `ChannelDeltaProofs` | the TLAPS proofs about `ChannelDelta`, on top of those about the image |
| `ResourceLedger` | reported allocations, admission with eviction, reservations, the gate |
| `ProjectAutosave` | the autosave session with its worker thread, the atomic save, crashes and restarts |
| `ProjectLifecycle`, `ProjectLifecycleProofs` | quiescing, over `ResourceLedger` and `ProjectAutosave`; proofs about all three |
| `FoldLemmas` | lemmas about folds over sequences and finite sets, used by the proofs about histories and the ledger |
| `ResolutionHistory`, `ResolutionHistoryProofs` | changes of resolution, their undo and redo, copies of texture sets; proofs |
| `HostPublication` | abstract specification: what executing work elsewhere may do to a document |
| `HostExecution`, `HostExecutionProofs` | the host execution session; implements `HostPublication`; proofs, the refinement among them |
| `AsyncBake`, `AsyncBakeProofs` | the bake session and its mesh-map set; proofs |
| `MCTiledImage`, `MCChannelDelta`, `MCTileHistory`, `MCResolutionHistory`, `MCResourceLedger`, `MCProjectLifecycle`, `MCHostExecution`, `MCAsyncBake` | the instances TLC checks: symmetry, the requests, meshes and sizes of a small system |

Composition: `TiledImage` and `TileHistory` extend `TileOps`; `ChannelDelta`
extends `TiledImage`; `TileHistory` instantiates `EditHistory`, and
`HostExecution` instantiates `HostPublication`, with a refinement mapping;
`ProjectLifecycle` extends `ResourceLedger` and `ProjectAutosave` and composes
their actions.

### State and actions against the code

**TileOps / TiledImage.** `image` is the record of the members of
`TiledImage` (`tiled_image.hpp:181`) that change: `storage` is `tiles_`,
`backed` is `backed_tiles_`, `allocated` is `allocated_tiles_` as a set (the
code sorts it before it shows it), `dirty` is `dirty_`, `epoch`, `revision`,
`tileRev`, `generation` are the counters and `index` is
`changed_tiles_by_revision_`. `heap` gives each storage its bytes. `held` is
the set of storages some other object owns too: a copied image, a token, a
history step. It stands for `use_count() > 1` without counting. `store` is the
content of the backing store. A store or load that fails throws or reports
before anything changed, so it is a stuttering step. `write_pixel`
(`WritePixel`) reads first, which reloads an evicted tile even if the write is
refused or changes nothing; `write_tile` (`WriteTile`) compares with resident
storage only. Exchange moves the replacement in; whether another owner keeps
it alive is a choice (`OwnersAfterMove`).

The three 64-bit limits are the constants `MaxRevision`, `MaxEpoch`,
`MaxGeneration`, so the code's own boundary tests are reached.

**ChannelDelta.** `tokens` are the active `SnapshotToken`s with cursor, listed
versions and pinned storages; `pool` is `SnapshotPool::State`; `host` is the
cursor and mirror of a host. `QueryDelta` is `query_channel_delta`: epoch
check, delta, pin (reloading evicted tiles even when the pool then refuses),
acquire. `ApplySnapshot` is a readback of all pinned tiles;
`FullResynchronization` is what the host does on the other answer.
`ReenableChannel` is `disable` followed by `enable`: a new image under the old
name. `ForgetsOnDisable` says whether the host drops its cursor then; the
passing runs assume it does, and the counterexample of `ChannelDeltaReenable.cfg`
shows why it must. A host whose cursor is ahead of the image gets an error, not
an answer. `content`, in tokens and in `host`, is history: what the image read
at that cursor. The properties compare it with what the pinned storages and the
mirror hold later; no step looks at it.

**TileHistory.** One image stands for the channels of the set; a tile's pixels
are one value. `undo`, `redo`, the byte counters, `budget` and `sequence` are
the members of `TileHistory`; a step's entry is the retained storage and the
generation the live tile must have. `kept` and `seen` are history variables:
the bytes the entry must restore and the bytes it may replace. They appear in
no guard. `capture` is an open `TileHistoryCapture`, `txn` an open
`TextureSetTransaction`: capture, staged image sharing all storages, staged
layers. `Undo` and `Redo` are `restore` with every check before the first
exchange; `UndoFailsMidway` and `RedoFailsMidway` are the exchange loop cut by
a reload failure. A layer stack is a content and a revision; the reversible
layer command is represented by the content it leads to.

`Activities` is a set of switches: which kinds of host behaviour an instance
contains. Switches only remove behaviour other than history itself.

**ResolutionHistory.** `sets` gives each texture set its image and tile history,
`history` and `shelves` are `resolution_history_` and the objects it points to,
`charged` is `resolution_history_bytes_`. A set has one channel of one tile,
whose revision, generation and image revision move together: one `version`.
Shelved states are values, because storages that two states share are never
written through (that is `HeldStorageImmutable` of the image). `Owned` is the
`use_count()` test before each move: alone, a set writes its object in place;
sharing, it writes a copy. A restore that is refused after it made its copy
leaves what it had, so it is not a step. Building an image for a resolution
writes its pixels, which is one version here (`Built`). Tile steps are one
action each (`TileHistory` has them in parts); `seen` is a history variable as
there. `EndsFirst` says whether the host ends a transaction before it resizes
its owner: the passing run `resolution_history` assumes it does, the violation
run `resolution_stale_transaction` shows why it must.

**ResourceLedger.** The variables are the members of `ResourceLedgerState`;
`reservation` is what each holder's `ResourceReservation` will return and
`report` the answer of an admission just made, so that properties can speak of
it. An amount is a function from resources to bytes. Every operation runs
under the ledger's mutex, the eviction callback included, so each is one
action. `Evictions` is the walk over the sorted candidates, `GiveUp` its
step; `Total` is the sum of what a set takes; `Batch` is
`maximum_batch`. `pinned` and `in_flight` are one flag, `held`: the code tests
them together. An identity's size and category never change (`upsert` refuses
that); its residency may. Sums that overflow throw before anything changed and
are left out.

**ProjectAutosave.** A snapshot is its revision. `session` is the record of the
members of `Impl`; `pc` is where the worker stands and `asleep` which threads
sleep on `changed`: `notify_all` empties it, and a thread that is not in it may
run. That is coarser than the code in one way: a notified thread whose
condition does not hold goes back to sleep, which the model does too
(`LoopHead`, `FlushWaits`). `due` says whether `next_write` has come. Writing the
snapshot is two steps, the rename (`PublishFile`) and the synchronization of
the directory (`SaveSucceeds`); the write of the temporary file, the rename and
the synchronization may each fail (`Faults`). `file` is the revision in the
recovery file, `survivors` what it may be after a power loss: the rename adds
one, only the synchronization removes the others. `reported` is a history
variable, `accepted` in the record a history field. `Destroy` may not run while a thread is inside `flush`, as the C++
object requires of its owner. After a crash the host continues from the revision
it recovered, so it submits nothing older.

**ProjectLifecycle.** Each call the quiescing thread makes takes that object's
lock and is a step; `quiesce` holds where it is and what it has collected.
`expired` is the deadline, which may pass at any moment. `cancelled` is the
host's cancellation. The model adds one convention of the host to the code:
documents are edited under a reservation (`WorkCommits`). Without it edits
could go on after the gate closes and "drained" would mean nothing.
`wait_until_saved` returns early when the last save failed and nothing is
pending (`SavedOrGivenUp`), and answers by the revision alone (`SaveAnswer`).

**HostExecution.** `active`, `holds`, `committed`, `evidence`, `nextToken` and
`revision` are the members of `State`; `released` is the list the last call
returned. `complete` is three actions by what it finds: nothing to complete
(`CompleteAgain`), a result to discard (`CompleteDiscarded`), a good one
(`CompleteGood`). `matches` says whether the outputs returned are those
declared. A cancelled submission keeps its holds until its completion arrives,
except one that only waits for recovery evidence, which ends at once.
`HostPublication` says what this amounts to: operations open against the
current revision, disappear at any time, and publish all outputs at once on the
revision they were opened against. Under the mapping a cancelled submission is
gone.

**AsyncBake.** `maps`, `mesh` are members of `MeshMapSet`, the others of
`AsyncBakeSession::State`. A descriptor keeps what decides whether it may be
bound (frame), where it came from (`by`, 0 for maps the host binds itself) and
under which edit of the settings (`epoch`, a ghost: settings revisions may
recur). Compatible tangent frames are equal frames. `sized` says whether the
output has the size requested.

Definitions whose comment begins "Wrong variant of" are not part of any
specification. Each is the definition after it with one plausible mistake, and
putting it in that definition's place breaks the property it is paired with in
`PROJECT.json` ("mutants"). They document what each property can detect.

## 3. What TLC checks

| run | instance | shows |
| --- | --- | --- |
| `tiled_image` | 2 tiles of 2 pixels, 3 storages, 3 revisions, 2 epochs, 3 generations | type, bookkeeping, backing store, copy-on-write, no silent change, advancing versions |
| `channel_delta` | 2 tiles, 3 storages, 2 tokens, pool of 2 tiles, 2 revisions, 2 epochs, 2 generations | complete deltas under every edit, reset and channel replacement; tokens keep the bytes of their cursors while their tiles are written again; the mirror is never a mixture; the pool is exact |
| `history_steps` | 2 tiles, 4 storages, ceilings 2 and 3, 4 revisions, 3 generations, sequence to 4, evictions | budget, exact restores, complete captures, retained bytes, refinement of `EditHistory` |
| `history_transactions` | 2 tiles, 4 storages, 2 layer contents | no lost update; refinement for steps of pixels and layers |
| `history_faults` | 2 tiles, 5 storages, 4 revisions and generations, sequence to 4, transactions, eviction, failing reloads, clear | the isolation of transactions survives |
| `resolution_history` | a set and a copy, 2 history objects, 2 resolutions, history ceiling of 2 tiles, 1 tile step, 3 edits, shelves of 2 | tile histories fit their images through every resize, undo, redo and copy; exact charges; copies stay apart |
| `resource_ledger` | 2 resources, 2 caches of different size, 1 other allocation, 2 holders, 3 requests, 1 preview of 3 options | exact counters; admissions fit and are as large as they can be; refusals are justified; evictions are needed |
| `lifecycle` | 1 reservation, 2 document revisions, every fault | what was shown saved or durable survives; what was accepted last is held, saved or shown as failed; durable means drained; the file goes back only after a failure; snapshots are taken, flush and quiescing end |
| `host_execution` | 2 identities of 2 generations, 2 tokens, 2 publications, 3 resources to a submission | exact holds, one writer, recoverable revisions, refinement of `HostPublication` |
| `bake` | 2 kinds, 2 settings, 2 meshes, 2 requests, 2 edits | only current requests bind, nothing undone stays bound, results bind in order |

The bounds. Two tiles are needed for sharing between tiles, for multi-tile
steps and for an index with more than one entry; no rule of the code relates
three tiles. Storages are enough for the live tiles plus every retained copy
the other bounds allow; where they run out, an allocation simply is not taken,
which removes behaviours and adds none. Two values distinguish changed from
unchanged bytes. Revision and generation limits of two to four let steps pile
up on one tile (write, write, undo, redo) and make exhaustion reachable; two
epochs make a wrap and its refusal reachable. Deltas take two
tokens, to share an allocation and to be applied late or out of order, and two
generations, so that a pinned tile is written again in its epoch. That instance
is bounded further by `FewOwners` (`MCChannelDelta`), a `CONSTRAINT`: tokens in
use and unpinned storages that something else holds are at most two together,
so a foreign owner meets one token and two tokens meet each other. Its `VIEW`
leaves out the dirty flags, which only `ClearDirty` changes on its own and no
property there reads. The requests of the ledger are
chosen so that the fixed part alone, one item, and all items each fall on both
sides of a ceiling, and so that eviction helps in one resource and not in the
other. Two texture sets and as many history objects are all that sharing takes: an
object is shared or it is not. Three edits on shelves of two states fit a step,
its undo and a foreign write before and after a resize. Two document revisions let an older snapshot meet a newer one before,
during and after its save. Two tokens are two submissions that race on one base
revision; two publications let the first one's outputs be replaced. Two settings
revisions with two edits include the edit back to the first settings. Symmetry
is used only for sets no definition orders and in runs without liveness:
storages, texture sets, history objects, tokens, holders, resource identities and generations, the contents of
the layer stack, and tiles where no fold visits them.

The runs contain no deadlock. A type invariant is checked where a run has room
to say more with it than its types (counter limits in `tiled_image`); that of the
bake session is proved, and those of the autosave, quiescing, host execution and
the resolution history are conjuncts of the invariants proved in section 4.

### Fairness and liveness

The image, history, host and bake components are called synchronously and
nothing in them is scheduled, so there is no fairness to assume and no liveness
to state. The autosave worker and the quiescing call are threads. `Fairness`
(in `ProjectLifecycle`) assumes, each as weak fairness: the worker thread is
scheduled; time passes, so the interval ends; a notified thread gets the lock
(`FlushWakes`, `QuiesceStep`); work told to stop releases its reservation.
Nothing is assumed of submissions, edits or crashes, and nothing makes the
deadline pass, so quiescing must end by its own means.

* `SnapshotsAreTaken`: no snapshot stays pending for ever. One that a newer
  submission replaced, or that a destruction or a crash dropped, counts as
  taken; the delay of one interval is not a violation.
* `FlushReturns`: a flush returns once submissions cease. Under a steady
  submitter it need not: the worker clears `flush_requested` with each
  snapshot, and the queue may never be seen empty.
* `QuiesceReachesDurable`: with no failed save, no deadline and nobody reopening
  the gate, a call that names a revision the session knows ends in a durable
  report.

### Disagreements the models found

Each of these has a run that TLC ends with a counterexample; `PROJECT.json`
("findings") quotes the text it contradicts.

1. `history_double_undo`: after the newer of two steps on one tile is undone,
   the older is refused as stale, though only history touched the tile. The
   exchange publishes a new generation; only the moved step learns of it.
2. `resolution_stale_transaction`: changing the resolution installs a fresh
   tile history, with sequence 0, and images whose counters start over. A
   transaction opened there, an undo of the resolution and the same change with
   other pixels (another filter) reach the same sequence, revisions and
   generations, and the transaction commits over pixels it never saw. A host
   cursor taken at the first change gets an empty delta for the same reason.

Five more configurations are kept for the reader and belong to no run; each
ends with a counterexample:

* `TileHistoryRestoreAfterClear.cfg` (`AcceptedRestoreIsExact`, module
  `MCTileHistory`): restore compares generations but not epochs, and
  `clear_channels` restarts generations while history is kept. A tile painted
  again after a clear reaches the expected generation, and undo replaces it
  with pixels from before the clear (`tile_history.cpp:448`), against
  docs/tile-history.md:19.
* `TileHistoryTornRestore.cfg` (`RetainedBytesIntact`, module `MCTileHistory`):
  a failed reload in the middle of a restore destroys the retained storage that
  had been moved into the exchange (`tile_history.cpp:477`), against
  openspec/specs/texture-document/spec.md:175, "exchange the exact retained and
  live storage owners".
* `ChannelDeltaReenable.cfg` (`AdmittedDeltaCorrect`, module `MCChannelDelta`):
  a channel disabled and enabled again admits a cursor of its predecessor,
  against openspec/specs/host-transport/spec.md:34.
* `ChannelDeltaSparse.cfg` (`DeltaAnswerable`, module `MCChannelDelta`): undo can
  make a tile sparse under a new revision, and a delta that covers it throws
  (`snapshot.cpp:194`), against docs/host-transport-revisions.md:22.
* `ProjectAutosaveGoesBack.cfg` (`PublishedNeverGoesBack`, module
  `ProjectAutosave`): the rename publishes a snapshot, the synchronization of
  the directory fails, the save counts as failed; an older snapshot is then
  accepted and replaces the newer file, where docs/project-autosave.md:39 says
  revisions no newer than the published one are rejected.

The passing runs leave these situations out by a named switch
(`ForgetsOnDisable`, `EndsFirst`, "clear" or "reload failure" in `Activities`), or state
their property over the answers the code does give
(`GoesBackOnlyAfterFailure`).

Other facts met on the way:

* The coincidence of `TileHistoryRestoreAfterClear.cfg` also makes `commit_step` take a tile changed across
  a clear for unchanged, so `CaptureSeesEveryChange` is checked in an instance
  without "clear".
* `write_tile` compares its bytes with resident storage only, so writing a
  sparse or evicted tile with the bytes it already reads publishes a revision;
  `WriteTile` models it as it is.
* A quiesce report may say "deadline exceeded" before the deadline: the wait
  ends because a save failed, and a later save succeeds before the status is
  read (`capi.cpp:13696`).
* Cancelling a submission that waits for recovery evidence drops the list of
  resources it released (`host_execution.cpp:330`), so the host is not told.
* A submission's inputs are not compared with outputs in flight, and the
  revision of a result checkpoint is not compared with anything;
  `EvidenceRestoresCommitted` speaks of revisions for records only.
* `undo_settings_edit` throws when the mesh's tangent frame changed since the
  edit, and goes on doing so until the frame is back (`Restorable`), where
  openspec/specs/mesh-maps/spec.md:115 says that undo SHALL restore.
* `begin_request` overwrites the phase of a cancelled request of its kind, whose
  completion is then reported stale instead of cancelled.

## 4. What is proved

### The image

`TiledImageProofs`, for every set of tiles, storages, pixels and values and all
limits, from the assumptions `LimitsAssumption` (limits are positive numbers),
`StorageAssumption` (null is not a storage) and `ValueAssumption`:

| theorem | statement |
| --- | --- |
| `ImageInvariant` | `ImageSpec => []Inv` |
| `ImageTypeCorrect` | `ImageSpec => []TypeOK` |
| `BookkeepingStaysExact` | `ImageSpec => []BookkeepingExact` |
| `BackingStaysExact` | `ImageSpec => []BackingExact` |
| `HeldStorageNeverChanges` | `ImageSpec => HeldStorageImmutable` |
| `ChangesAreNeverSilent` | `ImageSpec => NoSilentChange` |
| `VersionsOnlyAdvance` | `ImageSpec => VersionsAdvance` |

`Inv` is the conjunction of the three invariants. None is inductive alone: the
index entry a publication replaces is found by the tile's old revision, which
is that tile's entry only because revisions are distinct; the backing copy a
publication discards is the right one only because keys are exactly the current
generations; and the value of a resident tile survives an eviction without a
write only because both copies agree.

The argument has three layers. Lemmas about the pure operators of `TileOps`
show that publishing, reloading, evicting, clearing and starting an epoch keep
an image record consistent. Three lemmas about storages (a publication, a
reload, a step in place) show what happens to the bytes of every tile. Each
operation is then an instance of one of these, and `GoodStep` collects what a
step owes: the invariant afterwards, held bytes kept, changed bytes published,
versions advanced. Invariants and action properties follow from the same lemma.

### Deltas and snapshots

`ChannelDeltaProofs`, from the assumptions of the image and `HostAssumption`
(finitely many tiles, a ceiling that is a number):

| theorem | statement |
| --- | --- |
| `DeltaInvariant` | `DeltaSpec => []DeltaInv`, if `ForgetsOnDisable` |
| `DeltasAreComplete` | `DeltaSpec => []DeltaComplete`, if `ForgetsOnDisable` |
| `SnapshotsStayExact` | `DeltaSpec => []SnapshotsExact`, if `ForgetsOnDisable` |
| `MirrorsShowTheirCursor` | `DeltaSpec => []MirrorShowsCursor`, if `ForgetsOnDisable` |
| `PoolIsExact` | `DeltaSpec => []PoolExact` |

`DeltaComplete` is not inductive: an edit must not change a tile the host shows
correctly without a revision above the host's cursor, which takes the image's
invariant and the fact that a cursor of the current epoch is not ahead of the
image; and a token applied later must still hold what the tiles read at its
cursor. That is the first half of `SnapshotsExact` (`TokenPins`), which holds in
every later state because the pinned storages are held and copy-on-write leaves
held storages alone. `MirrorShowsCursor` needs the tiles a token does not list: they
read the same at the host's cursor as at the token's. Another token of a newer
cursor may be applied first, so the same is said of every pair of tokens the host
may still apply in turn (`TokenFits`). The second half of
`SnapshotsExact` compares tokens of one epoch pairwise (`SameVersionSameBytes`).
`DeltaInv` is the conjunction of these. Each operation of the image is carried
over by `GoodStep`.

`PoolIsExact` needs nothing of the host. A query or a release changes the tokens
by one, so the pins of a storage grow or shrink by that token's tiles on it; a
storage is pinned exactly if its references are not zero, so what a query finds
without references is what it adds to the pinned storages, and what a release
leaves without references is what nobody else pins.

### Resolution history

`ResolutionHistoryProofs`, from `ResolutionAssumption`:

| theorem | statement |
| --- | --- |
| `ResolutionInvariant` | `Spec => []ResolutionInv` |
| `HistoriesFitTheirImages` | `Spec => []HistoryFitsImage` |
| `CopiesAreIndependent` | `Spec => CopiesStayApart` |
| `ChargesAreExact` | `Spec => []ChargedExact` |

`HistoryFitsImage` speaks of the last step on each stack and of sets only. The
strengthening speaks of every step and of every state on a shelf: none expects a
version above that of its image, and one that expects just that version was left
with the bytes the image has. A publication then makes every older step
unusable, an exchange gives the moved step the version it produced, and a shelf
brings image and history back together. Copies stay apart because a set writes
only an object that it alone owns or that nobody does. Charges are exact because
every change of a shelf or of a history object adds or takes one element of one
sum (`FoldLemmas`).

### Tile history

`TileHistoryProofs`, from `HistoryAssumption`, `StorageAssumption` and
`LimitsAssumption`, for every set of tiles and storages, all limits, and every
choice of the activities that a theorem does not exclude:

| theorem | statement |
| --- | --- |
| `BudgetIsExact` | `Spec => []BudgetExact` |
| `CommitLosesNoUpdate` | `Spec => []NoLostUpdate` |
| `CapturesSeeEveryChange` | `Spec => []CaptureSeesEveryChange`, without "clear" |
| `StoragesAreOwned` | `Spec => []OwnershipInv` |
| `RetainedBytesStay` | `Spec => []RetainedBytesIntact`, if `Gentle` |
| `AcceptedRestoresAreExact` | `Spec => []AcceptedRestoreIsExact`, if `Gentle` |
| `EditHistoryImplemented` | `Spec => ImplementsEditHistory`, if `Gentle` |

Five invariants, each on top of those before it. `HistoryTypes` gives every
retained, captured and staged entry its type. `BudgetInv` says that the byte
counters are sums over the steps and that no step is empty. `SyncInv` says what
versions tell: while the image has the generation an entry captured, in its
epoch, the tile has the captured storage. `OwnershipInv` says that what history,
captures, a transaction and the image hold for two tiles is never one storage,
and that what a transaction wrote is its own; so an edit of one tile cannot
reach the bytes retained for another. `ExactInv` says it of every retained step and not only
of the last one on each side, which is what the two properties see: a tile has
not passed the generation an entry expects, and if it is at it, it has the bytes the
entry is to replace. Undo publishes a new generation, so all other entries of
the tile fall behind, and the moved one learns the new generation together with
the bytes it has just replaced.

`Gentle` excludes "clear" and "reload failure". Neither hypothesis can go:
`TileHistoryRestoreAfterClear.cfg` and `TileHistoryTornRestore.cfg` end with a
counterexample for each. `BudgetIsExact`, `CommitLosesNoUpdate` and
`StoragesAreOwned` hold with them too.

The refinement maps a commit to `Record`, an undo and a redo to their namesakes
and everything else to `Edit`. A capture is recorded after the document changed,
so its newer side is the document as it is; a transaction changes the document
with its commit. An undo starts from exactly what its change left, which is
`ExactInv` for the last step, and leaves what the change found; the step moved to
the other stack has its two sides exchanged, so it stands for the same change.
The mapping needs that the layer stack is not a tile (`HistoryAssumption`).

### Resource ledger

`ProjectLifecycleProofs`, from `LedgerAssumption`, for every set of resources,
allocations, holders and requests:

| theorem | statement |
| --- | --- |
| `LedgerInvariant` | `LedgerSpec => []LedgerInv` |
| `ReservationsAreCounted` | `LedgerSpec => []ReservedExact` |
| `AdmittedWorkFits` | `LedgerSpec => []AdmissionFits` |
| `RefusalsAreJustified` | `LedgerSpec => []RefusalJustified` |
| `NothingEvictedInVain` | `LedgerSpec => EvictionsNeeded` |
| `LedgerUnderQuiescing` | `Spec => []LedgerInv`, for the composition |

The heart is an invariant along the walk over the candidates (`AfterSeen`): what
is left is what was there without the evicted allocations; without the last of
them the work would not have fit; and where it is still short, nothing that
would have helped was passed over. At the end of the walk a refusal is therefore
justified, because all that could be given up has been, and an admission fits,
whose batch is as large as the division of the room in each resource allows.
`LedgerAssumption` says that identities are numbers (the walk is in ascending
order), that each allocation has bytes, that "no report" is not a report, that a
request is not also a preview, and that where a request has items, an item takes
temporary storage (`resource_accounting.cpp:270`).

### Autosave and quiescing

`ProjectLifecycleProofs`, the theorems about `AutosaveSpec` from
`AutosaveAssumption`, those about the composition from that and
`LedgerAssumption`:

| theorem | statement |
| --- | --- |
| `AutosaveInvariant` | `AutosaveSpec => []AutosaveInv` |
| `SavedRevisionsSurvive` | `AutosaveSpec => []ReportedSurvives` |
| `AcceptedIsAccounted` | `AutosaveSpec => []AcceptedAccounted` |
| `RecoveryFileGoesBackOnlyAfterFailure` | `AutosaveSpec => GoesBackOnlyAfterFailure` |
| `LifecycleInvariant` | `Spec => []LifecycleInv` |
| `DurableSurvives` | `Spec => []DurableMeansDurable` |
| `DurableIsQuiet` | `Spec => []QuietAfterDurable` |
| `ReportedSurvivesQuiescing`, `AcceptedAccountedQuiescing`, `QuiescingKeepsTheFile` | the three autosave properties of the composition |

The autosave invariant orders the numbers of a session: what is pending lies
above what is being saved and both above what was saved and no lower than where
the session began; what was ever reported is no newer than what this session
saved or began with, because a recovered host starts from the file; and unless
the last save failed the file is no newer than that either. What was accepted
last stands at the back of what the session holds, or was saved when it holds
nothing, unless the last save failed (`Followed`). The lifecycle invariant adds
what the calling thread has observed: a drained ledger stays drained while its
gate is closed, and a saved revision stays saved.

### Host execution

`HostExecutionProofs`, from `HostAssumption`:

| theorem | statement |
| --- | --- |
| `HostInvariant` | `Spec => []HostInv` |
| `HoldsAreExact` | `Spec => []HoldsExact` |
| `OneWriterEach` | `Spec => []SoleWriter` |
| `CommittedIsRestorable` | `Spec => []EvidenceRestoresCommitted` |
| `PublicationImplemented` | `Spec => ImplementsPublication` |

Exact counts and single writers need each other: a new output may be refused by
its count only because counts are exact, and publishing keeps them exact only
because no other submission writes what is being committed. The refinement maps
each action to one abstract step or a stutter; a submission that is published
must be one that is open, which is why a cancelled one never is.

### Bakes

`AsyncBakeProofs`, from `BakeAssumption`:

| theorem | statement |
| --- | --- |
| `BakeInvariant` | `Spec => []BakeInv` |
| `BakeTypeCorrect` | `Spec => []TypeOK` |
| `OnlyTheNewestBinds` | `Spec => []ActiveIsNewest` |
| `UndoneMapsStayAway` | `Spec => []NothingUndoneIsBound` |
| `ResultsStayInOrder` | `Spec => ResultsBindInOrder` |

The strengthening says that a bound result is of a request that is no longer
pending and not newer than the newest of its kind, for the current bindings and
for those of every undo step, and that no undo step is of an edit still to
come.

### Folds

`FoldLemmas` has what the provers need to know of `FoldSet` and `FoldLeft`. The
library's induction theorems take an operator as a parameter, which no
installed prover can instantiate; here induction over numbers and over the
subsets of a finite set speaks of a set of those for which the claim holds, and
rests on the least element of a set of numbers. It gives the existence of the
recursive functions behind the folds, sums along a sequence and what they become
when an element is added or dropped, sums of vectors over a finite set in any
order, and that a finite set of numbers can be listed in ascending order.

### Only model-checked

Every invariant and every action property of the passing runs is stated by a
theorem, and so are both refinements. What stays with TLC:

* the liveness properties `SnapshotsAreTaken`, `FlushReturns` and
  `QuiesceReachesDurable`: the prover has no rule for fairness and `ENABLED`;
* what the violation runs and the other failing configurations show.

## 5. What is not modelled

* Pixel formats, clipping of edge tiles, resampling and composition: data.
* Several channels, UDIM tiles and layers under a change of resolution: each
  channel is rebuilt and shelved in the same way, and layers are left alone.
  Mesh replacement keeps another such history of its own.
* Allocation failure. The code orders its allocations before its changes in
  most places; the models take allocations to succeed.
* Concurrent calls into one image: the class is not synchronized and its
  callers are required to serialize.
* Callbacks that call back: the eviction callback of the ledger runs under its
  mutex, and docs/resource-accounting.md:79 forbids it to call the ledger.
* Sums of bytes that overflow: they throw before anything changed.
* Several host threads inside the lifecycle calls at once: one calls.
* The components listed as not modelled in `PROJECT.json`, with the reasons. By
  lines they are most of the repository: the C ABI's argument conversion,
  importers and exporters, shader emission, the vendored shader compiler,
  painting and geometry. They compute values from values and keep little state
  whose order matters; what does matter of the ABI, quiescing, is modelled.

## 6. Plan

In order of importance:

1. *(done)* `TileOps`, `TiledImage`, `ChannelDelta`, `EditHistory`,
   `TileHistory`, `ResolutionHistory`; `ResourceLedger`, `ProjectAutosave`,
   `ProjectLifecycle`; `HostPublication`, `HostExecution`; `AsyncBake`; the
   theorems of section 4.
2. `EmissionCache`: the lookup and the insertion around the producer, against
   the abstract "a hit is what its key's producer returns".
3. Mesh replacement, which retains UV images and layers in the same manner.
4. Host-device readback and the cursor route of `TileReadback`.
5. The proofs that go with these modules.
