-------------------------- MODULE ResolutionHistory --------------------------
(***************************************************************************)
(* doc::change_texture_set_resolution and its undo and redo: whole channel *)
(* sets and tile histories are put on shelves and brought back under the   *)
(* steps and transactions of doc::TileHistory, and copies of a texture set *)
(* share their shelves until one of them moves.                            *)
(*                                                                         *)
(* A set has one channel of one tile, so that the revision and generation  *)
(* of the tile and the revision of the image move together: one version.   *)
(* Bytes are counted in tiles and a tile's pixels are one value; storages  *)
(* that states share are never written through (TiledImage), so a state is *)
(* a value.  Captures that stay open are the subject of TileHistory: here  *)
(* a captured step is one action.                                          *)
(***************************************************************************)
EXTENDS Naturals, Sequences, SequencesExt

CONSTANTS
    Set,            \* a texture set and the copies made of it
    NoSet,          \* the owner of no transaction
    History,        \* TextureSetResolutionHistory objects
    NoHistory,      \* the null pointer
    Size,           \* dimensions
    Value,          \* tile contents
    ClearValue,
    Sparse,         \* a tile without storage, which reads as clear
    TileBudget,     \* tile-history ceiling
    Ceiling,        \* maximum_history_bytes of the requests
    MaxEdits,       \* bound: versions published; no counter of the code runs out
    MaxShelf,       \* bound: resolution steps
    EndsFirst       \* the host ends a transaction before it resizes its owner

ASSUME ResolutionAssumption ==
    /\ NoSet \notin Set
    /\ NoHistory \notin History
    /\ ClearValue \in Value
    /\ Sparse \notin Value
    /\ TileBudget \in Nat \ {0}
    /\ MaxEdits \in Nat
    /\ EndsFirst \in BOOLEAN

VARIABLES
    sets,       \* image and tile history of each texture set
    history,    \* resolution_history_ of each set
    shelves,    \* what the history objects hold
    charged,    \* resolution_history_bytes_ of each set
    open,       \* a texture-set transaction by what it captured
    edits       \* counted for the bound only

vars == <<sets, history, shelves, charged, open, edits>>

Empty == [undo |-> <<>>, redo |-> <<>>]

NoTransaction == [owner |-> NoSet]

-----------------------------------------------------------------------------
(* Images and tile histories *)

Reads(bytes) == IF bytes = Sparse THEN ClearValue ELSE bytes

\* Every image built for a new resolution has written its pixels once; a
\* clear one has no storage.
Built(size, bytes) ==
    [ size |-> size, version |-> IF bytes = Sparse THEN 0 ELSE 1, bytes |-> bytes ]

\* Wrong variant of Staged: the tile history is not replaced.
StagedImageOnly(s, size, bytes) == [s EXCEPT !.image = Built(size, bytes)]

\* The target of a change: new images and a fresh tile history.
Staged(s, size, bytes) ==
    [ image |-> Built(size, bytes), past |-> <<>>, future |-> <<>>, sequence |-> 0 ]

Published(image, bytes) ==
    [ size |-> image.size, version |-> image.version + 1, bytes |-> bytes ]

\* A step restores kept, on an image of its size and expected version.
\* History variable: seen, the bytes it is to replace.
StepOf(image, kept) ==
    [ size |-> image.size, expected |-> image.version, kept |-> kept, seen |-> image.bytes ]

\* A committed step or transaction: the oldest step makes room.
Stepped(s, bytes) ==
    LET image == Published(s.image, bytes)
        room  == IF Len(s.past) < TileBudget THEN s.past ELSE Tail(s.past)
    IN [ image    |-> image,
         past     |-> Append(room, StepOf(image, s.image.bytes)),
         future   |-> <<>>,
         sequence |-> s.sequence + 1 ]

Restorable(s, step) ==
    /\ s.image.size = step.size
    /\ s.image.version = step.expected
    /\ s.image.version # 0

\* exchange_tile_storage: two null storages are the same storage.
Exchanged(image, bytes) ==
    IF image.bytes = Sparse /\ bytes = Sparse THEN image ELSE Published(image, bytes)

\* What a texture set with this state charges a resolution history.
RetainedBytes(s) ==
    (IF s.image.bytes = Sparse THEN 0 ELSE 1) + Len(s.past) + Len(s.future)

TotalBytes(states) == FoldLeft(LAMBDA sum, s : sum + RetainedBytes(s), 0, states)

-----------------------------------------------------------------------------
(* Resolution histories and their owners *)

Shelf(a) == IF history[a] = NoHistory THEN Empty ELSE shelves[history[a]]

Shared(a) == \E b \in Set \ {a} : history[b] = history[a]

Unowned == History \ { history[b] : b \in Set }

\* Wrong variant of Owned: a shared history is changed in place.
OwnedOrShared(a) == IF history[a] = NoHistory THEN Unowned ELSE {history[a]}

\* Where set a writes its history: a new object when it has none or when
\* copies share it (use_count() # 1).
Owned(a) ==
    IF history[a] = NoHistory \/ Shared(a) THEN Unowned ELSE {history[a]}

Shelve(a, shelf) ==
    \E h \in Owned(a) :
        /\ history' = [history EXCEPT ![a] = h]
        /\ shelves' = [shelves EXCEPT ![h] = shelf]

\* Wrong variant of AfterChange: the redo steps survive.
AfterChangeWithRedo(a) == [Shelf(a) EXCEPT !.undo = Append(@, sets[a])]

AfterChange(a) == [undo |-> Append(Shelf(a).undo, sets[a]), redo |-> <<>>]

AfterUndo(a) == [ undo |-> Front(Shelf(a).undo), redo |-> Append(Shelf(a).redo, sets[a]) ]

AfterRedo(a) == [ undo |-> Append(Shelf(a).undo, sets[a]), redo |-> Front(Shelf(a).redo) ]

MayResize(a) == EndsFirst => open.owner # a

-----------------------------------------------------------------------------
(* Changing the resolution *)

\* The new pixels are the host's raster or a resampling of the current ones.
\* A refused request changes nothing.
ChangeResolution(a, size, bytes, maximum) ==
    /\ MayResize(a)
    /\ size # sets[a].image.size
    /\ LET after == TotalBytes(Shelf(a).undo) + RetainedBytes(sets[a])
       IN /\ after <= maximum
          /\ charged' = [charged EXCEPT ![a] = after]
    /\ Len(Shelf(a).undo) < MaxShelf
    /\ Shelve(a, AfterChange(a))
    /\ sets' = [sets EXCEPT ![a] = Staged(@, size, bytes)]
    /\ UNCHANGED <<open, edits>>

\* restore_texture_set_resolution: back to a shelved state, the current one
\* goes on the other shelf and everything is charged anew.
Restore(a, target, shelf) ==
    /\ MayResize(a)
    /\ Shelve(a, shelf)
    /\ sets' = [sets EXCEPT ![a] = target]
    /\ charged' = [charged EXCEPT ![a] = TotalBytes(shelf.undo) + TotalBytes(shelf.redo)]
    /\ UNCHANGED <<open, edits>>

UndoResolution(a) ==
    /\ Shelf(a).undo # <<>>
    /\ Restore(a, Last(Shelf(a).undo), AfterUndo(a))

RedoResolution(a) ==
    /\ Shelf(a).redo # <<>>
    /\ Restore(a, Last(Shelf(a).redo), AfterRedo(a))

\* A texture set is copied, or assigned to; histories without owner are gone.
CopySet(a, b) ==
    /\ a # b
    /\ open.owner # b
    /\ sets' = [sets EXCEPT ![b] = sets[a]]
    /\ history' = [history EXCEPT ![b] = history[a]]
    /\ shelves' = [h \in History |->
                     IF \E c \in Set : history'[c] = h THEN shelves[h] ELSE Empty]
    /\ charged' = [charged EXCEPT ![b] = charged[a]]
    /\ UNCHANGED <<open, edits>>

-----------------------------------------------------------------------------
(* Edits in between *)

Become(a, s) ==
    /\ edits < MaxEdits
    /\ edits' = edits + 1
    /\ sets' = [sets EXCEPT ![a] = s]
    /\ UNCHANGED <<history, shelves, charged>>

\* A write that is no step of the tile history.
Write(a, v) ==
    /\ Reads(sets[a].image.bytes) # v
    /\ Become(a, [sets[a] EXCEPT !.image = Published(@, v)])
    /\ UNCHANGED open

\* begin_step, the write and commit_step.
CommitStep(a, v) ==
    /\ Reads(sets[a].image.bytes) # v
    /\ Become(a, Stepped(sets[a], v))
    /\ UNCHANGED open

\* The step left on the other stack once its bytes are exchanged.
Moved(s, step) == StepOf(Exchanged(s.image, step.kept), s.image.bytes)

UndoTiles(a) ==
    LET s == sets[a] IN
    /\ s.past # <<>>
    /\ Restorable(s, Last(s.past))
    /\ Become(a, [ image    |-> Exchanged(s.image, Last(s.past).kept),
                   past     |-> Front(s.past),
                   future   |-> Append(s.future, Moved(s, Last(s.past))),
                   sequence |-> s.sequence + 1 ])
    /\ UNCHANGED open

RedoTiles(a) ==
    LET s == sets[a] IN
    /\ s.future # <<>>
    /\ Restorable(s, Last(s.future))
    /\ Become(a, [ image    |-> Exchanged(s.image, Last(s.future).kept),
                   past     |-> Append(s.past, Moved(s, Last(s.future))),
                   future   |-> Front(s.future),
                   sequence |-> s.sequence + 1 ])
    /\ UNCHANGED open

BeginTransaction(a) ==
    /\ open = NoTransaction
    /\ open' = [owner |-> a, image |-> sets[a].image, sequence |-> sets[a].sequence]
    /\ UNCHANGED <<sets, history, shelves, charged, edits>>

\* The checks of commit_transaction: sequence, layout and tile version.
Admitted ==
    LET s == sets[open.owner] IN
    /\ s.sequence = open.sequence
    /\ s.image.size = open.image.size
    /\ s.image.version = open.image.version

CommitTransaction(v) ==
    /\ open # NoTransaction
    /\ Reads(open.image.bytes) # v
    /\ Admitted
    /\ Become(open.owner, Stepped(sets[open.owner], v))
    /\ open' = NoTransaction

\* cancel(), or a commit without effect or refused as stale.
EndTransaction ==
    /\ open # NoTransaction
    /\ open' = NoTransaction
    /\ UNCHANGED <<sets, history, shelves, charged, edits>>

-----------------------------------------------------------------------------
(* Specification *)

NewSet(size) == [ image |-> Built(size, Sparse), past |-> <<>>, future |-> <<>>, sequence |-> 0 ]

Init ==
    /\ sets \in [Set -> { NewSet(size) : size \in Size }]
    /\ history = [a \in Set |-> NoHistory]
    /\ shelves = [h \in History |-> Empty]
    /\ charged = [a \in Set |-> 0]
    /\ open = NoTransaction
    /\ edits = 0

ResolutionStep(a) ==
    \/ \E size \in Size, bytes \in (Value \ {ClearValue}) \cup {Sparse}, maximum \in Ceiling :
          ChangeResolution(a, size, bytes, maximum)
    \/ UndoResolution(a)
    \/ RedoResolution(a)

EditStep(a) ==
    \/ \E v \in Value : Write(a, v) \/ CommitStep(a, v)
    \/ UndoTiles(a)
    \/ RedoTiles(a)
    \/ BeginTransaction(a)

Next ==
    \/ \E a \in Set : ResolutionStep(a) \/ EditStep(a)
    \/ \E a, b \in Set : CopySet(a, b)
    \/ \E v \in Value : CommitTransaction(v)
    \/ EndTransaction

Spec == Init /\ [][Next]_vars

-----------------------------------------------------------------------------
(* Properties *)

\* Whatever resolutions were left and come back to, the tile history a set
\* has is that of its image: where undo or redo of a tile step would be
\* admitted, the tile holds exactly what the step left there.
HistoryFitsImage ==
    \A a \in Set : LET s == sets[a] IN
        \A steps \in {s.past, s.future} :
            steps # <<>> /\ Restorable(s, Last(steps)) => s.image.bytes = Last(steps).seen

\* "Retained resize snapshots are included in the texture-set and document
\* memory reports": the bytes a set reports are those its history object
\* holds, although copies share the object and report for themselves.
ChargedExact ==
    \A a \in Set : charged[a] = TotalBytes(Shelf(a).undo) + TotalBytes(Shelf(a).redo)

\* What one set has and can come back to.
View(a) == <<sets[a], Shelf(a), charged[a]>>

\* Copied texture sets do not share mutable resolution history: no step
\* changes what more than one set holds or can come back to.
CopiesStayApart ==
    [][\E a \in Set : \A b \in Set \ {a} : View(b)' = View(b)]_vars

\* "WHEN the live texture set or its history changes after a transaction
\* opens THEN commit SHALL report stale state": a transaction that commit
\* would admit still has under it the bytes it captured.
StaleTransactionRefused ==
    open # NoTransaction /\ Admitted => sets[open.owner].image.bytes = open.image.bytes
=============================================================================
