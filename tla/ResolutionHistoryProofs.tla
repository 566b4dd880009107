----------------------- MODULE ResolutionHistoryProofs -----------------------
(***************************************************************************)
(* Proofs about ResolutionHistory for every collection of sets, sizes and  *)
(* contents and any number of resolution steps and edits: tile histories   *)
(* come back with their own images, and copies of a texture set never      *)
(* disturb each other.                                                     *)
(***************************************************************************)
EXTENDS ResolutionHistory, FoldLemmas, TLAPS

Content == Value \cup {Sparse}

Image == [size : Size, version : Nat, bytes : Content]

TileStep == [size : Size, expected : Nat, kept : Content, seen : Content]

\* The versions steps expect are not ahead of the image, and a step that
\* expects the image's version saw its bytes.
Fits(step, image) ==
    /\ step.expected <= image.version
    /\ step.expected = image.version => step.seen = image.bytes

SetState ==
    [image : Image, past : Seq(TileStep), future : Seq(TileStep), sequence : Nat]

\* A state whose whole tile history, not only its newest step, is of its image.
GoodState ==
    { s \in SetState : \A steps \in {s.past, s.future} :
                          \A i \in DOMAIN steps : Fits(steps[i], s.image) }

Transaction == [owner : Set, image : Image, sequence : Nat]

\* The inductive invariant: live and shelved states are good.
ResolutionInv ==
    /\ sets \in [Set -> GoodState]
    /\ history \in [Set -> History \cup {NoHistory}]
    /\ shelves \in [History -> [undo : Seq(GoodState), redo : Seq(GoodState)]]
    /\ open \in {NoTransaction} \cup Transaction

-----------------------------------------------------------------------------
(* Sequences and states *)

\* The last element of a sequence and the rest before it.
LEMMA FrontAndLast ==
    ASSUME NEW S, NEW s \in Seq(S), s # <<>>
    PROVE  /\ Front(s) \in Seq(S) /\ Last(s) \in S
           /\ Len(s) \in DOMAIN s /\ Last(s) = s[Len(s)]
           /\ \A i \in DOMAIN Front(s) : i \in DOMAIN s /\ Front(s)[i] = s[i]
BY DEF Front, Last

\* The first element dropped.
LEMMA TailElements ==
    ASSUME NEW S, NEW s \in Seq(S), s # <<>>
    PROVE  /\ Tail(s) \in Seq(S)
           /\ \A i \in DOMAIN Tail(s) : i + 1 \in DOMAIN s /\ Tail(s)[i] = s[i + 1]
OBVIOUS

\* Elements of an appended sequence are those it had and the new one.
LEMMA AppendElements ==
    ASSUME NEW S, NEW s \in Seq(S), NEW e \in S
    PROVE  /\ Append(s, e) \in Seq(S)
           /\ \A i \in DOMAIN Append(s, e) :
                 \/ i \in DOMAIN s /\ Append(s, e)[i] = s[i]
                 \/ Append(s, e)[i] = e
OBVIOUS

\* The empty sequence of steps fits any image.
LEMMA NothingFits ==
    ASSUME NEW image
    PROVE  <<>> \in Seq(TileStep) /\ \A i \in DOMAIN <<>> : Fits(<<>>[i], image)
<1>1. DOMAIN <<>> = {}
  OBVIOUS
<1> QED BY <1>1

\* Good states, by their parts.
LEMMA GoodStates ==
    ASSUME NEW image \in Image, NEW past \in Seq(TileStep), NEW future \in Seq(TileStep),
           NEW n \in Nat,
           \A i \in DOMAIN past : Fits(past[i], image),
           \A i \in DOMAIN future : Fits(future[i], image)
    PROVE  [image |-> image, past |-> past, future |-> future, sequence |-> n] \in GoodState
BY DEF GoodState, SetState

\* What goodness says of the parts.
LEMMA GoodParts ==
    ASSUME NEW s \in GoodState
    PROVE  /\ s.image \in Image /\ s.past \in Seq(TileStep) /\ s.future \in Seq(TileStep)
           /\ s.sequence \in Nat
           /\ s = [image |-> s.image, past |-> s.past, future |-> s.future,
                   sequence |-> s.sequence]
           /\ \A i \in DOMAIN s.past : Fits(s.past[i], s.image)
           /\ \A i \in DOMAIN s.future : Fits(s.future[i], s.image)
BY DEF GoodState, SetState

\* A published image is no version a step already expected.
LEMMA PublishedFits ==
    ASSUME NEW image \in Image, NEW bytes \in Content
    PROVE  /\ Published(image, bytes) \in Image
           /\ Published(image, bytes).version = image.version + 1
           /\ Published(image, bytes).bytes = bytes
           /\ Published(image, bytes).size = image.size
           /\ \A step \in TileStep : Fits(step, image) => Fits(step, Published(image, bytes))
BY DEF Published, Image, Fits, TileStep

\* The same of an exchange, which may change nothing.
LEMMA ExchangedFits ==
    ASSUME NEW image \in Image, NEW bytes \in Content
    PROVE  /\ Exchanged(image, bytes) \in Image
           /\ \A step \in TileStep : Fits(step, image) => Fits(step, Exchanged(image, bytes))
BY PublishedFits DEF Exchanged

\* A step made of an image fits it.
LEMMA StepFits ==
    ASSUME NEW image \in Image, NEW kept \in Content
    PROVE  StepOf(image, kept) \in TileStep /\ Fits(StepOf(image, kept), image)
BY DEF StepOf, TileStep, Fits, Image

\* An image built for a resolution starts with an empty, fitting history.
LEMMA StagedGood ==
    ASSUME NEW s, NEW size \in Size, NEW bytes \in Content
    PROVE  Staged(s, size, bytes) \in GoodState /\ Built(size, bytes) \in Image
<1>1. Built(size, bytes) \in Image
  BY DEF Built, Image
<1>2. [image |-> Built(size, bytes), past |-> <<>>, future |-> <<>>, sequence |-> 0]
        \in GoodState
  BY <1>1, NothingFits, GoodStates
<1> QED BY <1>1, <1>2 DEF Staged

\* A committed step or transaction leaves a good state.
LEMMA SteppedGood ==
    ASSUME NEW s \in GoodState, NEW bytes \in Content
    PROVE  Stepped(s, bytes) \in GoodState
<1> DEFINE image == Published(s.image, bytes)
           room == IF Len(s.past) < TileBudget THEN s.past ELSE Tail(s.past)
           step == StepOf(image, s.image.bytes)
<1>1. /\ s.image \in Image /\ s.past \in Seq(TileStep) /\ s.sequence \in Nat
      /\ \A i \in DOMAIN s.past : Fits(s.past[i], s.image)
  BY GoodParts
<1>2. /\ image \in Image
      /\ \A st \in TileStep : Fits(st, s.image) => Fits(st, image)
  BY <1>1, PublishedFits
<1>3. s.image.bytes \in Content
  BY <1>1 DEF Image
<1>4. step \in TileStep /\ Fits(step, image)
  <2> HIDE DEF image
  <2> QED BY <1>2, <1>3, StepFits
<1>5. room \in Seq(TileStep) /\ \A i \in DOMAIN room : Fits(room[i], image)
  <2>1. CASE Len(s.past) < TileBudget
    BY <1>1, <1>2, <2>1
  <2>2. CASE ~(Len(s.past) < TileBudget)
    <3>1. s.past # <<>>
      BY <2>2, ResolutionAssumption
    <3>2. /\ Tail(s.past) \in Seq(TileStep)
          /\ \A i \in DOMAIN Tail(s.past) :
                i + 1 \in DOMAIN s.past /\ Tail(s.past)[i] = s.past[i + 1]
      BY <1>1, <3>1, TailElements
    <3> QED BY <1>1, <1>2, <2>2, <3>2
  <2> QED BY <2>1, <2>2
<1>6. /\ Append(room, step) \in Seq(TileStep)
      /\ \A i \in DOMAIN Append(room, step) : Fits(Append(room, step)[i], image)
  <2> HIDE DEF image, room, step
  <2> QED BY <1>4, <1>5, AppendElements
<1>7. [image |-> image, past |-> Append(room, step), future |-> <<>>,
       sequence |-> s.sequence + 1] \in GoodState
  <2> HIDE DEF image, room, step
  <2>1. s.sequence + 1 \in Nat
    BY <1>1
  <2> QED BY <1>2, <1>6, <2>1, NothingFits, GoodStates
<1> QED BY <1>7 DEF Stepped

\* So does a write outside history.
LEMMA WrittenGood ==
    ASSUME NEW s \in GoodState, NEW bytes \in Content
    PROVE  [s EXCEPT !.image = Published(@, bytes)] \in GoodState
<1> DEFINE image == Published(s.image, bytes)
<1>1. /\ s.image \in Image /\ s.past \in Seq(TileStep) /\ s.future \in Seq(TileStep)
      /\ s.sequence \in Nat
      /\ \A i \in DOMAIN s.past : Fits(s.past[i], s.image)
      /\ \A i \in DOMAIN s.future : Fits(s.future[i], s.image)
      /\ s = [image |-> s.image, past |-> s.past, future |-> s.future, sequence |-> s.sequence]
  BY GoodParts
<1>2. image \in Image /\ \A st \in TileStep : Fits(st, s.image) => Fits(st, image)
  BY <1>1, PublishedFits
<1>3. [image |-> image, past |-> s.past, future |-> s.future, sequence |-> s.sequence]
        \in GoodState
  <2> HIDE DEF image
  <2> QED BY <1>1, <1>2, GoodStates
<1>4. [s EXCEPT !.image = image]
        = [image |-> image, past |-> s.past, future |-> s.future, sequence |-> s.sequence]
  <2> HIDE DEF image
  <2> QED BY <1>1
<1> QED BY <1>3, <1>4

\* Taking the newest step of one stack to the other exchanges bytes and keeps
\* both stacks fitting.
LEMMA RestoredGood ==
    ASSUME NEW s \in GoodState,
           NEW from \in Seq(TileStep), NEW onto \in Seq(TileStep), from # <<>>,
           \A i \in DOMAIN from : Fits(from[i], s.image),
           \A i \in DOMAIN onto : Fits(onto[i], s.image)
    PROVE  LET image == Exchanged(s.image, Last(from).kept)
               moved == Append(onto, Moved(s, Last(from)))
           IN  /\ image \in Image
               /\ Front(from) \in Seq(TileStep) /\ moved \in Seq(TileStep)
               /\ \A i \in DOMAIN Front(from) : Fits(Front(from)[i], image)
               /\ \A i \in DOMAIN moved : Fits(moved[i], image)
<1> DEFINE image == Exchanged(s.image, Last(from).kept)
           step == Moved(s, Last(from))
<1>1. s.image \in Image /\ s.image.bytes \in Content
  BY GoodParts DEF Image
<1>2. /\ Front(from) \in Seq(TileStep) /\ Last(from) \in TileStep
      /\ \A i \in DOMAIN Front(from) : i \in DOMAIN from /\ Front(from)[i] = from[i]
  BY FrontAndLast
<1>3. Last(from).kept \in Content
  BY <1>2 DEF TileStep
<1>4. image \in Image /\ \A st \in TileStep : Fits(st, s.image) => Fits(st, image)
  BY <1>1, <1>3, ExchangedFits
<1>5. step \in TileStep /\ Fits(step, image)
  BY <1>1, <1>4, StepFits DEF Moved
<1>6. \A i \in DOMAIN Front(from) : Fits(Front(from)[i], image)
  <2> HIDE DEF image
  <2> QED BY <1>2, <1>4
<1>7. /\ Append(onto, step) \in Seq(TileStep)
      /\ \A i \in DOMAIN Append(onto, step) : Fits(Append(onto, step)[i], image)
  <2> HIDE DEF image, step
  <2> QED BY <1>4, <1>5, AppendElements
<1> QED BY <1>2, <1>4, <1>6, <1>7

-----------------------------------------------------------------------------
(* Shelves *)

Shelves == [undo : Seq(GoodState), redo : Seq(GoodState)]

\* Every set has good shelves, empty ones without a history.
LEMMA ShelfTypes ==
    ASSUME ResolutionInv, NEW a \in Set
    PROVE  Shelf(a) \in Shelves
<1>1. Empty \in Shelves
  BY DEF Empty, Shelves
<1> QED BY <1>1 DEF ResolutionInv, Shelf, Shelves

\* Writing a good shelf keeps the histories well formed.
LEMMA ShelveTypes ==
    ASSUME ResolutionInv, NEW a \in Set, NEW shelf \in Shelves, Shelve(a, shelf)
    PROVE  /\ history' \in [Set -> History \cup {NoHistory}]
           /\ shelves' \in [History -> Shelves]
<1>1. PICK h \in Owned(a) : /\ history' = [history EXCEPT ![a] = h]
                            /\ shelves' = [shelves EXCEPT ![h] = shelf]
  BY DEF Shelve
<1>2. h \in History \cup {NoHistory}
  BY DEF ResolutionInv, Owned, Unowned
<1> QED BY <1>1, <1>2 DEF ResolutionInv, Shelves

\* No other set sees the shelf that set a writes.
LEMMA ShelveIsPrivate ==
    ASSUME ResolutionInv, NEW a \in Set, NEW shelf, Shelve(a, shelf), NEW b \in Set \ {a}
    PROVE  Shelf(b)' = Shelf(b)
<1>1. PICK h \in Owned(a) : /\ history' = [history EXCEPT ![a] = h]
                            /\ shelves' = [shelves EXCEPT ![h] = shelf]
  BY DEF Shelve
<1>2. history'[b] = history[b]
  BY <1>1 DEF ResolutionInv
<1>3. h # history[b]
  BY DEF Owned, Unowned, Shared
<1>4. history[b] # NoHistory => shelves'[history[b]] = shelves[history[b]]
  BY <1>1, <1>3 DEF ResolutionInv
<1> QED BY <1>2, <1>4 DEF Shelf

\* The shelves after a change, an undo and a redo are good.
LEMMA ShelvesAfter ==
    ASSUME ResolutionInv, NEW a \in Set
    PROVE  /\ AfterChange(a) \in Shelves
           /\ Shelf(a).undo # <<>> =>
                 AfterUndo(a) \in Shelves /\ Last(Shelf(a).undo) \in GoodState
           /\ Shelf(a).redo # <<>> =>
                 AfterRedo(a) \in Shelves /\ Last(Shelf(a).redo) \in GoodState
<1>1. Shelf(a).undo \in Seq(GoodState) /\ Shelf(a).redo \in Seq(GoodState)
  BY ShelfTypes DEF Shelves
<1>2. sets[a] \in GoodState
  BY DEF ResolutionInv
<1>3. /\ Append(Shelf(a).undo, sets[a]) \in Seq(GoodState)
      /\ Append(Shelf(a).redo, sets[a]) \in Seq(GoodState)
      /\ <<>> \in Seq(GoodState)
  BY <1>1, <1>2, AppendElements
<1>4. Shelf(a).undo # <<>> =>
         Front(Shelf(a).undo) \in Seq(GoodState) /\ Last(Shelf(a).undo) \in GoodState
  BY <1>1, FrontAndLast
<1>5. Shelf(a).redo # <<>> =>
         Front(Shelf(a).redo) \in Seq(GoodState) /\ Last(Shelf(a).redo) \in GoodState
  BY <1>1, FrontAndLast
<1> QED BY <1>3, <1>4, <1>5 DEF AfterChange, AfterUndo, AfterRedo, Shelves

-----------------------------------------------------------------------------
(* The invariant *)

\* A step that only gives set a another good state, or only moves open.
LEMMA BecomeInv ==
    ASSUME ResolutionInv, NEW a \in Set, NEW s \in GoodState, Become(a, s),
           open' \in {open, NoTransaction}
    PROVE  ResolutionInv'
BY DEF ResolutionInv, Become

\* Undo or redo of a tile step.
LEMMA UndoTilesInv ==
    ASSUME ResolutionInv, NEW a \in Set, UndoTiles(a)
    PROVE  ResolutionInv'
<1> DEFINE s == sets[a]
           image == Exchanged(s.image, Last(s.past).kept)
           moved == Append(s.future, Moved(s, Last(s.past)))
           after == [image |-> image, past |-> Front(s.past), future |-> moved,
                     sequence |-> s.sequence + 1]
<1>1. s \in GoodState
  BY DEF ResolutionInv
<1>2. s.past # <<>> /\ Become(a, after) /\ open' = open
  BY DEF UndoTiles
<1>3. /\ s.past \in Seq(TileStep) /\ s.future \in Seq(TileStep) /\ s.sequence \in Nat
      /\ \A i \in DOMAIN s.past : Fits(s.past[i], s.image)
      /\ \A i \in DOMAIN s.future : Fits(s.future[i], s.image)
  BY <1>1, GoodParts
<1>4. /\ image \in Image /\ Front(s.past) \in Seq(TileStep) /\ moved \in Seq(TileStep)
      /\ \A i \in DOMAIN Front(s.past) : Fits(Front(s.past)[i], image)
      /\ \A i \in DOMAIN moved : Fits(moved[i], image)
  BY <1>1, <1>2, <1>3, RestoredGood
<1>5. after \in GoodState
  <2> HIDE DEF s, image, moved
  <2> QED BY <1>3, <1>4, GoodStates
<1> QED
  <2> HIDE DEF after
  <2> QED BY <1>2, <1>5, BecomeInv

\* And its redo.
LEMMA RedoTilesInv ==
    ASSUME ResolutionInv, NEW a \in Set, RedoTiles(a)
    PROVE  ResolutionInv'
<1> DEFINE s == sets[a]
           image == Exchanged(s.image, Last(s.future).kept)
           moved == Append(s.past, Moved(s, Last(s.future)))
           after == [image |-> image, past |-> moved, future |-> Front(s.future),
                     sequence |-> s.sequence + 1]
<1>1. s \in GoodState
  BY DEF ResolutionInv
<1>2. s.future # <<>> /\ Become(a, after) /\ open' = open
  BY DEF RedoTiles
<1>3. /\ s.past \in Seq(TileStep) /\ s.future \in Seq(TileStep) /\ s.sequence \in Nat
      /\ \A i \in DOMAIN s.past : Fits(s.past[i], s.image)
      /\ \A i \in DOMAIN s.future : Fits(s.future[i], s.image)
  BY <1>1, GoodParts
<1>4. /\ image \in Image /\ Front(s.future) \in Seq(TileStep) /\ moved \in Seq(TileStep)
      /\ \A i \in DOMAIN Front(s.future) : Fits(Front(s.future)[i], image)
      /\ \A i \in DOMAIN moved : Fits(moved[i], image)
  BY <1>1, <1>2, <1>3, RestoredGood
<1>5. after \in GoodState
  <2> HIDE DEF s, image, moved
  <2> QED BY <1>3, <1>4, GoodStates
<1> QED
  <2> HIDE DEF after
  <2> QED BY <1>2, <1>5, BecomeInv

\* Writes and committed steps.
LEMMA WriteInv ==
    ASSUME ResolutionInv, NEW a \in Set, NEW v \in Value, Write(a, v) \/ CommitStep(a, v)
    PROVE  ResolutionInv'
<1>1. sets[a] \in GoodState /\ v \in Content
  BY DEF ResolutionInv, Content
<1>2. CASE Write(a, v)
  <2>1. [sets[a] EXCEPT !.image = Published(@, v)] \in GoodState
    BY <1>1, WrittenGood
  <2> QED BY <1>2, <2>1, BecomeInv DEF Write
<1>3. CASE CommitStep(a, v)
  <2>1. Stepped(sets[a], v) \in GoodState
    BY <1>1, SteppedGood
  <2> QED BY <1>3, <2>1, BecomeInv DEF CommitStep
<1> QED BY <1>2, <1>3

\* Opening, committing and ending a transaction.
LEMMA TransactionInv ==
    ASSUME ResolutionInv,
           \/ \E a \in Set : BeginTransaction(a)
           \/ \E v \in Value : CommitTransaction(v)
           \/ EndTransaction
    PROVE  ResolutionInv'
<1>1. CASE \E a \in Set : BeginTransaction(a)
  <2>1. PICK a \in Set : BeginTransaction(a)
    BY <1>1
  <2>2. sets[a].image \in Image /\ sets[a].sequence \in Nat
    BY GoodParts DEF ResolutionInv
  <2>3. open' \in Transaction
    BY <2>1, <2>2 DEF BeginTransaction, Transaction
  <2> QED BY <2>1, <2>3 DEF BeginTransaction, ResolutionInv
<1>2. CASE \E v \in Value : CommitTransaction(v)
  <2>1. PICK v \in Value : CommitTransaction(v)
    BY <1>2
  <2>2. open.owner \in Set
    BY <2>1 DEF CommitTransaction, ResolutionInv, Transaction
  <2>3. Stepped(sets[open.owner], v) \in GoodState
    BY <2>2, SteppedGood DEF ResolutionInv, Content
  <2> QED BY <2>1, <2>2, <2>3, BecomeInv DEF CommitTransaction
<1>3. CASE EndTransaction
  BY <1>3 DEF EndTransaction, ResolutionInv
<1> QED BY <1>1, <1>2, <1>3

\* A set is given a good state while its history is written.
LEMMA ResizeInv ==
    ASSUME ResolutionInv, NEW a \in Set, NEW s \in GoodState, NEW shelf \in Shelves,
           Shelve(a, shelf), sets' = [sets EXCEPT ![a] = s], open' = open
    PROVE  ResolutionInv'
BY ShelveTypes DEF ResolutionInv, Shelves

\* Changing, undoing and redoing a resolution.
LEMMA ResolutionStepInv ==
    ASSUME ResolutionInv, NEW a \in Set, ResolutionStep(a)
    PROVE  ResolutionInv'
<1>1. ASSUME NEW size \in Size, NEW bytes \in (Value \ {ClearValue}) \cup {Sparse},
             NEW maximum \in Ceiling, ChangeResolution(a, size, bytes, maximum)
      PROVE  ResolutionInv'
  <2>1. Staged(sets[a], size, bytes) \in GoodState
    BY <1>1, StagedGood DEF Content
  <2>2. /\ Shelve(a, AfterChange(a)) /\ open' = open
        /\ sets' = [sets EXCEPT ![a] = Staged(sets[a], size, bytes)]
    BY <1>1 DEF ChangeResolution
  <2> QED BY <2>1, <2>2, ShelvesAfter, ResizeInv
<1>2. CASE UndoResolution(a)
  <2>1. /\ Shelf(a).undo # <<>> /\ Shelve(a, AfterUndo(a)) /\ open' = open
        /\ sets' = [sets EXCEPT ![a] = Last(Shelf(a).undo)]
    BY <1>2 DEF UndoResolution, Restore
  <2> QED BY <2>1, ShelvesAfter, ResizeInv
<1>3. CASE RedoResolution(a)
  <2>1. /\ Shelf(a).redo # <<>> /\ Shelve(a, AfterRedo(a)) /\ open' = open
        /\ sets' = [sets EXCEPT ![a] = Last(Shelf(a).redo)]
    BY <1>3 DEF RedoResolution, Restore
  <2> QED BY <2>1, ShelvesAfter, ResizeInv
<1> QED BY <1>1, <1>2, <1>3 DEF ResolutionStep

\* Copying a set.
LEMMA CopyInv ==
    ASSUME ResolutionInv, NEW a \in Set, NEW b \in Set, CopySet(a, b)
    PROVE  ResolutionInv'
<1>1. Empty \in [undo : Seq(GoodState), redo : Seq(GoodState)]
  BY DEF Empty
<1>2. sets' \in [Set -> GoodState] /\ history' \in [Set -> History \cup {NoHistory}]
  BY DEF CopySet, ResolutionInv
<1>3. shelves' \in [History -> [undo : Seq(GoodState), redo : Seq(GoodState)]]
  BY <1>1 DEF CopySet, ResolutionInv
<1>4. open' = open
  BY DEF CopySet
<1> QED BY <1>2, <1>3, <1>4 DEF ResolutionInv

\* At first every history is empty.
LEMMA InitInv == Init => ResolutionInv
<1> SUFFICES ASSUME Init PROVE ResolutionInv
  OBVIOUS
<1>1. \A size \in Size : NewSet(size) \in GoodState
  <2> SUFFICES ASSUME NEW size \in Size PROVE NewSet(size) \in GoodState
    OBVIOUS
  <2>1. Built(size, Sparse) \in Image
    BY StagedGood DEF Content
  <2>2. [image |-> Built(size, Sparse), past |-> <<>>, future |-> <<>>, sequence |-> 0]
          \in GoodState
    BY <2>1, NothingFits, GoodStates
  <2> QED BY <2>2 DEF NewSet
<1>2. Empty \in [undo : Seq(GoodState), redo : Seq(GoodState)]
  BY DEF Empty
<1> QED BY <1>1, <1>2 DEF Init, ResolutionInv

\* Every state the library keeps, live or shelved, has the tile history of its
\* own image.
THEOREM ResolutionInvariant == Spec => []ResolutionInv
<1>1. ASSUME ResolutionInv, [Next]_vars PROVE ResolutionInv'
  <2>1. CASE UNCHANGED vars
    BY <1>1, <2>1 DEF vars, ResolutionInv
  <2>2. ASSUME NEW a \in Set, ResolutionStep(a) PROVE ResolutionInv'
    BY <1>1, <2>2, ResolutionStepInv
  <2>3. ASSUME NEW a \in Set, EditStep(a) PROVE ResolutionInv'
    BY <1>1, <2>3, WriteInv, UndoTilesInv, RedoTilesInv, TransactionInv DEF EditStep
  <2>4. ASSUME NEW a \in Set, NEW b \in Set, CopySet(a, b) PROVE ResolutionInv'
    BY <1>1, <2>4, CopyInv
  <2>5. CASE (\E v \in Value : CommitTransaction(v)) \/ EndTransaction
    BY <1>1, <2>5, TransactionInv
  <2> QED BY <1>1, <2>1, <2>2, <2>3, <2>4, <2>5 DEF Next
<1> QED BY InitInv, <1>1, PTL DEF Spec

-----------------------------------------------------------------------------
(* Theorems *)

\* Whatever resolutions a set left and came back to, undo and redo of tile
\* steps are admitted only over the bytes the step left.
THEOREM HistoriesFitTheirImages == Spec => []HistoryFitsImage
<1>1. ASSUME ResolutionInv PROVE HistoryFitsImage
  <2> SUFFICES ASSUME NEW a \in Set, NEW steps \in {sets[a].past, sets[a].future},
                      steps # <<>>, Restorable(sets[a], Last(steps))
               PROVE  sets[a].image.bytes = Last(steps).seen
    BY DEF HistoryFitsImage
  <2>1. sets[a] \in GoodState
    BY <1>1 DEF ResolutionInv
  <2>2. steps \in Seq(TileStep) /\ \A i \in DOMAIN steps : Fits(steps[i], sets[a].image)
    BY <2>1, GoodParts
  <2>3. Fits(Last(steps), sets[a].image)
    BY <2>2, FrontAndLast
  <2> QED BY <2>3 DEF Fits, Restorable
<1> QED BY <1>1, ResolutionInvariant, PTL

\* No step of one texture set changes what a copy holds or can come back to.
THEOREM CopiesAreIndependent == Spec => CopiesStayApart
<1> DEFINE Apart == \E a \in Set : \A b \in Set \ {a} : View(b)' = View(b)
<1>1. ASSUME ResolutionInv, Next PROVE Apart
  <2>1. ASSUME NEW a \in Set, NEW s, NEW shelf, NEW bytes, Shelve(a, shelf),
               sets' = [sets EXCEPT ![a] = s], charged' = [charged EXCEPT ![a] = bytes]
        PROVE  Apart
    <3>1. \A b \in Set \ {a} : Shelf(b)' = Shelf(b)
      BY <1>1, <2>1, ShelveIsPrivate
    <3> QED BY <2>1, <3>1 DEF View
  <2>2. ASSUME NEW a \in Set, ResolutionStep(a) PROVE Apart
    BY <2>1, <2>2 DEF ResolutionStep, ChangeResolution, UndoResolution, RedoResolution, Restore
  <2>3. ASSUME NEW a \in Set, NEW s, sets' = [sets EXCEPT ![a] = s],
               UNCHANGED <<history, shelves, charged>>
        PROVE  Apart
    BY <2>3 DEF View, Shelf
  <2>4. ASSUME NEW a \in Set, UNCHANGED <<sets, history, shelves, charged>> PROVE Apart
    BY <2>4 DEF View, Shelf
  <2>5. ASSUME NEW a \in Set, EditStep(a) PROVE Apart
    BY <2>3, <2>4, <2>5 DEF EditStep, Write, CommitStep, UndoTiles, RedoTiles,
                            BeginTransaction, Become
  <2>6. ASSUME NEW a \in Set, NEW b \in Set, CopySet(a, b) PROVE Apart
    <3>1. ASSUME NEW c \in Set \ {b} PROVE View(c)' = View(c)
      <4>1. history'[c] = history[c] /\ sets'[c] = sets[c] /\ charged'[c] = charged[c]
        BY <2>6 DEF CopySet
      <4>2. history[c] # NoHistory => shelves'[history[c]] = shelves[history[c]]
        BY <1>1, <2>6, <4>1 DEF CopySet, ResolutionInv
      <4> QED BY <4>1, <4>2 DEF View, Shelf
    <3> QED BY <3>1
  <2>7. ASSUME open # NoTransaction PROVE open.owner \in Set
    BY <1>1, <2>7 DEF ResolutionInv, Transaction
  <2>8. CASE (\E v \in Value : CommitTransaction(v)) \/ EndTransaction
    BY <2>3, <2>4, <2>7, <2>8 DEF CommitTransaction, EndTransaction, Become
  <2> HIDE DEF Apart
  <2> QED BY <1>1, <2>2, <2>5, <2>6, <2>8 DEF Next
<1>2. ASSUME ResolutionInv, [Next]_vars PROVE [Apart]_vars
  BY <1>1, <1>2
<1> QED BY <1>2, ResolutionInvariant, PTL DEF Spec, CopiesStayApart

-----------------------------------------------------------------------------
(* What sets are charged for *)

\* What a state charges is a number.
LEMMA RetainedIsNumber ==
    ASSUME NEW s \in GoodState
    PROVE  RetainedBytes(s) \in Nat
<1>1. Len(s.past) \in Nat /\ Len(s.future) \in Nat
  BY GoodParts
<1>2. (IF s.image.bytes = Sparse THEN 0 ELSE 1) \in Nat
  OBVIOUS
<1>3. \A i, j, k \in Nat : i + j + k \in Nat
  OBVIOUS
<1> QED BY <1>1, <1>2, <1>3, Zenon DEF RetainedBytes

\* The bytes of the states on a shelf add up one by one.
LEMMA BytesAddUp ==
    ASSUME NEW states \in Seq(GoodState)
    PROVE  \E p : /\ RunsUp(p, [i \in DOMAIN states |-> RetainedBytes(states[i])], Len(states))
                  /\ TotalBytes(states) = p[Len(states)]
<1> DEFINE n == Len(states)
           v == [i \in DOMAIN states |-> RetainedBytes(states[i])]
           Adds(h) == h = [d \in SUBSET DOMAIN states |->
                              IF d = {} THEN 0
                              ELSE h[d \ {Max(d)}] + RetainedBytes(states[Max(d)])]
           chosen == CHOOSE h : Adds(h)
<1>1. TotalBytes(states) = chosen[DOMAIN states]
  BY DEF TotalBytes, FoldLeft, MapThenFoldSet
<1>2. n \in Nat /\ DOMAIN states = 1 .. n /\ v \in [1 .. n -> Nat]
  BY RetainedIsNumber
<1>3. \A d \in SUBSET (1 .. n) : d # {} => v[Max(d)] = RetainedBytes(states[Max(d)])
  BY <1>2, LargestIndex
<1>4. \A g : Adds(g) <=> AddsUp(g, v, n)
  <2> HIDE DEF v, n
  <2> QED BY <1>2, <1>3 DEF AddsUp
<1>5. AddsUp(chosen, v, n)
  <2>1. \E g : Adds(g)
    <3> HIDE DEF v, n, Adds
    <3> QED BY <1>2, <1>4, SumExists
  <2> HIDE DEF Adds, v, n
  <2> QED BY <1>4, <2>1
<1>6. PICK p : RunsUp(p, v, n) /\ chosen[1 .. n] = p[n]
  <2> HIDE DEF v, n, chosen
  <2> QED BY <1>2, <1>5, SumAlongPrefixes
<1> QED BY <1>1, <1>2, <1>6

\* An empty shelf holds nothing and a new state adds what it charges.
LEMMA BytesOfShelves ==
    /\ TotalBytes(<<>>) = 0
    /\ \A states \in Seq(GoodState), s \in GoodState :
          TotalBytes(Append(states, s)) = TotalBytes(states) + RetainedBytes(s)
<1>1. TotalBytes(<<>>) = 0
  <2>1. <<>> \in Seq(GoodState) /\ Len(<<>>) = 0
    OBVIOUS
  <2> QED BY <2>1, BytesAddUp DEF RunsUp
<1>2. ASSUME NEW states \in Seq(GoodState), NEW s \in GoodState
      PROVE  TotalBytes(Append(states, s)) = TotalBytes(states) + RetainedBytes(s)
  <2> DEFINE more == Append(states, s)
             n == Len(states)
             v == [i \in DOMAIN states |-> RetainedBytes(states[i])]
             w == [i \in DOMAIN more |-> RetainedBytes(more[i])]
  <2>1. /\ more \in Seq(GoodState) /\ n \in Nat /\ Len(more) = n + 1 /\ more[n + 1] = s
        /\ DOMAIN states = 1 .. n /\ DOMAIN more = 1 .. n + 1
        /\ \A i \in 1 .. n : more[i] = states[i]
    OBVIOUS
  <2>2. PICK p : RunsUp(p, v, n) /\ TotalBytes(states) = p[n]
    BY BytesAddUp
  <2>3. PICK q : RunsUp(q, w, n + 1) /\ TotalBytes(more) = q[n + 1]
    <3> HIDE DEF more
    <3> QED BY <2>1, BytesAddUp
  <2>4. w[n + 1] = RetainedBytes(s) /\ \A i \in 1 .. n : v[i] = w[i]
    <3> HIDE DEF more
    <3> QED BY <2>1
  <2>5. RunsUp(q, w, n) /\ q[n + 1] = q[n] + w[n + 1]
    <3> HIDE DEF w, n
    <3>1. n + 1 \in 1 .. n + 1 /\ (n + 1) - 1 = n
      BY <2>1
    <3> QED BY <2>1, <2>3, <3>1 DEF RunsUp
  <2>6. p[n] = q[n]
    <3> HIDE DEF v, w, n
    <3>1. n \in 0 .. n
      BY <2>1
    <3> QED BY <2>1, <2>2, <2>4, <2>5, <3>1, SumsAgree
  <2> HIDE DEF v, w, n, more
  <2>7. TotalBytes(more) = TotalBytes(states) + RetainedBytes(s)
    BY <2>2, <2>3, <2>4, <2>5, <2>6
  <2> QED BY <2>7 DEF more
<1> QED BY <1>1, <1>2

\* A set that writes its history finds there what it wrote, the others what
\* they had.
LEMMA ShelveReads ==
    ASSUME ResolutionInv, NEW a \in Set, NEW shelf \in Shelves, Shelve(a, shelf)
    PROVE  Shelf(a)' = shelf /\ \A b \in Set \ {a} : Shelf(b)' = Shelf(b)
<1>1. PICK h \in Owned(a) : /\ history' = [history EXCEPT ![a] = h]
                            /\ shelves' = [shelves EXCEPT ![h] = shelf]
  BY DEF Shelve
<1>2. h \in History
  BY DEF ResolutionInv, Owned, Unowned
<1>3. h # NoHistory
  BY <1>2, ResolutionAssumption
<1>4. history'[a] = h /\ shelves'[h] = shelf
  BY <1>1, <1>2 DEF ResolutionInv
<1> QED BY <1>3, <1>4, ShelveIsPrivate DEF Shelf

\* A step on the resolution of one set charges it for its new shelves.
LEMMA ResolutionStepCharges ==
    ASSUME ResolutionInv, ChargedExact, charged \in [Set -> Nat],
           NEW a \in Set, NEW shelf \in Shelves, Shelve(a, shelf),
           charged' = [charged EXCEPT ![a] = TotalBytes(shelf.undo) + TotalBytes(shelf.redo)]
    PROVE  ChargedExact'
<1>1. charged'[a] = TotalBytes(shelf.undo) + TotalBytes(shelf.redo)
  OBVIOUS
<1>2. \A b \in Set \ {a} : charged'[b] = charged[b]
  OBVIOUS
<1>3. Shelf(a)' = shelf /\ \A b \in Set \ {a} : Shelf(b)' = Shelf(b)
  BY ShelveReads
<1> QED BY <1>1, <1>2, <1>3 DEF ChargedExact

\* "Retained resize snapshots are included in the texture-set and document
\* memory reports": what a set reports is what its history object holds,
\* through changes, undo, redo and copies that share the object.
THEOREM ChargesAreExact == Spec => []ChargedExact
<1> DEFINE Charges == ChargedExact /\ charged \in [Set -> Nat]
<1>1. Init => Charges
  BY BytesOfShelves DEF Init, ChargedExact, Shelf, Empty
<1>2. ASSUME ResolutionInv, Charges, [Next]_vars PROVE Charges'
  <2>1. ASSUME UNCHANGED <<history, shelves, charged>> PROVE Charges'
    BY <1>2, <2>1 DEF ChargedExact, Shelf
  <2>2. \A states \in Seq(GoodState) : TotalBytes(states) \in Nat
    BY BytesAddUp DEF RunsUp
  <2>3. ASSUME NEW a \in Set, NEW shelf \in Shelves, Shelve(a, shelf),
               charged' = [charged EXCEPT ![a] = TotalBytes(shelf.undo) + TotalBytes(shelf.redo)]
        PROVE  Charges'
    <3>1. TotalBytes(shelf.undo) + TotalBytes(shelf.redo) \in Nat
      <4>1. shelf.undo \in Seq(GoodState) /\ shelf.redo \in Seq(GoodState)
        BY <2>3 DEF Shelves
      <4>2. \A i, j \in Nat : i + j \in Nat
        OBVIOUS
      <4> QED BY <2>2, <4>1, <4>2
    <3> QED BY <1>2, <2>3, <3>1, ResolutionStepCharges
  <2>4. ASSUME NEW a \in Set, NEW size \in Size, NEW bytes, NEW maximum,
               ChangeResolution(a, size, bytes, maximum)
        PROVE  Charges'
    <3>1. sets[a] \in GoodState /\ Shelf(a).undo \in Seq(GoodState)
      BY <1>2, ShelfTypes DEF ResolutionInv, Shelves
    <3>2. /\ AfterChange(a) \in Shelves /\ Shelve(a, AfterChange(a))
          /\ charged' = [charged EXCEPT ![a] = TotalBytes(Shelf(a).undo) + RetainedBytes(sets[a])]
      BY <1>2, <2>4, ShelvesAfter DEF ChangeResolution
    <3>3. TotalBytes(Shelf(a).undo) + RetainedBytes(sets[a])
            = TotalBytes(AfterChange(a).undo) + TotalBytes(AfterChange(a).redo)
      <4>1. /\ AfterChange(a).undo = Append(Shelf(a).undo, sets[a])
            /\ AfterChange(a).redo = <<>>
        BY DEF AfterChange
      <4>2. TotalBytes(AfterChange(a).undo) \in Nat
        BY <2>2, <3>2 DEF Shelves
      <4> QED BY <3>1, <4>1, <4>2, BytesOfShelves
    <3> QED BY <2>3, <3>2, <3>3
  <2>5. ASSUME NEW a \in Set, UndoResolution(a) \/ RedoResolution(a) PROVE Charges'
    BY <1>2, <2>3, <2>5, ShelvesAfter DEF UndoResolution, RedoResolution, Restore
  <2>6. ASSUME NEW a \in Set, NEW b \in Set, CopySet(a, b) PROVE Charges'
    <3>1. /\ history' = [history EXCEPT ![b] = history[a]]
          /\ charged' = [charged EXCEPT ![b] = charged[a]]
          /\ shelves' = [h \in History |->
                            IF \E c \in Set : history'[c] = h THEN shelves[h] ELSE Empty]
      BY <2>6 DEF CopySet
    <3>2. ASSUME NEW c \in Set, NEW d \in Set, history'[c] = history[d]
          PROVE  Shelf(c)' = Shelf(d)
      BY <1>2, <3>1, <3>2 DEF Shelf, ResolutionInv
    <3>3. Shelf(b)' = Shelf(a) /\ \A c \in Set \ {b} : Shelf(c)' = Shelf(c)
      BY <1>2, <3>1, <3>2 DEF ResolutionInv
    <3> QED BY <1>2, <3>1, <3>3 DEF ChargedExact
  <2>7. ASSUME NEW a \in Set, EditStep(a) PROVE Charges'
    BY <2>1, <2>7 DEF EditStep, Write, CommitStep, UndoTiles, RedoTiles,
                      BeginTransaction, Become
  <2>8. CASE UNCHANGED vars
    BY <2>1, <2>8 DEF vars
  <2>9. CASE (\E v \in Value : CommitTransaction(v)) \/ EndTransaction
    BY <2>1, <2>9 DEF CommitTransaction, EndTransaction, Become
  <2> HIDE DEF Charges
  <2> QED BY <1>2, <2>4, <2>5, <2>6, <2>7, <2>8, <2>9 DEF Next, ResolutionStep
<1>3. Charges => ChargedExact
  OBVIOUS
<1> HIDE DEF Charges
<1> QED BY <1>1, <1>2, <1>3, ResolutionInvariant, PTL DEF Spec
=============================================================================
