-------------------------- MODULE ProjectAutosave --------------------------
(***************************************************************************)
(* io::ProjectAutosaveSession and the atomic save it calls: the worker     *)
(* thread and its two waits, the pending and the saving snapshot, a thread *)
(* that flushes, destruction, failed saves, crashes and restarts.  A       *)
(* snapshot is its revision; the recovery file is the revision embedded in *)
(* it.  Critical sections are steps; a thread asleep on the condition      *)
(* variable runs again when it was notified (notify_all) or timed out.     *)
(***************************************************************************)
EXTENDS Integers, FiniteSets

CONSTANTS
    MaxRevision,    \* bound on the revisions the document reaches
    Faults          \* which steps of a save may fail, and which crashes happen

ASSUME AutosaveAssumption ==
    /\ MaxRevision \in Nat \ {0}
    /\ Faults \subseteq {"write", "directory", "crash", "power loss"}

NoRevision == 0     \* an empty optional; revisions are not zero

VARIABLES
    committed,      \* the document's revision; snapshots are captured from it
    firstRevision,  \* where the document stood when the session began
    session,        \* the members of ProjectAutosaveSession::Impl
    flusher,        \* "away" or "waiting": the thread inside flush()
    file,           \* revision in the recovery file
    survivors,      \* what the recovery file may be after a power loss
    reported        \* history: the newest revision ever shown as last saved

autosaveVars == <<committed, firstRevision, session, flusher, file, survivors, reported>>

Threads == {"worker", "flusher", "host"}

\* pc is where the worker is: at the loop's head, in one of its two waits,
\* at a step of the save, or returned.  due is next_write having passed.
\* accepted is history: the latest revision submit() accepted.
NewSession ==
    [ pending  |-> NoRevision, saving |-> NoRevision, saved |-> NoRevision,
      error    |-> FALSE,      flush  |-> FALSE,      stopping |-> FALSE,
      due      |-> FALSE,      pc     |-> "loop",     asleep |-> {},
      accepted |-> NoRevision ]

AutosaveInit ==
    /\ committed = 1
    /\ firstRevision = 1
    /\ session = NewSession
    /\ flusher = "away"
    /\ file = NoRevision
    /\ survivors = {NoRevision}
    /\ reported = NoRevision

-----------------------------------------------------------------------------
(* The worker *)

Notify(s) == [s EXCEPT !.asleep = {}]

Sleeping(s, thread) == [s EXCEPT !.asleep = @ \cup {thread}]

\* The snapshot moves from pending to saving; the flush is taken as served.
Taken(s) == [s EXCEPT !.pending = NoRevision, !.saving = s.pending,
                      !.flush = FALSE, !.pc = "write"]

\* From the head of the loop, lock held, to the next unlock or wait.
LoopHead(s) ==
    LET t == [s EXCEPT !.asleep = @ \ {"worker"}] IN
    IF s.stopping THEN [t EXCEPT !.pc = "returned"]
    ELSE IF s.pending = NoRevision THEN Sleeping([t EXCEPT !.pc = "wait"], "worker")
    ELSE IF ~s.flush /\ ~s.due THEN Sleeping([t EXCEPT !.pc = "timed wait"], "worker")
    ELSE Taken(t)

\* Waking and finding the wait's condition false is going back to sleep, which
\* is what the head of the loop does in the same state.
WorkerRuns ==
    /\ \/ session.pc = "loop"
       \/ session.pc \in {"wait", "timed wait"} /\ "worker" \notin session.asleep
       \/ session.pc = "timed wait" /\ session.due
    /\ session' = LoopHead(session)
    /\ UNCHANGED <<committed, firstRevision, flusher, file, survivors, reported>>

\* rename(2): visible at once, durable when the directory is synchronized.
Renamed(revision) == /\ file' = revision
                     /\ survivors' = survivors \cup {revision}

\* Materialize, compress, write and synchronize a temporary file, which nobody
\* reads, and rename it to the recovery file.
PublishFile ==
    /\ session.pc = "write"
    /\ Renamed(session.saving)
    /\ session' = [session EXCEPT !.pc = "directory"]
    /\ UNCHANGED <<committed, firstRevision, flusher, reported>>

\* Wrong variant of FinishedWith: nobody is told.
FinishedQuietly(s) == LoopHead([s EXCEPT !.saving = NoRevision, !.due = FALSE])

\* Wrong variant of FinishedWith: what was submitted during the save goes too.
FinishedEmpty(s) ==
    LoopHead(Notify([s EXCEPT !.saving = NoRevision, !.pending = NoRevision, !.due = FALSE]))

\* After a save: status, the next deadline, notify_all, and the loop again
\* under the same lock.
FinishedWith(s) ==
    LoopHead(Notify([s EXCEPT !.saving = NoRevision, !.due = FALSE]))

\* Wrong variant of DirectorySynchronized: the rename is taken for durable.
DirectoryAssumed == survivors

DirectorySynchronized == {file}

SaveSucceeds ==
    /\ session.pc = "directory"
    /\ survivors' = DirectorySynchronized
    /\ reported' = session.saving
    /\ session' = FinishedWith([session EXCEPT !.saved = session.saving, !.error = FALSE])
    /\ UNCHANGED <<committed, firstRevision, flusher, file>>

\* The save throws: before the rename, whose temporary file is then removed,
\* or after it, when the directory cannot be synchronized.  Either way the
\* snapshot is gone and last_error is set.
SaveFails ==
    /\ session.pc \in Faults
    /\ session' = FinishedWith([session EXCEPT !.error = TRUE])
    /\ UNCHANGED <<committed, firstRevision, flusher, file, survivors, reported>>

\* The interval passes.
IntervalPasses ==
    /\ ~session.due /\ session.pc # "returned"
    /\ session' = [session EXCEPT !.due = TRUE]
    /\ UNCHANGED <<committed, firstRevision, flusher, file, survivors, reported>>

-----------------------------------------------------------------------------
(* The session's operations *)

Alive == ~session.stopping

Idle(s) == s.pending = NoRevision /\ s.saving = NoRevision

Newest(s) ==
    LET known == {s.saved, s.saving, s.pending}
    IN  CHOOSE n \in known : \A m \in known : m <= n

\* An edit moves the document on.
Commit ==
    /\ committed < MaxRevision
    /\ committed' = committed + 1
    /\ UNCHANGED <<firstRevision, session, flusher, file, survivors, reported>>

\* Wrong variant of Stale: only what is pending or saved counts.
StaleIgnoringSaving(s, revision) == revision <= s.saved \/ revision <= s.pending

Stale(s, revision) == revision <= Newest(s)

\* Wrong variant of Queued: the worker is not woken.
QueuedQuietly(s, revision) == [s EXCEPT !.pending = revision, !.accepted = revision]

Queued(s, revision) == Notify([s EXCEPT !.pending = revision, !.accepted = revision])

\* submit() of a snapshot captured at any time since the session began; a
\* stale one is refused and changes nothing.
Submit(revision) ==
    /\ Alive
    /\ ~Stale(session, revision)
    /\ session' = Queued(session, revision)
    /\ UNCHANGED <<committed, firstRevision, flusher, file, survivors, reported>>

\* The calling thread goes to sleep, or is done and takes the request back.
FlushWaits(s) ==
    IF Idle(s) THEN /\ session' = [s EXCEPT !.flush = FALSE, !.asleep = @ \ {"flusher"}]
                    /\ flusher' = "away"
               ELSE /\ session' = Sleeping(s, "flusher")
                    /\ flusher' = "waiting"

FlushBegins ==
    /\ Alive /\ flusher = "away"
    /\ FlushWaits(Notify([session EXCEPT !.flush = TRUE]))
    /\ UNCHANGED <<committed, firstRevision, file, survivors, reported>>

FlushWakes ==
    /\ flusher = "waiting" /\ "flusher" \notin session.asleep
    /\ FlushWaits(session)
    /\ UNCHANGED <<committed, firstRevision, file, survivors, reported>>

\* request_flush(): nothing to do unless a snapshot is pending.
FlushRequested(s) ==
    IF s.pending = NoRevision THEN s ELSE Notify([s EXCEPT !.flush = TRUE])

\* The destructor up to join(); no other thread may be inside the session.
Destroy ==
    /\ Alive /\ flusher = "away"
    /\ session' = Notify([session EXCEPT !.stopping = TRUE, !.pending = NoRevision])
    /\ UNCHANGED <<committed, firstRevision, flusher, file, survivors, reported>>

\* The next session of the same document, once join() returned.
Reopen ==
    /\ session.pc = "returned"
    /\ session' = NewSession
    /\ firstRevision' = committed
    /\ UNCHANGED <<committed, flusher, file, survivors, reported>>

\* The host reopens what the recovery file holds; without one it starts anew.
RecoverFrom(revision) ==
    /\ committed' = IF revision = NoRevision THEN 1 ELSE revision
    /\ firstRevision' = committed'
    /\ session' = NewSession
    /\ flusher' = "away"

\* The process dies; a temporary file stays behind and is never offered.
Crash ==
    /\ "crash" \in Faults
    /\ RecoverFrom(file)
    /\ UNCHANGED <<file, survivors, reported>>

\* The machine dies: a rename that was not synchronized may be undone.
PowerLoss ==
    /\ "power loss" \in Faults
    /\ \E revision \in survivors :
           /\ RecoverFrom(revision)
           /\ file' = revision
           /\ survivors' = {revision}
    /\ UNCHANGED reported

WorkerStep ==
    WorkerRuns \/ PublishFile \/ SaveSucceeds \/ SaveFails

AutosaveNext ==
    \/ WorkerStep
    \/ IntervalPasses
    \/ Commit
    \/ \E revision \in firstRevision .. committed : Submit(revision)
    \/ FlushBegins
    \/ FlushWakes
    \/ Destroy
    \/ Reopen
    \/ Crash
    \/ PowerLoss

\* The worker's thread is scheduled, time passes, a notified thread gets the
\* lock.  Hosts, faults and crashes are under no obligation.
AutosaveFairness ==
    /\ WF_autosaveVars(WorkerStep)
    /\ WF_autosaveVars(IntervalPasses)
    /\ WF_autosaveVars(FlushWakes)

AutosaveSpec == AutosaveInit /\ [][AutosaveNext]_autosaveVars /\ AutosaveFairness

-----------------------------------------------------------------------------
(* Properties *)

Revision == NoRevision .. MaxRevision

Session ==
    [ pending : Revision, saving : Revision, saved : Revision,
      error : BOOLEAN, flush : BOOLEAN, stopping : BOOLEAN, due : BOOLEAN,
      pc : {"loop", "wait", "timed wait", "write", "directory", "returned"},
      asleep : SUBSET Threads, accepted : Revision ]

\* Revisions in range, the recovery file among those a power loss may leave.
AutosaveTypeOK ==
    /\ committed \in 1 .. MaxRevision
    /\ firstRevision \in 1 .. committed
    /\ session \in Session
    /\ flusher \in {"away", "waiting"}
    /\ file \in Revision
    /\ survivors \subseteq Revision /\ file \in survivors
    /\ reported \in Revision

\* What a session once reported as last saved survives whatever happens
\* later: failed saves, crashes and power losses at any step, restarts and
\* their first saves.
ReportedSurvives == \A revision \in survivors : revision >= reported

\* The recovery file moves back to an older revision only while the session
\* reports that its last save failed, or when a power loss ended the session.
GoesBackOnlyAfterFailure ==
    [][file' < file => session.error \/ session' = NewSession]_autosaveVars

\* docs/project-autosave.md:39-41: submissions "no newer than the pending,
\* writing, or published revision are rejected as stale".  So, a power loss
\* aside, a published recovery file is never replaced by an older revision.
PublishedNeverGoesBack == [][file' >= file]_autosaveVars

\* A live session accounts for the snapshot it accepted last: it is pending,
\* being saved or saved, or the status shows that the last save failed, however
\* submissions fall between the steps of saves that succeed and fail.
AcceptedAccounted ==
    Alive /\ session.accepted # NoRevision =>
        \/ session.accepted \in {session.pending, session.saving, session.saved}
        \/ session.error

\* A pending snapshot does not stay pending for ever: a failed save before it,
\* a busy worker or a missed notification leaves none behind.  One that a newer
\* one replaced, or that went with its session, counts as taken.
SnapshotsAreTaken == session.pending # NoRevision ~> session.pending = NoRevision

\* From some time on the host submits nothing more.
SubmissionsCease ==
    <>[][session'.pending # session.pending => session'.pending = NoRevision]_autosaveVars

\* flush() returns if the host stops submitting.  (It need not otherwise: a
\* snapshot submitted during each save, or resubmitted after each failure,
\* keeps the session from ever being idle.)
FlushReturns ==
    SubmissionsCease => (flusher = "waiting" ~> flusher = "away")
=============================================================================
