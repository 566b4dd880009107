-------------------------- MODULE ProjectLifecycle --------------------------
(***************************************************************************)
(* ctex_project_lifecycle_quiesce: the composition of a resource ledger    *)
(* and an autosave session.  A host thread closes the ledger's gate,       *)
(* requests a flush, asks for cancellation, waits for reservations to      *)
(* drain and for its revision to be saved, under one deadline, and reports.*)
(* Each call it makes takes that object's lock, so each is a step, and     *)
(* edits, admissions, releases, saves and crashes happen in between.       *)
(***************************************************************************)
EXTENDS ResourceLedger, ProjectAutosave

VARIABLES
    quiesce,    \* the calling thread: where it is, what it collected
    cancelled,  \* cancellation was requested of the work in flight
    expired,    \* the call's deadline has passed
    promised    \* history: the newest revision a report called durable

lifecycleVars == <<quiesce, cancelled, expired, promised>>

vars == <<ledgerVars, autosaveVars, lifecycleVars>>

\* woken is the ledger's condition variable for this thread; the session's is
\* "host" in session.asleep.
NoQuiesce ==
    [ pc |-> "away", revision |-> NoRevision, woken |-> FALSE, drained |-> FALSE,
      saved |-> FALSE ]

Quiescing == quiesce.pc \notin {"away", "durable"}

Init ==
    /\ LedgerInit
    /\ AutosaveInit
    /\ quiesce = NoQuiesce
    /\ cancelled = FALSE
    /\ expired = FALSE
    /\ promised = NoRevision

-----------------------------------------------------------------------------
(* The quiescing thread *)

\* The call begins with the document's newest revision.  The host has one
\* thread for lifecycle calls: flush(), quiescing and destruction.
QuiesceBegins ==
    /\ Alive /\ flusher = "away"
    /\ ~Quiescing
    /\ BeginQuiesce
    /\ quiesce' = [NoQuiesce EXCEPT !.pc = "flush", !.revision = committed]
    /\ expired' = FALSE
    /\ UNCHANGED <<autosaveVars, cancelled, promised>>

QuiesceFlushes ==
    /\ quiesce.pc = "flush"
    /\ session' = FlushRequested(session)
    /\ quiesce' = [quiesce EXCEPT !.pc = "cancel"]
    /\ UNCHANGED <<ledgerVars, committed, firstRevision, flusher, file, survivors,
                   reported, cancelled, expired, promised>>

\* The host's callback: work in flight is told to stop, and releases later.
QuiesceCancels ==
    /\ quiesce.pc = "cancel"
    /\ cancelled' = TRUE
    /\ quiesce' = [quiesce EXCEPT !.pc = "drain"]
    /\ UNCHANGED <<ledgerVars, autosaveVars, expired, promised>>

\* A wait's timeout is the rest of the call's deadline.
TimedOut == expired

\* wait_until_quiescent: returns when nothing is active, or at the deadline.
QuiesceDrains ==
    /\ \/ quiesce.pc = "drain"
       \/ quiesce.pc = "draining" /\ (quiesce.woken \/ TimedOut)
    /\ quiesce' =
         IF active = 0 \/ TimedOut
           THEN [quiesce EXCEPT !.pc = "save", !.drained = (active = 0), !.woken = FALSE]
           ELSE [quiesce EXCEPT !.pc = "draining", !.woken = FALSE]
    /\ UNCHANGED <<ledgerVars, autosaveVars, cancelled, expired, promised>>

\* wait_until_saved: the revision is saved, or the session is idle after an
\* error, or the deadline passed; the answer is whether it is saved.
SavedOrGivenUp(s, revision) ==
    s.saved >= revision \/ (Idle(s) /\ s.error)

\* Wrong variant of SaveAnswer: the wait having ended is the answer.
SaveAnswerOfWait(s, revision) == SavedOrGivenUp(s, revision)

SaveAnswer(s, revision) == s.saved >= revision

QuiesceSaves ==
    /\ \/ quiesce.pc = "save"
       \/ quiesce.pc = "saving" /\ ("host" \notin session.asleep \/ TimedOut)
    /\ IF SavedOrGivenUp(session, quiesce.revision) \/ TimedOut
         THEN /\ session' = [session EXCEPT !.asleep = @ \ {"host"}]
              /\ quiesce' = [quiesce EXCEPT !.pc = "report",
                                            !.saved = SaveAnswer(session, quiesce.revision)]
         ELSE /\ session' = Sleeping(session, "host")
              /\ quiesce' = [quiesce EXCEPT !.pc = "saving"]
    /\ UNCHANGED <<ledgerVars, committed, firstRevision, flusher, file, survivors,
                   reported, cancelled, expired, promised>>

\* Wrong variant of QuiesceStatus: a saved revision alone makes it durable.
QuiesceStatusUndrained(q, s) ==
    IF q.saved THEN "durable"
    ELSE IF s.error THEN "checkpoint failed" ELSE "deadline exceeded"

QuiesceStatus(q, s) ==
    IF q.drained /\ q.saved THEN "durable"
    ELSE IF s.error THEN "checkpoint failed" ELSE "deadline exceeded"

\* The session's status is read after the waits; the report says what it
\* makes of them, and the call returns.
QuiesceReports ==
    LET durable == QuiesceStatus(quiesce, session) = "durable" IN
    /\ quiesce.pc = "report"
    /\ quiesce' = [NoQuiesce EXCEPT !.pc = IF durable THEN "durable" ELSE "away"]
    /\ promised' = IF durable THEN quiesce.revision ELSE promised
    /\ cancelled' = FALSE
    /\ expired' = FALSE
    /\ UNCHANGED <<ledgerVars, autosaveVars>>

DeadlinePasses ==
    /\ Quiescing /\ ~expired
    /\ expired' = TRUE
    /\ UNCHANGED <<ledgerVars, autosaveVars, quiesce, cancelled, promised>>

QuiesceStep ==
    \/ QuiesceFlushes \/ QuiesceCancels \/ QuiesceDrains \/ QuiesceSaves
    \/ QuiesceReports

-----------------------------------------------------------------------------
(* Everything else *)

\* Work is admitted (a refusal changes nothing), may commit an edit, and gives
\* its reservation back, which wakes the thread that waits for the drain.
WorkBegins ==
    /\ \E h \in Holder, q \in Request : Admit(h, q)
    /\ active' > active
    /\ UNCHANGED <<autosaveVars, lifecycleVars>>

\* Wrong variant of Woken: releases are not announced.
WokenByDeadline(q) == q

Woken(q) == [q EXCEPT !.woken = (q.pc = "draining")]

WorkEnds ==
    /\ \E h \in Holder : Release(h)
    /\ quiesce' = Woken(quiesce)
    /\ UNCHANGED <<autosaveVars, cancelled, expired, promised>>

\* Hosts edit under a reservation.
WorkCommits ==
    /\ active > 0
    /\ Commit
    /\ UNCHANGED <<ledgerVars, lifecycleVars>>

\* ctex_project_lifecycle_resume, by any thread.
Resume ==
    /\ ~accepting
    /\ ResumeAdmission
    /\ UNCHANGED <<autosaveVars, lifecycleVars>>

SessionStep ==
    /\ \/ WorkerStep
       \/ IntervalPasses
       \/ \E revision \in firstRevision .. committed : Submit(revision)
       \/ FlushWakes
       \/ Reopen
       \/ ~Quiescing /\ (FlushBegins \/ Destroy)
    /\ UNCHANGED <<ledgerVars, lifecycleVars>>

\* A crash takes the ledger, the session and every thread with it.
ProcessDies ==
    /\ Crash \/ PowerLoss
    /\ allocations' = <<>> /\ reserved' = Nothing /\ active' = 0
    /\ accepting' = TRUE /\ callback' = FALSE
    /\ reservation' = [h \in Holder |-> Vacant] /\ report' = Vacant
    /\ quiesce' = NoQuiesce /\ cancelled' = FALSE /\ expired' = FALSE
    /\ UNCHANGED promised

Next ==
    \/ QuiesceBegins \/ QuiesceStep \/ DeadlinePasses
    \/ WorkBegins \/ WorkEnds \/ WorkCommits \/ Resume
    \/ SessionStep
    \/ ProcessDies

\* What AutosaveFairness says, the quiescing thread is scheduled, and work
\* that was told to stop gives its reservation back.  Nothing forces the
\* deadline to pass.
Fairness ==
    /\ WF_vars(WorkerStep /\ UNCHANGED <<ledgerVars, lifecycleVars>>)
    /\ WF_vars(IntervalPasses /\ UNCHANGED <<ledgerVars, lifecycleVars>>)
    /\ WF_vars(FlushWakes /\ UNCHANGED <<ledgerVars, lifecycleVars>>)
    /\ WF_vars(QuiesceStep)
    /\ WF_vars(cancelled /\ WorkEnds)

Spec == Init /\ [][Next]_vars /\ Fairness

-----------------------------------------------------------------------------
(* Properties *)

\* A checkpoint reported durable (openspec/specs/resource-residency/spec.md:37)
\* is recovered after every later crash or power loss, or a newer one is.
DurableMeansDurable == \A revision \in survivors : revision >= promised

\* Once a report said durable, and until admission is resumed, no work is
\* active and the document stands still: the gate was closed before the drain
\* and a late admission cannot slip through.
QuietAfterDurable ==
    quiesce.pc = "durable" /\ ~accepting => active = 0

\* Nothing fails, nobody resumes admission during a call, no deadline passes.
NoTrouble ==
    [](/\ ~session.error /\ ~expired
       /\ Quiescing => ~accepting)

\* A call whose revision was submitted before it ends by reporting it durable,
\* whatever else was pending, being saved or in flight, unless the process
\* dies, which leaves a ledger that admits.
QuiesceReachesDurable ==
    NoTrouble =>
        ( quiesce.pc = "flush" /\ quiesce.revision <= Newest(session)
          ~> quiesce.pc = "durable" \/ (quiesce.pc = "away" /\ accepting) )
=============================================================================
