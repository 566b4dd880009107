---------------------------- MODULE HostExecution ----------------------------
(***************************************************************************)
(* exec::HostExecutionSession: submissions the host executes on its own    *)
(* device, their completions, cancellations and recovery evidence, which   *)
(* arrive in any order, late, twice or never, device loss, and the         *)
(* reference counts that say which resource generations are in use.        *)
(* Implements HostPublication.                                             *)
(***************************************************************************)
EXTENDS Integers, FiniteSets

CONSTANTS
    Id,             \* logical resource identities
    Generation,     \* generations of a resource
    None,           \* nothing committed yet
    MaxResources,   \* most resources of a submission
    MaxRevision,    \* last document revision
    MaxToken        \* last completion token, never given out

ASSUME HostAssumption ==
    /\ None \notin Generation
    /\ MaxResources \in Nat
    /\ MaxRevision \in Nat
    /\ MaxToken \in Nat \ {0}

Version == Id \X Generation

Token == 1 .. MaxToken - 1

Semantics == {"deterministic", "checkpoint only"}

VARIABLES
    revision,       \* the committed document revision
    nextToken,      \* the next completion token
    active,         \* pending submissions by token
    holds,          \* how often each version is held
    committed,      \* committed generation of each resource identity
    evidence,       \* recovery evidence of the committed revision
    released        \* versions the last call reported as released

vars == <<revision, nextToken, active, holds, committed, evidence, released>>

\* Recovery evidence by what valid_recovery() looks at: complete, its kind,
\* the checkpoint's revision; replayable stands for a versioned record with
\* pinned inputs.
Evidence == [ kind : {"result", "record"}, complete : BOOLEAN,
              revision : 0 .. MaxRevision, replayable : BOOLEAN ]

Init ==
    /\ revision = 0
    /\ nextToken = 1
    /\ active = <<>>
    /\ holds = [v \in Version |-> 0]
    /\ committed = [i \in Id |-> None]
    /\ evidence = [kind |-> "result", complete |-> TRUE,
                   revision |-> 0, replayable |-> FALSE]
    /\ released = {}

-----------------------------------------------------------------------------
(* Submissions and their holds *)

Named(p) == p.inputs \cup p.outputs

\* An output names one generation per identity, an input none of the outputs.
WellFormed(inputs, outputs) ==
    /\ outputs # {}
    /\ inputs \cap outputs = {}
    /\ \A v, w \in outputs : v[1] = w[1] => v = w
    /\ Cardinality(inputs \cup outputs) <= MaxResources

Held(v) == holds[v] > 0

Without(token) == [t \in DOMAIN active \ {token} |-> active[t]]

\* Wrong variant of Submittable: any generation may be written.
SubmittableAnyhow(base, inputs, outputs) ==
    /\ WellFormed(inputs, outputs)
    /\ base = revision
    /\ nextToken < MaxToken

Submittable(base, inputs, outputs) ==
    /\ WellFormed(inputs, outputs)
    /\ base = revision
    /\ \A v \in outputs : ~Held(v)
    /\ nextToken < MaxToken

\* submit(): every named version is held once more.  A refused submission
\* throws before anything changed.
Submit(base, inputs, outputs, semantics) ==
    /\ Submittable(base, inputs, outputs)
    /\ active' = [t \in DOMAIN active \cup {nextToken} |->
                     IF t = nextToken
                       THEN [base |-> base, inputs |-> inputs, outputs |-> outputs,
                             semantics |-> semantics, phase |-> "executing"]
                       ELSE active[t]]
    /\ holds' = [v \in Version |-> IF v \in inputs \cup outputs THEN holds[v] + 1
                                                               ELSE holds[v]]
    /\ nextToken' = nextToken + 1
    /\ released' = {}
    /\ UNCHANGED <<revision, committed, evidence>>

\* release_resources(): counts a holder off each version, in counts hd.
Dropped(hd, p) ==
    [v \in Version |-> IF v \in Named(p) /\ hd[v] > 0 THEN hd[v] - 1 ELSE hd[v]]

\* Versions whose count a change from hd to hdNew brings to zero.
Freed(hd, hdNew) == { v \in Version : hd[v] > 0 /\ hdNew[v] = 0 }

\* finish() of a submission that publishes nothing.
Finish(token) ==
    /\ active' = Without(token)
    /\ holds' = Dropped(holds, active[token])
    /\ released' = Freed(holds, holds')
    /\ UNCHANGED <<revision, nextToken, committed, evidence>>

\* A call that changes nothing and reports nothing released.
Ignored ==
    /\ released' = {}
    /\ UNCHANGED <<revision, nextToken, active, holds, committed, evidence>>

EnterPhase(token, phase) ==
    /\ active' = [active EXCEPT ![token].phase = phase]
    /\ released' = {}
    /\ UNCHANGED <<revision, nextToken, holds, committed, evidence>>

-----------------------------------------------------------------------------
(* Publication *)

\* The output of p under an identity, if it has one.
HasOutput(p, i) == \E v \in p.outputs : v[1] = i

Output(p, i) == CHOOSE g \in Generation : <<i, g>> \in p.outputs

\* What publishing p leaves committed.
Adopted(p) == [i \in Id |-> IF HasOutput(p, i) THEN Output(p, i) ELSE committed[i]]

\* Wrong variant of AdoptedHolds: what was committed before stays held.
AdoptedHoldsKept(p) ==
    [v \in Version |-> IF v \in p.outputs /\ committed[v[1]] # v[2] THEN holds[v] + 1
                                                                   ELSE holds[v]]

\* adopt_outputs(): each output is held by the document from now on, and the
\* version it replaces no longer is.
AdoptedHolds(p) ==
    [v \in Version |->
        IF v \in p.outputs /\ committed[v[1]] # v[2] THEN holds[v] + 1
        ELSE IF HasOutput(p, v[1]) /\ committed[v[1]] = v[2] /\ v \notin p.outputs
                /\ holds[v] > 0
          THEN holds[v] - 1
        ELSE holds[v]]

\* What publishing does once nothing stands against it.
PublishOutputs(token, ev) ==
    LET p == active[token] IN
    /\ revision < MaxRevision
    /\ revision' = revision + 1
    /\ committed' = Adopted(p)
    /\ evidence' = ev
    /\ active' = Without(token)
    /\ holds' = Dropped(AdoptedHolds(p), p)
    /\ released' = Freed(holds, holds')
    /\ UNCHANGED nextToken

\* Wrong variant of Publish: the base is not compared once more.
PublishLate(token, ev) ==
    \/ revision = MaxRevision /\ Finish(token)
    \/ PublishOutputs(token, ev)

\* publish(): stale and exhausted revisions finish without publishing.
Publish(token, ev) ==
    \/ /\ active[token].base # revision \/ revision = MaxRevision
       /\ Finish(token)
    \/ /\ active[token].base = revision
       /\ PublishOutputs(token, ev)

\* Wrong variant of ValidRecovery: a record replays from any checkpoint.
ValidRecoveryAnywhere(ev, p) ==
    /\ ev.complete
    /\ ev.kind = "result" \/ (p.semantics = "deterministic" /\ ev.replayable)

ValidRecovery(ev, p) ==
    /\ ev.complete
    /\ \/ ev.kind = "result"
       \/ /\ p.semantics = "deterministic"
          /\ ev.revision = p.base
          /\ ev.replayable

-----------------------------------------------------------------------------
(* What the host reports back *)

\* A call may come without evidence.
NoEvidence == [ kind |-> "result", complete |-> FALSE,
                revision |-> 0, replayable |-> FALSE ]

\* cancel(): a submission that runs stays until its result arrives, one that
\* only waits for evidence ends here.  The versions this releases are not
\* reported to the host.
Cancel(token) ==
    /\ token \in DOMAIN active
    /\ IF active[token].phase = "awaiting recovery"
         THEN /\ active' = Without(token)
              /\ holds' = Dropped(holds, active[token])
              /\ released' = {}
              /\ UNCHANGED <<revision, nextToken, committed, evidence>>
         ELSE EnterPhase(token, "cancelled")

\* complete() of a submission that already ended or whose result is recorded.
CompleteAgain(token) ==
    /\ token \in DOMAIN active => active[token].phase = "awaiting recovery"
    /\ Ignored

\* complete() that discards the result: the submission was cancelled, the
\* host failed, its outputs are not the declared ones or the base is stale.
CompleteDiscarded(token, status, matches) ==
    /\ token \in DOMAIN active
    /\ active[token].phase # "awaiting recovery"
    /\ \/ active[token].phase = "cancelled"
       \/ status # "succeeded"
       \/ ~matches
       \/ active[token].base # revision
    /\ Finish(token)

\* complete() with a result that may be published, at once or with evidence
\* to come.
CompleteGood(token, ev) ==
    /\ token \in DOMAIN active
    /\ active[token].phase = "executing"
    /\ active[token].base = revision
    /\ IF ValidRecovery(ev, active[token])
         THEN Publish(token, ev)
         ELSE EnterPhase(token, "awaiting recovery")

\* establish_recovery()
EstablishRecovery(token, ev) ==
    IF /\ token \in DOMAIN active
       /\ active[token].phase = "awaiting recovery"
       /\ ValidRecovery(ev, active[token])
      THEN Publish(token, ev)
      ELSE Ignored

\* report_device_loss(): every submission ends; the document stays.
ReportDeviceLoss ==
    /\ active' = <<>>
    /\ holds' = [v \in Version |->
                    LET naming == { t \in DOMAIN active : v \in Named(active[t]) }
                    IN  IF holds[v] > Cardinality(naming)
                          THEN holds[v] - Cardinality(naming) ELSE 0]
    /\ released' = Freed(holds, holds')
    /\ UNCHANGED <<revision, nextToken, committed, evidence>>

Next ==
    \/ \E base \in 0 .. MaxRevision, inputs, outputs \in SUBSET Version,
         semantics \in Semantics : Submit(base, inputs, outputs, semantics)
    \/ \E token \in Token :
          \/ Cancel(token)
          \/ CompleteAgain(token)
          \/ \E status \in {"succeeded", "failed", "cancelled"}, matches \in BOOLEAN :
                CompleteDiscarded(token, status, matches)
          \/ \E ev \in Evidence \cup {NoEvidence} :
                CompleteGood(token, ev) \/ EstablishRecovery(token, ev)
    \/ ReportDeviceLoss

Spec == Init /\ [][Next]_vars

-----------------------------------------------------------------------------
(* Properties *)

Phase == {"executing", "cancelled", "awaiting recovery"}

Submission == [ base : 0 .. MaxRevision, inputs : SUBSET Version,
                outputs : SUBSET Version, semantics : Semantics, phase : Phase ]

\* Tokens given out so far name submissions; one that waits for evidence was
\* based on a revision that existed.
TypeOK ==
    /\ revision \in 0 .. MaxRevision
    /\ nextToken \in 1 .. MaxToken
    /\ DOMAIN active \subseteq 1 .. nextToken - 1
    /\ \A t \in DOMAIN active : active[t] \in Submission /\ active[t].base <= revision
    /\ holds \in [Version -> Nat]
    /\ committed \in [Id -> Generation \cup {None}]
    /\ evidence \in Evidence
    /\ released \subseteq Version

Naming(v) == { t \in DOMAIN active : v \in Named(active[t]) }

Writing(v) == { t \in DOMAIN active : v \in active[t].outputs }

Adopts(v) == committed[v[1]] = v[2]

\* A generation is held once for each submission in flight that names it and
\* once while it is committed, whatever order results, cancellations,
\* evidence and device loss come in: none is released while it is in use and
\* none stays held for ever.
HoldsExact ==
    \A v \in Version : holds[v] = Cardinality(Naming(v)) + (IF Adopts(v) THEN 1 ELSE 0)

\* No two submissions in flight, cancelled ones included, write the same
\* generation, and none writes the committed one, although a cancelled
\* submission's result may arrive long after its successor was published.
SoleWriter ==
    \A v \in Version :
        /\ \A t, u \in Writing(v) : t = u
        /\ Adopts(v) => Writing(v) = {}

\* After a device loss the committed revision can be restored: its evidence
\* is complete, and a replay record starts from the revision just before.
\* (openspec/specs/execution-backends/spec.md, recovery evidence.)
EvidenceRestoresCommitted ==
    /\ evidence.complete
    /\ evidence.kind = "record" => evidence.replayable /\ evidence.revision + 1 = revision

-----------------------------------------------------------------------------
(* Refinement *)

\* Versions as a function from identities to generations.
ByIdentity(versions) ==
    [i \in { v[1] : v \in versions } |-> CHOOSE g \in Generation : <<i, g>> \in versions]

\* A cancelled submission is no operation in flight any more.
Live == { t \in DOMAIN active : active[t].phase # "cancelled" }

Operation(p) == [base |-> p.base, outputs |-> ByIdentity(p.outputs)]

InFlight == [t \in Live |-> Operation(active[t])]

Publication == INSTANCE HostPublication WITH
    Name <- Token,
    Content <- UNION { [ids -> Generation] : ids \in SUBSET Id },
    content <- committed,
    open <- InFlight

\* The session implements HostPublication: however late, repeated or out of
\* order completions, cancellations, evidence and device loss arrive, the
\* document only changes by a whole result whose base is the current revision
\* and which nothing had cancelled.
ImplementsPublication == Publication!PublicationSpec
=============================================================================
