------------------------------ MODULE AsyncBake ------------------------------
(***************************************************************************)
(* maps::AsyncBakeSession over the maps::MeshMapSet it fills: bake         *)
(* requests whose results arrive late and in any order, cancellation,      *)
(* edits of the bake settings that are undone together with the maps bound *)
(* under them, and the mesh that changes in between.                       *)
(***************************************************************************)
EXTENDS Integers, Sequences, FiniteSets

CONSTANTS
    Kind,           \* kinds of mesh maps
    TangentKind,    \* the kind whose maps depend on the tangent frame
    Frame,          \* mutually incompatible tangent frames
    NoFrame,        \* the mesh has none for this UV set, or the map needs none
    Settings,       \* revisions of the bake settings
    FirstSettings,
    Mesh,           \* revision and tangent frame of each mesh there will be
    MaxRequests,    \* requests issued by the session
    MaxEdits        \* edits of the settings

ASSUME BakeAssumption ==
    /\ FirstSettings \in Settings
    /\ NoFrame \notin Frame
    /\ Mesh \subseteq [ revision : Nat \ {0}, frame : Frame \cup {NoFrame} ]
    /\ MaxRequests \in Nat
    /\ MaxEdits \in Nat

Generation == 1 .. MaxRequests

MeshRevision == { m.revision : m \in Mesh }

VARIABLES
    maps,           \* bound maps: a partial function from kinds to descriptors
    mesh,           \* the mesh the maps are for
    settings,       \* current revision of the bake settings
    nextGeneration, \* of the next request
    requests,       \* pending requests by generation
    latest,         \* newest generation of each kind, 0 before the first
    history,        \* undo steps, the newest last
    epoch,          \* ghost: the edit that made the current settings, 0 before any
    edits           \* ghost: edits so far

vars == <<maps, mesh, settings, nextGeneration, requests, latest, history, epoch, edits>>

sessionVars == <<settings, nextGeneration, requests, latest, history, epoch, edits>>

\* A bound map by what tells it from another one: the request whose pixels it
\* holds, 0 for one bound by the host, its mesh revision and its frame.  Ghost:
\* the edit whose settings it was baked under.
Descriptor == [ by : 0 .. MaxRequests, mesh : MeshRevision,
                frame : Frame \cup {NoFrame}, epoch : 0 .. MaxEdits ]

Init ==
    /\ maps = <<>>
    /\ mesh \in Mesh
    /\ settings = FirstSettings
    /\ nextGeneration = 1
    /\ requests = <<>>
    /\ latest = [k \in Kind |-> 0]
    /\ history = <<>>
    /\ epoch = 0
    /\ edits = 0

-----------------------------------------------------------------------------
(* MeshMapSet *)

Put(f, x, y) == [z \in DOMAIN f \cup {x} |-> IF z = x THEN y ELSE f[z]]

Drop(f, x) == [z \in DOMAIN f \ {x} |-> f[z]]

\* validate_tangent_binding(): a tangent-space map declares the mesh's frame,
\* no other map declares one.
Compatible(k, d) ==
    IF k \in TangentKind THEN d.frame # NoFrame /\ d.frame = mesh.frame
                         ELSE d.frame = NoFrame

\* bind() by the host, of an imported map or of one baked synchronously.
Bind(k, meshRevision, frame) ==
    LET d == [by |-> 0, mesh |-> meshRevision, frame |-> frame, epoch |-> epoch] IN
    /\ Compatible(k, d)
    /\ maps' = Put(maps, k, d)
    /\ UNCHANGED <<mesh, sessionVars>>

\* release_map(), and release_all_maps() for all of them.
Release(kinds) ==
    /\ kinds \subseteq DOMAIN maps
    /\ maps' = [k \in DOMAIN maps \ kinds |-> maps[k]]
    /\ UNCHANGED <<mesh, sessionVars>>

\* synchronize_mesh_revision(): bound maps stay, stale from now on.
SynchronizeMesh(m) ==
    /\ mesh' = m
    /\ UNCHANGED <<maps, sessionVars>>

-----------------------------------------------------------------------------
(* AsyncBakeSession *)

\* Wrong variant of Superseded: the older request goes on.
SupersededNever(k) == requests

\* The requests once a newer one of kind k is issued.
Superseded(k) ==
    IF latest[k] \in DOMAIN requests
      THEN [requests EXCEPT ![latest[k]].phase = "stale"]
      ELSE requests

\* begin_request() throws once generations are exhausted.
GenerationsLeft == nextGeneration <= MaxRequests

BeginRequest(k) ==
    /\ GenerationsLeft
    /\ requests' = Put(Superseded(k), nextGeneration,
                       [kind |-> k, mesh |-> mesh, settings |-> settings,
                        phase |-> "active", epoch |-> epoch])
    /\ latest' = [latest EXCEPT ![k] = nextGeneration]
    /\ nextGeneration' = nextGeneration + 1
    /\ UNCHANGED <<maps, mesh, settings, history, epoch, edits>>

\* cancel()
CancelRequest(g) ==
    /\ g \in DOMAIN requests
    /\ requests[g].phase = "active"
    /\ requests' = [requests EXCEPT ![g].phase = "cancelled"]
    /\ UNCHANGED <<maps, mesh, settings, nextGeneration, latest, history, epoch, edits>>

\* Wrong variant of Current: the mesh is not compared.
CurrentOnAnyMesh(g) ==
    /\ requests[g].phase = "active"
    /\ requests[g].settings = settings
    /\ latest[requests[g].kind] = g

\* complete() goes on for a request that nothing overtook.
Current(g) ==
    /\ requests[g].phase = "active"
    /\ requests[g].mesh = mesh
    /\ requests[g].settings = settings
    /\ latest[requests[g].kind] = g

\* complete() with a map baked on some frame and of the size asked for or not:
\* the request is pending no more, whatever comes of its result.  Unknown and
\* altered tokens change nothing.
CompleteRequest(g, frame, sized) ==
    /\ g \in DOMAIN requests
    /\ LET r == requests[g]
           d == [by |-> g, mesh |-> r.mesh.revision, frame |-> frame, epoch |-> r.epoch]
       IN  maps' = IF Current(g) /\ sized /\ Compatible(r.kind, d)
                     THEN Put(maps, r.kind, d) ELSE maps
    /\ requests' = Drop(requests, g)
    /\ UNCHANGED <<mesh, settings, nextGeneration, latest, history, epoch, edits>>

\* Wrong variant of Invalidated: results to come may still be bound.
InvalidatedNone == requests

\* invalidate_active_requests()
Invalidated ==
    [g \in DOMAIN requests |->
        [requests[g] EXCEPT !.phase = IF @ = "active" THEN "stale" ELSE @]]

EditSettings(s) ==
    /\ s # settings
    /\ edits < MaxEdits
    /\ history' = Append(history, [settings |-> settings, maps |-> maps, epoch |-> epoch])
    /\ settings' = s
    /\ requests' = Invalidated
    /\ edits' = edits + 1
    /\ epoch' = edits + 1
    /\ UNCHANGED <<maps, mesh, nextGeneration, latest>>

LastStep == history[Len(history)]

\* restore_bindings() checks every map of the snapshot against the mesh of now.
Restorable == \A k \in DOMAIN LastStep.maps : Compatible(k, LastStep.maps[k])

\* undo_settings_edit(); with an incompatible map it throws and changes nothing.
UndoSettingsEdit ==
    /\ history # <<>>
    /\ Restorable
    /\ maps' = LastStep.maps
    /\ settings' = LastStep.settings
    /\ epoch' = LastStep.epoch
    /\ history' = SubSeq(history, 1, Len(history) - 1)
    /\ requests' = Invalidated
    /\ UNCHANGED <<mesh, nextGeneration, latest, edits>>

Next ==
    \/ \E k \in Kind, m \in MeshRevision, f \in Frame \cup {NoFrame} : Bind(k, m, f)
    \/ \E kinds \in {Kind} \cup { {k} : k \in Kind } : Release(kinds \cap DOMAIN maps)
    \/ \E m \in Mesh : SynchronizeMesh(m)
    \/ \E k \in Kind : BeginRequest(k)
    \/ \E g \in Generation :
          \/ CancelRequest(g)
          \/ \E f \in Frame \cup {NoFrame}, sized \in BOOLEAN : CompleteRequest(g, f, sized)
    \/ \E s \in Settings : EditSettings(s)
    \/ UndoSettingsEdit

Spec == Init /\ [][Next]_vars

-----------------------------------------------------------------------------
(* Properties *)

Request == [ kind : Kind, mesh : Mesh, settings : Settings,
             phase : {"active", "cancelled", "stale"}, epoch : 0 .. MaxEdits ]

Bindings == UNION { [kinds -> Descriptor] : kinds \in SUBSET Kind }

Step == [ settings : Settings, maps : Bindings, epoch : 0 .. MaxEdits ]

\* Requests pending were issued, each kind's newest one exists.
TypeOK ==
    /\ maps \in Bindings
    /\ mesh \in Mesh
    /\ settings \in Settings
    /\ nextGeneration \in 1 .. MaxRequests + 1
    /\ DOMAIN requests \subseteq 1 .. nextGeneration - 1
    /\ \A g \in DOMAIN requests : requests[g] \in Request
    /\ latest \in [Kind -> 0 .. nextGeneration - 1]
    /\ history \in Seq(Step)
    /\ epoch \in 0 .. edits
    /\ edits \in 0 .. MaxEdits

\* At most one request of a kind may still bind its result, the newest one, and
\* only while the settings it was issued under are in force: an edit and its
\* undo that bring the same revision back do not bring its requests back.
ActiveIsNewest ==
    \A g \in DOMAIN requests :
        requests[g].phase = "active" =>
            /\ latest[requests[g].kind] = g
            /\ requests[g].settings = settings
            /\ requests[g].epoch = epoch

\* Edits in force, in order: those that can be undone led to the current one.
Epochs(n) == { history[i].epoch : i \in 1 .. n }

\* Undoing an edit takes every map away that was baked or bound under it, and no
\* result that arrives later brings one back (docs/mesh-maps.md: "cannot
\* republish the undone pixels"), neither at once nor through an older step.
NothingUndoneIsBound ==
    /\ \A k \in DOMAIN maps : maps[k].epoch \in Epochs(Len(history)) \cup {epoch}
    /\ \A i \in DOMAIN history : \A k \in DOMAIN history[i].maps :
          history[i].maps[k].epoch \in Epochs(i)

\* Results are bound in the order they were asked for, each on the mesh it was
\* asked for, whatever order they arrive in.
ResultsBindInOrder ==
    [][history' = history =>
         \A k \in DOMAIN maps' :
            maps'[k].by # 0 /\ (k \in DOMAIN maps => maps[k] # maps'[k]) =>
                /\ k \in DOMAIN maps => maps[k].by < maps'[k].by
                /\ maps'[k].mesh = mesh.revision]_vars
=============================================================================
