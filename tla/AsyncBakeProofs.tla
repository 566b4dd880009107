--------------------------- MODULE AsyncBakeProofs ---------------------------
(***************************************************************************)
(* Proofs about AsyncBake for every set of kinds, frames, settings and     *)
(* meshes and any number of requests and edits: which request may still    *)
(* bind a map, that undone maps stay undone, and the order of results.     *)
(***************************************************************************)
EXTENDS AsyncBake, TLAPS

\* A map came from a request of its kind that is pending no more, or from the host.
Settled(m) ==
    \A k \in DOMAIN m : /\ m[k].by \notin DOMAIN requests
                        /\ m[k].by <= latest[k]

\* No undo step is of an edit that is still to come.
StepsArePast == \A i \in DOMAIN history : history[i].epoch <= edits

\* The inductive invariant.
BakeInv ==
    /\ TypeOK
    /\ ActiveIsNewest
    /\ NothingUndoneIsBound
    /\ Settled(maps)
    /\ \A i \in DOMAIN history : Settled(history[i].maps)
    /\ StepsArePast

-----------------------------------------------------------------------------
(* Maps, requests and undo steps *)

\* Bindings are the partial functions from kinds to descriptors.
LEMMA BindingsAre ==
    ASSUME NEW m
    PROVE  m \in Bindings <=> /\ m = [k \in DOMAIN m |-> m[k]]
                              /\ DOMAIN m \subseteq Kind
                              /\ \A k \in DOMAIN m : m[k] \in Descriptor
<1>1. ASSUME m \in Bindings
      PROVE  /\ m = [k \in DOMAIN m |-> m[k]] /\ DOMAIN m \subseteq Kind
             /\ \A k \in DOMAIN m : m[k] \in Descriptor
  <2>1. PICK kinds \in SUBSET Kind : m \in [kinds -> Descriptor]
    BY <1>1 DEF Bindings
  <2> QED BY <2>1
<1>2. ASSUME m = [k \in DOMAIN m |-> m[k]], DOMAIN m \subseteq Kind,
             \A k \in DOMAIN m : m[k] \in Descriptor
      PROVE  m \in Bindings
  <2>1. m \in [DOMAIN m -> Descriptor]
    BY <1>2
  <2> QED BY <1>2, <2>1 DEF Bindings
<1> QED BY <1>1, <1>2

\* The pending requests of well-typed state and its counters.
LEMMA RequestTypes ==
    ASSUME TypeOK
    PROVE  /\ nextGeneration \in Nat /\ MaxRequests \in Nat /\ MaxEdits \in Nat
           /\ edits \in Nat /\ epoch \in Nat /\ edits <= MaxEdits /\ epoch <= edits
           /\ \A k \in Kind : latest[k] \in Nat /\ latest[k] < nextGeneration
           /\ \A g \in DOMAIN requests :
                 /\ g \in Nat /\ g # 0 /\ g < nextGeneration
                 /\ requests[g].kind \in Kind
                 /\ requests[g].mesh \in Mesh
                 /\ requests[g].settings \in Settings
                 /\ requests[g].phase \in {"active", "cancelled", "stale"}
                 /\ requests[g].epoch \in 0 .. MaxEdits
<1>1. MaxRequests \in Nat /\ MaxEdits \in Nat
  BY BakeAssumption
<1>2. nextGeneration \in Nat /\ edits \in Nat /\ epoch \in Nat /\ edits <= MaxEdits /\ epoch <= edits
  BY <1>1 DEF TypeOK
<1>3. \A k \in Kind : latest[k] \in Nat /\ latest[k] < nextGeneration
  BY <1>2 DEF TypeOK
<1>4. \A g \in DOMAIN requests : g \in Nat /\ g # 0 /\ g < nextGeneration
  BY <1>2 DEF TypeOK
<1>5. \A g \in DOMAIN requests :
         /\ requests[g].kind \in Kind
         /\ requests[g].mesh \in Mesh
         /\ requests[g].settings \in Settings
         /\ requests[g].phase \in {"active", "cancelled", "stale"}
         /\ requests[g].epoch \in 0 .. MaxEdits
  BY DEF TypeOK, Request
<1> QED BY <1>1, <1>2, <1>3, <1>4, <1>5

\* A compatible descriptor of some request and epoch is a descriptor.
LEMMA DescriptorTypes ==
    ASSUME TypeOK, NEW by \in 0 .. MaxRequests, NEW m \in MeshRevision,
           NEW frame \in Frame \cup {NoFrame}, NEW e \in 0 .. MaxEdits
    PROVE  [by |-> by, mesh |-> m, frame |-> frame, epoch |-> e] \in Descriptor
BY DEF Descriptor

\* A kind bound anew: its map is the new descriptor, the other maps stay.
LEMMA PutBinding ==
    ASSUME NEW m \in Bindings, NEW k \in Kind, NEW d \in Descriptor
    PROVE  /\ Put(m, k, d) \in Bindings
           /\ DOMAIN Put(m, k, d) = DOMAIN m \cup {k}
           /\ Put(m, k, d)[k] = d
           /\ \A j \in DOMAIN m : j # k => Put(m, k, d)[j] = m[j]
<1>1. /\ DOMAIN Put(m, k, d) = DOMAIN m \cup {k}
      /\ Put(m, k, d)[k] = d
      /\ \A j \in DOMAIN m : j # k => Put(m, k, d)[j] = m[j]
  BY DEF Put
<1>2. Put(m, k, d) = [j \in DOMAIN Put(m, k, d) |-> Put(m, k, d)[j]]
  BY DEF Put
<1>3. DOMAIN m \subseteq Kind /\ \A j \in DOMAIN m : m[j] \in Descriptor
  BY BindingsAre
<1>4. Put(m, k, d) \in Bindings
  BY <1>1, <1>2, <1>3, BindingsAre
<1> QED BY <1>1, <1>4

\* A smaller set of pending requests and later newest generations settle no
\* fewer maps.
LEMMA SettledStays ==
    ASSUME NEW m \in Bindings, Settled(m), TypeOK,
           \A k \in DOMAIN m : m[k].by \in Nat,
           \A k \in Kind : latest'[k] \in Nat /\ latest[k] <= latest'[k],
           \A k \in DOMAIN m : m[k].by \notin DOMAIN requests'
    PROVE  \A k \in DOMAIN m : /\ m[k].by \notin DOMAIN requests'
                               /\ m[k].by <= latest'[k]
<1> SUFFICES ASSUME NEW k \in DOMAIN m PROVE m[k].by <= latest'[k]
  OBVIOUS
<1>1. k \in Kind
  BY BindingsAre
<1> QED BY <1>1, RequestTypes DEF Settled

\* Who produced a map, and under which edit, are numbers.
LEMMA BindingNumbers ==
    ASSUME NEW m \in Bindings
    PROVE  \A k \in DOMAIN m : k \in Kind /\ m[k].by \in Nat /\ m[k].epoch \in 0 .. MaxEdits
<1>1. \A k \in DOMAIN m : k \in Kind /\ m[k] \in Descriptor
  BY BindingsAre
<1> QED BY <1>1, BakeAssumption DEF Descriptor

\* Undo steps carry maps, settings and an edit.
LEMMA StepTypes ==
    ASSUME TypeOK, NEW i \in DOMAIN history
    PROVE  /\ history[i] \in Step
           /\ history[i].maps \in Bindings
           /\ history[i].settings \in Settings
           /\ history[i].epoch \in 0 .. MaxEdits
<1>1. history[i] \in Step
  BY DEF TypeOK
<1> QED BY <1>1 DEF Step

\* A settled map stays settled while requests only go, newer ones come and
\* their kinds' newest generations grow.
LEMMA SettledMoves ==
    ASSUME TypeOK, NEW m \in Bindings, Settled(m),
           DOMAIN requests' \subseteq DOMAIN requests \cup {nextGeneration},
           \A k \in Kind : latest'[k] \in Nat /\ latest[k] <= latest'[k]
    PROVE  \A k \in DOMAIN m : /\ m[k].by \notin DOMAIN requests'
                               /\ m[k].by <= latest'[k]
<1> SUFFICES ASSUME NEW k \in DOMAIN m
             PROVE  m[k].by \notin DOMAIN requests' /\ m[k].by <= latest'[k]
  OBVIOUS
<1>1. k \in Kind /\ m[k].by \in Nat
  BY BindingNumbers
<1>2. m[k].by \notin DOMAIN requests /\ m[k].by <= latest[k]
  BY DEF Settled
<1>3. latest[k] \in Nat /\ latest[k] < nextGeneration /\ nextGeneration \in Nat
  BY <1>1, RequestTypes
<1>4. m[k].by # nextGeneration
  BY <1>1, <1>2, <1>3
<1>5. latest'[k] \in Nat /\ latest[k] <= latest'[k]
  BY <1>1
<1> QED BY <1>1, <1>2, <1>3, <1>4, <1>5

\* While the undo steps stay, so do the maps they hold.
LEMMA HistorySettled ==
    ASSUME BakeInv, history' = history,
           DOMAIN requests' \subseteq DOMAIN requests \cup {nextGeneration},
           \A k \in Kind : latest'[k] \in Nat /\ latest[k] <= latest'[k]
    PROVE  \A i \in DOMAIN history' : Settled(history[i].maps)'
<1> SUFFICES ASSUME NEW i \in DOMAIN history PROVE Settled(history[i].maps)'
  OBVIOUS
<1> DEFINE m == history[i].maps
<1>1. TypeOK /\ m \in Bindings /\ Settled(m)
  BY StepTypes DEF BakeInv
<1> HIDE DEF m
<1>2. \A k \in DOMAIN m : m[k].by \notin DOMAIN requests' /\ m[k].by <= latest'[k]
  BY <1>1, SettledMoves
<1> QED BY <1>2 DEF m, Settled

\* Steps that change bound maps only, to maps of the host or fewer of them.
LEMMA HostStepKeeps ==
    ASSUME BakeInv, UNCHANGED sessionVars, mesh' \in Mesh, maps' \in Bindings,
           \A k \in DOMAIN maps' : \/ k \in DOMAIN maps /\ maps'[k] = maps[k]
                                   \/ maps'[k].by = 0 /\ maps'[k].epoch = epoch
    PROVE  BakeInv'
<1>1. /\ settings' = settings /\ nextGeneration' = nextGeneration /\ requests' = requests
      /\ latest' = latest /\ history' = history /\ epoch' = epoch /\ edits' = edits
  BY DEF sessionVars
<1>2. TypeOK'
  BY <1>1 DEF BakeInv, TypeOK
<1>3. ActiveIsNewest'
  BY <1>1 DEF BakeInv, ActiveIsNewest
<1>4. \A n : Epochs(n)' = Epochs(n)
  BY <1>1 DEF Epochs
<1>5. NothingUndoneIsBound'
  <2>1. \A k \in DOMAIN maps' : maps'[k].epoch \in Epochs(Len(history)) \cup {epoch}
    BY DEF BakeInv, NothingUndoneIsBound
  <2>2. \A i \in DOMAIN history : \A k \in DOMAIN history[i].maps :
           history[i].maps[k].epoch \in Epochs(i)
    BY DEF BakeInv, NothingUndoneIsBound
  <2> QED BY <1>1, <1>4, <2>1, <2>2 DEF NothingUndoneIsBound
<1>6. Settled(maps)'
  <2> SUFFICES ASSUME NEW k \in DOMAIN maps'
               PROVE  maps'[k].by \notin DOMAIN requests /\ maps'[k].by <= latest[k]
    BY <1>1 DEF Settled
  <2>1. CASE k \in DOMAIN maps /\ maps'[k] = maps[k]
    BY <2>1 DEF BakeInv, Settled
  <2>2. CASE maps'[k].by = 0
    <3>1. k \in Kind /\ TypeOK
      BY BindingNumbers DEF BakeInv
    <3>2. 0 \notin DOMAIN requests /\ latest[k] \in Nat
      BY <3>1, RequestTypes
    <3> QED BY <2>2, <3>2
  <2> QED BY <2>1, <2>2
<1>7. \A i \in DOMAIN history' : Settled(history[i].maps)'
  BY <1>1 DEF BakeInv, Settled
<1>8. StepsArePast'
  BY <1>1 DEF BakeInv, StepsArePast
<1> QED BY <1>2, <1>3, <1>5, <1>6, <1>7, <1>8 DEF BakeInv

-----------------------------------------------------------------------------
(* Steps *)

\* A map the host binds is of the edit in force.
LEMMA BindKeeps ==
    ASSUME BakeInv, NEW k \in Kind, NEW m \in MeshRevision, NEW f \in Frame \cup {NoFrame},
           Bind(k, m, f)
    PROVE  BakeInv'
<1> DEFINE d == [by |-> 0, mesh |-> m, frame |-> f, epoch |-> epoch]
<1>1. TypeOK /\ maps \in Bindings /\ mesh \in Mesh
  BY DEF BakeInv, TypeOK
<1>2. 0 \in 0 .. MaxRequests /\ epoch \in 0 .. MaxEdits
  BY <1>1, RequestTypes
<1>3. d \in Descriptor
  BY <1>1, <1>2, DescriptorTypes
<1>4. d.by = 0 /\ d.epoch = epoch
  OBVIOUS
<1>5. maps' = Put(maps, k, d) /\ mesh' = mesh /\ UNCHANGED sessionVars
  BY DEF Bind
<1> HIDE DEF d
<1>6. /\ maps' \in Bindings /\ DOMAIN maps' = DOMAIN maps \cup {k} /\ maps'[k] = d
      /\ \A j \in DOMAIN maps : j # k => maps'[j] = maps[j]
  BY <1>1, <1>3, <1>5, PutBinding
<1>7. \A j \in DOMAIN maps' : \/ j \in DOMAIN maps /\ maps'[j] = maps[j]
                              \/ maps'[j].by = 0 /\ maps'[j].epoch = epoch
  BY <1>4, <1>6
<1> QED BY <1>1, <1>5, <1>6, <1>7, HostStepKeeps

\* Released maps are bound no more.
LEMMA ReleaseKeeps ==
    ASSUME BakeInv, NEW kinds, Release(kinds)
    PROVE  BakeInv'
<1>1. maps \in Bindings /\ mesh \in Mesh
  BY DEF BakeInv, TypeOK
<1>2. maps' = [k \in DOMAIN maps \ kinds |-> maps[k]] /\ mesh' = mesh /\ UNCHANGED sessionVars
  BY DEF Release
<1>3. \A k \in DOMAIN maps' : k \in DOMAIN maps /\ maps'[k] = maps[k]
  BY <1>2
<1>4. maps' = [k \in DOMAIN maps' |-> maps'[k]]
  BY <1>2
<1>5. DOMAIN maps \subseteq Kind /\ \A k \in DOMAIN maps : maps[k] \in Descriptor
  BY <1>1, BindingsAre
<1>6. maps' \in Bindings
  BY <1>3, <1>4, <1>5, BindingsAre
<1> QED BY <1>1, <1>2, <1>3, <1>6, HostStepKeeps

\* A new mesh leaves the bound maps alone.
LEMMA SynchronizeMeshKeeps ==
    ASSUME BakeInv, NEW m \in Mesh, SynchronizeMesh(m)
    PROVE  BakeInv'
<1>1. maps \in Bindings
  BY DEF BakeInv, TypeOK
<1> QED BY <1>1, HostStepKeeps DEF SynchronizeMesh

\* The kind's older request is overtaken by the new one.
LEMMA BeginRequestKeeps ==
    ASSUME BakeInv, NEW k \in Kind, BeginRequest(k)
    PROVE  BakeInv'
<1> DEFINE r == [kind |-> k, mesh |-> mesh, settings |-> settings,
                 phase |-> "active", epoch |-> epoch]
           old == Superseded(k)
<1>1. TypeOK /\ ActiveIsNewest
  BY DEF BakeInv
<1>2. /\ nextGeneration <= MaxRequests
      /\ requests' = Put(old, nextGeneration, r)
      /\ latest' = [latest EXCEPT ![k] = nextGeneration]
      /\ nextGeneration' = nextGeneration + 1
      /\ maps' = maps /\ mesh' = mesh /\ settings' = settings
      /\ history' = history /\ epoch' = epoch /\ edits' = edits
  BY DEF BeginRequest, GenerationsLeft
<1>3. /\ DOMAIN old = DOMAIN requests
      /\ \A g \in DOMAIN requests :
            /\ old[g].kind = requests[g].kind /\ old[g].mesh = requests[g].mesh
            /\ old[g].settings = requests[g].settings /\ old[g].epoch = requests[g].epoch
            /\ old[g] \in Request
            /\ old[g].phase = IF g = latest[k] THEN "stale" ELSE requests[g].phase
  <2>1. \A g \in DOMAIN requests : requests[g] \in Request
    BY <1>1 DEF TypeOK
  <2>2. CASE latest[k] \in DOMAIN requests
    <3>1. old = [requests EXCEPT ![latest[k]].phase = "stale"]
      BY <2>2 DEF Superseded
    <3>2. DOMAIN old = DOMAIN requests
      BY <3>1
    <3>3. ASSUME NEW g \in DOMAIN requests, g # latest[k]
          PROVE  old[g] = requests[g]
      BY <3>1, <3>3
    <3>4. old[latest[k]] = [requests[latest[k]] EXCEPT !.phase = "stale"]
      BY <2>2, <3>1
    <3>5. requests[latest[k]] \in Request
      BY <2>1, <2>2
    <3> HIDE DEF old
    <3>6. /\ old[latest[k]].kind = requests[latest[k]].kind
          /\ old[latest[k]].mesh = requests[latest[k]].mesh
          /\ old[latest[k]].settings = requests[latest[k]].settings
          /\ old[latest[k]].epoch = requests[latest[k]].epoch
          /\ old[latest[k]] \in Request
          /\ old[latest[k]].phase = "stale"
      BY <3>4, <3>5 DEF Request
    <3> QED BY <2>1, <2>2, <3>2, <3>3, <3>6
  <2>3. CASE latest[k] \notin DOMAIN requests
    <3>1. old = requests
      BY <2>3 DEF Superseded
    <3> HIDE DEF old
    <3> QED BY <2>1, <2>3, <3>1
  <2> QED BY <2>2, <2>3
<1> HIDE DEF old
<1>4. /\ DOMAIN requests' = DOMAIN requests \cup {nextGeneration}
      /\ requests'[nextGeneration] = r
      /\ \A g \in DOMAIN requests : g # nextGeneration => requests'[g] = old[g]
  BY <1>2, <1>3 DEF Put
<1>5. /\ nextGeneration \in Nat /\ nextGeneration # 0 /\ MaxRequests \in Nat
      /\ \A j \in Kind : latest[j] \in Nat /\ latest[j] < nextGeneration
      /\ \A g \in DOMAIN requests : g \in Nat /\ g # 0 /\ g < nextGeneration
      /\ latest \in [Kind -> Nat]
  <2>1. nextGeneration # 0 /\ latest \in [Kind -> 0 .. nextGeneration - 1]
    BY <1>1, RequestTypes DEF TypeOK
  <2> QED BY <1>1, <2>1, RequestTypes
<1>6. \A g \in DOMAIN requests : requests'[g] = old[g]
  BY <1>4, <1>5
<1>7. r \in Request
  <2>1. mesh \in Mesh /\ settings \in Settings /\ epoch \in 0 .. MaxEdits
    BY <1>1, RequestTypes DEF TypeOK
  <2> QED BY <2>1 DEF Request
<1>8. TypeOK'
  <2>1. nextGeneration' \in 1 .. MaxRequests + 1
    BY <1>2, <1>5
  <2>2. DOMAIN requests' \subseteq 1 .. nextGeneration' - 1
    BY <1>2, <1>4, <1>5
  <2>3. \A g \in DOMAIN requests' : requests'[g] \in Request
    BY <1>3, <1>4, <1>6, <1>7
  <2>4. latest' \in [Kind -> 0 .. nextGeneration' - 1]
    BY <1>2, <1>5
  <2> QED BY <1>1, <1>2, <2>1, <2>2, <2>3, <2>4 DEF TypeOK
<1>9. \A j \in Kind : latest'[j] = IF j = k THEN nextGeneration ELSE latest[j]
  BY <1>2, <1>5
<1>10. ActiveIsNewest'
  <2> SUFFICES ASSUME NEW g \in DOMAIN requests', requests'[g].phase = "active"
               PROVE  /\ latest'[requests'[g].kind] = g
                      /\ requests'[g].settings = settings'
                      /\ requests'[g].epoch = epoch'
    BY DEF ActiveIsNewest
  <2>1. CASE g = nextGeneration
    BY <1>2, <1>4, <1>9, <2>1
  <2>2. CASE g \in DOMAIN requests
    <3>1. /\ requests'[g] = old[g] /\ g # latest[k] /\ requests[g].phase = "active"
          /\ requests[g].kind \in Kind
      BY <1>1, <1>3, <1>6, <2>2, RequestTypes
    <3>2. /\ latest[requests[g].kind] = g /\ requests[g].settings = settings
          /\ requests[g].epoch = epoch
      BY <1>1, <2>2, <3>1 DEF ActiveIsNewest
    <3>3. requests[g].kind # k
      BY <3>1, <3>2
    <3> QED BY <1>2, <1>3, <1>9, <2>2, <3>1, <3>2, <3>3
  <2> QED BY <1>4, <2>1, <2>2
<1>11. NothingUndoneIsBound'
  BY <1>2 DEF BakeInv, NothingUndoneIsBound, Epochs
<1>12. \A j \in Kind : latest'[j] \in Nat /\ latest[j] <= latest'[j]
  BY <1>5, <1>9
<1>13. Settled(maps)'
  <2>1. maps \in Bindings /\ Settled(maps)
    BY <1>1 DEF BakeInv, TypeOK
  <2>2. \A j \in DOMAIN maps : maps[j].by \notin DOMAIN requests' /\ maps[j].by <= latest'[j]
    BY <1>1, <1>4, <1>12, <2>1, SettledMoves
  <2> QED BY <1>2, <2>2 DEF Settled
<1>14. \A i \in DOMAIN history' : Settled(history[i].maps)'
  BY <1>2, <1>4, <1>12, HistorySettled
<1>15. StepsArePast'
  BY <1>2 DEF BakeInv, StepsArePast
<1> QED BY <1>8, <1>10, <1>11, <1>13, <1>14, <1>15 DEF BakeInv

\* Steps after which no request is active that was not, and none is newer.
LEMMA RequestsGoKeeps ==
    ASSUME BakeInv,
           DOMAIN requests' \subseteq DOMAIN requests,
           \A g \in DOMAIN requests' :
              /\ requests'[g] \in Request
              /\ requests'[g].phase = "active" => requests'[g] = requests[g],
           UNCHANGED <<maps, mesh, settings, nextGeneration, latest, history, epoch, edits>>
    PROVE  BakeInv'
<1>1. /\ maps' = maps /\ mesh' = mesh /\ settings' = settings
      /\ nextGeneration' = nextGeneration /\ latest' = latest
      /\ history' = history /\ epoch' = epoch /\ edits' = edits
  OBVIOUS
<1>2. TypeOK'
  BY <1>1 DEF BakeInv, TypeOK
<1>3. ActiveIsNewest'
  BY <1>1 DEF BakeInv, ActiveIsNewest
<1>4. NothingUndoneIsBound'
  BY <1>1 DEF BakeInv, NothingUndoneIsBound, Epochs
<1>5. Settled(maps)' /\ \A i \in DOMAIN history' : Settled(history[i].maps)'
  BY <1>1 DEF BakeInv, Settled
<1>6. StepsArePast'
  BY <1>1 DEF BakeInv, StepsArePast
<1> QED BY <1>2, <1>3, <1>4, <1>5, <1>6 DEF BakeInv

\* A cancelled request waits for its result, which will not be bound.
LEMMA CancelRequestKeeps ==
    ASSUME BakeInv, NEW g, CancelRequest(g)
    PROVE  BakeInv'
<1>1. g \in DOMAIN requests /\ requests' = [requests EXCEPT ![g].phase = "cancelled"]
  BY DEF CancelRequest
<1>2. \A h \in DOMAIN requests : requests[h] \in Request
  BY DEF BakeInv, TypeOK
<1>3. /\ DOMAIN requests' = DOMAIN requests
      /\ \A h \in DOMAIN requests : h # g => requests'[h] = requests[h]
      /\ requests'[g] = [requests[g] EXCEPT !.phase = "cancelled"]
  BY <1>1
<1>4. requests'[g] \in Request /\ requests'[g].phase = "cancelled"
  BY <1>1, <1>2, <1>3 DEF Request
<1>5. \A h \in DOMAIN requests' :
         /\ requests'[h] \in Request
         /\ requests'[h].phase = "active" => requests'[h] = requests[h]
  BY <1>2, <1>3, <1>4
<1>6. UNCHANGED <<maps, mesh, settings, nextGeneration, latest, history, epoch, edits>>
  BY DEF CancelRequest
<1> QED BY <1>3, <1>5, <1>6, RequestsGoKeeps

\* A result that is bound is of the edit in force, and its request is gone.
LEMMA CompleteRequestKeeps ==
    ASSUME BakeInv, NEW g \in Generation, NEW f \in Frame \cup {NoFrame}, NEW sized \in BOOLEAN,
           CompleteRequest(g, f, sized)
    PROVE  BakeInv'
<1> DEFINE r == requests[g]
           d == [by |-> g, mesh |-> r.mesh.revision, frame |-> f, epoch |-> r.epoch]
<1>1. /\ g \in DOMAIN requests
      /\ maps' = IF Current(g) /\ sized /\ Compatible(r.kind, d)
                   THEN Put(maps, r.kind, d) ELSE maps
      /\ requests' = Drop(requests, g)
      /\ mesh' = mesh /\ settings' = settings /\ nextGeneration' = nextGeneration
      /\ latest' = latest /\ history' = history /\ epoch' = epoch /\ edits' = edits
  BY DEF CompleteRequest
<1>2. TypeOK /\ ActiveIsNewest /\ maps \in Bindings /\ Settled(maps)
  BY DEF BakeInv, TypeOK
<1>3. /\ DOMAIN requests' = DOMAIN requests \ {g}
      /\ \A h \in DOMAIN requests' : requests'[h] = requests[h]
  BY <1>1 DEF Drop
<1>4. CASE maps' = maps
  <2>1. \A h \in DOMAIN requests : requests[h] \in Request
    BY <1>2 DEF TypeOK
  <2>2. UNCHANGED <<maps, mesh, settings, nextGeneration, latest, history, epoch, edits>>
    BY <1>1, <1>4
  <2> QED BY <1>3, <2>1, <2>2, RequestsGoKeeps
<1>5. CASE Current(g) /\ maps' = Put(maps, r.kind, d)
  <2>1. /\ r.kind \in Kind /\ r.mesh \in Mesh /\ r.epoch \in 0 .. MaxEdits
        /\ g \in 0 .. MaxRequests
    BY <1>1, <1>2, RequestTypes DEF Generation
  <2>2. d \in Descriptor
    BY <1>2, <2>1, DescriptorTypes DEF MeshRevision
  <2>3. d.by = g /\ d.epoch = epoch /\ g <= latest[r.kind]
    <3>1. latest[r.kind] = g /\ r.phase = "active"
      BY <1>5 DEF Current
    <3>2. r.epoch = epoch
      BY <1>1, <1>2, <3>1 DEF ActiveIsNewest
    <3> QED BY <2>1, <3>1, <3>2
  <2> DEFINE k == r.kind
  <2> HIDE DEF d, r
  <2>3a. maps' = Put(maps, k, d) /\ k \in Kind
    BY <1>5, <2>1
  <2> HIDE DEF k
  <2>4. /\ maps' \in Bindings /\ DOMAIN maps' = DOMAIN maps \cup {k} /\ maps'[k] = d
        /\ \A j \in DOMAIN maps : j # k => maps'[j] = maps[j]
    BY <1>2, <2>3a, <2>2, PutBinding
  <2>5. TypeOK'
    <3>1. DOMAIN requests' \subseteq 1 .. nextGeneration' - 1
             /\ \A h \in DOMAIN requests' : requests'[h] \in Request
      BY <1>1, <1>2, <1>3 DEF TypeOK
    <3> QED BY <1>1, <1>2, <2>4, <3>1 DEF TypeOK
  <2>6. ActiveIsNewest'
    BY <1>1, <1>2, <1>3 DEF ActiveIsNewest
  <2>7. NothingUndoneIsBound'
    <3>1. \A j \in DOMAIN maps' : maps'[j].epoch \in Epochs(Len(history)) \cup {epoch}
      BY <2>3, <2>4 DEF BakeInv, NothingUndoneIsBound
    <3>2. \A i \in DOMAIN history : \A j \in DOMAIN history[i].maps :
             history[i].maps[j].epoch \in Epochs(i)
      BY DEF BakeInv, NothingUndoneIsBound
    <3>3. \A n : Epochs(n)' = Epochs(n)
      BY <1>1 DEF Epochs
    <3> QED BY <1>1, <3>1, <3>2, <3>3 DEF NothingUndoneIsBound
  <2>8. Settled(maps)'
    BY <1>1, <1>2, <1>3, <2>3, <2>4 DEF Settled, k
  <2>9. \A j \in Kind : latest'[j] \in Nat /\ latest[j] <= latest'[j]
    BY <1>1, <1>2, RequestTypes
  <2>10. \A i \in DOMAIN history' : Settled(history[i].maps)'
    BY <1>1, <1>3, <2>9, HistorySettled
  <2>11. StepsArePast'
    BY <1>1 DEF BakeInv, StepsArePast
  <2> QED BY <2>5, <2>6, <2>7, <2>8, <2>10, <2>11 DEF BakeInv
<1> QED BY <1>1, <1>4, <1>5

\* No request is active once the settings changed.
LEMMA InvalidatedFields ==
    ASSUME TypeOK
    PROVE  /\ DOMAIN Invalidated = DOMAIN requests
           /\ \A g \in DOMAIN Invalidated : /\ Invalidated[g] \in Request
                                            /\ Invalidated[g].phase # "active"
<1>1. DOMAIN Invalidated = DOMAIN requests
  BY DEF Invalidated
<1>2. ASSUME NEW g \in DOMAIN requests
      PROVE  Invalidated[g] \in Request /\ Invalidated[g].phase # "active"
  <2>1. Invalidated[g] = [requests[g] EXCEPT !.phase =
                            IF requests[g].phase = "active" THEN "stale" ELSE requests[g].phase]
    BY <1>2 DEF Invalidated
  <2>2. requests[g] \in Request
    BY <1>2 DEF TypeOK
  <2>3. CASE requests[g].phase = "active"
    <3>1. Invalidated[g] = [requests[g] EXCEPT !.phase = "stale"]
      BY <2>1, <2>3
    <3> QED BY <2>2, <3>1 DEF Request
  <2>4. CASE requests[g].phase # "active"
    <3>1. Invalidated[g] = [requests[g] EXCEPT !.phase = requests[g].phase]
      BY <2>1, <2>4
    <3> QED BY <2>2, <2>4, <3>1 DEF Request
  <2> QED BY <2>3, <2>4
<1> QED BY <1>1, <1>2

\* An edit keeps the bound maps for its undo, under the edit before it.
LEMMA EditSettingsKeeps ==
    ASSUME BakeInv, NEW s \in Settings, EditSettings(s)
    PROVE  BakeInv'
<1> DEFINE top == [settings |-> settings, maps |-> maps, epoch |-> epoch]
<1>1. /\ edits < MaxEdits /\ history' = Append(history, top) /\ settings' = s
      /\ requests' = Invalidated /\ edits' = edits + 1 /\ epoch' = edits + 1
      /\ maps' = maps /\ mesh' = mesh
      /\ nextGeneration' = nextGeneration /\ latest' = latest
  BY DEF EditSettings
<1>2. TypeOK /\ maps \in Bindings /\ Settled(maps)
  BY DEF BakeInv, TypeOK
<1>3. top \in Step /\ top.maps = maps /\ top.epoch = epoch
  <2>1. settings \in Settings /\ epoch \in 0 .. MaxEdits
    BY <1>2, RequestTypes DEF TypeOK
  <2> QED BY <1>2, <2>1 DEF Step
<1> HIDE DEF top
<1>4. /\ history \in Seq(Step) /\ history' \in Seq(Step)
      /\ Len(history) \in Nat /\ Len(history') = Len(history) + 1
      /\ DOMAIN history = 1 .. Len(history)
      /\ DOMAIN history' = 1 .. Len(history) + 1
      /\ \A i \in DOMAIN history : history'[i] = history[i]
      /\ history'[Len(history) + 1] = top
  BY <1>1, <1>2, <1>3 DEF TypeOK
<1>5. /\ DOMAIN requests' = DOMAIN requests
      /\ \A g \in DOMAIN requests' : requests'[g] \in Request /\ requests'[g].phase # "active"
  BY <1>1, <1>2, InvalidatedFields
<1>6. TypeOK'
  <2>1. edits' \in 0 .. MaxEdits /\ epoch' \in 0 .. edits'
    BY <1>1, <1>2, RequestTypes
  <2> QED BY <1>1, <1>2, <1>4, <1>5, <2>1 DEF TypeOK
<1>7. ActiveIsNewest'
  BY <1>5 DEF ActiveIsNewest
<1>8. \A i \in DOMAIN history : Epochs(i) \subseteq Epochs(i)'
  BY <1>4 DEF Epochs
<1>9. Epochs(Len(history)) \cup {epoch} \subseteq Epochs(Len(history))'
  BY <1>3, <1>4 DEF Epochs
<1>10. NothingUndoneIsBound'
  <2>1. \A k \in DOMAIN maps' : maps'[k].epoch \in Epochs(Len(history))'
    BY <1>1, <1>9 DEF BakeInv, NothingUndoneIsBound
  <2>2. ASSUME NEW i \in DOMAIN history', NEW k \in DOMAIN history'[i].maps
        PROVE  history'[i].maps[k].epoch \in Epochs(i)'
    <3>1. CASE i \in DOMAIN history
      BY <1>4, <1>8, <2>2, <3>1 DEF BakeInv, NothingUndoneIsBound
    <3>2. CASE i = Len(history) + 1
      <4>1. history'[i].maps = maps'
        BY <1>1, <1>3, <1>4, <3>2
      <4>2. Epochs(Len(history))' = Epochs(i)'
        BY <1>4, <3>2 DEF Epochs
      <4> QED BY <2>1, <2>2, <4>1, <4>2
    <3> QED BY <1>4, <3>1, <3>2
  <2> QED BY <2>1, <2>2 DEF NothingUndoneIsBound
<1>11. Settled(maps)'
  BY <1>1, <1>2, <1>5 DEF Settled
<1>12. ASSUME NEW i \in DOMAIN history' PROVE Settled(history[i].maps)'
  <2>1. CASE i \in DOMAIN history
    <3>1. Settled(history[i].maps)
      BY <2>1 DEF BakeInv
    <3> QED BY <1>1, <1>4, <1>5, <2>1, <3>1 DEF Settled
  <2>2. CASE i = Len(history) + 1
    BY <1>1, <1>2, <1>3, <1>4, <1>5, <2>2 DEF Settled
  <2> QED BY <1>4, <2>1, <2>2
<1>13. StepsArePast'
  <2>1. edits \in Nat /\ epoch \in Nat /\ epoch <= edits /\ edits' = edits + 1
    BY <1>1, <1>2, RequestTypes
  <2>2. ASSUME NEW i \in DOMAIN history' PROVE history'[i].epoch <= edits'
    <3>1. CASE i \in DOMAIN history
      <4>1. history[i].epoch <= edits /\ history[i].epoch \in Nat
        BY <1>2, <3>1, StepTypes, BakeAssumption DEF BakeInv, StepsArePast
      <4> QED BY <1>4, <2>1, <3>1, <4>1
    <3>2. CASE i = Len(history) + 1
      BY <1>3, <1>4, <2>1, <3>2
    <3> QED BY <1>4, <2>2, <3>1, <3>2
  <2> QED BY <2>2 DEF StepsArePast
<1> QED BY <1>6, <1>7, <1>10, <1>11, <1>12, <1>13 DEF BakeInv

\* An undo puts back maps of the edits that stay in force.
LEMMA UndoSettingsEditKeeps ==
    ASSUME BakeInv, UndoSettingsEdit
    PROVE  BakeInv'
<1> DEFINE n == Len(history)
           top == history[n]
<1>1. /\ history # <<>> /\ maps' = top.maps /\ settings' = top.settings
      /\ epoch' = top.epoch /\ history' = SubSeq(history, 1, n - 1)
      /\ requests' = Invalidated /\ mesh' = mesh
      /\ nextGeneration' = nextGeneration /\ latest' = latest /\ edits' = edits
  BY DEF UndoSettingsEdit, LastStep
<1>2. TypeOK /\ history \in Seq(Step)
  BY DEF BakeInv, TypeOK
<1>3. /\ n \in Nat /\ n # 0 /\ DOMAIN history = 1 .. n
  BY <1>1, <1>2
<1>4. n \in DOMAIN history
  BY <1>3
<1>5. /\ top.maps \in Bindings /\ top.settings \in Settings /\ top.epoch \in 0 .. MaxEdits
  BY <1>2, <1>4, StepTypes
<1>6. /\ history' \in Seq(Step) /\ Len(history') = n - 1 /\ DOMAIN history' = 1 .. n - 1
      /\ \A i \in DOMAIN history' : i \in DOMAIN history /\ history'[i] = history[i]
  BY <1>1, <1>2, <1>3
<1> HIDE DEF n, top
<1>7. /\ DOMAIN requests' = DOMAIN requests
      /\ \A g \in DOMAIN requests' : requests'[g] \in Request /\ requests'[g].phase # "active"
  BY <1>1, <1>2, InvalidatedFields
<1>8. TypeOK'
  <2>1. epoch' \in 0 .. edits'
    <3>1. top.epoch <= edits /\ top.epoch \in Nat /\ edits \in Nat
      <4>1. top.epoch <= edits
        BY <1>4 DEF BakeInv, StepsArePast, top
      <4> QED BY <1>2, <1>5, <4>1, RequestTypes
    <3> QED BY <1>1, <3>1
  <2> QED BY <1>1, <1>2, <1>5, <1>6, <1>7, <2>1 DEF TypeOK
<1>9. ActiveIsNewest'
  BY <1>7 DEF ActiveIsNewest
<1>10. \A i \in 0 .. n - 1 : Epochs(i)' = Epochs(i)
  BY <1>3, <1>6 DEF Epochs
<1>11. NothingUndoneIsBound'
  <2>1. ASSUME NEW k \in DOMAIN maps'
        PROVE  maps'[k].epoch \in Epochs(n - 1) \cup {epoch'}
    <3>1. maps'[k].epoch \in Epochs(n)
      BY <1>1, <1>4, <2>1 DEF BakeInv, NothingUndoneIsBound, top
    <3>2. PICK i \in 1 .. n : history[i].epoch = maps'[k].epoch
      BY <3>1 DEF Epochs
    <3>3. CASE i = n
      BY <1>1, <3>2, <3>3 DEF top
    <3>4. CASE i # n
      <4>1. i \in 1 .. n - 1
        BY <1>3, <3>2, <3>4
      <4> QED BY <3>2, <4>1 DEF Epochs
    <3> QED BY <3>3, <3>4
  <2>2. n - 1 \in 0 .. n - 1
    BY <1>3
  <2>3. ASSUME NEW i \in DOMAIN history', NEW k \in DOMAIN history'[i].maps
        PROVE  history'[i].maps[k].epoch \in Epochs(i)'
    <3>1. i \in 0 .. n - 1 /\ i \in DOMAIN history /\ history'[i] = history[i]
      BY <1>3, <1>6
    <3>2. history[i].maps[k].epoch \in Epochs(i)
      BY <2>3, <3>1 DEF BakeInv, NothingUndoneIsBound
    <3> QED BY <1>10, <3>1, <3>2
  <2> QED BY <1>6, <1>10, <2>1, <2>2, <2>3 DEF NothingUndoneIsBound
<1>12. Settled(maps)'
  <2>1. Settled(top.maps)
    BY <1>4 DEF BakeInv, top
  <2> QED BY <1>1, <1>7, <2>1 DEF Settled
<1>13. \A i \in DOMAIN history' : Settled(history[i].maps)'
  BY <1>1, <1>6, <1>7 DEF BakeInv, Settled
<1>14. StepsArePast'
  BY <1>1, <1>6 DEF BakeInv, StepsArePast
<1> QED BY <1>8, <1>9, <1>11, <1>12, <1>13, <1>14 DEF BakeInv

\* The session starts with no maps, no requests and no undo steps.
LEMMA InitBakeInv ==
    ASSUME Init
    PROVE  BakeInv
<1>1. /\ DOMAIN maps = {} /\ maps = <<>> /\ DOMAIN requests = {} /\ history = <<>>
      /\ DOMAIN history = {} /\ Len(history) = 0 /\ epoch = 0 /\ edits = 0
      /\ nextGeneration = 1 /\ settings = FirstSettings /\ mesh \in Mesh
      /\ latest = [k \in Kind |-> 0]
  BY DEF Init
<1>2. TypeOK
  <2>1. maps \in Bindings
    <3>1. maps = [k \in DOMAIN maps |-> maps[k]]
      BY <1>1
    <3> QED BY <1>1, <3>1, BindingsAre
  <2>2. MaxRequests \in Nat /\ MaxEdits \in Nat /\ FirstSettings \in Settings
    BY BakeAssumption
  <2>3. 1 \in 1 .. MaxRequests + 1 /\ 0 \in 0 .. MaxEdits
    BY <2>2
  <2>4. history \in Seq(Step)
    BY <1>1
  <2> QED BY <1>1, <2>1, <2>2, <2>3, <2>4 DEF TypeOK
<1> QED BY <1>1, <1>2 DEF BakeInv, ActiveIsNewest, NothingUndoneIsBound, Settled, StepsArePast

-----------------------------------------------------------------------------
(* Theorems *)

\* Every operation keeps the invariant.
LEMMA BakeStepKeeps ==
    ASSUME BakeInv, [Next]_vars
    PROVE  BakeInv'
<1>1. CASE UNCHANGED vars
  BY <1>1 DEF vars, BakeInv, TypeOK, ActiveIsNewest, NothingUndoneIsBound, Epochs,
              Settled, StepsArePast
<1>2. ASSUME NEW k \in Kind, NEW m \in MeshRevision, NEW f \in Frame \cup {NoFrame}, Bind(k, m, f)
      PROVE  BakeInv'
  BY <1>2, BindKeeps
<1>3. ASSUME NEW kinds, Release(kinds) PROVE BakeInv'
  BY <1>3, ReleaseKeeps
<1>4. ASSUME NEW m \in Mesh, SynchronizeMesh(m) PROVE BakeInv'
  BY <1>4, SynchronizeMeshKeeps
<1>5. ASSUME NEW k \in Kind, BeginRequest(k) PROVE BakeInv'
  BY <1>5, BeginRequestKeeps
<1>6. ASSUME NEW g \in Generation, CancelRequest(g) PROVE BakeInv'
  BY <1>6, CancelRequestKeeps
<1>7. ASSUME NEW g \in Generation, NEW f \in Frame \cup {NoFrame}, NEW sized \in BOOLEAN,
             CompleteRequest(g, f, sized)
      PROVE  BakeInv'
  BY <1>7, CompleteRequestKeeps
<1>8. ASSUME NEW s \in Settings, EditSettings(s) PROVE BakeInv'
  BY <1>8, EditSettingsKeeps
<1>9. CASE UndoSettingsEdit
  BY <1>9, UndoSettingsEditKeeps
<1> QED BY <1>1, <1>2, <1>3, <1>4, <1>5, <1>6, <1>7, <1>8, <1>9 DEF Next

\* The inductive invariant holds of every session.
THEOREM BakeInvariant == Spec => []BakeInv
<1>1. Init => BakeInv
  BY InitBakeInv
<1>2. BakeInv /\ [Next]_vars => BakeInv'
  BY BakeStepKeeps
<1> QED BY <1>1, <1>2, PTL DEF Spec

\* Every session has its type in every reachable state.
THEOREM BakeTypeCorrect == Spec => []TypeOK
<1>1. BakeInv => TypeOK
  BY DEF BakeInv
<1> QED BY <1>1, BakeInvariant, PTL

\* Only the newest request of a kind, under the settings in force, may still
\* bind its result.
THEOREM OnlyTheNewestBinds == Spec => []ActiveIsNewest
<1>1. BakeInv => ActiveIsNewest
  BY DEF BakeInv
<1> QED BY <1>1, BakeInvariant, PTL

\* Maps of an edit that was undone are bound nowhere, nor in an undo step that
\* could bring them back.
THEOREM UndoneMapsStayAway == Spec => []NothingUndoneIsBound
<1>1. BakeInv => NothingUndoneIsBound
  BY DEF BakeInv
<1> QED BY <1>1, BakeInvariant, PTL

\* Results take effect in the order they were asked for.
THEOREM ResultsStayInOrder == Spec => ResultsBindInOrder
<1> DEFINE Ordered == history' = history =>
             \A k \in DOMAIN maps' :
                maps'[k].by # 0 /\ (k \in DOMAIN maps => maps[k] # maps'[k]) =>
                    /\ k \in DOMAIN maps => maps[k].by < maps'[k].by
                    /\ maps'[k].mesh = mesh.revision
<1>1. BakeInv /\ [Next]_vars => [Ordered]_vars
  <2> SUFFICES ASSUME BakeInv, Next, history' = history, NEW k \in DOMAIN maps',
                      maps'[k].by # 0, k \in DOMAIN maps => maps[k] # maps'[k]
               PROVE  /\ k \in DOMAIN maps => maps[k].by < maps'[k].by
                      /\ maps'[k].mesh = mesh.revision
    BY DEF Ordered
  <2>1. TypeOK /\ maps \in Bindings /\ Settled(maps)
    BY DEF BakeInv, TypeOK
  <2>2. ASSUME NEW g \in Generation, NEW f \in Frame \cup {NoFrame}, NEW sized \in BOOLEAN,
               CompleteRequest(g, f, sized)
        PROVE  /\ k \in DOMAIN maps => maps[k].by < maps'[k].by
               /\ maps'[k].mesh = mesh.revision
    <3> DEFINE r == requests[g]
               d == [by |-> g, mesh |-> r.mesh.revision, frame |-> f, epoch |-> r.epoch]
    <3>1. /\ g \in DOMAIN requests
          /\ maps' # maps => Current(g)
          /\ maps' # maps => maps' = Put(maps, r.kind, d)
      BY <2>2 DEF CompleteRequest
    <3>2. maps' # maps
      OBVIOUS
    <3>3. /\ r.mesh = mesh /\ latest[r.kind] = g
      BY <3>1, <3>2 DEF Current
    <3>4. r.kind \in Kind /\ g \in Nat
      BY <2>1, <3>1, RequestTypes
    <3>5. d.by = g /\ d.mesh = mesh.revision
      BY <3>3
    <3> HIDE DEF d, r
    <3>6. \A j \in DOMAIN maps' : j # r.kind => j \in DOMAIN maps /\ maps'[j] = maps[j]
      BY <3>1, <3>2 DEF Put
    <3>7. k = r.kind /\ maps'[k] = d
      <4>1. k = r.kind
        BY <3>6
      <4> QED BY <3>1, <3>2, <4>1 DEF Put
    <3>8. k \in DOMAIN maps => maps[k].by < g
      <4> SUFFICES ASSUME k \in DOMAIN maps PROVE maps[k].by < g
        OBVIOUS
      <4>1. maps[k].by \in Nat
        BY <2>1, BindingNumbers
      <4>2. maps[k].by <= g /\ maps[k].by # g
        BY <2>1, <3>1, <3>3, <3>7 DEF Settled
      <4> QED BY <3>4, <4>1, <4>2
    <3> QED BY <3>5, <3>7, <3>8
  <2>3. ASSUME NEW j \in Kind, NEW m \in MeshRevision, NEW f \in Frame \cup {NoFrame},
               Bind(j, m, f)
        PROVE  FALSE
    <3>1. maps' = Put(maps, j, [by |-> 0, mesh |-> m, frame |-> f, epoch |-> epoch])
      BY <2>3 DEF Bind
    <3>2. maps'[k].by = 0 \/ (k \in DOMAIN maps /\ maps'[k] = maps[k])
      BY <3>1 DEF Put
    <3> QED BY <3>2
  <2>4. ASSUME NEW kinds, Release(kinds) PROVE FALSE
    BY <2>4 DEF Release
  <2>5. ASSUME maps' = maps PROVE FALSE
    BY <2>5
  <2>6. ASSUME NEW s \in Settings, EditSettings(s) PROVE FALSE
    <3>1. history \in Seq(Step) /\ maps' = maps
      BY <2>1, <2>6 DEF TypeOK, EditSettings
    <3> QED BY <2>5, <3>1
  <2>7. ASSUME UndoSettingsEdit PROVE FALSE
    <3>1. history \in Seq(Step) /\ history # <<>> /\ history' = SubSeq(history, 1, Len(history) - 1)
      BY <2>1, <2>7 DEF TypeOK, UndoSettingsEdit
    <3>2. Len(history) \in Nat /\ Len(history) # 0
      BY <3>1
    <3>3. Len(history') = Len(history) - 1
      BY <3>1, <3>2
    <3> QED BY <3>2, <3>3
  <2> QED BY <2>2, <2>3, <2>4, <2>5, <2>6, <2>7
          DEF Next, SynchronizeMesh, BeginRequest, CancelRequest
<1> QED BY <1>1, BakeInvariant, PTL DEF Spec, ResultsBindInOrder
=============================================================================
