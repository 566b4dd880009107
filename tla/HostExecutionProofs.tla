------------------------ MODULE HostExecutionProofs ------------------------
(***************************************************************************)
(* Proofs about HostExecution for any identities, generations and bounds:  *)
(* the reference counts are exact, no generation has two writers, the      *)
(* committed revision can be restored, and the session implements          *)
(* HostPublication.  One inductive invariant carries them all.             *)
(***************************************************************************)
EXTENDS HostExecution, FiniteSetTheorems, TLAPS

\* Outputs of a submission in flight name one generation per identity.
DistinctOutputs ==
    \A t \in DOMAIN active : \A v, w \in active[t].outputs : v[1] = w[1] => v = w

\* The inductive invariant: exact counts are what makes an unheld output one
\* that nobody writes and the document does not hold.
HostInv ==
    TypeOK /\ HoldsExact /\ SoleWriter /\ EvidenceRestoresCommitted /\ DistinctOutputs

-----------------------------------------------------------------------------
(* Counting *)

\* Tokens given out are finitely many, so what names a version can be counted.
LEMMA NamingFinite ==
    ASSUME TypeOK
    PROVE  /\ \A v \in Version : IsFiniteSet(Naming(v)) /\ Cardinality(Naming(v)) \in Nat
           /\ nextToken \notin DOMAIN active
           /\ DOMAIN active \subseteq Nat
<1>1. nextToken \in Nat /\ DOMAIN active \subseteq 1 .. nextToken - 1
  BY HostAssumption DEF TypeOK
<1>2. IsFiniteSet(1 .. nextToken - 1)
  BY <1>1, FS_Interval
<1>3. ASSUME NEW v \in Version
      PROVE  IsFiniteSet(Naming(v)) /\ Cardinality(Naming(v)) \in Nat
  <2>1. Naming(v) \subseteq 1 .. nextToken - 1
    BY <1>1 DEF Naming
  <2> QED BY <1>2, <2>1, FS_Subset, FS_CardinalityType
<1> QED BY <1>1, <1>3

\* A version that nothing holds is named by nothing and not committed.
LEMMA UnheldIsFree ==
    ASSUME TypeOK, HoldsExact, NEW v \in Version, ~Held(v)
    PROVE  Naming(v) = {} /\ ~Adopts(v)
<1>1. holds[v] = 0
  BY DEF TypeOK, Held
<1>2. Cardinality(Naming(v)) = 0 /\ ~Adopts(v)
  BY <1>1, NamingFinite DEF HoldsExact
<1> QED BY <1>2, NamingFinite, FS_EmptySet

-----------------------------------------------------------------------------
(* Steps *)

\* A session starts with nothing held and nothing in flight.
LEMMA HostInitInv == Init => HostInv
<1> SUFFICES ASSUME Init PROVE HostInv
  OBVIOUS
<1>1. DOMAIN active = {} /\ \A v : Naming(v) = {} /\ Writing(v) = {}
  BY DEF Init, Naming, Writing
<1>2. TypeOK
  BY <1>1, HostAssumption DEF Init, TypeOK, Evidence
<1>3. HoldsExact
  <2>1. \A v \in Version : ~Adopts(v) /\ holds[v] = 0
    BY HostAssumption DEF Init, Adopts, Version
  <2> QED BY <1>1, <2>1, FS_EmptySet DEF HoldsExact
<1>4. SoleWriter /\ EvidenceRestoresCommitted /\ DistinctOutputs
  BY <1>1 DEF SoleWriter, EvidenceRestoresCommitted, DistinctOutputs, Init
<1> QED BY <1>2, <1>3, <1>4 DEF HostInv

\* Submitting adds one to the count of each version it names.
LEMMA SubmitKeeps ==
    ASSUME HostInv, NEW base \in 0 .. MaxRevision,
           NEW inputs \in SUBSET Version, NEW outputs \in SUBSET Version,
           NEW semantics \in Semantics, Submit(base, inputs, outputs, semantics)
    PROVE  HostInv'
<1> DEFINE p == [base |-> base, inputs |-> inputs, outputs |-> outputs,
                 semantics |-> semantics, phase |-> "executing"]
<1>1. /\ WellFormed(inputs, outputs) /\ base = revision
      /\ \A v \in outputs : ~Held(v)
      /\ nextToken < MaxToken
  BY DEF Submit, Submittable
<1>2. /\ DOMAIN active' = DOMAIN active \cup {nextToken}
      /\ \A t \in DOMAIN active : active'[t] = active[t]
      /\ active'[nextToken] = p
      /\ holds' = [v \in Version |-> IF v \in inputs \cup outputs THEN holds[v] + 1
                                                                 ELSE holds[v]]
      /\ nextToken' = nextToken + 1 /\ released' = {}
      /\ UNCHANGED <<revision, committed, evidence>>
  BY NamingFinite DEF Submit, HostInv
<1>3. TypeOK'
  <2>1. p \in Submission /\ p.base <= revision /\ nextToken \in Nat /\ nextToken < MaxToken
        /\ MaxToken \in Nat /\ revision \in Nat
    <3>1. /\ revision \in Nat /\ nextToken \in Nat /\ MaxToken \in Nat
      BY HostAssumption DEF HostInv, TypeOK
    <3>2. p \in Submission
      BY DEF Submission, Phase
    <3> QED BY <1>1, <3>1, <3>2
  <2>2. DOMAIN active' \subseteq 1 .. nextToken' - 1 /\ nextToken' \in 1 .. MaxToken
    BY <1>2, <2>1 DEF HostInv, TypeOK
  <2>3. \A t \in DOMAIN active' : active'[t] \in Submission /\ active'[t].base <= revision'
    BY <1>2, <2>1 DEF HostInv, TypeOK
  <2>4. holds' \in [Version -> Nat]
    BY <1>2 DEF HostInv, TypeOK
  <2> QED BY <1>2, <2>2, <2>3, <2>4 DEF HostInv, TypeOK
<1>4. ASSUME NEW v \in Version
      PROVE  /\ v \in inputs \cup outputs => Naming(v)' = Naming(v) \cup {nextToken}
             /\ v \notin inputs \cup outputs => Naming(v)' = Naming(v)
             /\ nextToken \notin Naming(v)
             /\ v \in outputs => Writing(v)' = Writing(v) \cup {nextToken}
             /\ v \notin outputs => Writing(v)' = Writing(v)
             /\ Adopts(v)' = Adopts(v)
  BY <1>2, NamingFinite DEF Naming, Writing, Named, Adopts, HostInv
<1>5. HoldsExact'
  <2> SUFFICES ASSUME NEW v \in Version
               PROVE  (holds[v] = Cardinality(Naming(v)) + (IF Adopts(v) THEN 1 ELSE 0))'
    BY DEF HoldsExact
  <2>1. /\ holds[v] = Cardinality(Naming(v)) + (IF Adopts(v) THEN 1 ELSE 0)
        /\ IsFiniteSet(Naming(v)) /\ Cardinality(Naming(v)) \in Nat
    BY NamingFinite DEF HostInv, HoldsExact
  <2>2. Cardinality(Naming(v) \cup {nextToken}) = Cardinality(Naming(v)) + 1
    BY <1>4, <2>1, FS_AddElement
  <2>3. CASE v \in inputs \cup outputs
    <3>1. holds'[v] = holds[v] + 1
      BY <1>2, <2>3
    <3>2. Cardinality(Naming(v)') = Cardinality(Naming(v)) + 1
      BY <1>4, <2>2, <2>3
    <3>3. holds'[v] = Cardinality(Naming(v)') + (IF Adopts(v) THEN 1 ELSE 0)
      BY <2>1, <3>1, <3>2
    <3> QED BY <1>4, <3>3
  <2>4. CASE v \notin inputs \cup outputs
    BY <1>2, <1>4, <2>1, <2>4
  <2> QED BY <2>3, <2>4
<1>6. SoleWriter'
  <2> SUFFICES ASSUME NEW v \in Version
               PROVE  /\ \A t, u \in Writing(v)' : t = u
                      /\ Adopts(v)' => Writing(v)' = {}
    BY DEF SoleWriter
  <2>1. CASE v \in outputs
    <3>1. Writing(v) = {} /\ ~Adopts(v)
      BY <1>1, <2>1, UnheldIsFree DEF HostInv, Naming, Writing, Named
    <3> QED BY <1>4, <2>1, <3>1
  <2>2. CASE v \notin outputs
    BY <1>4, <2>2 DEF HostInv, SoleWriter
  <2> QED BY <2>1, <2>2
<1>7. EvidenceRestoresCommitted' /\ DistinctOutputs'
  BY <1>1, <1>2 DEF HostInv, EvidenceRestoresCommitted, DistinctOutputs, WellFormed
<1> QED BY <1>3, <1>5, <1>6, <1>7 DEF HostInv

\* A submission that leaves is counted off each version it names, once.
LEMMA LeavingCounts ==
    ASSUME TypeOK, NEW token \in DOMAIN active, active' = Without(token), NEW v \in Version
    PROVE  /\ Naming(v)' = Naming(v) \ {token}
           /\ Writing(v)' = Writing(v) \ {token}
           /\ Cardinality(Naming(v)) \in Nat /\ Cardinality(Naming(v)') \in Nat
           /\ v \in Named(active[token]) =>
                 Cardinality(Naming(v)) = Cardinality(Naming(v)') + 1
           /\ v \notin Named(active[token]) => Naming(v)' = Naming(v)
<1>1. /\ DOMAIN active' = DOMAIN active \ {token}
      /\ \A t \in DOMAIN active' : active'[t] = active[t]
  BY DEF Without
<1>2. /\ Naming(v)' = Naming(v) \ {token}
      /\ Writing(v)' = Writing(v) \ {token}
  BY <1>1 DEF Naming, Writing
<1>3. IsFiniteSet(Naming(v)) /\ Cardinality(Naming(v)) \in Nat
  BY NamingFinite
<1>4. Cardinality(Naming(v)') \in Nat
  BY <1>2, <1>3, FS_RemoveElement, FS_Subset, FS_CardinalityType
<1>5. CASE v \in Named(active[token])
  <2>1. token \in Naming(v)
    BY <1>5 DEF Naming
  <2>2. Cardinality(Naming(v) \ {token}) = Cardinality(Naming(v)) - 1
    BY <1>3, <2>1, FS_RemoveElement
  <2> QED BY <1>2, <1>3, <1>4, <1>5, <2>2
<1>6. CASE v \notin Named(active[token])
  <2>1. token \notin Naming(v)
    BY <1>6 DEF Naming
  <2> QED BY <1>2, <1>3, <1>4, <1>6, <2>1
<1> QED BY <1>5, <1>6

\* Submissions that stay are what they were.
LEMMA LeavingTypes ==
    ASSUME TypeOK, NEW token \in DOMAIN active, active' = Without(token),
           nextToken' = nextToken, revision' \in Nat, revision <= revision'
    PROVE  /\ DOMAIN active' \subseteq 1 .. nextToken' - 1
           /\ \A t \in DOMAIN active' :
                 active'[t] \in Submission /\ active'[t].base <= revision'
<1>1. /\ DOMAIN active' = DOMAIN active \ {token}
      /\ \A t \in DOMAIN active' : active'[t] = active[t]
  BY DEF Without
<1>2. revision \in Nat /\ \A t \in DOMAIN active : active[t].base \in Nat
  BY HostAssumption DEF TypeOK, Submission
<1> QED BY <1>1, <1>2 DEF TypeOK

\* Ending without publishing: finish(), and cancelling an awaited result.
LEMMA FinishKeeps ==
    ASSUME HostInv, NEW token \in DOMAIN active,
           active' = Without(token), holds' = Dropped(holds, active[token]),
           released' \subseteq Version,
           UNCHANGED <<revision, nextToken, committed, evidence>>
    PROVE  HostInv'
<1> DEFINE p == active[token]
<1>1. revision \in Nat
  BY HostAssumption DEF HostInv, TypeOK
<1>2. TypeOK'
  <2>1. holds' \in [Version -> Nat]
    BY DEF HostInv, TypeOK, Dropped
  <2>2. /\ DOMAIN active' \subseteq 1 .. nextToken' - 1
        /\ \A t \in DOMAIN active' :
              active'[t] \in Submission /\ active'[t].base <= revision'
    BY <1>1, LeavingTypes DEF HostInv
  <2> QED BY <2>1, <2>2 DEF HostInv, TypeOK
<1>3. HoldsExact'
  <2> SUFFICES ASSUME NEW v \in Version
               PROVE  (holds[v] = Cardinality(Naming(v)) + (IF Adopts(v) THEN 1 ELSE 0))'
    BY DEF HoldsExact
  <2>1. /\ holds[v] = Cardinality(Naming(v)) + (IF Adopts(v) THEN 1 ELSE 0)
        /\ Adopts(v)' = Adopts(v)
        /\ holds[v] \in Nat
        /\ holds'[v] = IF v \in Named(p) /\ holds[v] > 0 THEN holds[v] - 1 ELSE holds[v]
    BY DEF HostInv, HoldsExact, TypeOK, Adopts, Dropped
  <2>2. holds'[v] = Cardinality(Naming(v)') + (IF Adopts(v) THEN 1 ELSE 0)
    BY <2>1, LeavingCounts DEF HostInv
  <2> QED BY <2>1, <2>2
<1>4. SoleWriter'
  <2>1. \A v \in Version : Writing(v)' \subseteq Writing(v) /\ Adopts(v)' = Adopts(v)
    BY LeavingCounts DEF HostInv, Adopts
  <2> QED BY <2>1 DEF HostInv, SoleWriter
<1>5. EvidenceRestoresCommitted' /\ DistinctOutputs'
  BY DEF HostInv, EvidenceRestoresCommitted, DistinctOutputs, Without
<1> QED BY <1>2, <1>3, <1>4, <1>5 DEF HostInv

\* Publishing moves a hold from the submission to the document, and the hold of
\* what was committed before is given back.
LEMMA PublishKeeps ==
    ASSUME HostInv, NEW token \in DOMAIN active, NEW ev \in Evidence,
           active[token].base = revision, ValidRecovery(ev, active[token]),
           PublishOutputs(token, ev)
    PROVE  HostInv'
<1> DEFINE p == active[token]
           adopted == AdoptedHolds(p)
<1>1. /\ revision < MaxRevision /\ revision' = revision + 1
      /\ committed' = Adopted(p) /\ evidence' = ev
      /\ active' = Without(token) /\ holds' = Dropped(adopted, p)
      /\ released' = Freed(holds, holds') /\ nextToken' = nextToken
  BY DEF PublishOutputs
<1>2. /\ p \in Submission
      /\ \A v, w \in p.outputs : v[1] = w[1] => v = w
      /\ revision \in Nat /\ MaxRevision \in Nat
  BY HostAssumption DEF HostInv, TypeOK, DistinctOutputs
<1> HIDE DEF p
<1>3. ASSUME NEW v \in Version
      PROVE  /\ v[1] \in Id /\ v[2] \in Generation /\ v = <<v[1], v[2]>>
             /\ v \in p.outputs => committed'[v[1]] = v[2]
             /\ HasOutput(p, v[1]) /\ v \notin p.outputs => committed'[v[1]] # v[2]
             /\ ~HasOutput(p, v[1]) => committed'[v[1]] = committed[v[1]]
             /\ v \in p.outputs => HasOutput(p, v[1])
  <2>1. v[1] \in Id /\ v[2] \in Generation /\ v = <<v[1], v[2]>>
    BY DEF Version
  <2>2. committed'[v[1]] = IF HasOutput(p, v[1]) THEN Output(p, v[1]) ELSE committed[v[1]]
    BY <1>1, <2>1 DEF Adopted
  <2>3. ASSUME HasOutput(p, v[1])
        PROVE  <<v[1], Output(p, v[1])>> \in p.outputs
    <3>1. PICK w \in p.outputs : w[1] = v[1]
      BY <2>3 DEF HasOutput
    <3>2. w \in Version
      BY <1>2 DEF Submission
    <3>3. w = <<v[1], w[2]>> /\ w[2] \in Generation
      BY <3>1, <3>2 DEF Version
    <3> QED BY <3>1, <3>3 DEF Output
  <2>4. v \in p.outputs => HasOutput(p, v[1])
    BY DEF HasOutput
  <2>5. v \in p.outputs => Output(p, v[1]) = v[2]
    BY <1>2, <2>1, <2>3, <2>4
  <2> QED BY <2>1, <2>2, <2>3, <2>4, <2>5
<1>4. TypeOK'
  <2>1. committed' \in [Id -> Generation \cup {None}]
    <3>1. ASSUME NEW i \in Id, HasOutput(p, i)
          PROVE  Output(p, i) \in Generation
      <4>1. PICK w \in p.outputs : w[1] = i
        BY <3>1 DEF HasOutput
      <4>2. w \in Version
        BY <1>2 DEF Submission
      <4>3. w = <<i, w[2]>> /\ w[2] \in Generation
        BY <4>1, <4>2 DEF Version
      <4> QED BY <4>1, <4>3 DEF Output
    <3> QED BY <1>1, <3>1 DEF Adopted, HostInv, TypeOK
  <2>2. holds' \in [Version -> Nat]
    <3>1. holds \in [Version -> Nat]
      BY DEF HostInv, TypeOK
    <3>2. adopted \in [Version -> Nat]
      BY <3>1 DEF AdoptedHolds
    <3> HIDE DEF adopted
    <3> QED BY <1>1, <3>2 DEF Dropped
  <2>3. /\ DOMAIN active' \subseteq 1 .. nextToken' - 1
        /\ \A t \in DOMAIN active' :
              active'[t] \in Submission /\ active'[t].base <= revision'
    BY <1>1, <1>2, LeavingTypes DEF HostInv
  <2>4. revision' \in 0 .. MaxRevision /\ nextToken' \in 1 .. MaxToken
        /\ evidence' \in Evidence /\ released' \subseteq Version
    BY <1>1, <1>2 DEF HostInv, TypeOK, Freed
  <2> QED BY <2>1, <2>2, <2>3, <2>4 DEF TypeOK
<1>5. ASSUME NEW v \in Version
      PROVE  /\ v \in p.outputs => ~Adopts(v) /\ Writing(v) = {token}
             /\ holds[v] = Cardinality(Naming(v)) + (IF Adopts(v) THEN 1 ELSE 0)
             /\ holds[v] \in Nat
             /\ Adopts(v) <=> committed[v[1]] = v[2]
             /\ Adopts(v)' <=> committed'[v[1]] = v[2]
  BY DEF HostInv, SoleWriter, HoldsExact, TypeOK, Writing, Adopts, p
<1>6. HoldsExact'
  <2> SUFFICES ASSUME NEW v \in Version
               PROVE  (holds[v] = Cardinality(Naming(v)) + (IF Adopts(v) THEN 1 ELSE 0))'
    BY DEF HoldsExact
  <2>1. adopted[v] =
          IF v \in p.outputs /\ committed[v[1]] # v[2] THEN holds[v] + 1
          ELSE IF HasOutput(p, v[1]) /\ committed[v[1]] = v[2] /\ v \notin p.outputs
                  /\ holds[v] > 0
            THEN holds[v] - 1
          ELSE holds[v]
    BY DEF AdoptedHolds
  <2>2. holds'[v] = IF v \in Named(p) /\ adopted[v] > 0 THEN adopted[v] - 1 ELSE adopted[v]
    BY <1>1 DEF Dropped
  <2>3. /\ Cardinality(Naming(v)) \in Nat /\ Cardinality(Naming(v)') \in Nat
        /\ v \in Named(p) => Cardinality(Naming(v)) = Cardinality(Naming(v)') + 1
        /\ v \notin Named(p) => Naming(v)' = Naming(v)
    BY <1>1, LeavingCounts DEF HostInv, p
  <2> HIDE DEF adopted
  <2>4. CASE v \in p.outputs
    <3>0. ~Adopts(v) /\ committed[v[1]] # v[2] /\ holds[v] = Cardinality(Naming(v))
      BY <1>5, <2>3, <2>4
    <3>1. adopted[v] = Cardinality(Naming(v)) + 1 /\ v \in Named(p)
      BY <2>1, <2>4, <3>0 DEF Named
    <3>2. holds'[v] = Cardinality(Naming(v)') + 1
      BY <2>2, <2>3, <3>1
    <3> QED BY <1>3, <1>5, <2>4, <3>2
  <2>5. CASE v \notin p.outputs /\ HasOutput(p, v[1])
    <3>1. adopted[v] = Cardinality(Naming(v)) /\ ~Adopts(v)'
      BY <1>3, <1>5, <2>1, <2>3, <2>5
    <3>2. holds'[v] = Cardinality(Naming(v)')
      BY <2>2, <2>3, <3>1
    <3> QED BY <2>3, <3>1, <3>2
  <2>6. CASE ~HasOutput(p, v[1])
    <3>1. v \notin p.outputs /\ adopted[v] = holds[v] /\ (Adopts(v)' <=> Adopts(v))
      BY <1>3, <1>5, <2>1, <2>6
    <3>2. holds'[v] = Cardinality(Naming(v)') + (IF Adopts(v) THEN 1 ELSE 0)
      BY <1>5, <2>2, <2>3, <3>1
    <3> QED BY <3>1, <3>2
  <2> QED BY <2>4, <2>5, <2>6
<1>7. SoleWriter'
  <2> SUFFICES ASSUME NEW v \in Version
               PROVE  /\ \A t, u \in Writing(v)' : t = u
                      /\ Adopts(v)' => Writing(v)' = {}
    BY DEF SoleWriter
  <2>1. Writing(v)' = Writing(v) \ {token}
    BY <1>1, LeavingCounts DEF HostInv
  <2>2. CASE v \in p.outputs
    BY <1>5, <2>1, <2>2
  <2>3. CASE v \notin p.outputs
    <3>1. Adopts(v)' => Adopts(v)
      BY <1>3, <1>5, <2>3
    <3> QED BY <2>1, <3>1 DEF HostInv, SoleWriter
  <2> QED BY <2>2, <2>3
<1>8. EvidenceRestoresCommitted'
  BY <1>1, <1>2 DEF EvidenceRestoresCommitted, ValidRecovery, Evidence, p
<1>9. DistinctOutputs'
  BY <1>1 DEF HostInv, DistinctOutputs, Without
<1> QED BY <1>4, <1>6, <1>7, <1>8, <1>9 DEF HostInv

\* A change of phase touches nothing the invariant speaks about.
LEMMA PhaseKeeps ==
    ASSUME HostInv, NEW token \in DOMAIN active, NEW phase \in Phase,
           EnterPhase(token, phase)
    PROVE  HostInv'
<1>1. /\ DOMAIN active' = DOMAIN active
      /\ \A t \in DOMAIN active : t # token => active'[t] = active[t]
      /\ active'[token] = [active[token] EXCEPT !.phase = phase]
      /\ released' = {}
      /\ UNCHANGED <<revision, nextToken, holds, committed, evidence>>
  BY DEF EnterPhase
<1>2. ASSUME NEW t \in DOMAIN active
      PROVE  /\ active'[t] \in Submission
             /\ active'[t].base = active[t].base
             /\ active'[t].inputs = active[t].inputs
             /\ active'[t].outputs = active[t].outputs
  <2>1. active[t] \in Submission
    BY DEF HostInv, TypeOK
  <2> QED BY <1>1, <2>1 DEF Submission
<1>3. TypeOK'
  BY <1>1, <1>2 DEF HostInv, TypeOK
<1>4. ASSUME NEW v \in Version
      PROVE  /\ Naming(v)' = Naming(v) /\ Writing(v)' = Writing(v)
             /\ Adopts(v)' = Adopts(v)
  BY <1>1, <1>2 DEF Naming, Writing, Named, Adopts
<1>5. HoldsExact' /\ SoleWriter'
  BY <1>1, <1>4 DEF HostInv, HoldsExact, SoleWriter
<1>6. EvidenceRestoresCommitted' /\ DistinctOutputs'
  BY <1>1, <1>2 DEF HostInv, EvidenceRestoresCommitted, DistinctOutputs
<1> QED BY <1>3, <1>5, <1>6 DEF HostInv

\* A device loss leaves exactly the document's own holds.
LEMMA DeviceLossKeeps ==
    ASSUME HostInv, ReportDeviceLoss
    PROVE  HostInv'
<1>1. /\ DOMAIN active' = {}
      /\ released' = Freed(holds, holds')
      /\ UNCHANGED <<revision, nextToken, committed, evidence>>
  BY DEF ReportDeviceLoss
<1>2. ASSUME NEW v \in Version
      PROVE  holds'[v] = IF Adopts(v) THEN 1 ELSE 0
  <2>1. holds'[v] = IF holds[v] > Cardinality(Naming(v))
                      THEN holds[v] - Cardinality(Naming(v)) ELSE 0
    BY DEF ReportDeviceLoss, Naming
  <2>2. /\ Cardinality(Naming(v)) \in Nat
        /\ holds[v] = Cardinality(Naming(v)) + (IF Adopts(v) THEN 1 ELSE 0)
    BY NamingFinite DEF HostInv, HoldsExact
  <2> QED BY <2>1, <2>2
<1>3. ASSUME NEW v \in Version
      PROVE  Naming(v)' = {} /\ Writing(v)' = {} /\ Adopts(v)' = Adopts(v)
  BY <1>1 DEF Naming, Writing, Adopts
<1>4. TypeOK'
  <2>1. holds' \in [Version -> Nat]
    <3>1. DOMAIN holds' = Version /\ holds' = [v \in Version |-> holds'[v]]
      BY DEF ReportDeviceLoss
    <3> QED BY <1>2, <3>1
  <2> QED BY <1>1, <2>1 DEF HostInv, TypeOK, Freed
<1>5. HoldsExact'
  BY <1>2, <1>3, FS_EmptySet DEF HoldsExact
<1>6. SoleWriter' /\ EvidenceRestoresCommitted' /\ DistinctOutputs'
  BY <1>1, <1>3 DEF HostInv, SoleWriter, EvidenceRestoresCommitted, DistinctOutputs
<1> QED BY <1>4, <1>5, <1>6 DEF HostInv

\* What publish() may do with good evidence, whoever calls it.
LEMMA PublishStepKeeps ==
    ASSUME HostInv, NEW token \in DOMAIN active, NEW ev \in Evidence,
           ValidRecovery(ev, active[token]), Publish(token, ev)
    PROVE  HostInv'
<1>1. CASE Finish(token)
  <2>1. released' \subseteq Version
    BY <1>1 DEF Finish, Freed
  <2> QED BY <1>1, <2>1, FinishKeeps DEF Finish
<1>2. CASE active[token].base = revision /\ PublishOutputs(token, ev)
  BY <1>2, PublishKeeps
<1> QED BY <1>1, <1>2 DEF Publish

-----------------------------------------------------------------------------
(* The invariant *)

\* Every call of the host and every answer it gives keeps the invariant.
LEMMA HostNextKeeps == HostInv /\ [Next]_vars => HostInv'
<1> SUFFICES ASSUME HostInv, [Next]_vars PROVE HostInv'
  OBVIOUS
<1>0. \A ev \in Evidence \cup {NoEvidence} : ev \in Evidence
  <2>1. 0 \in 0 .. MaxRevision
    BY HostAssumption
  <2>2. NoEvidence \in Evidence
    BY <2>1 DEF Evidence, NoEvidence
  <2> QED BY <2>2
<1>1. CASE Ignored \/ UNCHANGED vars
  <2>1. /\ UNCHANGED <<revision, nextToken, active, holds, committed, evidence>>
        /\ released' \subseteq Version
    BY <1>1 DEF Ignored, vars, HostInv, TypeOK
  <2>2. TypeOK'
    BY <2>1 DEF HostInv, TypeOK
  <2>3. HoldsExact' /\ SoleWriter' /\ EvidenceRestoresCommitted' /\ DistinctOutputs'
    BY <2>1 DEF HostInv, HoldsExact, SoleWriter, EvidenceRestoresCommitted,
                DistinctOutputs, Naming, Writing, Adopts
  <2> QED BY <2>2, <2>3 DEF HostInv
<1>2. ASSUME NEW base \in 0 .. MaxRevision, NEW inputs \in SUBSET Version,
             NEW outputs \in SUBSET Version, NEW semantics \in Semantics,
             Submit(base, inputs, outputs, semantics)
      PROVE  HostInv'
  BY <1>2, SubmitKeeps
<1>3. ASSUME NEW token \in Token, Cancel(token)
      PROVE  HostInv'
  <2>1. CASE active[token].phase = "awaiting recovery"
    <3>1. /\ active' = Without(token) /\ holds' = Dropped(holds, active[token])
          /\ released' = {} /\ token \in DOMAIN active
          /\ UNCHANGED <<revision, nextToken, committed, evidence>>
      BY <1>3, <2>1 DEF Cancel
    <3> QED BY <3>1, FinishKeeps
  <2>2. CASE active[token].phase # "awaiting recovery"
    BY <1>3, <2>2, PhaseKeeps DEF Cancel, Phase
  <2> QED BY <2>1, <2>2
<1>4. ASSUME NEW token \in Token, NEW status, NEW matches,
             CompleteDiscarded(token, status, matches)
      PROVE  HostInv'
  <2>1. token \in DOMAIN active /\ Finish(token)
    BY <1>4 DEF CompleteDiscarded
  <2>2. released' \subseteq Version
    BY <2>1 DEF Finish, Freed
  <2> QED BY <2>1, <2>2, FinishKeeps DEF Finish
<1>5. ASSUME NEW token \in Token, NEW ev \in Evidence, CompleteGood(token, ev)
      PROVE  HostInv'
  <2>1. CASE ValidRecovery(ev, active[token])
    BY <1>5, <2>1, PublishStepKeeps DEF CompleteGood
  <2>2. CASE ~ValidRecovery(ev, active[token])
    BY <1>5, <2>2, PhaseKeeps DEF CompleteGood, Phase
  <2> QED BY <2>1, <2>2
<1>6. ASSUME NEW token \in Token, NEW ev \in Evidence, EstablishRecovery(token, ev)
      PROVE  HostInv'
  <2>1. CASE /\ token \in DOMAIN active /\ ValidRecovery(ev, active[token])
             /\ Publish(token, ev)
    BY <2>1, PublishStepKeeps
  <2> QED BY <1>1, <1>6, <2>1 DEF EstablishRecovery
<1>7. ASSUME NEW token \in Token, CompleteAgain(token)
      PROVE  HostInv'
  BY <1>1, <1>7 DEF CompleteAgain
<1>8. CASE ReportDeviceLoss
  BY <1>8, DeviceLossKeeps
<1> QED BY <1>0, <1>1, <1>2, <1>3, <1>4, <1>5, <1>6, <1>7, <1>8 DEF Next

\* For any identities, generations and bounds, and whatever order completions,
\* cancellations, evidence and device loss arrive in: the reference counts are
\* exact, each generation has one writer, and the committed revision can be
\* restored.
THEOREM HostInvariant == Spec => []HostInv
<1>1. Init => HostInv
  BY HostInitInv
<1>2. HostInv /\ [Next]_vars => HostInv'
  BY HostNextKeeps
<1> QED BY <1>1, <1>2, PTL DEF Spec

\* No generation is released while a submission or the document uses it, and
\* none stays held once nothing does.
THEOREM HoldsAreExact == Spec => []HoldsExact
<1>1. HostInv => HoldsExact
  BY DEF HostInv
<1> QED BY <1>1, HostInvariant, PTL

\* No two submissions in flight write a generation, and none the committed one.
THEOREM OneWriterEach == Spec => []SoleWriter
<1>1. HostInv => SoleWriter
  BY DEF HostInv
<1> QED BY <1>1, HostInvariant, PTL

\* The evidence kept is always enough to restore the committed revision.
THEOREM CommittedIsRestorable == Spec => []EvidenceRestoresCommitted
<1>1. HostInv => EvidenceRestoresCommitted
  BY DEF HostInv
<1> QED BY <1>1, HostInvariant, PTL

-----------------------------------------------------------------------------
(* Refinement *)

\* Operations in flight, looked at from outside.
LEMMA InFlightShape ==
    /\ DOMAIN InFlight = Live
    /\ \A t \in Live : InFlight[t] = Operation(active[t])
BY DEF InFlight

\* Submissions that leave take their operations with them.
LEMMA LeavingDrops ==
    ASSUME TypeOK, NEW gone \in SUBSET (DOMAIN active),
           \A t \in DOMAIN active' : active'[t] = active[t],
           DOMAIN active' = DOMAIN active \ gone
    PROVE  /\ gone \subseteq Token
           /\ InFlight' = Publication!Remaining(gone)
<1>1. gone \subseteq Token
  <2>1. nextToken \in Nat /\ nextToken <= MaxToken /\ MaxToken \in Nat
    BY HostAssumption DEF TypeOK
  <2> QED BY <2>1 DEF TypeOK, Token
<1>2. Live' = Live \ gone
  BY DEF Live
<1>3. InFlight' = [t \in Live \ gone |-> Operation(active[t])]
  BY <1>2 DEF InFlight, Operation, Live
<1>4. Publication!Remaining(gone) = [t \in Live \ gone |-> Operation(active[t])]
  BY InFlightShape DEF Publication!Remaining
<1> QED BY <1>1, <1>3, <1>4

\* A submission opens an operation on the current revision.
LEMMA SubmitOpens ==
    ASSUME HostInv, NEW base \in 0 .. MaxRevision,
           NEW inputs \in SUBSET Version, NEW outputs \in SUBSET Version,
           NEW semantics \in Semantics, Submit(base, inputs, outputs, semantics)
    PROVE  Publication!PublicationNext
<1> DEFINE all == UNION { [ids -> Generation] : ids \in SUBSET Id }
           p == [base |-> base, inputs |-> inputs, outputs |-> outputs,
                 semantics |-> semantics, phase |-> "executing"]
<1>1. /\ base = revision /\ nextToken \notin DOMAIN active /\ nextToken \in Token
      /\ \A v, w \in outputs : v[1] = w[1] => v = w
      /\ UNCHANGED <<revision, committed>>
  <2>1. nextToken \in Nat /\ MaxToken \in Nat
    BY HostAssumption DEF HostInv, TypeOK
  <2> QED BY <2>1, NamingFinite DEF Submit, Submittable, WellFormed, HostInv, TypeOK, Token
<1>2. /\ DOMAIN active' = DOMAIN active \cup {nextToken}
      /\ \A t \in DOMAIN active : active'[t] = active[t]
      /\ active'[nextToken] = p
  BY <1>1 DEF Submit
<1>3. Live' = Live \cup {nextToken}
  BY <1>1, <1>2 DEF Live
<1>4. Operation(p) = [base |-> revision, outputs |-> ByIdentity(outputs)]
  BY <1>1 DEF Operation
<1>5. InFlight' = [t \in Live \cup {nextToken} |->
                      IF t = nextToken THEN [base |-> revision, outputs |-> ByIdentity(outputs)]
                                       ELSE InFlight[t]]
  <2>1. InFlight' = [t \in Live \cup {nextToken} |-> Operation(active'[t])]
    BY <1>3 DEF InFlight, Operation, ByIdentity
  <2>2. \A t \in Live : Operation(active'[t]) = InFlight[t]
    BY <1>2, InFlightShape DEF Live
  <2>3. nextToken \notin Live
    BY <1>1 DEF Live
  <2> QED BY <1>2, <1>4, <2>1, <2>2, <2>3
<1>6. ByIdentity(outputs) \in all
  <2> DEFINE ids == { v[1] : v \in outputs }
  <2>1. ids \in SUBSET Id
    BY DEF Version
  <2>2. ASSUME NEW i \in ids
        PROVE  (CHOOSE g \in Generation : <<i, g>> \in outputs) \in Generation
    <3>1. PICK v \in outputs : v[1] = i
      BY <2>2
    <3>2. v = <<i, v[2]>> /\ v[2] \in Generation
      BY <3>1 DEF Version
    <3> QED BY <3>1, <3>2
  <2>3. ByIdentity(outputs) \in [ids -> Generation]
    BY <2>2 DEF ByIdentity
  <2> QED BY <2>1, <2>3
<1>7. Publication!Open(nextToken, ByIdentity(outputs))
  BY <1>1, <1>5, InFlightShape DEF Publication!Open, Live
<1> QED BY <1>1, <1>6, <1>7 DEF Publication!PublicationNext

\* A submission that ends without publishing is dropped.
LEMMA FinishDrops ==
    ASSUME HostInv, NEW token \in DOMAIN active, active' = Without(token),
           UNCHANGED <<revision, committed>>
    PROVE  Publication!PublicationNext
<1>1. {token} \subseteq Token /\ InFlight' = Publication!Remaining({token})
  <2>1. TypeOK
    BY DEF HostInv
  <2>2. {token} \in SUBSET (DOMAIN active)
    OBVIOUS
  <2>3. /\ DOMAIN active' = DOMAIN active \ {token}
        /\ \A t \in DOMAIN active' : active'[t] = active[t]
    BY DEF Without
  <2> QED BY <2>1, <2>2, <2>3, LeavingDrops
<1>2. Publication!Drop({token})
  BY <1>1 DEF Publication!Drop
<1> QED BY <1>1, <1>2 DEF Publication!PublicationNext

\* What is published is the operation's own outputs, on its own base.
LEMMA PublishPublishes ==
    ASSUME HostInv, NEW token \in Live, NEW ev, active[token].base = revision,
           PublishOutputs(token, ev)
    PROVE  Publication!PublicationNext
<1> DEFINE p == active[token]
<1>1. token \in DOMAIN active
  BY DEF Live
<1>2. /\ revision' = revision + 1 /\ committed' = Adopted(p)
      /\ active' = Without(token)
  BY DEF PublishOutputs
<1>3. {token} \subseteq Token /\ InFlight' = Publication!Remaining({token})
  <2>1. TypeOK
    BY DEF HostInv
  <2>2. {token} \in SUBSET (DOMAIN active)
    BY <1>1
  <2>3. /\ DOMAIN active' = DOMAIN active \ {token}
        /\ \A t \in DOMAIN active' : active'[t] = active[t]
    BY <1>2 DEF Without
  <2> QED BY <2>1, <2>2, <2>3, LeavingDrops
<1>4. /\ token \in DOMAIN InFlight
      /\ InFlight[token].base = revision
      /\ InFlight[token].outputs = ByIdentity(p.outputs)
  BY InFlightShape DEF Operation
<1>5. DOMAIN committed = Id
  BY DEF HostInv, TypeOK
<1>6. ASSUME NEW i \in Id
      PROVE  /\ i \in DOMAIN ByIdentity(p.outputs) <=> HasOutput(p, i)
             /\ HasOutput(p, i) => ByIdentity(p.outputs)[i] = Output(p, i)
  <2>1. DOMAIN ByIdentity(p.outputs) = { v[1] : v \in p.outputs }
    BY DEF ByIdentity
  <2> QED BY <2>1 DEF HasOutput, Output, ByIdentity
<1>7. committed' = [i \in DOMAIN committed |->
                      IF i \in DOMAIN InFlight[token].outputs THEN InFlight[token].outputs[i]
                                                              ELSE committed[i]]
  BY <1>2, <1>4, <1>5, <1>6 DEF Adopted
<1>8. Publication!Publish(token)
  BY <1>2, <1>3, <1>4, <1>7 DEF Publication!Publish
<1> QED BY <1>3, <1>8 DEF Publication!PublicationNext

\* publish(), whoever calls it: the operation is published or dropped.
LEMMA PublishStepRefines ==
    ASSUME HostInv, NEW token \in Live, NEW ev, Publish(token, ev)
    PROVE  Publication!PublicationNext
<1>1. token \in DOMAIN active
  BY DEF Live
<1> QED BY <1>1, FinishDrops, PublishPublishes DEF Publish, Finish

\* Phases other than cancellation are not seen from outside.
LEMMA PhaseRefines ==
    ASSUME HostInv, NEW token \in DOMAIN active, NEW phase \in Phase,
           EnterPhase(token, phase),
           active[token].phase = "cancelled" => phase = "cancelled"
    PROVE  \/ Publication!PublicationNext
           \/ UNCHANGED <<revision, committed, InFlight>>
<1>1. /\ DOMAIN active' = DOMAIN active
      /\ \A t \in DOMAIN active : t # token => active'[t] = active[t]
      /\ active'[token] = [active[token] EXCEPT !.phase = phase]
      /\ UNCHANGED <<revision, committed>>
  BY DEF EnterPhase
<1>2. active[token] \in Submission
  BY DEF HostInv, TypeOK
<1>3. /\ active'[token].phase = phase
      /\ Operation(active'[token]) = Operation(active[token])
  BY <1>1, <1>2 DEF Submission, Operation
<1>4. ASSUME NEW t \in DOMAIN active
      PROVE  Operation(active'[t]) = Operation(active[t])
  BY <1>1, <1>3
<1>5. CASE phase = "cancelled"
  <2>1. Live' = Live \ {token}
    BY <1>1, <1>3, <1>5 DEF Live
  <2>2. InFlight' = [t \in Live \ {token} |-> Operation(active'[t])]
    BY <2>1 DEF InFlight, Operation, ByIdentity
  <2>3. Publication!Remaining({token}) = [t \in Live \ {token} |-> Operation(active[t])]
    BY InFlightShape DEF Publication!Remaining
  <2>4. InFlight' = Publication!Remaining({token})
    BY <1>4, <2>2, <2>3 DEF Live
  <2>5. Publication!Drop({token})
    BY <1>1, <2>4 DEF Publication!Drop
  <2>6. {token} \subseteq Token
    <3>1. nextToken \in Nat /\ nextToken <= MaxToken /\ MaxToken \in Nat
      BY HostAssumption DEF HostInv, TypeOK
    <3> QED BY <3>1 DEF HostInv, TypeOK, Token
  <2> QED BY <2>5, <2>6 DEF Publication!PublicationNext
<1>6. CASE phase # "cancelled"
  <2>1. Live' = Live
    BY <1>1, <1>3, <1>6 DEF Live
  <2>2. InFlight' = [t \in Live |-> Operation(active'[t])]
    BY <2>1 DEF InFlight, Operation, ByIdentity
  <2>3. InFlight' = InFlight
    BY <1>4, <2>2 DEF InFlight, Live
  <2> QED BY <1>1, <2>3
<1> QED BY <1>5, <1>6

\* Every step of the session is a step of the host publication or none.
LEMMA HostNextRefines ==
    HostInv /\ [Next]_vars => [Publication!PublicationNext]_<<revision, committed, InFlight>>
<1> SUFFICES ASSUME HostInv, [Next]_vars
             PROVE  \/ Publication!PublicationNext
                    \/ UNCHANGED <<revision, committed, InFlight>>
  OBVIOUS
<1>1. CASE Ignored \/ UNCHANGED vars
  <2>1. UNCHANGED <<revision, committed, active>>
    BY <1>1 DEF Ignored, vars
  <2>2. UNCHANGED InFlight
    <3>1. Live' = Live
      BY <2>1 DEF Live
    <3>2. InFlight' = [t \in Live |-> Operation(active'[t])]
      BY <3>1 DEF InFlight, Operation, ByIdentity
    <3> QED BY <2>1, <3>2 DEF InFlight
  <2> QED BY <2>1, <2>2
<1>2. ASSUME NEW base \in 0 .. MaxRevision, NEW inputs \in SUBSET Version,
             NEW outputs \in SUBSET Version, NEW semantics \in Semantics,
             Submit(base, inputs, outputs, semantics)
      PROVE  Publication!PublicationNext
  BY <1>2, SubmitOpens
<1>3. ASSUME NEW token \in Token, Cancel(token)
      PROVE  \/ Publication!PublicationNext
             \/ UNCHANGED <<revision, committed, InFlight>>
  <2>1. CASE active[token].phase = "awaiting recovery"
    BY <1>3, <2>1, FinishDrops DEF Cancel
  <2>2. CASE active[token].phase # "awaiting recovery"
    BY <1>3, <2>2, PhaseRefines DEF Cancel, Phase
  <2> QED BY <2>1, <2>2
<1>4. ASSUME NEW token \in Token, NEW status, NEW matches,
             CompleteDiscarded(token, status, matches)
      PROVE  Publication!PublicationNext
  BY <1>4, FinishDrops DEF CompleteDiscarded, Finish
<1>5. ASSUME NEW token \in Token, NEW ev, CompleteGood(token, ev)
      PROVE  \/ Publication!PublicationNext
             \/ UNCHANGED <<revision, committed, InFlight>>
  <2>1. token \in Live /\ token \in DOMAIN active /\ active[token].phase = "executing"
    BY <1>5 DEF CompleteGood, Live
  <2>2. CASE ValidRecovery(ev, active[token])
    BY <1>5, <2>1, <2>2, PublishStepRefines DEF CompleteGood
  <2>3. CASE ~ValidRecovery(ev, active[token])
    BY <1>5, <2>1, <2>3, PhaseRefines DEF CompleteGood, Phase
  <2> QED BY <2>2, <2>3
<1>6. ASSUME NEW token \in Token, NEW ev, EstablishRecovery(token, ev)
      PROVE  \/ Publication!PublicationNext
             \/ UNCHANGED <<revision, committed, InFlight>>
  <2>1. CASE /\ token \in DOMAIN active /\ active[token].phase = "awaiting recovery"
             /\ Publish(token, ev)
    <3>1. token \in Live
      BY <2>1 DEF Live
    <3> QED BY <2>1, <3>1, PublishStepRefines
  <2> QED BY <1>1, <1>6, <2>1 DEF EstablishRecovery
<1>7. ASSUME NEW token \in Token, CompleteAgain(token)
      PROVE  \/ Publication!PublicationNext
             \/ UNCHANGED <<revision, committed, InFlight>>
  BY <1>1, <1>7 DEF CompleteAgain
<1>8. CASE ReportDeviceLoss
  <2>1. DOMAIN active' = {} /\ UNCHANGED <<revision, committed>>
    BY <1>8 DEF ReportDeviceLoss
  <2>2. /\ DOMAIN active \subseteq Token
        /\ InFlight' = Publication!Remaining(DOMAIN active)
    BY <2>1, LeavingDrops DEF HostInv
  <2>3. Publication!Drop(DOMAIN active)
    BY <2>1, <2>2 DEF Publication!Drop
  <2> QED BY <2>2, <2>3 DEF Publication!PublicationNext
<1> QED BY <1>1, <1>2, <1>3, <1>4, <1>5, <1>6, <1>7, <1>8 DEF Next

\* For any identities, generations and bounds the session implements
\* HostPublication: the document only ever changes by a whole result on the
\* revision it was opened against.
THEOREM PublicationImplemented == Spec => ImplementsPublication
<1>1. Init => Publication!PublicationInit
  BY InFlightShape DEF Init, Live, Publication!PublicationInit
<1>2. HostInv /\ [Next]_vars => [Publication!PublicationNext]_<<revision, committed, InFlight>>
  BY HostNextRefines
<1> QED BY <1>1, <1>2, HostInvariant, PTL
        DEF Spec, ImplementsPublication, Publication!PublicationSpec, Publication!publicationVars
=============================================================================
