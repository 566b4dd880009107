--------------------------- MODULE ResourceLedger ---------------------------
(***************************************************************************)
(* xport::ResourceLedger: reported allocations, reservations of admitted   *)
(* operations, eviction of caches to make room, and the admission gate     *)
(* that quiescing closes.  Every operation runs under the ledger's mutex,  *)
(* eviction callbacks included, so each is one action; threads interleave  *)
(* between them.  An amount of storage is a function from Resource (CPU,   *)
(* GPU, backing store, temporary) to bytes.                                *)
(***************************************************************************)
EXTENDS Integers, FiniteSets, SequencesExt

CONSTANTS
    Resource,       \* what the ceilings bound separately
    Temporary,      \* the resource per-item storage is taken from, in Resource
    Allocation,     \* allocation identities, numbers: eviction is in their order
    Cache,          \* the identities whose category is cache
    Bytes(_),       \* physical bytes of an allocation
    Residency(_),   \* the residencies an allocation may be reported with
    Holder,         \* who may hold a reservation
    Request,        \* admission requests: limits, fixed, perItem, items
    Preview,        \* preview requests: limits, options in host order
    Vacant          \* no reservation; no report

ASSUME LedgerAssumption ==
    /\ Temporary \in Resource
    /\ Allocation \subseteq Nat /\ IsFiniteSet(Allocation)
    /\ IsFiniteSet(Holder)
    /\ Vacant \notin [Resource -> Nat]
    /\ Request \cap Preview = {}
    /\ Cache \subseteq Allocation
    /\ \A a \in Allocation : /\ Bytes(a) \in Nat \ {0}
                             /\ Residency(a) \subseteq SUBSET Resource
    /\ \A q \in Request : /\ q.limits \in [Resource -> Nat]
                          /\ q.fixed \in [Resource -> Nat]
                          /\ q.perItem \in [Resource -> Nat]
                          /\ q.items \in Nat
                          /\ q.items # 0 => q.perItem[Temporary] > 0
    /\ \A p \in Preview : /\ p.limits \in [Resource -> Nat]
                          /\ p.options \in Seq([Resource -> Nat])
                          /\ p.options # <<>>

VARIABLES
    allocations,    \* reported allocations: residency, and whether work holds it
    reserved,       \* the sum of active reservations, as the code keeps it
    active,         \* how many reservations are active, as the code counts
    accepting,      \* the admission gate
    callback,       \* whether a cache-eviction callback is registered
    reservation,    \* what each holder's reservation returns on release
    report          \* the report of an admission just made

ledgerVars == <<allocations, reserved, active, accepting, callback,
                reservation, report>>

-----------------------------------------------------------------------------
(* Amounts *)

Nothing == [r \in Resource |-> 0]

Plus(u, v) == [r \in Resource |-> u[r] + v[r]]

Minus(u, v) == [r \in Resource |-> u[r] - v[r]]

Times(u, n) == [r \in Resource |-> u[r] * n]

Fits(u, limits) == \A r \in Resource : u[r] <= limits[r]

\* What an allocation counts for.
Usage(a) == [r \in Resource |-> IF r \in allocations[a].roles THEN Bytes(a) ELSE 0]

\* The sum of v over ids.
Total(v, ids) == FoldSet(LAMBDA x, u : Plus(v[x], u), Nothing, ids)

SumOver(ids) == Total([a \in DOMAIN allocations |-> Usage(a)], ids)

\* Everything that is taken: active reservations and reported allocations.
Base == Plus(reserved, SumOver(DOMAIN allocations))

-----------------------------------------------------------------------------
(* Choosing what to evict, and how many items to run at once *)

\* Wrong variant of Evictable: storage that work still holds is given up too.
EvictableHeld == { a \in DOMAIN allocations \cap Cache : callback }

\* Cache allocations no work pins or has in flight; none without a callback.
Evictable ==
    { a \in DOMAIN allocations \cap Cache : callback /\ ~allocations[a].held }

\* In ascending order of identity.
Candidates ==
    CHOOSE s \in SetToSeqs(Evictable) : \A i, j \in DOMAIN s : i < j => s[i] < s[j]

\* Wrong variant of Relieves: one that relieves only some of the shortages is
\* passed over.
RelievesEverything(base, needed, u, limits) ==
    \A r \in Resource : base[r] + needed[r] > limits[r] => u[r] # 0

Relieves(base, needed, u, limits) ==
    \E r \in Resource : base[r] + needed[r] > limits[r] /\ u[r] # 0

\* One candidate, after those that left acc: given up unless needed fits by
\* now or the candidate relieves no shortage.
GiveUp(acc, a, needed, limits) ==
    IF Fits(Plus(acc.base, needed), limits)
       \/ ~Relieves(acc.base, needed, Usage(a), limits)
      THEN acc
      ELSE [base |-> Minus(acc.base, Usage(a)), evicted |-> Append(acc.evicted, a)]

\* The candidates given up for needed to fit under limits: in order, skipping
\* what relieves no shortage, until it fits or none is left.
Evictions(base, needed, limits) ==
    FoldLeft(LAMBDA acc, a : GiveUp(acc, a, needed, limits),
             [base |-> base, evicted |-> <<>>], Candidates)

\* Wrong variant of Batch: the fixed requirements are not set aside.
BatchIgnoringFixed(base, q) ==
    CHOOSE n \in 0 .. q.items :
        /\ \A r \in Resource : q.perItem[r] # 0 => base[r] + n * q.perItem[r] <= q.limits[r]
        /\ \A m \in n + 1 .. q.items : \E r \in Resource : base[r] + m * q.perItem[r] > q.limits[r]

\* Room for items in one resource, or no cap where an item takes none.
Room(base, q, r) ==
    IF q.perItem[r] = 0 THEN q.items
    ELSE IF base[r] + q.fixed[r] > q.limits[r] THEN 0
    ELSE (q.limits[r] - base[r] - q.fixed[r]) \div q.perItem[r]

\* maximum_batch: the smallest cap.
Batch(base, q) ==
    LET caps == {q.items} \cup { Room(base, q, r) : r \in Resource }
    IN  CHOOSE n \in caps : \A m \in caps : n <= m

-----------------------------------------------------------------------------
(* Reporting allocations *)

LedgerInit ==
    /\ allocations = <<>>
    /\ reserved = Nothing
    /\ active = 0
    /\ accepting = TRUE
    /\ callback = FALSE
    /\ reservation = [h \in Holder |-> Vacant]
    /\ report = Vacant

\* upsert: residency and holding may change, bytes and category may not.
Upsert(a, roles, held) ==
    /\ roles \in Residency(a)
    /\ allocations' = [x \in DOMAIN allocations \cup {a} |->
                          IF x = a THEN [roles |-> roles, held |-> held]
                                   ELSE allocations[x]]
    /\ report' = Vacant
    /\ UNCHANGED <<reserved, active, accepting, callback, reservation>>

Without(ids) == [x \in DOMAIN allocations \ ids |-> allocations[x]]

RemoveAllocation(a) ==
    /\ a \in DOMAIN allocations
    /\ allocations' = Without({a})
    /\ report' = Vacant
    /\ UNCHANGED <<reserved, active, accepting, callback, reservation>>

-----------------------------------------------------------------------------
(* Admission *)

Report(status, q, batch, evicted) ==
    [status |-> status, request |-> q, batch |-> batch, evicted |-> evicted]

Refusal(status, q) == Report(status, q, 0, <<>>)

\* Wrong variant of Reserve: the amount is taken but not counted.
ReserveUncounted(h, amount) ==
    /\ reserved' = reserved
    /\ active' = active + 1
    /\ reservation' = [reservation EXCEPT ![h] = amount]

\* A live reservation, which returns on release what it takes now.
Reserve(h, amount) ==
    /\ reserved' = Plus(reserved, amount)
    /\ active' = active + 1
    /\ reservation' = [reservation EXCEPT ![h] = amount]

\* admit() of a request by a holder without a reservation.
Admit(h, q) ==
    LET whole   == Plus(q.fixed, Times(q.perItem, q.items))
        minimum == Plus(q.fixed, Times(q.perItem, IF q.items = 0 THEN 0 ELSE 1))
        choice  == Evictions(Base, minimum, q.limits)
        batch   == Batch(choice.base, q)
        part    == Plus(q.fixed, Times(q.perItem, batch))
    IN
    /\ reservation[h] = Vacant
    /\ UNCHANGED <<accepting, callback>>
    /\ \/ /\ ~accepting
          /\ report' = Refusal("quiescing", q)
          /\ UNCHANGED <<allocations, reserved, active, reservation>>
       \/ /\ accepting
          /\ Fits(Plus(Base, whole), q.limits)
          /\ Reserve(h, whole)
          /\ report' = Report("whole", q, q.items, <<>>)
          /\ UNCHANGED allocations
       \/ /\ accepting
          /\ ~Fits(Plus(Base, whole), q.limits)
          /\ ~Fits(Plus(choice.base, minimum), q.limits)
          /\ report' = Refusal("over budget", q)
          /\ UNCHANGED <<allocations, reserved, active, reservation>>
       \/ /\ accepting
          /\ ~Fits(Plus(Base, whole), q.limits)
          /\ Fits(Plus(choice.base, minimum), q.limits)
          /\ allocations' = Without(ToSet(choice.evicted))
          /\ Reserve(h, part)
          /\ report' = Report(IF batch = q.items THEN "whole" ELSE "tiled",
                              q, batch, choice.evicted)

FirstFitting(fitting) == CHOOSE i \in fitting : \A j \in fitting : i <= j

\* admit_preview_quality(): the host's first option that fits as things are,
\* else the first that fits after evictions.
AdmitPreview(h, p) ==
    LET choice(i) == Evictions(Base, p.options[i], p.limits)
        asIs    == { i \in DOMAIN p.options : Fits(Plus(Base, p.options[i]), p.limits) }
        evicting == { i \in DOMAIN p.options :
                        Fits(Plus(choice(i).base, p.options[i]), p.limits) }
        taken   == FirstFitting(IF asIs # {} THEN asIs ELSE evicting)
    IN
    /\ reservation[h] = Vacant
    /\ UNCHANGED <<accepting, callback>>
    /\ \/ /\ ~accepting
          /\ report' = Refusal("quiescing", p)
          /\ UNCHANGED <<allocations, reserved, active, reservation>>
       \/ /\ accepting
          /\ evicting = {}
          /\ report' = Refusal("over budget", p)
          /\ UNCHANGED <<allocations, reserved, active, reservation>>
       \/ /\ accepting
          /\ evicting # {}
          /\ allocations' = Without(ToSet(choice(taken).evicted))
          /\ Reserve(h, p.options[taken])
          /\ report' = Report("preview", p, taken, choice(taken).evicted)

\* ResourceReservation::release, also by destruction or move assignment.
Release(h) ==
    /\ reservation[h] # Vacant
    /\ reserved' = Minus(reserved, reservation[h])
    /\ active' = active - 1
    /\ reservation' = [reservation EXCEPT ![h] = Vacant]
    /\ report' = Vacant
    /\ UNCHANGED <<allocations, accepting, callback>>

-----------------------------------------------------------------------------
(* The gate and the callback *)

BeginQuiesce ==
    /\ accepting' = FALSE
    /\ report' = Vacant
    /\ UNCHANGED <<allocations, reserved, active, callback, reservation>>

ResumeAdmission ==
    /\ accepting' = TRUE
    /\ report' = Vacant
    /\ UNCHANGED <<allocations, reserved, active, callback, reservation>>

SetCallback ==
    /\ callback' \in BOOLEAN
    /\ report' = Vacant
    /\ UNCHANGED <<allocations, reserved, active, accepting, reservation>>

LedgerNext ==
    \/ \E a \in Allocation, held \in BOOLEAN :
           \E roles \in Residency(a) : Upsert(a, roles, held)
    \/ \E a \in Allocation : RemoveAllocation(a)
    \/ \E h \in Holder, q \in Request : Admit(h, q)
    \/ \E h \in Holder, p \in Preview : AdmitPreview(h, p)
    \/ \E h \in Holder : Release(h)
    \/ BeginQuiesce
    \/ ResumeAdmission
    \/ SetCallback

LedgerSpec == LedgerInit /\ [][LedgerNext]_ledgerVars

-----------------------------------------------------------------------------
(* Properties *)

Holding == { h \in Holder : reservation[h] # Vacant }

\* The ledger's running total and count are those of the live reservations,
\* whichever threads admit and release in whichever order (subtract_usage is
\* unsigned: one release too many would wrap, one too few would leak).
ReservedExact ==
    /\ reserved = Total(reservation, Holding)
    /\ active = Cardinality(Holding)

Admitted == report # Vacant /\ report.status \in {"whole", "tiled", "preview"}

\* Whatever is admitted fits, together with everything taken before, under
\* the limits it was admitted with: concurrent operations cannot overcommit.
\* Tiled work gets the largest batch of which this is true.
AdmissionFits ==
    Admitted =>
        /\ Fits(Base, report.request.limits)
        /\ report.status = "tiled" =>
              ~Fits(Plus(Base, report.request.perItem), report.request.limits)

Least(q) == Plus(q.fixed, Times(q.perItem, IF q.items = 0 THEN 0 ELSE 1))

Refused == report # Vacant /\ report.status = "over budget"

\* What would be taken with these allocations gone.
BaseWithout(ids) == Minus(Base, SumOver(ids))

\* An open ledger refuses only what would not fit with every idle cache gone:
\* walking the candidates once, in order, misses no combination.
RefusalJustified ==
    Refused =>
        IF report.request \in Request
          THEN ~Fits(Plus(BaseWithout(Evictable), Least(report.request)),
                     report.request.limits)
          ELSE \A i \in DOMAIN report.request.options :
                 ~Fits(Plus(BaseWithout(Evictable), report.request.options[i]),
                       report.request.limits)

\* What a step evicts are idle caches, and without the last the work would
\* not have fit.
EvictsAsNeeded ==
    report' # Vacant /\ report'.evicted # <<>> =>
        LET q    == report'.request
            gone == ToSet(report'.evicted)
            kept == gone \ {Last(report'.evicted)}
            need == IF q \in Request THEN Least(q) ELSE q.options[report'.batch]
        IN  /\ \A a \in gone : a \in Cache /\ ~allocations[a].held
            /\ ~Fits(Plus(BaseWithout(kept), need), q.limits)

\* Evictions take idle caches only and stop as soon as the work fits.
EvictionsNeeded == [][EvictsAsNeeded]_ledgerVars
=============================================================================
