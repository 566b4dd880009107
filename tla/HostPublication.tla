--------------------------- MODULE HostPublication ---------------------------
(***************************************************************************)
(* What host execution promises (openspec/specs/execution-backends/        *)
(* spec.md:106): operations are opened against the current revision, any   *)
(* of them may be dropped at any time, and one that publishes does so on   *)
(* the very revision it was opened against, with all of its outputs at     *)
(* once.  Nothing else changes the document.                               *)
(***************************************************************************)
EXTENDS Integers

CONSTANTS
    Name,       \* identities of operations; none is used twice
    Content     \* what a document may hold: functions of resource identities

VARIABLES
    revision,   \* the document's revision
    content,    \* its committed resources
    open        \* operations in flight: the base and the content of each

publicationVars == <<revision, content, open>>

\* Operations by name, with the given ones gone.
Remaining(names) == [n \in DOMAIN open \ names |-> open[n]]

Open(n, outputs) ==
    /\ n \notin DOMAIN open
    /\ open' = [m \in DOMAIN open \cup {n} |->
                   IF m = n THEN [base |-> revision, outputs |-> outputs] ELSE open[m]]
    /\ UNCHANGED <<revision, content>>

Drop(names) ==
    /\ open' = Remaining(names)
    /\ UNCHANGED <<revision, content>>

\* The outputs replace what is committed under their identities, no more.
Publish(n) ==
    /\ n \in DOMAIN open
    /\ open[n].base = revision
    /\ revision' = revision + 1
    /\ content' = [i \in DOMAIN content |->
                      IF i \in DOMAIN open[n].outputs THEN open[n].outputs[i]
                                                      ELSE content[i]]
    /\ open' = Remaining({n})

PublicationNext ==
    \/ \E n \in Name, outputs \in Content : Open(n, outputs)
    \/ \E names \in SUBSET Name : Drop(names)
    \/ \E n \in Name : Publish(n)

PublicationInit == DOMAIN open = {}

PublicationSpec == PublicationInit /\ [][PublicationNext]_publicationVars
=============================================================================
