---------------------------- MODULE EditHistory ----------------------------
(***************************************************************************)
(* What an undo history promises, without storages, generations, budgets   *)
(* or captures: a document of items, and two stacks of changes.  A change  *)
(* is undone whole, and only while the document still holds, on the items  *)
(* the change touched, exactly what the change left there.                 *)
(***************************************************************************)
EXTENDS Sequences, Integers

CONSTANT Item       \* the separately editable parts of the document

VARIABLES
    doc,            \* Item -> content
    past, future    \* changes: items -> [from, to]

historyVars == <<doc, past, future>>

Top(s) == s[Len(s)]

Below(s) == SubSeq(s, 1, Len(s) - 1)

\* The document with the given side of a change written over it.
Applied(c, side(_)) ==
    [i \in Item |-> IF i \in DOMAIN c THEN side(c[i]) ELSE doc[i]]

From(x) == x.from

To(x) == x.to

\* Anything may edit the document; the stacks do not notice.
Edit == UNCHANGED <<past, future>>

\* A new change enters the past, either describing what was edited since it
\* was opened or publishing its own effect; the oldest changes may be
\* forgotten and nothing remains to redo.
Record ==
    /\ past' # <<>>
    /\ doc' = Applied(Top(past'), To)
    /\ doc' = doc \/ doc = Applied(Top(past'), From)
    /\ \E k \in 0..Len(past) : Below(past') = SubSeq(past, k + 1, Len(past))
    /\ future' = <<>>

Undo ==
    /\ past # <<>>
    /\ doc = Applied(Top(past), To)
    /\ doc' = Applied(Top(past), From)
    /\ past' = Below(past)
    /\ future' = Append(future, Top(past))

Redo ==
    /\ future # <<>>
    /\ doc = Applied(Top(future), From)
    /\ doc' = Applied(Top(future), To)
    /\ future' = Below(future)
    /\ past' = Append(past, Top(future))

Init == past = <<>> /\ future = <<>>

Next == Edit \/ Record \/ Undo \/ Redo

Spec == Init /\ [][Next]_historyVars
=============================================================================
