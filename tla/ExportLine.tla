------------------------------- MODULE ExportLine -------------------------------
(***************************************************************************)
(* What the export queue promises, with no threads, no store and no files: *)
(* exports asked for wait in one line, one at a time leaves its head and   *)
(* is made, an outcome is for ever, and when the application stops, what   *)
(* was waiting or being made is offered again and never starts by itself.  *)
(***************************************************************************)
EXTENDS Naturals

CONSTANT Ids

VARIABLES
    asked,   \* exports ever asked for
    line,    \* those waiting
    before,  \* pairs of them: the first joined the line before the second
    making,  \* the one being made, 0 for none
    offered, \* those the application stopped under
    ended    \* how each ended, "none" while it has not or once forgotten

vars == <<asked, line, before, making, offered, ended>>

Outcomes == {"completed", "failed", "cancelled"}

Init ==
    /\ line = {} /\ before = {} /\ making = 0
    /\ asked \in SUBSET Ids /\ offered \in SUBSET asked
    /\ ended \in [Ids -> Outcomes \cup {"none"}]

\* Only what has ended may be forgotten, at any time.
Settled(was, now) ==
    \A i \in Ids : now[i] = was[i] \/ (was[i] \in Outcomes /\ now[i] = "none")

\* `i` joins the line behind all who wait.
Join(i) ==
    /\ line' = line \cup {i}
    /\ before' = before \cup (line \X {i})

\* `i` leaves it, wherever it is; the others keep their order.
Leave(i) ==
    /\ line' = line \ {i}
    /\ before' = {p \in before : i \notin {p[1], p[2]}}

\* A new export joins the line at its end.
Ask(i) ==
    /\ i \in Ids \ asked
    /\ asked' = asked \cup {i} /\ Join(i)
    /\ UNCHANGED <<making, offered, ended>>

\* One that was interrupted joins it at its end too.
AskAgain(i) ==
    /\ i \in offered
    /\ offered' = offered \ {i} /\ Join(i)
    /\ UNCHANGED <<asked, making, ended>>

\* The head of the line is made, when nothing else is.
Begin(i) ==
    /\ making = 0 /\ i \in line
    /\ \A k \in line \ {i} : <<i, k>> \in before
    /\ making' = i /\ Leave(i)
    /\ UNCHANGED <<asked, offered, ended>>

End ==
    /\ making # 0
    /\ making' = 0
    /\ \E o \in Outcomes : Settled([ended EXCEPT ![making] = o], ended')
    /\ UNCHANGED <<asked, line, before, offered>>

\* An export that waits or is offered ends without being made.
GiveUp(i) ==
    /\ i \in line \cup offered
    /\ Leave(i) /\ offered' = offered \ {i}
    /\ \E o \in {"cancelled", "failed"} :
          Settled([ended EXCEPT ![i] = o], ended')
    /\ UNCHANGED <<asked, making>>

Forget ==
    /\ Settled(ended, ended')
    /\ UNCHANGED <<asked, line, before, making, offered>>

\* The export being made is stopped, the application stopping.
Interrupt ==
    /\ making # 0
    /\ making' = 0 /\ offered' = offered \cup {making}
    /\ Settled(ended, ended')
    /\ UNCHANGED <<asked, line, before>>

\* The application stops, in order or not.
Stop ==
    /\ line' = {} /\ before' = {} /\ making' = 0
    /\ offered' = offered \cup line \cup ({making} \ {0})
    /\ UNCHANGED <<asked, ended>>

Next ==
    \/ \E i \in Ids : Ask(i) \/ AskAgain(i) \/ Begin(i) \/ GiveUp(i)
    \/ End
    \/ Forget
    \/ Interrupt
    \/ Stop

Spec == Init /\ [][Next]_vars
=============================================================================
