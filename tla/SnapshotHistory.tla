---------------------------- MODULE SnapshotHistory ----------------------------
(***************************************************************************)
(* What a history promises, stated over whole graphs: undo gives back the  *)
(* graph that was there before the last entry, redo the one after it, and  *)
(* everything done within a gesture is one entry.  No inverse, no change:  *)
(* `past` and `future` simply keep the graphs.                             *)
(***************************************************************************)
EXTENDS Naturals, Sequences

CONSTANTS
    Works(_), \* whether a graph can be evaluated
    Depth     \* how many entries are remembered, at least 1

VARIABLES
    now,    \* the graph
    past,   \* the graphs undo leads back to, the oldest first
    future, \* the graphs redo leads to, the next one last
    gesture \* whether a gesture is open, whether something was edited in it,
            \* and the graph it started from

vars == <<now, past, future, gesture>>

Remember(graphs, g) ==
    LET all == Append(graphs, g)
    IN IF Len(all) > Depth THEN Tail(all) ELSE all

Closed == [open |-> FALSE, changed |-> FALSE, from |-> <<>>]

\* The past once the open gesture, if there is one, is an entry
Settled ==
    IF gesture.open /\ gesture.changed THEN Remember(past, gesture.from) ELSE past

Init == past = <<>> /\ future = <<>> /\ gesture = Closed

\* An edit leads to any graph, but not from one that works to one that does
\* not.
Edit ==
    /\ future' = <<>>
    /\ Works(now) => Works(now')
    /\ IF gesture.open THEN gesture' = [gesture EXCEPT !.changed = TRUE]
                            /\ UNCHANGED past
       ELSE past' = Remember(past, now) /\ UNCHANGED gesture

Begin ==
    /\ UNCHANGED <<now, future>>
    /\ gesture' = [open |-> TRUE, changed |-> FALSE, from |-> now]
    /\ past' = Settled

End ==
    /\ UNCHANGED <<now, future>>
    /\ gesture' = Closed /\ past' = Settled

Undo ==
    /\ gesture' = Closed
    /\ future' = Append(future, now)
    /\ Settled # <<>>
    /\ Append(past', now') = Settled

Redo ==
    /\ gesture' = Closed
    /\ future # <<>>
    /\ future = Append(future', now')
    /\ past' = Remember(Settled, now)

Next == Edit \/ Begin \/ End \/ Undo \/ Redo

Spec == Init /\ [][Next]_vars
=============================================================================
