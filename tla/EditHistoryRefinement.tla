------------------------- MODULE EditHistoryRefinement -------------------------
(***************************************************************************)
(* The document's history of inverses implements a history of snapshots:   *)
(* a past graph is what reverting the entries after it leads to, and a     *)
(* future graph is what applying the entries before it leads to.           *)
(***************************************************************************)
EXTENDS EditHistory

GestureFrom == Revert(project, gesture.changes).project

\* Where undoing the entries leads from a graph, and redoing them
GraphsBehind(entries, graph) ==
    LET before[i \in 1..Len(entries) + 1] ==
            IF i = Len(entries) + 1 THEN graph
            ELSE Revert(before[i + 1], entries[i]).project
    IN [i \in 1..Len(entries) |-> before[i]]
GraphsAhead(entries, graph) ==
    LET beyond[i \in 1..Len(entries) + 1] ==
            IF i = Len(entries) + 1 THEN graph
            ELSE ApplyAll(beyond[i + 1], entries[i]).project
    IN [i \in 1..Len(entries) |-> beyond[i]]

PastGraphs == GraphsBehind(done, GestureFrom)
FutureGraphs == GraphsAhead(undone, project)

Snapshots == INSTANCE SnapshotHistory WITH
    Works <- Evaluates,
    Depth <- Depth,
    now <- project,
    past <- PastGraphs,
    future <- FutureGraphs,
    gesture <- IF gesture.open
               THEN [open |-> TRUE, changed |-> gesture.changes # <<>>,
                     from |-> GestureFrom]
               ELSE [open |-> FALSE, changed |-> FALSE, from |-> <<>>]

(* The history implements snapshots (edit.rs: Document, commit, coalesce,  *)
(* undo, redo): undo and redo give back exactly the graph that was there,  *)
(* a gesture is one entry however its changes were coalesced, an edit that *)
(* is taken back leaves no trace, and no edit breaks a graph that worked.  *)
ImplementsSnapshots == Snapshots!Spec
=============================================================================
