-------------------------- MODULE ExportQueueRefinement --------------------------
(***************************************************************************)
(* ExportQueue implements ExportLine: the line is the queued entries of    *)
(* the Vec in their order, and with no process what counts is the file.    *)
(***************************************************************************)
EXTENDS ExportQueue

\* Pairs of the entries that wait, in the order of the Vec
InOrder(js) ==
    {p \in Waiting(js) \X Waiting(js) : js[p[1]].place < js[p[2]].place}

EndOf(js) ==
    [i \in Ids |-> IF js[i].state \in Finished THEN js[i].state ELSE "none"]

\* The entries that count: the store's, once read, where no process has them
OnDisk == IF store.readable THEN store ELSE EmptyStore
Entry == IF up THEN jobs ELSE OnDisk.jobs

Asked == 1..(IF up THEN next ELSE OnDisk.next) - 1
Lined == IF up THEN Waiting(jobs) ELSE {}
Before == IF up THEN InOrder(jobs) ELSE {}
Offered ==
    {i \in Ids : \/ Entry[i].state = "interrupted"
                 \/ ~up /\ Entry[i].state \in {"queued", "running"}}

Line == INSTANCE ExportLine WITH
    asked <- Asked, line <- Lined, before <- Before, making <- running.id,
    offered <- Offered, ended <- EndOf(Entry)

\* The queue keeps the promises of ExportLine: first come first made, one at a
\* time, outcomes for ever, nothing lost to a crash and nothing restarted by
\* itself, however callers, worker, crashes and launches interleave.
ImplementsExportLine == Line!Spec
=============================================================================
