------------------------------ MODULE ProxyFolder ------------------------------
(***************************************************************************)
(* The folder of one source's preview proxy: proxy.rs and the two commands *)
(* around it in media.rs.                                                  *)
(*                                                                         *)
(* A run of ffmpeg writes numbered segments and, as each is closed, a line *)
(* of its list.  Cancelled, failed or killed with the application it       *)
(* leaves what it wrote; the next run goes on after the last segment that  *)
(* was closed.  Time is counted in source ticks; the folder is one version *)
(* of the source's, and its budget is never met (the README says what      *)
(* happens when it is).                                                    *)
(***************************************************************************)
EXTENDS Integers, Sequences, FiniteSets, FiniteSetsExt

CONSTANTS
    SourceTicks,     \* the source's length
    SegmentTicks,    \* SEGMENT_SECONDS
    MaxRuns,         \* times a proxy is asked for
    NoProxy          \* no manifest, nothing answered

ASSUME ProxyAssumption == SourceTicks \in Nat \ {0} /\ SegmentTicks \in Nat \ {0} /\ MaxRuns \in Nat

VARIABLES
    segments,   \* the segment files: the source ticks each holds
    listed,     \* the lists, by the number of the first segment of their run
    manifest,   \* proxy.json
    process,    \* generate, and the process it runs
    made,       \* the proxy last answered
    runs
proxyVars == <<segments, listed, manifest, process, made, runs>>

-----------------------------------------------------------------------------
(* What is in the folder                                                     *)

Ticked(from, to) == {t \in 0..SourceTicks - 1 : from <= t /\ t < to}
NoProcess == [pc |-> "none", at |-> 0, number |-> 0, list |-> 0]

\* The lines of every list whose segment is there, in order of their numbers.
Closed == UNION {{line \in listed[l] : line.number \in DOMAIN segments} : l \in DOMAIN listed}
InOrder(lines) ==
    [i \in 1..Cardinality(lines) |->
        CHOOSE line \in lines : Cardinality({u \in lines : u.number <= line.number}) = i]

\* Mutant: the start a run lists is trusted; it counts from where it began.
ListedStart(done, i) == done[i].start

\* A segment starts where the one before it ended.
StartOf(done, i) == IF i = 1 THEN 0 ELSE done[i - 1].end

Completed ==
    LET done == InOrder(Closed)
    IN [i \in DOMAIN done |-> [number |-> done[i].number, start |-> StartOf(done, i), end |-> done[i].end]]

\* remove_incomplete
OnlyOf(done) ==
    [n \in {done[i].number : i \in DOMAIN done} \cap DOMAIN segments |-> segments[n]]

\* A manifest counts while every segment it names is there.
FoundProxy == manifest # NoProxy /\ \A i \in DOMAIN manifest : manifest[i].number \in DOMAIN segments

-----------------------------------------------------------------------------
(* generate                                                                  *)

\* start_number
NextNumber(done) == Len(done)

Generate ==
    /\ process.pc = "none" /\ runs < MaxRuns
    /\ runs' = runs + 1
    /\ IF FoundProxy
       THEN made' = manifest /\ UNCHANGED <<segments, listed, process>>
       ELSE LET done == Completed
                at   == IF done = <<>> THEN 0 ELSE done[Len(done)].end
            IN /\ segments' = OnlyOf(done)
               /\ process' = [pc |-> "runs", at |-> at, number |-> NextNumber(done),
                              list |-> NextNumber(done)]
               /\ UNCHANGED <<listed, made>>
    /\ UNCHANGED manifest

-----------------------------------------------------------------------------
(* The process                                                               *)

\* It opens a segment, and its list with the first.
OpensSegment ==
    /\ process.pc = "runs" /\ process.at < SourceTicks
    /\ segments' = [n \in DOMAIN segments \cup {process.number} |->
                      IF n = process.number THEN {} ELSE segments[n]]
    /\ listed' = IF process.number # process.list THEN listed
                 ELSE [l \in DOMAIN listed \cup {process.list} |->
                         IF l = process.list THEN {} ELSE listed[l]]
    /\ process' = [process EXCEPT !.pc = "writes"]
    /\ UNCHANGED <<manifest, made, runs>>

\* It closes it: at the next boundary of a segment, or at the end.  What a run
\* lists as the start counts from zero in the run's first segment.
ClosesSegment ==
    /\ process.pc = "writes"
    /\ LET end == Min({process.at + SegmentTicks, SourceTicks})
           first == process.number = process.list
       IN /\ segments' = [segments EXCEPT ![process.number] = Ticked(process.at, end)]
          /\ listed' = [listed EXCEPT ![process.list] =
                          @ \cup {[number |-> process.number, end |-> end,
                                   start |-> IF first THEN 0 ELSE process.at]}]
          /\ process' = [process EXCEPT !.pc = "runs", !.number = @ + 1, !.at = end]
    /\ UNCHANGED <<manifest, made, runs>>

\* Whatever happened, only complete segments remain; the manifest is written
\* when the process ended well.
Ends(well) ==
    LET done == Completed
    IN /\ segments' = OnlyOf(done)
       /\ manifest' = IF well THEN done ELSE manifest
       /\ made' = IF well THEN done ELSE made
       /\ process' = NoProcess /\ UNCHANGED <<listed, runs>>

Finishes == process.pc = "runs" /\ process.at >= SourceTicks /\ Ends(TRUE)

\* It fails at any moment, or is killed because the proxy was cancelled.
Fails == process.pc \in {"runs", "writes"} /\ Ends(FALSE)

-----------------------------------------------------------------------------

\* discard: the whole folder.
Discards ==
    /\ process.pc = "none" /\ manifest # NoProxy
    /\ segments' = [n \in {} |-> {}] /\ listed' = [l \in {} |-> {}] /\ manifest' = NoProxy
    /\ made' = NoProxy /\ UNCHANGED <<process, runs>>

\* The application dies, its process with it, and leaves the folder as it is.
Killed ==
    /\ process.pc # "none"
    /\ process' = NoProcess /\ made' = NoProxy
    /\ UNCHANGED <<segments, listed, manifest, runs>>

ProxyInit ==
    /\ segments = [n \in {} |-> {}] /\ listed = [l \in {} |-> {}] /\ manifest = NoProxy
    /\ process = NoProcess /\ made = NoProxy /\ runs = 0

ProxyNext ==
    Generate \/ OpensSegment \/ ClosesSegment \/ Finishes \/ Fails \/ Discards \/ Killed

ProxySpec == ProxyInit /\ [][ProxyNext]_proxyVars

-----------------------------------------------------------------------------
(* Properties                                                                *)

\* "A finished proxy: its segments, in order, covering the whole source",
\* however often it was cancelled, failed or died with the application before:
\* each segment holds the pictures from its start to its end, it starts where
\* the one before ended, and the last ends with the source (generate,
\* completed_segments).
ProxyCovers ==
    \A proxy \in {manifest, made} \ {NoProxy} :
        /\ proxy # <<>> /\ proxy[1].start = 0 /\ proxy[Len(proxy)].end = SourceTicks
        /\ \A i \in DOMAIN proxy :
              /\ proxy[i].number \in DOMAIN segments
              /\ segments[proxy[i].number] = Ticked(proxy[i].start, proxy[i].end)
              /\ i > 1 => proxy[i].start = proxy[i - 1].end
===============================================================================
