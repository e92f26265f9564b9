----------------------------- MODULE ArtefactCache -----------------------------
(***************************************************************************)
(* The cache of derived artefacts on files and those who keep entries in    *)
(* it: cache.rs, the sheets and the manifest of filmstrip.rs, the peaks of *)
(* waveform/mod.rs, the encoder profile of capability_cache.rs.            *)
(*                                                                         *)
(* The directory is the sequence of its files in the order of their last   *)
(* use, which is their modification time.  A job writes its entries one    *)
(* after the other, each through a partial beside it; every write ends by  *)
(* evicting what was used longest ago.  Jobs write different entries.      *)
(* Bytes are a size and whether they are all there.                        *)
(***************************************************************************)
EXTENDS Integers, Sequences, FiniteSets, SequencesExt

CONSTANTS
    Jobs,            \* writers: a strip, peaks, a profile
    EntriesOf,       \* what each writes, in order: a strip's sheets, then its manifest
    SizeOf,          \* bytes of an entry
    Budget,          \* budget_bytes
    MaxCrashes

ASSUME CacheAssumption ==
    /\ Budget \in Nat /\ MaxCrashes \in Nat
    /\ \A j \in Jobs : EntriesOf[j] \in Seq(Range(EntriesOf[j])) \ {<<>>}
    /\ \A j \in Jobs : \A i \in DOMAIN EntriesOf[j] :
          /\ SizeOf[EntriesOf[j][i]] \in Nat
          /\ \A k \in Jobs : EntriesOf[j][i] \in Range(EntriesOf[k]) => j = k

VARIABLES
    files,       \* files, least recently used first
    job,        \* what each writer is at
    swept,      \* the last thing done to the directory was an eviction
    crashes
cacheVars == <<files, job, swept, crashes>>

-----------------------------------------------------------------------------
(* The directory                                                             *)

File(name, partial, size, whole) == [name |-> name, partial |-> partial, size |-> size, whole |-> whole]
Named(f, name, partial) == f.name = name /\ f.partial = partial
\* There is one file of a name.
Without(d, name, partial) ==
    LET found == {i \in DOMAIN d : Named(d[i], name, partial)}
    IN IF found = {} THEN d ELSE RemoveAt(d, CHOOSE i \in found : TRUE)
OnDisk(name, partial) == \E i \in DOMAIN files : Named(files[i], name, partial)
Entry(name) == CHOOSE f \in Range(files) : Named(f, name, FALSE)
Total(d) == FoldSeq(LAMBDA f, sum : f.size + sum, 0, d)

\* Whatever is written or read is the one used last.
Used(d, f) == Append(Without(d, f.name, f.partial), f)

-----------------------------------------------------------------------------
(* A write                                                                   *)

Idle == [pc |-> "idle", next |-> 1, listing |-> <<>>, total |-> 0]
Name(j) == EntriesOf[j][job[j].next]

\* filmstrip, peaks, cached_or_probe: what is there whole is not made again; a
\* strip is there when its manifest and every sheet it names are.
Needed(j) == \E i \in DOMAIN EntriesOf[j] : ~OnDisk(EntriesOf[j][i], FALSE)

\* Reading an entry marks it recently used; only the manifest of a strip is
\* read through the cache.
Touched(j) ==
    LET last == EntriesOf[j][Len(EntriesOf[j])]
    IN IF OnDisk(last, FALSE) THEN Used(files, Entry(last)) ELSE files

Begins(j) ==
    /\ job[j].pc = "idle"
    /\ files' = Touched(j)
    /\ job' = [job EXCEPT ![j].pc = IF Needed(j) THEN "create" ELSE @, ![j].next = 1]
    /\ UNCHANGED <<swept, crashes>>

Creates(j) ==
    /\ job[j].pc = "create"
    /\ files' = Used(files, File(Name(j), TRUE, 0, FALSE))
    /\ job' = [job EXCEPT ![j].pc = "fill"]
    /\ swept' = FALSE /\ UNCHANGED crashes

\* write_all and sync_all; they write to the file they opened, which another
\* writer's eviction may have removed.
FillsIn(j) ==
    /\ job[j].pc = "fill"
    /\ files' = IF OnDisk(Name(j), TRUE)
               THEN Used(files, File(Name(j), TRUE, SizeOf[Name(j)], TRUE)) ELSE files
    /\ job' = [job EXCEPT ![j].pc = "rename"]
    /\ UNCHANGED <<swept, crashes>>

\* The rename keeps the modification time.  It fails when the partial is gone,
\* and the job with it.
Renames(j) ==
    /\ job[j].pc = "rename"
    /\ LET found == OnDisk(Name(j), TRUE)
           others == Without(files, Name(j), FALSE)
       IN /\ files' = IF found
                     THEN [i \in DOMAIN others |->
                             IF Named(others[i], Name(j), TRUE)
                             THEN [others[i] EXCEPT !.partial = FALSE] ELSE others[i]]
                     ELSE files
          /\ job' = [job EXCEPT ![j] = IF found THEN [@ EXCEPT !.pc = "list"] ELSE Idle]
    /\ UNCHANGED <<swept, crashes>>

-----------------------------------------------------------------------------
(* Its eviction                                                              *)

\* The next entry of the job, after the last of which it is done.
Onward(j) ==
    IF job[j].next < Len(EntriesOf[j])
    THEN [Idle EXCEPT !.pc = "create", !.next = job[j].next + 1] ELSE Idle

\* Mutant: nothing goes until the next write.
WithinTwice(total) == total <= 2 * Budget

Within(total) == total <= Budget

\* collect: the files and their sizes as they are now.
Lists(j) ==
    /\ job[j].pc = "list"
    /\ job' = [job EXCEPT ![j].pc = "evict", ![j].listing = files, ![j].total = Total(files)]
    /\ UNCHANGED <<files, swept, crashes>>

\* One file of the listing: kept when it is the one just written; what another
\* removed meanwhile does not count.
Evicts(j) ==
    /\ job[j].pc = "evict" /\ job[j].listing # <<>> /\ ~Within(job[j].total)
    /\ LET f    == Head(job[j].listing)
           goes == ~Named(f, Name(j), FALSE) /\ OnDisk(f.name, f.partial)
       IN /\ files' = IF goes THEN Without(files, f.name, f.partial) ELSE files
          /\ job' = [job EXCEPT ![j].listing = Tail(@),
                                ![j].total = IF goes THEN (IF f.size > @ THEN 0 ELSE @ - f.size) ELSE @]
    /\ UNCHANGED <<swept, crashes>>

Evicted(j) ==
    /\ job[j].pc = "evict" /\ (job[j].listing = <<>> \/ Within(job[j].total))
    /\ job' = [job EXCEPT ![j] = Onward(j)]
    /\ swept' = TRUE /\ UNCHANGED <<files, crashes>>

-----------------------------------------------------------------------------

\* The job's process fails or is cancelled between two entries.
GivesUp(j) ==
    /\ job[j].pc = "create" /\ job[j].next > 1
    /\ job' = [job EXCEPT ![j] = Idle]
    /\ UNCHANGED <<files, swept, crashes>>

\* The application dies: the files stay as they are.
Dies ==
    /\ crashes < MaxCrashes
    /\ crashes' = crashes + 1
    /\ job' = [j \in Jobs |-> Idle] /\ swept' = FALSE
    /\ UNCHANGED files

CacheInit == files = <<>> /\ job = [j \in Jobs |-> Idle] /\ swept = TRUE /\ crashes = 0

CacheNext ==
    \/ \E j \in Jobs : \/ Begins(j) \/ Creates(j) \/ FillsIn(j) \/ Renames(j)
                       \/ Lists(j) \/ Evicts(j) \/ Evicted(j) \/ GivesUp(j)
    \/ Dies

CacheSpec == CacheInit /\ [][CacheNext]_cacheVars

-----------------------------------------------------------------------------
(* Properties                                                                *)

\* Whenever and wherever the application dies, and whoever else writes and
\* evicts, an entry under its own name is all there; and once every writer is
\* done the directory fits its budget, partials a crash left behind included,
\* unless all it holds is one entry (write, evict).
WholeWithinBudget ==
    /\ \A i \in DOMAIN files : ~files[i].partial => files[i].whole
    /\ (swept /\ \A j \in Jobs : job[j].pc = "idle") => (Total(files) <= Budget \/ Len(files) = 1)
===============================================================================
