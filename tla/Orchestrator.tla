------------------------------ MODULE Orchestrator ------------------------------
(***************************************************************************)
(* Running the FFmpeg sidecar: orchestrator/mod.rs of the engine crate.    *)
(*                                                                         *)
(* `run` gives every job a supervisor thread.  The supervisor waits for a  *)
(* slot of the job's priority, spawns the process, polls it until it exits *)
(* or its token is tripped, joins the threads at its pipes, gives the slot *)
(* back, removes what a failure left, and answers.  One thread reads the   *)
(* process's standard output and hands it to the job's consumer, another   *)
(* feeds its standard input.  The process itself is the operating system's *)
(* (external), and so are the callers, who may trip a token at any time.   *)
(*                                                                         *)
(* Several jobs may share a token: every process of one export does.       *)
(***************************************************************************)
EXTENDS Integers, FiniteSets

CONSTANTS
    Jobs,        \* jobs that may be run
    Priority,    \* the priority of each
    Tokens,      \* cancel tokens
    TokenOf,     \* the token of each job
    Trippable,   \* bound: tokens a caller may trip
    Streams,     \* jobs whose output goes to a consumer
    Fed,         \* jobs whose standard input a producer feeds
    Writers,     \* jobs that write a file, named in remove_on_failure
    Interactive, Playback, Shared, Background, Export \* Limits

Priorities == {"interactive", "playback", "foreground", "export", "background"}
Sharing == {"foreground", "background"}

\* Where the supervisor of a job is, in the order it goes
Before == {"idle", "started", "queued"}
Busy == {"admitted", "watching", "killing", "joining", "gaveup", "releasing"}
After == {"removing", "ending", "done"}
Outcomes == {"none", "ok", "spawn", "failed", "cancelled", "consumer",
             "unkillable", "shutting_down"}

ASSUME LimitsAssumption ==
    /\ Jobs # {} /\ IsFiniteSet(Jobs)
    /\ Priority \in [Jobs -> Priorities]
    /\ TokenOf \in [Jobs -> Tokens] /\ Trippable \subseteq Tokens
    /\ Streams \subseteq Jobs /\ Fed \subseteq Jobs /\ Writers \subseteq Jobs
    /\ {Interactive, Playback, Shared, Background, Export} \subseteq Nat \ {0}
    /\ Background < Shared

VARIABLES
    pc,       \* where each job's supervisor is
    live,     \* State::live
    running,  \* State::running
    shutting, \* State::shutting_down
    down,     \* where the call of shutdown is
    tripped,  \* cancelled tokens
    process,  \* "none", "runs", "ok" or "bad": exited, with that status
    killed,   \* processes the supervisor terminated
    reader,   \* the thread at standard output
    fed,      \* jobs whose stdin feeder has not ended
    verdict,  \* what the consumer said, if not Continue
    outcome,  \* what the job came to
    written   \* jobs with a file of theirs on the disk

state == <<live, running, shutting>>
child == <<process, killed, written>>
pipes == <<reader, fed, verdict>>
vars == <<pc, state, down, tripped, child, pipes, outcome>>

-----------------------------------------------------------------------------
(* Slots *)

Token(j) == TokenOf[j]
WaitingFor(p) == {j \in Jobs : pc[j] = "queued" /\ Priority[j] = p}
SharedInUse == running["foreground"] + running["background"]
NobodyUrgentWaits ==
    \A p \in Priorities \ {"background"} : WaitingFor(p) = {}

\* Mutant: background work may hold every shared slot.
MayStartGreedy(p) ==
    CASE p = "interactive" -> running[p] < Interactive
      [] p = "playback" -> running[p] < Playback
      [] p = "foreground" -> SharedInUse < Shared
      [] p = "export" -> running[p] < Export
      [] p = "background" -> SharedInUse < Shared /\ NobodyUrgentWaits

\* State::may_start
MayStart(p) ==
    CASE p = "interactive" -> running[p] < Interactive
      [] p = "playback" -> running[p] < Playback
      [] p = "foreground" -> SharedInUse < Shared
      [] p = "export" -> running[p] < Export
      [] p = "background" -> /\ SharedInUse < Shared
                             /\ running[p] < Background
                             /\ NobodyUrgentWaits

Acquiring(j) == pc[j] \in {"started", "queued"}
Cancelled(j) == Token(j) \in tripped

At(j, next) == pc' = [pc EXCEPT ![j] = next]

\* run: the job is live from here on, and has a supervisor.
Run(j) ==
    /\ pc[j] = "idle"
    /\ At(j, "started")
    /\ live' = live \cup {j}
    /\ UNCHANGED <<running, shutting, down, tripped, child, pipes, outcome>>

\* acquire, in one hold of the lock: refuse, withdraw, admit, or else wait.
\* The wait is timed, so a queued job decides again at any time.
Refuses(j) == Acquiring(j) /\ shutting
Withdraws(j) == Acquiring(j) /\ ~shutting /\ Cancelled(j)
Admits(j) ==
    Acquiring(j) /\ ~shutting /\ ~Cancelled(j) /\ MayStart(Priority[j])

Refuse(j) ==
    /\ Refuses(j)
    /\ At(j, "ending")
    /\ outcome' = [outcome EXCEPT ![j] = "shutting_down"]
    /\ UNCHANGED <<state, down, tripped, child, pipes>>

Withdraw(j) ==
    /\ Withdraws(j)
    /\ At(j, "ending")
    /\ outcome' = [outcome EXCEPT ![j] = "cancelled"]
    /\ UNCHANGED <<state, down, tripped, child, pipes>>

Admit(j) ==
    /\ Admits(j)
    /\ At(j, "admitted")
    /\ running' = [running EXCEPT ![Priority[j]] = @ + 1]
    /\ UNCHANGED <<live, shutting, down, tripped, child, pipes, outcome>>

Wait(j) ==
    /\ pc[j] = "started" /\ ~Refuses(j) /\ ~Withdraws(j) /\ ~Admits(j)
    /\ At(j, "queued")
    /\ UNCHANGED <<state, down, tripped, child, pipes, outcome>>

-----------------------------------------------------------------------------
(* execute *)

Spawn(j) ==
    /\ pc[j] = "admitted"
    /\ At(j, "watching")
    /\ process' = [process EXCEPT ![j] = "runs"]
    /\ reader' = [reader EXCEPT ![j] = "reading"]
    /\ fed' = IF j \in Fed THEN fed \cup {j} ELSE fed
    /\ UNCHANGED <<state, down, tripped, killed, written, verdict, outcome>>

SpawnFails(j) ==
    /\ pc[j] = "admitted"
    /\ At(j, "releasing")
    /\ outcome' = [outcome EXCEPT ![j] = "spawn"]
    /\ UNCHANGED <<state, down, tripped, child, pipes>>

\* wait_or_kill: the process is seen to have exited.
Reap(j) ==
    /\ pc[j] \in {"watching", "killing"} /\ process[j] \in {"ok", "bad"}
    /\ At(j, "joining")
    /\ UNCHANGED <<state, down, tripped, child, pipes, outcome>>

\* wait_or_kill: cancelled, so terminate it.  It may have exited just before.
Kill(j) ==
    /\ pc[j] = "watching" /\ Cancelled(j)
    /\ At(j, "killing")
    /\ killed' = killed \cup {j}
    /\ UNCHANGED <<state, down, tripped, process, written, pipes, outcome>>

\* wait_or_kill: KILL_TIMEOUT passed.
GiveUp(j) ==
    /\ pc[j] = "killing" /\ process[j] = "runs"
    /\ At(j, "gaveup")
    /\ UNCHANGED <<state, down, tripped, child, pipes, outcome>>

\* Mutant: the threads at the pipes are not joined.
PipesLeft(j) == TRUE

\* The threads at the pipes have ended.  Standard output is closed by the
\* process, so its reader ends after the process does.
PipesJoined(j) == reader[j] = "done" /\ j \notin fed

\* execute: what the process, the consumer and the token say together
Outcome(j) ==
    IF pc[j] = "gaveup" THEN "unkillable"
    ELSE IF verdict[j] = "fail" THEN "consumer"
    ELSE IF verdict[j] = "stop" THEN "ok"
    ELSE IF process[j] = "ok" THEN "ok"
    ELSE IF Cancelled(j) THEN "cancelled"
    ELSE "failed"

Join(j) ==
    /\ pc[j] \in {"joining", "gaveup"} /\ PipesJoined(j)
    /\ At(j, "releasing")
    /\ outcome' = [outcome EXCEPT ![j] = Outcome(j)]
    /\ UNCHANGED <<state, down, tripped, child, pipes>>

\* Mutant: a job that failed keeps its slot.
SlotOfSuccess(j) ==
    IF outcome[j] = "ok" THEN [running EXCEPT ![Priority[j]] = @ - 1]
    ELSE running
\* release
SlotBack(j) == [running EXCEPT ![Priority[j]] = @ - 1]

AfterRelease(j) == IF outcome[j] = "ok" THEN "ending" ELSE "removing"

Release(j) ==
    /\ pc[j] = "releasing"
    /\ At(j, AfterRelease(j))
    /\ running' = SlotBack(j)
    /\ UNCHANGED <<live, shutting, down, tripped, child, pipes, outcome>>

\* supervise: what a failed job wrote goes.
Remove(j) ==
    /\ pc[j] = "removing"
    /\ At(j, "ending")
    /\ written' = written \ {j}
    /\ UNCHANGED <<state, down, tripped, process, killed, pipes, outcome>>

\* The supervisor's last words: no longer live, then the answer is sent,
\* which nothing here reads.
Answer(j) ==
    /\ pc[j] = "ending"
    /\ At(j, "done")
    /\ live' = live \ {j}
    /\ UNCHANGED <<running, shutting, down, tripped, child, pipes, outcome>>

-----------------------------------------------------------------------------
(* The threads at the pipes *)

\* read_stdout: a chunk for the consumer, unless the job is cancelled: then
\* it is read and dropped.  Chunks lie in the pipe after the process exited.
Chunk(j) ==
    /\ reader[j] = "reading" /\ j \in Streams /\ ~Cancelled(j)
    /\ reader' = [reader EXCEPT ![j] = "consuming"]
    /\ UNCHANGED <<pc, state, down, tripped, child, fed, verdict, outcome>>

\* Mutant: the process is left to run on.
LetRun(j, flow) == tripped

\* Anything but Continue is kept, and stops the process by its token.
TripAfter(j, flow) ==
    IF flow = "none" THEN tripped ELSE tripped \cup {Token(j)}

Consume(j, flow) ==
    /\ reader[j] = "consuming"
    /\ reader' = [reader EXCEPT ![j] = "reading"]
    /\ verdict' = IF flow = "none" THEN verdict
                  ELSE [verdict EXCEPT ![j] = flow]
    /\ tripped' = TripAfter(j, flow)
    /\ UNCHANGED <<pc, state, down, child, fed, outcome>>

EndOfOutput(j) ==
    /\ reader[j] = "reading" /\ process[j] \in {"ok", "bad"}
    /\ reader' = [reader EXCEPT ![j] = "done"]
    /\ UNCHANGED <<pc, state, down, tripped, child, fed, verdict, outcome>>

\* feed_stdin: the producer dropped its end, or a write failed.
FeedEnds(j) ==
    /\ j \in fed
    /\ fed' = fed \ {j}
    /\ UNCHANGED <<pc, state, down, tripped, child, reader, verdict, outcome>>

-----------------------------------------------------------------------------
(* The process (external) and the callers *)

Writes(j) ==
    /\ process[j] = "runs" /\ j \in Writers
    /\ written' = written \cup {j}
    /\ UNCHANGED <<pc, state, down, tripped, process, killed, pipes, outcome>>

Exits(j) ==
    /\ process[j] = "runs" /\ j \notin killed
    /\ \E status \in {"ok", "bad"} :
          process' = [process EXCEPT ![j] = status]
    /\ UNCHANGED <<pc, state, down, tripped, killed, written, pipes, outcome>>

Dies(j) ==
    /\ process[j] = "runs" /\ j \in killed
    /\ process' = [process EXCEPT ![j] = "bad"]
    /\ UNCHANGED <<pc, state, down, tripped, killed, written, pipes, outcome>>

\* CancelToken::cancel, from anywhere
Cancel(t) ==
    /\ t \notin tripped
    /\ tripped' = tripped \cup {t}
    /\ UNCHANGED <<pc, state, down, child, pipes, outcome>>

CancelledByShutdown == {Token(j) : j \in live}

\* shutdown, in one hold of the lock until it waits
Shutdown ==
    /\ down = "idle"
    /\ shutting' = TRUE
    /\ tripped' = tripped \cup CancelledByShutdown
    /\ down' = "waiting"
    /\ UNCHANGED <<pc, live, running, child, pipes, outcome>>

ShutdownReturns ==
    /\ down = "waiting" /\ live = {}
    /\ down' = "returned"
    /\ UNCHANGED <<pc, state, tripped, child, pipes, outcome>>

ShutdownTimesOut ==
    /\ down = "waiting" /\ live # {}
    /\ down' = "late"
    /\ UNCHANGED <<pc, state, tripped, child, pipes, outcome>>

Init ==
    /\ pc = [j \in Jobs |-> "idle"]
    /\ live = {} /\ running = [p \in Priorities |-> 0] /\ shutting = FALSE
    /\ down = "idle" /\ tripped = {}
    /\ process = [j \in Jobs |-> "none"] /\ killed = {} /\ written = {}
    /\ reader = [j \in Jobs |-> "idle"] /\ fed = {}
    /\ verdict = [j \in Jobs |-> "none"]
    /\ outcome = [j \in Jobs |-> "none"]

\* What the job's own threads do
Supervisor(j) ==
    \/ Refuse(j)
    \/ Withdraw(j)
    \/ Admit(j)
    \/ Wait(j)
    \/ Spawn(j)
    \/ SpawnFails(j)
    \/ Reap(j)
    \/ Kill(j)
    \/ GiveUp(j)
    \/ Join(j)
    \/ Release(j)
    \/ Remove(j)
    \/ Answer(j)

Reader(j) ==
    \/ Chunk(j)
    \/ \E flow \in {"none", "stop", "fail"} : Consume(j, flow)
    \/ EndOfOutput(j)

Next ==
    \/ \E j \in Jobs : Run(j)
    \/ \E j \in Jobs : Supervisor(j)
    \/ \E j \in Jobs : Reader(j)
    \/ \E j \in Jobs : FeedEnds(j)
    \/ \E j \in Jobs : Writes(j) \/ Exits(j) \/ Dies(j)
    \/ \E t \in Trippable : Cancel(t)
    \/ Shutdown
    \/ ShutdownReturns
    \/ ShutdownTimesOut

Spec == Init /\ [][Next]_vars

\* Threads go on, producers end, output comes to its end, and a process that
\* was terminated goes.
Threads(j) ==
    /\ WF_vars(Supervisor(j))
    /\ WF_vars(\E flow \in {"none", "stop", "fail"} : Consume(j, flow))
    /\ SF_vars(EndOfOutput(j))
    /\ WF_vars(FeedEnds(j))

ThreadsFair == Spec /\ \A j \in Jobs : Threads(j)
KillsFair == ThreadsFair /\ \A j \in Jobs : WF_vars(Dies(j))

\* Every process comes to its end: its input is finite.
ProcessesEnd == \A j \in Jobs : WF_vars(Exits(j))

-----------------------------------------------------------------------------
(* Invariants *)

\* Every variable keeps its shape.
TypeOK ==
    /\ pc \in [Jobs -> Before \cup Busy \cup After]
    /\ live \subseteq Jobs /\ shutting \in BOOLEAN
    /\ running \in [Priorities -> 0..Cardinality(Jobs)]
    /\ down \in {"idle", "waiting", "returned", "late"}
    /\ tripped \subseteq Tokens
    /\ process \in [Jobs -> {"none", "runs", "ok", "bad"}]
    /\ killed \subseteq Jobs /\ written \subseteq Writers
    /\ reader \in [Jobs -> {"idle", "reading", "consuming", "done"}]
    /\ fed \subseteq Fed
    /\ verdict \in [Jobs -> {"none", "stop", "fail"}]
    /\ outcome \in [Jobs -> Outcomes]

\* The slots counted are the slots held, no priority holds more than its
\* limit, and background work always leaves a shared slot to the user's.
Holding(ps) == Cardinality({j \in Jobs : pc[j] \in Busy /\ Priority[j] \in ps})
SlotsKept ==
    /\ TypeOK
    /\ \A p \in Priorities : running[p] = Holding({p})
    /\ Holding({"interactive"}) <= Interactive
    /\ Holding({"playback"}) <= Playback
    /\ Holding({"export"}) <= Export
    /\ Holding(Sharing) <= Shared
    /\ Holding({"background"}) < Shared

\* "Job::wait" returns only once the process is gone and nothing more of its
\* output can reach the consumer.
AnsweredMeansGone ==
    \A j \in Jobs : pc[j] = "done" =>
        process[j] # "runs" /\ reader[j] \in {"idle", "done"}

\* "A cancelled export leaves no partial file behind": nor does one that
\* failed in any other way.
FailureLeavesNothing ==
    \A j \in Jobs : (pc[j] = "done" /\ outcome[j] # "ok") => j \notin written

\* Once shutdown returned in time no process runs, and none ever will.
ShutdownMeansGone ==
    down = "returned" => \A j \in Jobs : process[j] # "runs"

\* Nothing of a job outlives the answer to its caller, or a shutdown: no
\* process, no reader and, unless it succeeded, no file.
NothingOutlives == AnsweredMeansGone /\ ShutdownMeansGone /\ FailureLeavesNothing

(* Action properties *)

\* The consumer's verdict is its last word: nothing it is handed afterwards
\* can change it.
VerdictStands ==
    [][\A j \in Jobs : verdict[j] # "none" => verdict'[j] = verdict[j]]_vars

(* Liveness *)

\* If every process comes to its end, every job is answered: no slot is lost,
\* and yielding starves nobody for ever.
EveryJobAnswered ==
    ProcessesEnd => \A j \in Jobs : pc[j] = "started" ~> pc[j] = "done"

\* After a shutdown every process goes, also one that would have run for
\* ever, and also one that was about to be spawned.
ShutdownDrains ==
    shutting ~> [](\A j \in Jobs : process[j] # "runs")

\* Every job comes to its end, by itself or by a shutdown.
EverythingEnds == EveryJobAnswered /\ ShutdownDrains
=============================================================================
