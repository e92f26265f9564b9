------------------------------ MODULE ExportQueue ------------------------------
(***************************************************************************)
(* The background export queue: export/queue.rs of the engine crate, with  *)
(* what its runner (the shell's `run`, and `export` of the executor) does  *)
(* to the files beside a target.                                           *)
(*                                                                         *)
(* Commands of the shell run on several threads (Callers) and meet one     *)
(* worker thread at the mutex around Inner.  A step of this module is what *)
(* one of them does in one critical section.  Where the code drops the     *)
(* lock before it calls the observer, the announcement is a step of its    *)
(* own (`saying`); where it calls the observer with the lock held          *)
(* (`settle`), it belongs to the step.                                     *)
(*                                                                         *)
(* The Vec of entries is the function `jobs`, an entry's position in the   *)
(* Vec being the order of its `place`: `push` gives a place after every    *)
(* other, `retain` and `trim` take entries away, nothing else moves one.   *)
(***************************************************************************)
EXTENDS Integers, FiniteSets

CONSTANTS
    Callers,      \* threads that call the queue's commands
    Worker,       \* the worker thread
    Targets,      \* paths an export can be asked for
    Sources,      \* those of them that are sources of the project
    MaxJobs,      \* bound: jobs submitted in a behaviour
    MaxPlace,     \* bound: pushes to the Vec (submissions and resumptions)
    MaxLaunches,  \* bound: times the application is started
    HistoryLimit, \* HISTORY_LIMIT
    Whole,        \* the fraction 1.0, in the unit fractions are counted in
    Reported,     \* fractions a runner may report
    NotFinite,    \* NaN and the infinities, where a runner may report one
    Crashes,      \* whether the process may die at any moment
    StoreMayFail, \* whether writing the store may fail
    InitStores    \* what may lie at the store's path at the first launch

Ids == 1..MaxJobs
Stages == 0..2    \* Preparing, Exporting, Verifying
Finished == {"completed", "failed", "cancelled"}
States == {"none", "queued", "running", "interrupted"} \cup Finished
Runs == {"preparing", "writing", "verifying", "succeeded", "failed"}

Entries == [place: 0..MaxPlace, target: Targets, overwrite: BOOLEAN,
            state: States, stage: Stages, fraction: 0..Whole, spec: BOOLEAN]
Words == [state: States, stage: Stages, fraction: 0..Whole]
Stored == [readable: BOOLEAN, next: 1..MaxJobs + 1, pushes: 0..MaxPlace,
           jobs: [Ids -> Entries]]

NoEntry == [place |-> 0, target |-> CHOOSE t \in Targets : TRUE,
            overwrite |-> FALSE, state |-> "none", stage |-> 0,
            fraction |-> 0, spec |-> FALSE]
NoRun == [id |-> 0, cancelled |-> FALSE, token |-> FALSE]
Silent == [id |-> 0, word |-> [state |-> "none", stage |-> 0, fraction |-> 0]]
Unheard == [i \in Ids |-> Silent.word]
EmptyStore == [readable |-> TRUE, next |-> 1, pushes |-> 0,
               jobs |-> [i \in Ids |-> NoEntry]]

\* No job has an id that is still to be given.
Fresh(js, n) == \A i \in Ids : i >= n => js[i].state = "none"

ASSUME ConstantsAssumption ==
    /\ Worker \notin Callers
    /\ Targets # {} /\ Sources \subseteq Targets
    /\ MaxJobs \in Nat /\ MaxPlace \in Nat /\ MaxLaunches \in Nat
    /\ HistoryLimit \in Nat \ {0}
    /\ Whole \in Nat \ {0}
    /\ \A f \in Reported : f = NotFinite \/ f \in Int
    /\ Crashes \in BOOLEAN /\ StoreMayFail \in BOOLEAN
    /\ InitStores \subseteq Stored
    /\ \A s \in InitStores : Fresh(s.jobs, s.next)

VARIABLES
    up,       \* the application is running
    launches, \* times it was started
    jobs,     \* Inner::entries
    next,     \* Inner::next
    pushes,   \* the last place given in the Vec
    running,  \* Inner::running
    stopping, \* Inner::stopping
    worker,   \* where the worker thread is
    saying,   \* the job each thread is about to announce, the lock released
    store,    \* the file the queue is kept in
    partial,  \* targets with a partial file beside them
    file,     \* the job whose output is at each target, 0 for none
    heard     \* the last word announced about each job

memory == <<jobs, next, pushes, running, stopping>>
files == <<partial, file>>
vars == <<up, launches, memory, worker, saying, store, files, heard>>

-----------------------------------------------------------------------------
(* Operators on the entries *)

Present(js) == {i \in Ids : js[i].state # "none"}
Waiting(js) == {i \in Ids : js[i].state = "queued"}
History(js) == {i \in Ids : js[i].state \in Finished}

\* Mutant: the newest entry is taken first.
IsLast(js, i) ==
    /\ i \in Waiting(js)
    /\ \A k \in Waiting(js) : js[k].place <= js[i].place

\* The first queued entry of the Vec
IsFirst(js, i) ==
    /\ i \in Waiting(js)
    /\ \A k \in Waiting(js) : js[i].place <= js[k].place

\* Inner::trim: a finished entry goes once HistoryLimit others lie after it.
Later(js, i) == {k \in History(js) : js[k].place > js[i].place}
Trim(js) ==
    [i \in Ids |->
        IF i \in History(js) /\ Cardinality(Later(js, i)) >= HistoryLimit
        THEN NoEntry ELSE js[i]]

\* clear_history: retain what has not finished.
Clear(js) == [i \in Ids |-> IF i \in History(js) THEN NoEntry ELSE js[i]]

\* The entry in another state: only a running one carries progress.
Still(e, state) == [e EXCEPT !.state = state, !.stage = 0, !.fraction = 0]

\* Mutant: a job found running is left as it was found.
InterruptQueued(js) ==
    [i \in Ids |-> IF js[i].state = "queued"
                   THEN Still(js[i], "interrupted") ELSE js[i]]

\* ExportQueue::open: what was queued or running was interrupted.
Interrupt(js) ==
    [i \in Ids |-> IF js[i].state \in {"queued", "running"}
                   THEN Still(js[i], "interrupted") ELSE js[i]]

\* An entry that ends drops its project.
Ended(e, state) == [Still(e, state) EXCEPT !.spec = FALSE]

\* work: what the worker makes of an entry; an interrupted one keeps its
\* project.
Recorded(e, state) ==
    IF state = "interrupted" THEN Still(e, state) ELSE Ended(e, state)

\* Meter::update, from the progress in `e`: a stage never goes back, a new
\* one starts from nothing, and a fraction of the current one only grows.
\* Mutant: a report is taken as it comes.
AsItComes(e, stage, f) ==
    IF f = NotFinite THEN e
    ELSE [e EXCEPT !.stage = stage,
                   !.fraction = IF f < 0 THEN 0 ELSE IF f > Whole THEN Whole ELSE f]
Clamp(f) == IF f < 0 THEN 0 ELSE IF f > Whole THEN Whole ELSE f
Metered(e, stage, f) ==
    LET s == IF stage > e.stage THEN stage ELSE e.stage
        base == IF stage > e.stage THEN 0 ELSE e.fraction
        counts == stage = s /\ f # NotFinite
    IN [e EXCEPT !.stage = s,
                 !.fraction = IF counts /\ Clamp(f) > base
                              THEN Clamp(f) ELSE base]

WordOf(e) == [state |-> e.state, stage |-> e.stage, fraction |-> e.fraction]
Say(i, e) == [id |-> i, word |-> WordOf(e)]

-----------------------------------------------------------------------------
(* The pieces of a critical section *)

\* Shared::persist: the file is replaced whole, or (a failure is ignored)
\* left as it was.
Persist(js, n, p) ==
    \/ store' = [readable |-> TRUE, next |-> n, pushes |-> p, jobs |-> js]
    \/ StoreMayFail /\ UNCHANGED store

\* Mutant: an outcome stays in memory until something else is persisted.
SettleInMemory(js, i) ==
    /\ jobs' = Trim(js)
    /\ heard' = [heard EXCEPT ![i] = WordOf(js[i])]
    /\ UNCHANGED store

\* Shared::settle, with entry `i` of `js` just changed: trim, persist, and
\* announce with the lock held.
Settle(js, i) ==
    /\ jobs' = Trim(js)
    /\ Persist(Trim(js), next, pushes)
    /\ heard' = [heard EXCEPT ![i] = WordOf(js[i])]

\* Mutant: the worker is not woken.
WakeNobody == UNCHANGED worker

\* Condvar::notify_all on `wake`
Wake == worker' = IF worker = "parked" THEN "scan" ELSE worker

Free(c) == up /\ saying[c] = Silent

-----------------------------------------------------------------------------
(* Commands *)

\* submit: refused for a target that is a source of the project, else pushed
\* and persisted; announced by Tell once the lock is released.
Submit(c, t, overwrite) ==
    /\ Free(c) /\ t \notin Sources
    /\ next <= MaxJobs /\ pushes < MaxPlace
    /\ LET e == [NoEntry EXCEPT !.place = pushes + 1, !.target = t,
                                !.overwrite = overwrite, !.state = "queued",
                                !.spec = TRUE]
           js == [jobs EXCEPT ![next] = e]
       IN /\ jobs' = js
          /\ Persist(js, next + 1, pushes + 1)
          /\ saying' = [saying EXCEPT ![c] = Say(next, e)]
    /\ next' = next + 1 /\ pushes' = pushes + 1
    /\ UNCHANGED <<up, launches, running, stopping, worker, files, heard>>

\* The end of submit and of resume: announce, then wake the worker.
Tell(c) ==
    /\ up /\ saying[c] # Silent
    /\ heard' = [heard EXCEPT ![saying[c].id] = saying[c].word]
    /\ saying' = [saying EXCEPT ![c] = Silent]
    /\ Wake
    /\ UNCHANGED <<up, launches, memory, store, files>>

\* cancel, of the running job: the worker records the outcome.
CancelRunning(c, i) ==
    /\ Free(c) /\ running.id = i
    /\ running' = [running EXCEPT !.cancelled = TRUE, !.token = TRUE]
    /\ UNCHANGED <<up, launches, jobs, next, pushes, stopping, worker, saying,
                   store, files, heard>>

\* cancel, of a job that is not running; one that finished is left alone.
CanCancel(i) == jobs[i].state \in {"queued", "interrupted"}
CancelWaiting(c, i) ==
    /\ Free(c) /\ running.id # i /\ CanCancel(i)
    /\ Settle([jobs EXCEPT ![i] = Ended(@, "cancelled")], i)
    /\ UNCHANGED <<up, launches, next, pushes, running, stopping, worker,
                   saying, files>>

\* resume: the partial file goes, and the entry moves behind all others.
Resume(c, i) ==
    /\ Free(c) /\ jobs[i].state = "interrupted" /\ pushes < MaxPlace
    /\ partial' = partial \ {jobs[i].target}
    /\ LET e == [jobs[i] EXCEPT !.state = "queued", !.place = pushes + 1]
           js == [jobs EXCEPT ![i] = e]
       IN /\ jobs' = js
          /\ Persist(js, next, pushes + 1)
          /\ saying' = [saying EXCEPT ![c] = Say(i, e)]
    /\ pushes' = pushes + 1
    /\ UNCHANGED <<up, launches, next, running, stopping, worker, file, heard>>

\* discard: the partial file goes, and the job is cancelled.
Discard(c, i) ==
    /\ Free(c) /\ jobs[i].state = "interrupted"
    /\ partial' = partial \ {jobs[i].target}
    /\ Settle([jobs EXCEPT ![i] = Ended(@, "cancelled")], i)
    /\ UNCHANGED <<up, launches, next, pushes, running, stopping, worker,
                   saying, file>>

\* clear_history: nothing is announced.
ClearHistory(c) ==
    /\ Free(c)
    /\ jobs' = Clear(jobs)
    /\ Persist(Clear(jobs), next, pushes)
    /\ UNCHANGED <<up, launches, next, pushes, running, stopping, worker,
                   saying, files, heard>>

-----------------------------------------------------------------------------
(* The worker: next_job, then work *)

\* next_job: the first queued entry starts, and is persisted as running.
Start(i) ==
    /\ worker = "scan" /\ ~stopping
    /\ IsFirst(jobs, i) /\ jobs[i].spec
    /\ LET e == [jobs[i] EXCEPT !.state = "running", !.stage = 0,
                                !.fraction = 0]
           js == [jobs EXCEPT ![i] = e]
       IN /\ jobs' = js
          /\ Persist(js, next, pushes)
          /\ saying' = [saying EXCEPT ![Worker] = Say(i, e)]
    /\ running' = [id |-> i, cancelled |-> FALSE, token |-> FALSE]
    /\ worker' = "preparing"
    /\ UNCHANGED <<up, launches, next, pushes, stopping, files, heard>>

\* next_job: a queued entry whose project was not kept fails at once.
Refuse(i) ==
    /\ worker = "scan" /\ ~stopping
    /\ IsFirst(jobs, i) /\ ~jobs[i].spec
    /\ Settle([jobs EXCEPT ![i] = Ended(@, "failed")], i)
    /\ UNCHANGED <<up, launches, next, pushes, running, stopping, worker,
                   saying, files>>

\* next_job: nothing is queued, so wait on `wake`.
Park ==
    /\ worker = "scan" /\ ~stopping /\ Waiting(jobs) = {}
    /\ worker' = "parked"
    /\ UNCHANGED <<up, launches, memory, saying, store, files, heard>>

\* A condition variable may wake its waiter unasked.
WakeUnasked ==
    /\ worker = "parked"
    /\ worker' = "scan"
    /\ UNCHANGED <<up, launches, memory, saying, store, files, heard>>

\* next_job: stopping, so the thread ends.
Quit ==
    /\ worker = "scan" /\ stopping
    /\ worker' = "exited"
    /\ UNCHANGED <<up, launches, memory, saying, store, files, heard>>

\* next_job and progress: announce what was recorded, the lock released.
WorkerTells ==
    /\ up /\ saying[Worker] # Silent
    /\ heard' = [heard EXCEPT ![saying[Worker].id] = saying[Worker].word]
    /\ saying' = [saying EXCEPT ![Worker] = Silent]
    /\ UNCHANGED <<up, launches, memory, worker, store, files>>

\* The runner reports: the meter moves and the entry with it, unpersisted.
\* Reports come one at a time: from the worker thread itself, or from the
\* muxer's progress reader while the worker waits for the muxer.
Progress(stage, f) ==
    /\ worker \in {"preparing", "writing", "verifying"}
    /\ saying[Worker] = Silent
    /\ jobs[running.id].state = "running"
    /\ LET e == Metered(jobs[running.id], stage, f)
       IN /\ jobs' = [jobs EXCEPT ![running.id] = e]
          /\ saying' = [saying EXCEPT ![Worker] = Say(running.id, e)]
    /\ UNCHANGED <<up, launches, next, pushes, running, stopping, worker,
                   store, files, heard>>

\* The runner works only when it has nothing left to announce.
RunnerAt(at) == worker = at /\ saying[Worker] = Silent
Target == jobs[running.id].target

\* preflight: an existing target is replaced only where that was confirmed.
Permitted == file[Target] = 0 \/ jobs[running.id].overwrite

\* export: what an earlier export left is removed, and the muxer makes the
\* partial file anew.
RunnerOpens ==
    /\ RunnerAt("preparing") /\ ~running.token /\ Permitted
    /\ partial' = partial \cup {Target}
    /\ worker' = "writing"
    /\ UNCHANGED <<up, launches, memory, saying, store, file, heard>>

\* conclude: the token was not tripped, and the partial file is renamed.
RunnerCommits ==
    /\ RunnerAt("writing") /\ ~running.token /\ Target \in partial
    /\ file' = [file EXCEPT ![Target] = running.id]
    /\ partial' = partial \ {Target}
    /\ worker' = "verifying"
    /\ UNCHANGED <<up, launches, memory, saying, store, heard>>

\* Any error before the rename.  Past preflight the partial file is removed,
\* this run's or an earlier one's; the executor may trip the token itself.
RunnerFails ==
    /\ \/ RunnerAt("preparing") /\ UNCHANGED partial
       \/ /\ (RunnerAt("preparing") /\ Permitted) \/ RunnerAt("writing")
          /\ partial' = partial \ {Target}
    /\ \E trips \in BOOLEAN :
          running' = [running EXCEPT !.token = @ \/ trips]
    /\ worker' = "failed"
    /\ UNCHANGED <<up, launches, jobs, next, pushes, stopping, saying, store,
                   file, heard>>

\* The report is measured, or cannot be; the export succeeded either way.
RunnerReturns ==
    /\ RunnerAt("verifying")
    /\ worker' = "succeeded"
    /\ UNCHANGED <<up, launches, memory, saying, store, files, heard>>

\* Mutant: a cancel is not looked at.
OutcomeNoCancel ==
    IF worker = "succeeded" THEN "completed"
    ELSE IF stopping THEN "interrupted"
    ELSE "failed"

\* work: how a run ended.  A completed file is completed however late the
\* request to stop came; stopping comes before the user's cancel.
Outcome ==
    IF worker = "succeeded" THEN "completed"
    ELSE IF stopping THEN "interrupted"
    ELSE IF running.cancelled THEN "cancelled"
    ELSE "failed"

\* work: record it.
Record ==
    /\ worker \in {"succeeded", "failed"}
    /\ LET i == running.id IN
          Settle([jobs EXCEPT ![i] = Recorded(@, Outcome)], i)
    /\ running' = NoRun
    /\ worker' = "scan"
    /\ UNCHANGED <<up, launches, next, pushes, stopping, saying, files>>

-----------------------------------------------------------------------------
(* The process *)

\* shutdown: the running export is stopped and the worker woken; the caller
\* then waits for the worker to exit.
Shutdown ==
    /\ up /\ ~stopping
    /\ stopping' = TRUE
    /\ running' = [running EXCEPT !.token = (running.id # 0)]
    /\ Wake
    /\ UNCHANGED <<up, launches, jobs, next, pushes, saying, store, files,
                   heard>>

\* What is in memory when no process runs
Gone ==
    /\ up' = FALSE
    /\ jobs' = EmptyStore.jobs /\ next' = 1 /\ pushes' = 0
    /\ running' = NoRun /\ stopping' = FALSE /\ worker' = "exited"
    /\ saying' = [th \in Callers \cup {Worker} |-> Silent]
    /\ UNCHANGED <<launches, store, files, heard>>

\* The application ends once shutdown has joined the worker.
Exit == up /\ worker = "exited" /\ Gone

\* The process dies; the ffmpeg children die with it.
Crash == up /\ Crashes /\ Gone

\* open: load the store (set aside if it cannot be read), mark what was
\* interrupted, persist, start the worker.  The renderer then reads the list.
Open ==
    /\ ~up /\ launches < MaxLaunches
    /\ LET loaded == IF store.readable THEN store ELSE EmptyStore
           js == Interrupt(loaded.jobs)
       IN /\ jobs' = js /\ next' = loaded.next /\ pushes' = loaded.pushes
          /\ Persist(js, loaded.next, loaded.pushes)
          /\ heard' = [i \in Ids |-> WordOf(js[i])]
    /\ up' = TRUE /\ launches' = launches + 1 /\ worker' = "scan"
    /\ UNCHANGED <<running, stopping, saying, files>>

Init ==
    /\ up = FALSE /\ launches = 0
    /\ jobs = EmptyStore.jobs /\ next = 1 /\ pushes = 0
    /\ running = NoRun /\ stopping = FALSE /\ worker = "exited"
    /\ saying = [th \in Callers \cup {Worker} |-> Silent]
    /\ store \in InitStores
    /\ partial = {} /\ file = [t \in Targets |-> 0]
    /\ heard = Unheard

Command(c) ==
    \/ \E t \in Targets, overwrite \in BOOLEAN : Submit(c, t, overwrite)
    \/ Tell(c)
    \/ \E i \in Ids : CancelRunning(c, i)
    \/ \E i \in Ids : CancelWaiting(c, i)
    \/ \E i \in Ids : Resume(c, i)
    \/ \E i \in Ids : Discard(c, i)
    \/ ClearHistory(c)

Runner ==
    \/ RunnerOpens
    \/ RunnerCommits
    \/ RunnerFails
    \/ RunnerReturns

\* The steps the worker thread takes by itself
WorkerStep ==
    \/ \E i \in Ids : Start(i)
    \/ \E i \in Ids : Refuse(i)
    \/ Park
    \/ Quit
    \/ WorkerTells
    \/ Runner
    \/ Record

Next ==
    \/ \E c \in Callers : Command(c)
    \/ WorkerStep
    \/ WakeUnasked
    \/ \E stage \in Stages, f \in Reported : Progress(stage, f)
    \/ Shutdown
    \/ Exit
    \/ Crash
    \/ Open

Spec == Init /\ [][Next]_vars

\* The worker thread goes on; a caller that holds an announcement makes it;
\* the runner ends, however often it reports: ffmpeg reads a finite input,
\* and is killed once the token is tripped.
Fairness ==
    /\ WF_vars(WorkerStep)
    /\ SF_vars(Runner)
    /\ \A c \in Callers : WF_vars(Tell(c))

FairSpec == Spec /\ Fairness

-----------------------------------------------------------------------------
(* Invariants *)

\* Every variable keeps its shape.
TypeOK ==
    /\ up \in BOOLEAN /\ launches \in 0..MaxLaunches
    /\ jobs \in [Ids -> Entries]
    /\ next \in 1..MaxJobs + 1 /\ pushes \in 0..MaxPlace
    /\ running \in [id: 0..MaxJobs, cancelled: BOOLEAN, token: BOOLEAN]
    /\ stopping \in BOOLEAN
    /\ worker \in Runs \cup {"scan", "parked", "exited"}
    /\ saying \in [Callers \cup {Worker} -> [id: 0..MaxJobs, word: Words]]
    /\ store \in Stored
    /\ partial \subseteq Targets /\ file \in [Targets -> 0..MaxJobs]
    /\ heard \in [Ids -> Words]

\* One export at a time: a job is running exactly while the worker runs it,
\* whatever the callers, a shutdown or a restart did meanwhile.
OneExport ==
    /\ \A i \in Ids : jobs[i].state = "running" <=> running.id = i
    /\ running.id # 0 <=> worker \in Runs

\* A job that can still run has the project it runs from: what is offered
\* after an interruption can be exported again.
ResumableHasProject ==
    \A i \in Ids :
        jobs[i].state \in {"queued", "running", "interrupted"} => jobs[i].spec

\* The history never holds more finished jobs than HISTORY_LIMIT, and no
\* trimming takes a job that has not finished out of the queue's order: two
\* jobs never share a place, nor lie past the last place given.
HistoryBounded ==
    /\ Cardinality(History(jobs)) <= HistoryLimit
    /\ \A i, k \in Present(jobs) : jobs[i].place = jobs[k].place => i = k
    /\ \A i \in Present(jobs) : jobs[i].place <= pushes

\* Apart from progress, the file says what memory says whenever the lock is
\* free: every change is written before it is announced.
StateOf(js) == [i \in Ids |-> [js[i] EXCEPT !.stage = 0, !.fraction = 0]]
StoreIsMemory ==
    up => /\ store.readable
          /\ StateOf(store.jobs) = StateOf(jobs)
          /\ store.next = next /\ store.pushes = pushes

\* What became of a job, as memory or, with no process, the file has it
Known(i) == IF up THEN jobs[i].state ELSE store.jobs[i].state

\* An outcome that was announced is never taken back: not by a crash just
\* after, not by a command that arrives late, not at the next launch.
ToldOutcomeStands ==
    \A i \in Ids :
        heard[i].state \in Finished => Known(i) \in {heard[i].state, "none"}

\* What is kept of the jobs is what they need and what was said of them: a job
\* that can run keeps its project, the history its bound, the file keeps up with
\* memory, and an announced outcome outlives a crash (persist, trim, open).
StoreKeepsUp ==
    ResumableHasProject /\ HistoryBounded /\ StoreIsMemory /\ ToldOutcomeStands

-----------------------------------------------------------------------------
(* Action properties *)

\* A finished job stays as it ended until it is forgotten.
FinishedForGood ==
    [][\A i \in Ids : jobs[i].state \in Finished =>
           jobs'[i].state \in {jobs[i].state, "none"}]_vars

\* The announced progress of a run never goes back: not to an earlier stage,
\* nor to a smaller fraction of the same one.
ProgressForward ==
    [][\A i \in Ids :
           (heard[i].state = "running" /\ heard'[i].state = "running") =>
              \/ heard'[i].stage > heard[i].stage
              \/ /\ heard'[i].stage = heard[i].stage
                 /\ heard'[i].fraction >= heard[i].fraction]_vars

\* A running job the user cancelled is never recorded as failed: it was
\* cancelled, or completed first, or interrupted by a shutdown.
CancelIsNoFailure ==
    [][(running.cancelled /\ up') =>
           jobs'[running.id].state # "failed"]_vars

\* What became of a job stands: it ends once, and a cancel is no failure.
OutcomesStand == FinishedForGood /\ CancelIsNoFailure

-----------------------------------------------------------------------------
(* Liveness *)

\* A job asked for is exported, or ends otherwise, unless the application
\* stops first: no wake-up is lost between a command and the worker.
AskedIsAnswered ==
    \A i \in Ids : jobs[i].state \in {"queued", "running"} ~>
        (jobs[i].state \notin {"queued", "running"} \/ stopping \/ ~up)

\* shutdown never waits for ever for the worker it joins.
ShutdownJoins == stopping ~> worker = "exited"

\* Neither a caller nor the worker is left waiting for a wake-up (Condvar).
NobodyWaits == AskedIsAnswered /\ ShutdownJoins
=============================================================================
