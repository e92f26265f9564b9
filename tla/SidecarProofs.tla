---------------------------- MODULE SidecarProofs ----------------------------
(***************************************************************************)
(* Proofs about the two modules of the engine that stand on its sidecars.  *)
(*                                                                         *)
(* Orchestrator, for any jobs, priorities, tokens and limits: an answer    *)
(* means the process is gone, a shutdown that returned in time means that  *)
(* no process runs or ever will, and a failure leaves nothing; the slots   *)
(* counted are the slots held, within every limit; and a consumer's        *)
(* verdict is its last word.                                               *)
(*                                                                         *)
(* KeyframeIndex, for any streams that are as the code takes them to be    *)
(* (StreamAssumption), any length of a region and any number of threads    *)
(* that ask.  First what a read of a region holds: from its first keyframe *)
(* to its limit the packets are all read, so the keyframe of every tick it *)
(* covers is among them, and where the frames are trusted the frame shown  *)
(* is.  Then what merging it keeps: IndexOk says of every covered tick     *)
(* that its keyframe and its frame are known, and of every keyframe known  *)
(* that its entry says what was seen.  A question carries how far it got,  *)
(* and what it left behind it is covered.                                  *)
(***************************************************************************)
EXTENDS Orchestrator, KeyframeIndex, Extremes, FiniteSetTheorems, TLAPS

-----------------------------------------------------------------------------
(* The orchestrator                                                          *)

Shape ==
    /\ pc \in [Jobs -> Before \cup Busy \cup After]
    /\ process \in [Jobs -> {"none", "runs", "ok", "bad"}]
    /\ reader \in [Jobs -> {"idle", "reading", "consuming", "done"}]
    /\ outcome \in [Jobs -> Outcomes]

\* Where the supervisor is tells what there is of the process and its reader.
Unspawned == Before \cup {"admitted"}
Reaped == {"releasing"} \cup After
Stages ==
    \A j \in Jobs :
        /\ pc[j] \in Unspawned =>
              reader[j] = "idle" /\ process[j] = "none" /\ j \notin written
        /\ pc[j] \in Reaped =>
              reader[j] \in {"idle", "done"} /\ process[j] # "runs"
        /\ pc[j] = "joining" => process[j] \in {"ok", "bad"}
        /\ reader[j] = "done" => process[j] \in {"ok", "bad"}
        /\ reader[j] = "idle" => process[j] = "none"

\* A job past its release has an outcome, and past its removal no file
\* unless it succeeded.
Removed ==
    \A j \in Jobs : pc[j] \in {"ending", "done"} =>
        (outcome[j] # "ok" => j \notin written)

\* The jobs that can still start or have a process are live.
LiveWhile == \A j \in Jobs : pc[j] \notin {"idle", "done"} => j \in live

\* Past a shutdown that returned nothing is admitted.
Closed ==
    /\ down # "idle" => shutting
    /\ down = "returned" => \A j \in Jobs : pc[j] \notin Busy

IInv == Shape /\ Stages /\ Removed /\ LiveWhile /\ Closed

LEMMA InitIInv == Init => IInv
  <1> SUFFICES ASSUME Init PROVE IInv
    OBVIOUS
  <1>1. Shape
    BY DEF Init, Shape, Before, Outcomes
  <1>2. Stages /\ Removed /\ LiveWhile /\ Closed
    BY DEF Init, Stages, Removed, LiveWhile, Closed, Reaped, After
  <1>3. QED
    BY <1>1, <1>2 DEF IInv

\* A step of the supervisor that leaves process, reader and files alone.
LEMMA AcquireIInv ==
    ASSUME IInv, NEW j \in Jobs,
           Run(j) \/ Refuse(j) \/ Withdraw(j) \/ Admit(j) \/ Wait(j)
    PROVE  IInv'
  <1>1. /\ pc[j] \in Before
        /\ pc' = [pc EXCEPT ![j] = pc'[j]]
        /\ pc'[j] \in {"started", "queued", "admitted", "ending"}
        /\ UNCHANGED <<process, reader, written, down, shutting>>
        /\ live \subseteq live'
        /\ pc[j] = "idle" => j \in live'
        /\ outcome' \in [Jobs -> Outcomes]
        /\ \A k \in Jobs : k # j => outcome'[k] = outcome[k]
    BY DEF IInv, Shape, Run, Refuse, Withdraw, Admit, Wait, Refuses, Withdraws,
           Admits, Acquiring, At, state, child, pipes, Before, Outcomes
  <1>2. pc'[j] = "admitted" => ~shutting
    BY <1>1 DEF IInv, Shape, Run, Refuse, Withdraw, Admit, Wait, Admits, At
  <1>3. Shape'
    BY <1>1 DEF IInv, Shape, Before, Busy, After
  <1>4. Stages'
    BY <1>1 DEF IInv, Shape, Stages, Unspawned, Reaped, Before, After
  <1>5. Removed'
    BY <1>1 DEF IInv, Shape, Stages, Removed, Unspawned
  <1>6. LiveWhile'
    BY <1>1 DEF IInv, Shape, LiveWhile, Before
  <1>7. Closed'
    BY <1>1, <1>2 DEF IInv, Shape, Closed, Busy
  <1>8. QED
    BY <1>3, <1>4, <1>5, <1>6, <1>7 DEF IInv

LEMMA ExecuteIInv ==
    ASSUME IInv, NEW j \in Jobs,
           Spawn(j) \/ SpawnFails(j) \/ Reap(j) \/ Kill(j) \/ GiveUp(j)
    PROVE  IInv'
  <1>1. /\ pc[j] \in Busy /\ pc[j] # "releasing"
        /\ pc' = [pc EXCEPT ![j] = pc'[j]] /\ pc'[j] \in Busy
        /\ UNCHANGED <<written, down, shutting, live>>
        /\ \A k \in Jobs \ {j} : /\ process'[k] = process[k]
                                 /\ reader'[k] = reader[k]
                                 /\ outcome'[k] = outcome[k]
        /\ process' \in [Jobs -> {"none", "runs", "ok", "bad"}]
        /\ reader' \in [Jobs -> {"idle", "reading", "consuming", "done"}]
        /\ outcome' \in [Jobs -> Outcomes]
    BY DEF IInv, Shape, Spawn, SpawnFails, Reap, Kill, GiveUp, At, state, child,
           pipes, Busy, Outcomes
  <1>2. Shape'
    BY <1>1 DEF IInv, Shape
  <1>3. /\ pc'[j] # "admitted"
        /\ pc'[j] = "releasing" => process'[j] = "none" /\ reader'[j] = "idle"
        /\ pc'[j] = "joining" => process'[j] \in {"ok", "bad"}
        /\ reader'[j] = "done" => process'[j] \in {"ok", "bad"}
        /\ reader'[j] = "idle" => process'[j] = "none"
    BY DEF IInv, Shape, Stages, Unspawned, Spawn, SpawnFails, Reap, Kill,
           GiveUp, At, child, pipes
  <1>4. Stages'
    BY <1>1, <1>3 DEF IInv, Shape, Stages, Unspawned, Reaped, Before, Busy,
                      After
  <1>5. Removed'
    BY <1>1 DEF IInv, Shape, Removed, Busy
  <1>6. LiveWhile' /\ Closed'
    BY <1>1 DEF IInv, Shape, LiveWhile, Closed, Busy
  <1>7. QED
    BY <1>2, <1>4, <1>5, <1>6 DEF IInv

LEMMA OutcomeType == \A j \in Jobs : Outcome(j) \in Outcomes
  BY DEF Outcome, Outcomes

LEMMA EndIInv ==
    ASSUME IInv, NEW j \in Jobs,
           Join(j) \/ Release(j) \/ Remove(j) \/ Answer(j)
    PROVE  IInv'
  <1>1. /\ pc' = [pc EXCEPT ![j] = pc'[j]] /\ pc'[j] \in Reaped
        /\ pc'[j] \in Busy => pc[j] \in Busy
        /\ UNCHANGED <<process, reader, down, shutting>>
        /\ written' \subseteq written
        /\ \A k \in Jobs \ {j} : outcome'[k] = outcome[k]
        /\ outcome' \in [Jobs -> Outcomes]
        /\ \A k \in Jobs \ {j} : k \in live => k \in live'
        /\ j \in live => j \in live' \/ pc'[j] = "done"
    BY OutcomeType
    DEF IInv, Shape, Join, Release, Remove, Answer, At, AfterRelease, state,
        child, pipes, Busy, After, Reaped
  <1>2. pc[j] # "idle" /\ pc[j] # "done"
    BY DEF Join, Release, Remove, Answer
  <1>3. Shape'
    BY <1>1 DEF IInv, Shape, Reaped, Busy
  <1>4. reader[j] \in {"idle", "done"} /\ process[j] # "runs"
    <2>1. CASE Join(j)
      BY <2>1 DEF Join, PipesJoined, IInv, Stages
    <2>2. CASE Release(j) \/ Remove(j) \/ Answer(j)
      BY <2>2 DEF Release, Remove, Answer, IInv, Stages, Reaped, After
    <2>3. QED
      BY <2>1, <2>2
  <1>5. Stages'
    BY <1>1, <1>4 DEF IInv, Shape, Stages, Unspawned, Reaped, Before, After
  <1>6. pc'[j] \in {"ending", "done"} => (outcome'[j] # "ok" => j \notin written')
    BY DEF IInv, Shape, Removed, Join, Release, Remove, Answer, At,
           AfterRelease, child
  <1>7. Removed'
    BY <1>1, <1>6 DEF IInv, Shape, Removed
  <1>8. LiveWhile'
    BY <1>1, <1>2 DEF IInv, Shape, LiveWhile
  <1>9. Closed'
    BY <1>1 DEF IInv, Shape, Closed
  <1>10. QED
    BY <1>3, <1>5, <1>7, <1>8, <1>9 DEF IInv

\* The threads at the pipes and the process itself.
LEMMA OutsideIInv ==
    ASSUME IInv, NEW j \in Jobs,
           Reader(j) \/ FeedEnds(j) \/ Writes(j) \/ Exits(j) \/ Dies(j)
    PROVE  IInv'
  <1>1. UNCHANGED <<pc, live, shutting, down, outcome>>
    BY DEF Reader, Chunk, Consume, EndOfOutput, FeedEnds, Writes, Exits, Dies,
           state
  <1>2. /\ process' \in [Jobs -> {"none", "runs", "ok", "bad"}]
        /\ reader' \in [Jobs -> {"idle", "reading", "consuming", "done"}]
        /\ \A k \in Jobs \ {j} : /\ process'[k] = process[k]
                                 /\ reader'[k] = reader[k]
                                 /\ k \in written' <=> k \in written
    BY DEF IInv, Shape, Reader, Chunk, Consume, EndOfOutput, FeedEnds, Writes,
           Exits, Dies, child, pipes
  <1>3. Shape'
    BY <1>1, <1>2 DEF IInv, Shape
  <1>4. \/ UNCHANGED <<process, reader, written>>
        \/ /\ reader[j] \in {"reading", "consuming"}
           /\ UNCHANGED <<process, written>>
           /\ reader'[j] # "idle"
           /\ reader'[j] = "done" => process[j] \in {"ok", "bad"}
        \/ /\ process[j] = "runs" /\ UNCHANGED reader
           /\ process'[j] \in {"runs", "ok", "bad"}
    BY DEF IInv, Shape, Reader, Chunk, Consume, EndOfOutput, FeedEnds, Writes,
           Exits, Dies, child, pipes
  <1>5. Stages'
    BY <1>1, <1>2, <1>4 DEF IInv, Shape, Stages
  <1>6. process[j] = "runs" => pc[j] \notin {"ending", "done"}
    BY DEF IInv, Stages, Reaped, After
  <1>7. written' = written \/ process[j] = "runs"
    BY DEF Reader, Chunk, Consume, EndOfOutput, FeedEnds, Writes, Exits, Dies,
           child
  <1>8. Removed'
    BY <1>1, <1>2, <1>6, <1>7 DEF IInv, Shape, Removed
  <1>9. LiveWhile' /\ Closed'
    BY <1>1 DEF IInv, LiveWhile, Closed
  <1>10. QED
    BY <1>3, <1>5, <1>8, <1>9 DEF IInv

\* Callers trip tokens and shut down.
LEMMA CallerIInv ==
    ASSUME IInv,
           \/ \E t \in Trippable : Cancel(t)
           \/ Shutdown \/ ShutdownReturns \/ ShutdownTimesOut
    PROVE  IInv'
  <1>1. UNCHANGED <<pc, live, process, reader, written, outcome>>
    BY DEF Cancel, Shutdown, ShutdownReturns, ShutdownTimesOut, state, child,
           pipes
  <1>2. Shape' /\ Stages' /\ Removed' /\ LiveWhile'
    BY <1>1 DEF IInv, Shape, Stages, Removed, LiveWhile
  <1>3. CASE ShutdownReturns
    <2>1. \A j \in Jobs : pc[j] \in {"idle", "done"}
      BY <1>3 DEF ShutdownReturns, IInv, LiveWhile
    <2>2. Closed'
      BY <1>1, <1>3, <2>1 DEF ShutdownReturns, IInv, Closed, Busy, state
    <2>3. QED
      BY <1>2, <2>2 DEF IInv
  <1>4. CASE ~ShutdownReturns
    <2>1. \/ UNCHANGED <<down, shutting>>
          \/ down' \in {"waiting", "late"} /\ (shutting' \/ shutting' = shutting)
             /\ (down # "idle" \/ shutting')
      BY <1>4, Zenon DEF Cancel, Shutdown, ShutdownTimesOut, state
    <2>2. Closed'
      <3>1. CASE Shutdown
        BY <1>1, <3>1 DEF Shutdown, IInv, Closed
      <3>2. CASE ShutdownTimesOut
        BY <1>1, <3>2 DEF ShutdownTimesOut, IInv, Closed, state
      <3>3. CASE \E t \in Trippable : Cancel(t)
        BY <1>1, <3>3 DEF Cancel, IInv, Closed, state
      <3>4. QED
        BY <1>4, <3>1, <3>2, <3>3
    <2>3. QED
      BY <1>2, <2>2 DEF IInv
  <1>5. QED
    BY <1>3, <1>4

LEMMA NextIInv ==
    ASSUME IInv, [Next]_vars
    PROVE  IInv'
  <1>1. CASE UNCHANGED vars
    BY <1>1 DEF vars, state, child, pipes, IInv, Shape, Stages, Removed,
                LiveWhile, Closed
  <1>2. CASE \E j \in Jobs : Run(j) \/ Supervisor(j)
    BY <1>2, AcquireIInv, ExecuteIInv, EndIInv DEF Supervisor
  <1>3. CASE \E j \in Jobs : \/ Reader(j) \/ FeedEnds(j)
                             \/ Writes(j) \/ Exits(j) \/ Dies(j)
    BY <1>3, OutsideIInv
  <1>4. CASE \/ \E t \in Trippable : Cancel(t)
             \/ Shutdown \/ ShutdownReturns \/ ShutdownTimesOut
    BY <1>4, CallerIInv
  <1>5. QED
    BY <1>1, <1>2, <1>3, <1>4 DEF Next

LEMMA Invariance == Spec => []IInv
  <1>1. Init => IInv
    BY InitIInv
  <1>2. IInv /\ [Next]_vars => IInv'
    BY NextIInv
  <1>3. QED
    BY <1>1, <1>2, PTL DEF Spec

\* Job::wait returns only once the process is gone and its output was read.
THEOREM AnswerComesLast == Spec => []AnsweredMeansGone
  <1>1. IInv => AnsweredMeansGone
    BY DEF IInv, Stages, AnsweredMeansGone, Reaped, After
  <1>2. QED
    BY <1>1, Invariance, PTL

\* Once shutdown returned in time no process runs, and none ever will, also
\* for a job that is run only afterwards.
THEOREM NothingRunsOn == Spec => []ShutdownMeansGone
  <1>1. IInv => ShutdownMeansGone
    <2>1. SUFFICES ASSUME IInv, down = "returned", NEW j \in Jobs,
                          process[j] = "runs"
                   PROVE  FALSE
      BY DEF ShutdownMeansGone
    <2>2. pc[j] \in Before \cup After
      BY <2>1 DEF IInv, Closed, Shape
    <2>3. QED
      BY <2>1, <2>2 DEF IInv, Stages, Unspawned, Reaped
  <1>2. QED
    BY <1>1, Invariance, PTL

\* A job that failed or was cancelled leaves no file of its own.
THEOREM FailureIsClean == Spec => []FailureLeavesNothing
  <1>1. IInv => FailureLeavesNothing
    BY DEF IInv, Removed, FailureLeavesNothing
  <1>2. QED
    BY <1>1, Invariance, PTL

\* Whatever jobs run and whenever they end, nothing of them is left behind.
THEOREM NothingIsLeft == Spec => []NothingOutlives
  <1>1. AnsweredMeansGone /\ ShutdownMeansGone /\ FailureLeavesNothing => NothingOutlives
    BY DEF NothingOutlives
  <1>2. QED
    BY <1>1, AnswerComesLast, NothingRunsOn, FailureIsClean, PTL

-----------------------------------------------------------------------------
(* Slots *)

\* What is left of the type invariant
Typed ==
    /\ live \subseteq Jobs /\ shutting \in BOOLEAN
    /\ down \in {"idle", "waiting", "returned", "late"}
    /\ tripped \subseteq Tokens
    /\ killed \subseteq Jobs /\ written \subseteq Writers
    /\ fed \subseteq Fed
    /\ verdict \in [Jobs -> {"none", "stop", "fail"}]

\* The jobs of one priority that hold a slot
Held(p) == {j \in Jobs : pc[j] \in Busy /\ Priority[j] = p}

\* The count of a priority is the number of its jobs that hold a slot, and
\* within what `may_start` admits.
Counted ==
    /\ DOMAIN running = Priorities
    /\ \A p \in Priorities : running[p] = Cardinality(Held(p))
    /\ running["interactive"] <= Interactive
    /\ running["playback"] <= Playback
    /\ running["export"] <= Export
    /\ running["foreground"] + running["background"] <= Shared
    /\ running["background"] <= Background
    /\ running = [p \in Priorities |-> running[p]]

LEMMA TokensTyped == \A j \in Jobs : Token(j) \in Tokens
  BY LimitsAssumption DEF Token

LEMMA TypedInvariance == Spec => []Typed
  <1>1. Init => Typed
    BY DEF Init, Typed
  <1>2. Typed /\ [Next]_vars => Typed'
    <2> SUFFICES ASSUME Typed, [Next]_vars PROVE Typed'
      OBVIOUS
    <2>1. CASE UNCHANGED vars
      BY <2>1 DEF vars, state, child, pipes, Typed
    <2>2. ASSUME NEW j \in Jobs, Run(j) \/ Supervisor(j) PROVE Typed'
      <3>1. /\ live' \in {live, live \cup {j}, live \ {j}}
            /\ UNCHANGED <<shutting, down, tripped, verdict>>
        BY <2>2 DEF Run, Supervisor, Refuse, Withdraw, Admit, Wait, Spawn, SpawnFails,
                    Reap, Kill, GiveUp, Join, Release, Remove, Answer, state, pipes
      <3>2. /\ killed' \in {killed, killed \cup {j}}
            /\ written' \subseteq written
            /\ fed' \in {fed, IF j \in Fed THEN fed \cup {j} ELSE fed}
        BY <2>2 DEF Run, Supervisor, Refuse, Withdraw, Admit, Wait, Spawn, SpawnFails,
                    Reap, Kill, GiveUp, Join, Release, Remove, Answer, child, pipes
      <3>3. QED
        BY <3>1, <3>2 DEF Typed
    <2>3. ASSUME NEW j \in Jobs, Reader(j) \/ FeedEnds(j) \/ Writes(j) \/ Exits(j) \/ Dies(j)
          PROVE  Typed'
      <3>1. /\ UNCHANGED <<live, shutting, down, killed>>
            /\ tripped' \in {tripped, tripped \cup {Token(j)}}
            /\ fed' \subseteq fed
        BY <2>3 DEF Reader, Chunk, Consume, EndOfOutput, FeedEnds, Writes, Exits, Dies,
                    TripAfter, state, child, pipes
      <3>2. /\ written' = written \/ (j \in Writers /\ written' = written \cup {j})
            /\ verdict' \in [Jobs -> {"none", "stop", "fail"}]
        BY <2>3 DEF Reader, Chunk, Consume, EndOfOutput, FeedEnds, Writes, Exits, Dies,
                    child, pipes, Typed
      <3>3. QED
        BY <3>1, <3>2, TokensTyped DEF Typed
    <2>4. ASSUME NEW t \in Trippable, Cancel(t) PROVE Typed'
      BY <2>4, LimitsAssumption DEF Cancel, Typed, state, child, pipes
    <2>5. CASE Shutdown
      BY <2>5, TokensTyped DEF Shutdown, CancelledByShutdown, Typed, child, pipes
    <2>6. CASE ShutdownReturns \/ ShutdownTimesOut
      BY <2>6 DEF ShutdownReturns, ShutdownTimesOut, Typed, state, child, pipes
    <2>7. QED
      BY <2>1, <2>2, <2>3, <2>4, <2>5, <2>6 DEF Next
  <1>3. QED
    BY <1>1, <1>2, PTL DEF Spec

LEMMA HeldFinite ==
    \A p : IsFiniteSet(Held(p)) /\ Cardinality(Held(p)) \in 0..Cardinality(Jobs)
  <1> TAKE p
  <1>1. Held(p) \in SUBSET Jobs
    BY DEF Held
  <1>2. IsFiniteSet(Held(p)) /\ Cardinality(Held(p)) <= Cardinality(Jobs)
    BY <1>1, FS_Subset, LimitsAssumption
  <1>3. Cardinality(Held(p)) \in Nat /\ Cardinality(Jobs) \in Nat
    BY <1>2, FS_CardinalityType, LimitsAssumption
  <1>4. QED
    BY <1>2, <1>3

\* A job that keeps its place in or out of Busy, one that enters it, one that
\* leaves it: what becomes of the counts.
LEMMA StaysIn ==
    ASSUME NEW j \in Jobs, pc \in [Jobs -> Before \cup Busy \cup After], NEW to,
           At(j, to), to \in Busy <=> pc[j] \in Busy
    PROVE  \A p : Held(p)' = Held(p)
  BY DEF Held, At

LEMMA EntersIt ==
    ASSUME NEW j \in Jobs, pc \in [Jobs -> Before \cup Busy \cup After], NEW to,
           At(j, to), to \in Busy, pc[j] \notin Busy
    PROVE  /\ \A p : p # Priority[j] => Held(p)' = Held(p)
           /\ Cardinality(Held(Priority[j])') = Cardinality(Held(Priority[j])) + 1
  <1>1. \A p : p # Priority[j] => Held(p)' = Held(p)
    BY DEF Held, At
  <1>2. Held(Priority[j])' = Held(Priority[j]) \cup {j} /\ j \notin Held(Priority[j])
    BY DEF Held, At
  <1>3. QED
    BY <1>1, <1>2, HeldFinite, FS_AddElement

LEMMA LeavesIt ==
    ASSUME NEW j \in Jobs, pc \in [Jobs -> Before \cup Busy \cup After], NEW to,
           At(j, to), to \notin Busy, pc[j] \in Busy
    PROVE  /\ \A p : p # Priority[j] => Held(p)' = Held(p)
           /\ Cardinality(Held(Priority[j])') = Cardinality(Held(Priority[j])) - 1
  <1>1. \A p : p # Priority[j] => Held(p)' = Held(p)
    BY DEF Held, At
  <1>2. Held(Priority[j])' = Held(Priority[j]) \ {j} /\ j \in Held(Priority[j])
    BY DEF Held, At
  <1>3. QED
    BY <1>1, <1>2, HeldFinite, FS_RemoveElement

LEMMA CountedInvariance == Spec => []Counted
  <1>1. Init => Counted
    <2> SUFFICES ASSUME Init PROVE Counted
      OBVIOUS
    <2>1. \A p \in Priorities : Held(p) = {}
      BY DEF Init, Held, Busy
    <2>2. \A p \in Priorities : Cardinality(Held(p)) = 0
      BY <2>1, FS_EmptySet
    <2>3. QED
      BY <2>2, LimitsAssumption DEF Init, Counted, Priorities
  <1>2. IInv /\ Counted /\ [Next]_vars => Counted'
    <2> SUFFICES ASSUME IInv, Counted, [Next]_vars PROVE Counted'
      OBVIOUS
    <2>0. pc \in [Jobs -> Before \cup Busy \cup After]
      BY DEF IInv, Shape
    <2>1. CASE UNCHANGED <<pc, running>>
      BY <2>1 DEF Counted, Held
    <2>2. ASSUME NEW j \in Jobs, NEW to, At(j, to), to \in Busy <=> pc[j] \in Busy,
                 UNCHANGED running
          PROVE  Counted'
      <3>1. \A p : Held(p)' = Held(p)
        BY <2>0, <2>2, StaysIn
      <3>2. QED
        BY <2>2, <3>1 DEF Counted
    <2>3. ASSUME NEW j \in Jobs, Admit(j) PROVE Counted'
      <3>1. /\ At(j, "admitted") /\ "admitted" \in Busy /\ pc[j] \notin Busy
            /\ MayStart(Priority[j])
            /\ running' = [running EXCEPT ![Priority[j]] = @ + 1]
            /\ Priority[j] \in Priorities
        BY <2>3, LimitsAssumption DEF Admit, Admits, Acquiring, Busy
      <3>2. /\ \A p : p # Priority[j] => Held(p)' = Held(p)
            /\ Cardinality(Held(Priority[j])') = Cardinality(Held(Priority[j])) + 1
        BY <2>0, <3>1, EntersIt
      <3>3. \A p \in Priorities : running[p] \in Nat
        BY HeldFinite DEF Counted
      <3>4. \A p \in Priorities :
                running'[p] = IF p = Priority[j] THEN running[p] + 1 ELSE running[p]
        BY <3>1 DEF Counted
      <3>5. \A p \in Priorities : running'[p] = Cardinality(Held(p)')
        BY <3>2, <3>4 DEF Counted
      <3>6. /\ running'["interactive"] <= Interactive
            /\ running'["playback"] <= Playback
            /\ running'["export"] <= Export
            /\ running'["foreground"] + running'["background"] <= Shared
            /\ running'["background"] <= Background
        <4>1. /\ Interactive \in Nat /\ Playback \in Nat /\ Shared \in Nat /\ Background \in Nat
              /\ Export \in Nat
          BY LimitsAssumption
        <4>2. CASE Priority[j] = "interactive"
          BY <3>1, <3>3, <3>4, <4>1, <4>2 DEF Counted, MayStart, Priorities
        <4>3. CASE Priority[j] = "playback"
          BY <3>1, <3>3, <3>4, <4>1, <4>3 DEF Counted, MayStart, Priorities
        <4>4. CASE Priority[j] = "export"
          BY <3>1, <3>3, <3>4, <4>1, <4>4 DEF Counted, MayStart, Priorities
        <4>5. CASE Priority[j] = "foreground"
          BY <3>1, <3>3, <3>4, <4>1, <4>5 DEF Counted, MayStart, SharedInUse, Priorities
        <4>6. CASE Priority[j] = "background"
          BY <3>1, <3>3, <3>4, <4>1, <4>6 DEF Counted, MayStart, SharedInUse, Priorities
        <4>7. QED
          BY <3>1, <4>2, <4>3, <4>4, <4>5, <4>6 DEF Priorities
      <3>7. /\ DOMAIN running' = Priorities
            /\ running' = [p \in Priorities |-> running'[p]]
        BY <3>1 DEF Counted
      <3>8. QED
        BY <3>5, <3>6, <3>7 DEF Counted
    <2>4. ASSUME NEW j \in Jobs, Release(j) PROVE Counted'
      <3>1. /\ At(j, AfterRelease(j)) /\ AfterRelease(j) \notin Busy /\ pc[j] \in Busy
            /\ running' = [running EXCEPT ![Priority[j]] = @ - 1]
            /\ Priority[j] \in Priorities
        BY <2>4, LimitsAssumption DEF Release, AfterRelease, SlotBack, Busy
      <3>2. /\ \A p : p # Priority[j] => Held(p)' = Held(p)
            /\ Cardinality(Held(Priority[j])') = Cardinality(Held(Priority[j])) - 1
        BY <2>0, <3>1, LeavesIt
      <3>3. \A p \in Priorities : running[p] \in Nat
        BY HeldFinite DEF Counted
      <3>4. \A p \in Priorities :
                running'[p] = IF p = Priority[j] THEN running[p] - 1 ELSE running[p]
        BY <3>1 DEF Counted
      <3>5. \A p \in Priorities : running'[p] = Cardinality(Held(p)')
        BY <3>2, <3>4 DEF Counted
      <3>6. /\ running'["interactive"] <= Interactive
            /\ running'["playback"] <= Playback
            /\ running'["export"] <= Export
            /\ running'["foreground"] + running'["background"] <= Shared
            /\ running'["background"] <= Background
        BY <3>3, <3>4, LimitsAssumption DEF Counted, Priorities
      <3>7. /\ DOMAIN running' = Priorities
            /\ running' = [p \in Priorities |-> running'[p]]
        BY <3>1 DEF Counted
      <3>8. QED
        BY <3>5, <3>6, <3>7 DEF Counted
    <2>5. ASSUME NEW j \in Jobs,
                 \/ Run(j) \/ Refuse(j) \/ Withdraw(j) \/ Wait(j) \/ Spawn(j) \/ SpawnFails(j)
                 \/ Reap(j) \/ Kill(j) \/ GiveUp(j) \/ Join(j) \/ Remove(j) \/ Answer(j)
          PROVE  Counted'
      <3>1. /\ UNCHANGED running
            /\ \E to \in Before \cup Busy \cup After : At(j, to) /\ (to \in Busy <=> pc[j] \in Busy)
        BY <2>5 DEF Run, Refuse, Withdraw, Wait, Spawn, SpawnFails, Reap, Kill, GiveUp, Join,
                    Remove, Answer, Refuses, Withdraws, Acquiring, state, Before, Busy, After
      <3>2. QED
        BY <2>2, <3>1
    <2>6. ASSUME NEW j \in Jobs, Reader(j) \/ FeedEnds(j) \/ Writes(j) \/ Exits(j) \/ Dies(j)
          PROVE  Counted'
      BY <2>1, <2>6 DEF Reader, Chunk, Consume, EndOfOutput, FeedEnds, Writes, Exits, Dies, state
    <2>7. CASE (\E t \in Trippable : Cancel(t)) \/ Shutdown \/ ShutdownReturns \/ ShutdownTimesOut
      BY <2>1, <2>7 DEF Cancel, Shutdown, ShutdownReturns, ShutdownTimesOut, state
    <2>8. CASE UNCHANGED vars
      BY <2>1, <2>8 DEF vars, state
    <2>9. QED
      BY <2>3, <2>4, <2>5, <2>6, <2>7, <2>8 DEF Next, Supervisor
  <1>3. QED
    BY <1>1, <1>2, Invariance, PTL DEF Spec

\* The slots counted are the slots held, no priority holds more than its
\* limit, and background work always leaves a shared slot to the user's
\* (acquire, may_start, release).
THEOREM SlotsAreKept == Spec => []SlotsKept
  <1>1. IInv /\ Typed /\ Counted => SlotsKept
    <2> SUFFICES ASSUME IInv, Typed, Counted PROVE SlotsKept
      OBVIOUS
    <2>1. \A p \in Priorities : {j \in Jobs : pc[j] \in Busy /\ Priority[j] \in {p}} = Held(p)
      BY DEF Held
    <2>2. \A p \in Priorities : Holding({p}) = Cardinality(Held(p))
      BY <2>1 DEF Holding
    <2>3. {j \in Jobs : pc[j] \in Busy /\ Priority[j] \in Sharing}
            = Held("foreground") \cup Held("background")
      BY DEF Held, Sharing
    <2>4. Held("foreground") \cap Held("background") = {}
      BY DEF Held
    <2>5. Cardinality(Held("foreground") \cup Held("background"))
            = Cardinality(Held("foreground")) + Cardinality(Held("background"))
                - Cardinality(Held("foreground") \cap Held("background"))
      BY HeldFinite, FS_Union
    <2>6. Holding(Sharing) = running["foreground"] + running["background"]
      <3>1. Cardinality(Held("foreground") \cap Held("background")) = 0
        BY <2>4, FS_EmptySet
      <3>2. /\ running["foreground"] = Cardinality(Held("foreground"))
            /\ running["background"] = Cardinality(Held("background"))
        BY DEF Counted, Priorities
      <3>3. Cardinality(Held("foreground")) \in Nat /\ Cardinality(Held("background")) \in Nat
        BY HeldFinite
      <3>4. Holding(Sharing) = Cardinality(Held("foreground") \cup Held("background"))
        BY <2>3 DEF Holding
      <3>5. QED
        BY <2>5, <3>1, <3>2, <3>3, <3>4
    <2>7. TypeOK
      <3>1. running \in [Priorities -> 0..Cardinality(Jobs)]
        BY HeldFinite DEF Counted
      <3>2. QED
        BY <3>1 DEF TypeOK, Typed, IInv, Shape
    <2>8. /\ \A p \in Priorities : running[p] = Holding({p})
          /\ Holding({"interactive"}) <= Interactive
          /\ Holding({"playback"}) <= Playback
          /\ Holding({"export"}) <= Export
      BY <2>2 DEF Counted, Priorities
    <2>9. Holding({"background"}) < Shared
      <3>1. Holding({"background"}) \in Nat /\ Holding({"background"}) <= Background
        BY <2>2, HeldFinite DEF Counted, Priorities
      <3>2. QED
        BY <3>1, LimitsAssumption
    <2>10. QED
      BY <2>6, <2>7, <2>8, <2>9 DEF SlotsKept, Counted
  <1>2. QED
    BY <1>1, Invariance, TypedInvariance, CountedInvariance, PTL

-----------------------------------------------------------------------------
(* The consumer's verdict *)

\* A verdict trips the job's token, and output read past that is dropped.
LastWord ==
    \A j \in Jobs : verdict[j] # "none" => Token(j) \in tripped /\ reader[j] # "consuming"

LEMMA LastWordInvariance == Spec => []LastWord
  <1>1. Init => LastWord
    BY DEF Init, LastWord
  <1>2. IInv /\ Typed /\ LastWord /\ [Next]_vars => LastWord'
    <2> SUFFICES ASSUME IInv, Typed, LastWord, [Next]_vars PROVE LastWord'
      OBVIOUS
    <2>1. CASE UNCHANGED <<verdict, reader>> /\ tripped \subseteq tripped'
      BY <2>1 DEF LastWord, Token
    <2>2. ASSUME NEW j \in Jobs, Run(j) \/ Supervisor(j), ~Spawn(j) PROVE LastWord'
      BY <2>1, <2>2 DEF Run, Supervisor, Refuse, Withdraw, Admit, Wait, SpawnFails, Reap, Kill,
                        GiveUp, Join, Release, Remove, Answer, pipes
    <2>3. ASSUME NEW j \in Jobs, Spawn(j) PROVE LastWord'
      BY <2>3 DEF Spawn, LastWord, Token, IInv, Shape
    <2>4. ASSUME NEW j \in Jobs, Chunk(j) PROVE LastWord'
      BY <2>4 DEF Chunk, Cancelled, LastWord, Token, IInv, Shape
    <2>5. ASSUME NEW j \in Jobs, NEW flow \in {"none", "stop", "fail"}, Consume(j, flow)
          PROVE  LastWord'
      BY <2>5 DEF Consume, TripAfter, LastWord, Token, IInv, Shape, Typed
    <2>6. ASSUME NEW j \in Jobs, EndOfOutput(j) PROVE LastWord'
      BY <2>6 DEF EndOfOutput, LastWord, Token, IInv, Shape
    <2>7. ASSUME NEW j \in Jobs, FeedEnds(j) \/ Writes(j) \/ Exits(j) \/ Dies(j) PROVE LastWord'
      BY <2>1, <2>7 DEF FeedEnds, Writes, Exits, Dies, pipes
    <2>8. CASE (\E t \in Trippable : Cancel(t)) \/ Shutdown \/ ShutdownReturns \/ ShutdownTimesOut
      BY <2>1, <2>8 DEF Cancel, Shutdown, ShutdownReturns, ShutdownTimesOut, pipes
    <2>9. CASE UNCHANGED vars
      BY <2>1, <2>9 DEF vars, pipes
    <2>10. QED
      BY <2>2, <2>3, <2>4, <2>5, <2>6, <2>7, <2>8, <2>9 DEF Next, Reader
  <1>3. QED
    BY <1>1, <1>2, Invariance, TypedInvariance, PTL DEF Spec

\* The consumer's verdict is its last word: no step changes one it has given
\* (read_stdout, consume).
THEOREM VerdictIsFinal == Spec => VerdictStands
  <1>1. Typed /\ LastWord /\ [Next]_vars =>
          [\A j \in Jobs : verdict[j] # "none" => verdict'[j] = verdict[j]]_vars
    <2> SUFFICES ASSUME Typed, LastWord, Next
                 PROVE  \A k \in Jobs : verdict[k] # "none" => verdict'[k] = verdict[k]
      OBVIOUS
    <2>1. CASE UNCHANGED verdict
      BY <2>1
    <2>2. ASSUME NEW j \in Jobs, NEW flow \in {"none", "stop", "fail"}, Consume(j, flow)
          PROVE  \A k \in Jobs : verdict[k] # "none" => verdict'[k] = verdict[k]
      BY <2>2 DEF Consume, LastWord, Typed
    <2>3. ASSUME NEW j \in Jobs, Run(j) \/ Supervisor(j) PROVE UNCHANGED verdict
      BY <2>3 DEF Run, Supervisor, Refuse, Withdraw, Admit, Wait, Spawn, SpawnFails, Reap, Kill,
                  GiveUp, Join, Release, Remove, Answer, pipes
    <2>4. ASSUME NEW j \in Jobs,
                 \/ Chunk(j) \/ EndOfOutput(j) \/ FeedEnds(j) \/ Writes(j) \/ Exits(j) \/ Dies(j)
          PROVE  UNCHANGED verdict
      BY <2>4 DEF Chunk, EndOfOutput, FeedEnds, Writes, Exits, Dies, pipes
    <2>5. CASE (\E t \in Trippable : Cancel(t)) \/ Shutdown \/ ShutdownReturns \/ ShutdownTimesOut
      BY <2>1, <2>5 DEF Cancel, Shutdown, ShutdownReturns, ShutdownTimesOut, pipes
    <2>6. QED
      BY <2>1, <2>2, <2>3, <2>4, <2>5 DEF Next, Reader
  <1>2. QED
    BY <1>1, TypedInvariance, LastWordInvariance, PTL DEF Spec, VerdictStands

-----------------------------------------------------------------------------
(* The stream                                                                *)

FileInv == file \in Files

\* The stream's keyframe `i` is the last shown at or before `t`.
LastAt(i, t) ==
    /\ i \in KeyPackets /\ Listed(i).pts <= t
    /\ \A j \in KeyPackets : i < j => Listed(j).pts > t
\* Whether leading pictures follow it, and so whether it is open.
Leads(i) == i + 1 < GopEnd(i) /\ Listed(i + 1).pts < Listed(i).pts
Opens(i) == Leads(i) /\ ~ClosesGop(Listed(i).picture)

LEMMA StreamIs ==
    ASSUME FileInv
    PROVE  /\ Len(file.packets) \in Nat /\ Listing = 1..Len(file.packets)
           /\ KeyPackets \subseteq Listing /\ IsFiniteSet(Listing) /\ IsFiniteSet(KeyPackets)
           /\ \A i \in Listing : Listed(i) \in PacketType
           /\ \A i, k \in Listing : i < k /\ Listed(k).key =>
                 /\ Listed(i).pts < Listed(k).pts
                 /\ Listed(i).shown => Listed(k).shown
           /\ \A i, j \in Listing : i < j => Listed(i).pts <= Listed(j).pts + ReorderMargin
<1>1. /\ file.packets \in Seq(PacketType)
      /\ KeyframesInOrder(file.packets) /\ ReordersWithin(file.packets)
  BY StreamAssumption DEF FileInv
<1>2. Len(file.packets) \in Nat /\ Listing = 1..Len(file.packets) /\ \A i \in Listing : Listed(i) \in PacketType
  BY <1>1 DEF Listing, Listed
<1>3. IsFiniteSet(Listing) /\ KeyPackets \subseteq Listing
  BY <1>2, FS_Interval DEF KeyPackets
<1>4. IsFiniteSet(KeyPackets)
  BY <1>3, FS_Subset
<1>5. QED
  BY <1>1, <1>2, <1>3, <1>4 DEF KeyframesInOrder, ReordersWithin, Listing, Listed

LEMMA PtsIs ==
    ASSUME FileInv, NEW i \in Listing
    PROVE  Listed(i).pts \in Int /\ Low <= Listed(i).pts /\ Listed(i).pts < High
  BY StreamIs, TicksAssumption DEF PacketType

\* The packets of any set of them have finitely many times.
LEMMA TimesAreFinite ==
    ASSUME FileInv, NEW S \in SUBSET Listing
    PROVE  IsFiniteSet({Listed(i).pts : i \in S}) /\ {Listed(i).pts : i \in S} \subseteq Int
<1> DEFINE f == [i \in S |-> Listed(i).pts]
<1>1. IsFiniteSet(S)
  BY StreamIs, FS_Subset
<1>2. \A i \in S : f[i] = Listed(i).pts
  OBVIOUS
<1>3. DOMAIN f = S
  OBVIOUS
<1> HIDE DEF f
<1>4. IsFiniteSet({f[i] : i \in S})
  BY <1>1, <1>3, ImageIsFinite
<1>5. {f[i] : i \in S} = {Listed(i).pts : i \in S}
  BY <1>2
<1>6. {Listed(i).pts : i \in S} \subseteq Int
  BY PtsIs
<1>7. QED
  BY <1>4, <1>5, <1>6

LEMMA GopEndIs ==
    ASSUME FileInv, NEW i \in KeyPackets
    PROVE  /\ GopEnd(i) \in Nat /\ i < GopEnd(i) /\ GopEnd(i) <= Len(file.packets) + 1
           /\ GopEnd(i) <= Len(file.packets) => GopEnd(i) \in KeyPackets
           /\ \A j \in KeyPackets : i < j => GopEnd(i) <= j
<1> DEFINE later == {j \in KeyPackets : j > i}
           ends  == later \cup {Len(file.packets) + 1}
<1>1. /\ Len(file.packets) \in Nat /\ i \in Nat /\ i <= Len(file.packets)
      /\ \A j \in KeyPackets : j \in Nat /\ j <= Len(file.packets)
  BY StreamIs
<1>2. IsFiniteSet(later)
  BY StreamIs, FS_Subset
<1>3. IsFiniteSet(ends)
  BY <1>2, FS_AddElement
<1>4. ends \subseteq Int /\ ends # {}
  <2>1. Len(file.packets) + 1 \in Int
    BY <1>1
  <2>2. \A j \in later : j \in Int
    BY <1>1
  <2>3. QED
    BY <2>1, <2>2
<1>5. GopEnd(i) = Min(ends)
  BY DEF GopEnd
<1> HIDE DEF ends
<1>6. GopEnd(i) \in ends /\ \A j \in ends : GopEnd(i) <= j
  BY <1>3, <1>4, <1>5, MinIsIn
<1>7. Len(file.packets) + 1 \in ends /\ \A j \in KeyPackets : i < j => j \in ends
  BY <1>1 DEF ends
<1>8. CASE GopEnd(i) = Len(file.packets) + 1
  BY <1>1, <1>6, <1>7, <1>8
<1>9. CASE GopEnd(i) \in later
  BY <1>1, <1>6, <1>7, <1>9
<1>10. QED
  BY <1>6, <1>8, <1>9 DEF ends

\* Packets between keyframes are no keyframes.
LEMMA InGop ==
    ASSUME FileInv, NEW i \in KeyPackets, NEW j \in Listing, i < j, j < GopEnd(i)
    PROVE  ~Listed(j).key
<1>1. j \notin KeyPackets
  BY GopEndIs, StreamIs
<1>2. QED
  BY <1>1 DEF KeyPackets

\* One leading picture in a GOP: the first is one.
LEMMA LeadsFirst ==
    ASSUME FileInv, NEW i \in KeyPackets, NEW j \in Listing, i < j, j < GopEnd(i),
           Listed(j).pts < Listed(i).pts
    PROVE  Leads(i)
<1>1. i \in Listing /\ i \in Nat /\ j \in Nat /\ Listed(i).key
  BY StreamIs DEF KeyPackets
<1>2. \A k \in i + 1..j : ~Listed(k).key
  <2>1. TAKE k \in i + 1..j
  <2>2. k \in Listing /\ i < k /\ k < GopEnd(i)
    BY <1>1, StreamIs, GopEndIs
  <2>3. QED
    BY <2>2, InGop
<1>3. LeadingFirst(file.packets)
  BY StreamAssumption DEF FileInv
<1>4. Listed(i + 1).pts < Listed(i).pts
  BY <1>1, <1>2, <1>3 DEF LeadingFirst, Listed, Listing
<1>5. i + 1 < GopEnd(i)
  BY <1>1, GopEndIs
<1>6. QED
  BY <1>4, <1>5 DEF Leads

\* A cut at a keyframe depends on the GOP before just when the packet after it
\* is shown before it.
LEMMA OpenIs ==
    ASSUME FileInv, NEW i \in KeyPackets
    PROVE  TrueOpen(Listed(i).pts) = Opens(i)
<1>1. ASSUME NEW k \in KeyPackets, Listed(k).pts = Listed(i).pts PROVE k = i
  <2>1. i \in Listing /\ k \in Listing /\ Listed(i).key /\ Listed(k).key /\ i \in Nat /\ k \in Nat
    BY StreamIs DEF KeyPackets
  <2>2. Listed(i).pts \in Int
    BY <2>1, PtsIs
  <2>3. QED
    BY <1>1, <2>1, <2>2, StreamIs
<1>2. TrueOpen(Listed(i).pts) <=>
         ~ClosesGop(Listed(i).picture) /\ \E j \in i + 1..GopEnd(i) - 1 : Listed(j).pts < Listed(i).pts
  BY <1>1 DEF TrueOpen
<1>3. ASSUME NEW j \in i + 1..GopEnd(i) - 1, Listed(j).pts < Listed(i).pts PROVE Leads(i)
  <2>1. j \in Listing /\ i < j /\ j < GopEnd(i)
    BY GopEndIs, StreamIs
  <2>2. QED
    BY <1>3, <2>1, LeadsFirst
<1>4. Leads(i) => \E j \in i + 1..GopEnd(i) - 1 : Listed(j).pts < Listed(i).pts
  <2>1. SUFFICES ASSUME Leads(i) PROVE i + 1 \in i + 1..GopEnd(i) - 1
    BY DEF Leads
  <2>2. i \in Nat /\ GopEnd(i) \in Nat
    BY GopEndIs, StreamIs
  <2>3. QED
    BY <2>1, <2>2 DEF Leads
<1>5. Leads(i) <=> \E j \in i + 1..GopEnd(i) - 1 : Listed(j).pts < Listed(i).pts
  BY <1>3, <1>4
<1>6. (TrueOpen(Listed(i).pts) <=> Opens(i)) /\ TrueOpen(Listed(i).pts) \in BOOLEAN /\ Opens(i) \in BOOLEAN
  BY <1>2, <1>5 DEF Opens, Leads, TrueOpen
<1>7. QED
  BY <1>6

-----------------------------------------------------------------------------
(* A region                                                                  *)

\* The read stops before the first packet past the limit.
LEMMA ReadToIs ==
    ASSUME FileInv, NEW first \in 1..Len(file.packets) + 1, NEW limit \in Int
    PROVE  \E n \in first..Len(file.packets) + 1 :
              /\ ReadTo(first, limit) = n - 1
              /\ n <= Len(file.packets) => Listed(n).pts >= limit
              /\ \A m \in first..n - 1 : Listed(m).pts < limit
<1> DEFINE past == {j \in first..Len(file.packets) : Listed(j).pts >= limit}
           ends == past \cup {Len(file.packets) + 1}
           n    == Min(ends)
<1>1. Len(file.packets) \in Nat /\ first \in Nat /\ first >= 1 /\ first <= Len(file.packets) + 1
  BY StreamIs
<1>2. IsFiniteSet(first..Len(file.packets))
  BY <1>1, FS_Interval
<1>3. IsFiniteSet(past)
  BY <1>2, FS_Subset
<1>4. IsFiniteSet(ends)
  BY <1>3, FS_AddElement
<1>5. \A j \in ends : j \in Int /\ j >= first /\ j <= Len(file.packets) + 1
  BY <1>1
<1>6. ends \subseteq Int /\ ends # {}
  BY <1>5
<1>7. ReadTo(first, limit) = n - 1
  BY DEF ReadTo
<1>8. n \in ends /\ \A j \in ends : n <= j
  <2> HIDE DEF ends
  <2>1. QED
    BY <1>4, <1>6, MinIsIn
<1> HIDE DEF n
<1>9. n \in first..Len(file.packets) + 1
  BY <1>1, <1>5, <1>8
<1>10. n <= Len(file.packets) => Listed(n).pts >= limit
  BY <1>1, <1>8
<1>11. \A m \in first..n - 1 : Listed(m).pts < limit
  <2>1. TAKE m \in first..n - 1
  <2>2. m \in first..Len(file.packets) /\ m < n /\ m \in Nat
    BY <1>1, <1>9
  <2>3. m \notin past
    BY <1>8, <2>2
  <2>4. m \in Listing
    BY <1>1, <2>2, StreamIs
  <2>5. QED
    BY <2>2, <2>3, <2>4, PtsIs
<1>12. QED
  BY <1>7, <1>9, <1>10, <1>11

\* Where it begins: at the last keyframe at or before, or at the first packet.
LEMMA SeekToIs ==
    ASSUME FileInv, NEW from \in Nat
    PROVE  /\ SeekTo(from) \in 1..Len(file.packets) + 1
           /\ SeekTo(from) # 1 =>
                 from > 0 /\ SeekTo(from) \in KeyPackets /\ Listed(SeekTo(from)).pts <= from
<1> DEFINE before == {i \in KeyPackets : Listed(i).pts <= from}
<1>1. IsFiniteSet(before) /\ before \subseteq Int
  <2>1. \A i \in before : i \in Int
    BY StreamIs
  <2>2. IsFiniteSet(before)
    BY StreamIs, FS_Subset
  <2>3. QED
    BY <2>1, <2>2
<1>2. CASE from <= 0 \/ before = {}
  <2>1. SeekTo(from) = 1
    BY <1>2 DEF SeekTo
  <2>2. QED
    BY <2>1, StreamIs
<1>3. CASE from > 0 /\ before # {}
  <2>1. SeekTo(from) = Max(before)
    BY <1>3 DEF SeekTo
  <2>2. SeekTo(from) \in before
    <3> HIDE DEF before
    <3>1. QED
      BY <1>1, <1>3, <2>1, MaxIsIn
  <2>3. QED
    BY <1>3, <2>2, StreamIs
<1>4. QED
  BY <1>2, <1>3

\* What a region read from `from` on holds, as intervals of packets.
ReadsPackets(region, first, n) ==
    /\ first \in 1..Len(file.packets) + 1 /\ n \in first..Len(file.packets) + 1
    /\ region.packets = first..n - 1
    /\ n <= Len(file.packets) => Listed(n).pts >= region.limit
    /\ \A m \in first..n - 1 : Listed(m).pts < region.limit
    /\ first # 1 => /\ region.from > 0 /\ first \in KeyPackets /\ Listed(first).pts <= region.from
                    /\ first < n
IsRegion(region) ==
    /\ region.from \in 0..High /\ region.limit = region.from + RegionTicks
    /\ region.ended = ReachedEnd({Listed(i).pts : i \in region.packets}, region.limit)
    /\ \E first, n \in Nat : ReadsPackets(region, first, n)

LEMMA RegionIs ==
    ASSUME FileInv, NEW from \in 0..High
    PROVE  IsRegion(Region(from)) /\ Region(from).from = from
<1> DEFINE region == Region(from)
           first  == SeekTo(from)
<1>1. from \in Nat /\ from + RegionTicks \in Int /\ from < from + RegionTicks
  BY TicksAssumption, RegionAssumption
<1>2. /\ first \in 1..Len(file.packets) + 1
      /\ first # 1 => from > 0 /\ first \in KeyPackets /\ Listed(first).pts <= from
  BY <1>1, SeekToIs
<1>3. /\ region.from = from /\ region.limit = from + RegionTicks
      /\ region.packets = first..ReadTo(first, from + RegionTicks)
      /\ region.ended = ReachedEnd({Listed(i).pts : i \in region.packets}, region.limit)
  BY DEF Region
<1> HIDE DEF region, first
<1>4. PICK n \in first..Len(file.packets) + 1 :
              /\ ReadTo(first, from + RegionTicks) = n - 1
              /\ n <= Len(file.packets) => Listed(n).pts >= from + RegionTicks
              /\ \A m \in first..n - 1 : Listed(m).pts < from + RegionTicks
  BY <1>1, <1>2, ReadToIs
<1>5. Len(file.packets) \in Nat /\ first \in Nat /\ n \in Nat /\ first <= n
  BY <1>2, <1>4, StreamIs
<1>6. first # 1 => first < n
  <2>1. SUFFICES ASSUME first # 1, n = first PROVE FALSE
    BY <1>5
  <2>2. first \in Listing
    BY <1>2, <2>1, StreamIs
  <2>3. Listed(first).pts \in Int /\ first <= Len(file.packets)
    BY <2>2, PtsIs, StreamIs
  <2>4. QED
    BY <1>1, <1>2, <1>4, <2>1, <2>3
<1>7. ReadsPackets(region, first, n)
  BY <1>2, <1>3, <1>4, <1>6 DEF ReadsPackets
<1>8. QED
  BY <1>3, <1>5, <1>7 DEF IsRegion, region

\* A read said to have reached the end did.
LEMMA EndedIsAll ==
    ASSUME FileInv, NEW region, IsRegion(region), region.ended, NEW first \in Nat, NEW n \in Nat,
           ReadsPackets(region, first, n)
    PROVE  n = Len(file.packets) + 1
<1> DEFINE last == {Listed(i).pts : i \in region.packets}
<1>1. /\ Len(file.packets) \in Nat /\ Listing = 1..Len(file.packets) /\ 1 <= first /\ first <= n
      /\ n <= Len(file.packets) + 1 /\ region.packets = first..n - 1
      /\ region.limit \in Int /\ region.limit >= RegionTicks /\ ShortOfLimit \in Nat
  BY StreamIs, RegionAssumption DEF ReadsPackets, IsRegion
<1>2. SUFFICES ASSUME n <= Len(file.packets) PROVE FALSE
  BY <1>1
<1>3. n \in Listing /\ Listed(n).pts \in Int /\ Listed(n).pts >= region.limit
  BY <1>1, <1>2, PtsIs DEF ReadsPackets
<1>4. ReachedEnd(last, region.limit) /\ LengthHolds(file) /\ file.length \in Int \cup {Unread}
  BY StreamAssumption DEF IsRegion, FileInv
<1>5. CASE file.length # Unread
  <2>1. region.limit >= file.length /\ file.length \in Int /\ Listed(n).pts < file.length
    BY <1>3, <1>4, <1>5 DEF ReachedEnd, LengthHolds, Listing, Listed
  <2>2. QED
    BY <1>1, <1>3, <2>1
<1>6. CASE file.length = Unread
  <2>1. n # 1
    <3>1. n = 1 => Listed(n).pts < RegionTicks
      BY <1>3, <1>4, <1>6 DEF LengthHolds, Listing, Listed
    <3>2. QED
      BY <1>1, <1>3, <3>1, RegionAssumption
  <2>2. PICK i \in 1..n - 1 : Listed(n).pts <= Listed(i).pts + ShortOfLimit
    BY <1>3, <1>4, <1>6, <2>1 DEF LengthHolds, Listing, Listed
  <2>3. \E k \in region.packets : Listed(n).pts <= Listed(k).pts + ShortOfLimit
    <3>1. CASE i >= first
      <4>1. i \in region.packets
        BY <1>1, <3>1
      <4>2. QED
        BY <2>2, <4>1
    <3>2. CASE i < first
      <4>1. first \in KeyPackets /\ first < n /\ first \in Listing /\ Listed(first).key /\ i \in Listing
        BY <1>1, <2>2, <3>2, StreamIs DEF ReadsPackets, KeyPackets
      <4>2. Listed(i).pts < Listed(first).pts
        BY <3>2, <4>1, StreamIs
      <4>3. first \in region.packets
        BY <1>1, <4>1
      <4>4. Listed(n).pts <= Listed(first).pts + ShortOfLimit
        BY <1>1, <1>3, <2>2, <4>1, <4>2, PtsIs
      <4>5. QED
        BY <4>3, <4>4
    <3>3. QED
      BY <1>1, <2>2, <3>1, <3>2
  <2>4. PICK k \in region.packets : Listed(n).pts <= Listed(k).pts + ShortOfLimit
    BY <2>3
  <2>5. region.packets \subseteq Listing
    BY <1>1
  <2>6. IsFiniteSet(last) /\ last \subseteq Int /\ Listed(k).pts \in last /\ last # {}
    BY <2>5, TimesAreFinite
  <2>7. Max(last) \in last /\ Max(last) >= Listed(k).pts
    <3> HIDE DEF last
    <3>1. QED
      BY <2>6, MaxIsIn
  <2>8. Max(last) + ShortOfLimit < region.limit
    BY <1>4, <1>6, <2>6 DEF ReachedEnd
  <2>9. Max(last) \in Int /\ Listed(k).pts \in Int
    BY <2>6, <2>7
  <2> HIDE DEF last
  <2>10. QED
    BY <1>1, <1>3, <2>4, <2>7, <2>8, <2>9
<1>7. QED
  BY <1>5, <1>6

\* Past the last tick there is nothing.
LEMMA EndsAtHigh ==
    ASSUME FileInv, NEW region, IsRegion(region), region.limit >= High
    PROVE  region.ended
<1> DEFINE last == {Listed(i).pts : i \in region.packets}
<1>1. PICK first \in Nat, n \in Nat : ReadsPackets(region, first, n)
  BY DEF IsRegion
<1>2. region.packets \subseteq Listing /\ region.limit \in Int /\ High \in Int
  BY <1>1, StreamIs, RegionAssumption, TicksAssumption DEF ReadsPackets, IsRegion
<1>3. LengthHolds(file) /\ file.length \in Int \cup {Unread}
  BY StreamAssumption DEF FileInv
<1>4. CASE file.length # Unread
  <2>1. file.length \in Int /\ file.length <= High
    BY <1>3, <1>4 DEF LengthHolds
  <2>2. region.limit >= file.length
    BY <1>2, <2>1
  <2>3. QED
    BY <1>4, <2>2 DEF ReachedEnd, IsRegion
<1>5. CASE file.length = Unread
  <2>1. \A i \in region.packets : Listed(i).pts + ShortOfLimit < High
    BY <1>2, <1>3, <1>5 DEF LengthHolds, Listing, Listed
  <2>2. last = {} \/ Max(last) \in last
    <3>1. IsFiniteSet(last) /\ last \subseteq Int
      BY <1>2, TimesAreFinite
    <3> HIDE DEF last
    <3>2. QED
      BY <3>1, MaxIsIn
  <2>3. last # {} => Max(last) + ShortOfLimit < High
    BY <2>1, <2>2
  <2>4. last # {} => Max(last) \in Int
    BY <1>2, <2>2, PtsIs
  <2>5. last = {} \/ Max(last) + ShortOfLimit < region.limit
    <3> HIDE DEF last
    <3>1. QED
      BY <1>2, <2>3, <2>4, RegionAssumption
  <2>6. QED
    BY <1>5, <2>5 DEF ReachedEnd, IsRegion
<1>6. QED
  BY <1>4, <1>5

\* What is covered begins at the first keyframe read, or before all.
LEMMA CoverStartIs ==
    ASSUME FileInv, NEW region, IsRegion(region), NEW first \in Nat, NEW n \in Nat,
           ReadsPackets(region, first, n)
    PROVE  /\ CoverStart(region) \in Int /\ CoverStart(region) <= region.from
           /\ first # 1 => CoverStart(region) >= Listed(first).pts
<1> DEFINE starts == {region.from} \cup FirstKey(region)
<1>1. region.from \in Int /\ region.from >= 0
  BY TicksAssumption DEF IsRegion
<1>2. /\ region.packets = first..n - 1 /\ region.packets \subseteq Listing
      /\ first # 1 => /\ first \in KeyPackets /\ first \in Listing /\ Listed(first).key /\ region.from > 0
                      /\ Listed(first).pts <= region.from
  BY StreamIs DEF ReadsPackets, KeyPackets
<1>3. IsFiniteSet(FirstKey(region)) /\ FirstKey(region) \subseteq Int
  BY <1>2, TimesAreFinite DEF FirstKey
<1>4. IsFiniteSet(starts) /\ starts \subseteq Int /\ region.from \in starts
  <2>1. IsFiniteSet(FirstKey(region) \cup {region.from})
    BY <1>3, FS_AddElement
  <2>2. starts = FirstKey(region) \cup {region.from}
    OBVIOUS
  <2>3. QED
    BY <1>1, <1>3, <2>1, <2>2
<1>5. Min(starts) \in starts /\ Min(starts) <= region.from
  <2> HIDE DEF starts
  <2>1. QED
    BY <1>4, MinIsIn
<1>6. CASE region.from <= 0
  BY <1>1, <1>2, <1>6, TicksAssumption DEF CoverStart
<1>7. CASE region.from > 0
  <2>1. CoverStart(region) = Min(starts)
    BY <1>1, <1>7 DEF CoverStart
  <2>2. ASSUME first # 1, NEW s \in starts PROVE s >= Listed(first).pts
    <3>1. CASE s = region.from
      BY <1>2, <2>2, <3>1, PtsIs
    <3>2. CASE s \in FirstKey(region)
      <4>1. PICK i \in region.packets \cap KeyPackets : s = Listed(i).pts
        BY <3>2 DEF FirstKey
      <4>2. i \in Nat /\ i >= first /\ i \in Listing /\ Listed(i).key
        BY <1>2, <4>1, StreamIs DEF KeyPackets
      <4>3. CASE i = first
        BY <4>1, <4>2, <4>3, PtsIs
      <4>4. CASE i > first
        <5>1. Listed(first).pts < Listed(i).pts
          BY <1>2, <2>2, <4>2, <4>4, StreamIs
        <5>2. QED
          BY <4>1, <4>2, <5>1, <1>2, <2>2, PtsIs
      <4>5. QED
        BY <4>2, <4>3, <4>4
    <3>3. QED
      BY <3>1, <3>2
  <2>3. QED
    BY <1>4, <1>5, <2>1, <2>2
<1>8. QED
  BY <1>1, <1>6, <1>7

Within(region, t, limit) == t >= CoverStart(region) /\ (t < limit \/ region.ended)

\* The keyframe a covered tick belongs to was read.
LEMMA Reaches ==
    ASSUME FileInv, NEW region, IsRegion(region), NEW t \in Int, Within(region, t, region.limit),
           NEW i, LastAt(i, t)
    PROVE  i \in region.packets
<1>1. PICK first \in Nat, n \in Nat : ReadsPackets(region, first, n)
  BY DEF IsRegion
<1>2. /\ Len(file.packets) \in Nat /\ Listing = 1..Len(file.packets) /\ 1 <= first /\ first <= n
      /\ n <= Len(file.packets) + 1 /\ region.packets = first..n - 1 /\ region.limit \in Int
      /\ i \in KeyPackets /\ i \in Listing /\ i \in Nat /\ i <= Len(file.packets) /\ Listed(i).pts \in Int
  BY <1>1, StreamIs, PtsIs, RegionAssumption DEF ReadsPackets, IsRegion, LastAt
<1>3. first <= i
  <2>1. SUFFICES ASSUME i < first PROVE FALSE
    BY <1>2
  <2>2. first # 1 /\ first \in KeyPackets /\ first \in Listing
    BY <1>1, <1>2, <2>1, StreamIs DEF ReadsPackets
  <2>3. Listed(first).pts > t
    BY <2>1, <2>2 DEF LastAt
  <2>4. CoverStart(region) \in Int /\ CoverStart(region) >= Listed(first).pts
    BY <1>1, <2>2, CoverStartIs
  <2>5. QED
    BY <2>2, <2>3, <2>4, PtsIs DEF Within
<1>4. i < n
  <2>1. CASE region.ended
    BY <1>1, <1>2, <2>1, EndedIsAll
  <2>2. CASE t < region.limit
    <3>1. SUFFICES ASSUME n <= i PROVE FALSE
      BY <1>2
    <3>2. n \in Listing /\ Listed(n).pts \in Int /\ Listed(n).pts >= region.limit
      BY <1>1, <1>2, <3>1, PtsIs DEF ReadsPackets
    <3>3. n = i \/ Listed(n).pts < Listed(i).pts
      BY <1>2, <3>1, <3>2, StreamIs DEF KeyPackets
    <3>4. QED
      BY <1>2, <2>2, <3>2, <3>3 DEF LastAt
  <2>3. QED
    BY <2>1, <2>2 DEF Within
<1>5. QED
  BY <1>2, <1>3, <1>4

\* And all of its GOP, when the tick is the last before the next.
EndsAt(i, t) ==
    IF GopEnd(i) <= Len(file.packets) THEN Listed(GopEnd(i)).pts = t + 1 ELSE t = High - 1
LEMMA ReachesAll ==
    ASSUME FileInv, NEW region, IsRegion(region), NEW t \in Int, Within(region, t, region.limit),
           NEW i, LastAt(i, t), EndsAt(i, t)
    PROVE  /\ i + 1..GopEnd(i) - 1 \subseteq region.packets
           /\ GopEnd(i) > Len(file.packets) => region.ended
<1>1. PICK first \in Nat, n \in Nat : ReadsPackets(region, first, n)
  BY DEF IsRegion
<1>2. /\ Len(file.packets) \in Nat /\ Listing = 1..Len(file.packets) /\ 1 <= first /\ first <= n
      /\ n <= Len(file.packets) + 1 /\ region.packets = first..n - 1 /\ region.limit \in Int
      /\ i \in KeyPackets /\ i \in Nat /\ GopEnd(i) \in Nat /\ i < GopEnd(i)
      /\ GopEnd(i) <= Len(file.packets) + 1 /\ High \in Int
  <2>1. i \in KeyPackets
    BY DEF LastAt
  <2>2. /\ i \in Nat /\ GopEnd(i) \in Nat /\ i < GopEnd(i) /\ GopEnd(i) <= Len(file.packets) + 1
    BY <2>1, StreamIs, GopEndIs
  <2>3. High \in Int /\ region.limit \in Int
    BY RegionAssumption, TicksAssumption DEF IsRegion
  <2>4. QED
    BY <1>1, <2>1, <2>2, <2>3, StreamIs DEF ReadsPackets
<1>3. i \in region.packets
  BY Reaches
<1>4. CASE GopEnd(i) > Len(file.packets)
  <2>1. region.ended
    <3>1. t = High - 1
      BY <1>2, <1>4 DEF EndsAt
    <3>2. region.ended \/ region.limit >= High
      BY <1>2, <3>1 DEF Within
    <3>3. QED
      BY <3>2, EndsAtHigh
  <2>2. n = Len(file.packets) + 1
    BY <1>1, <2>1, EndedIsAll
  <2>3. QED
    BY <1>2, <1>3, <2>1, <2>2
<1>5. CASE GopEnd(i) <= Len(file.packets)
  <2>1. n >= GopEnd(i)
    <3>1. CASE region.ended
      BY <1>1, <1>2, <3>1, EndedIsAll
    <3>2. CASE t < region.limit
      <4>1. SUFFICES ASSUME n < GopEnd(i) PROVE FALSE
        BY <1>2
      <4>2. n \in Listing /\ Listed(n).pts \in Int /\ Listed(n).pts >= region.limit
        BY <1>1, <1>2, <1>5, <4>1, PtsIs DEF ReadsPackets
      <4>3. GopEnd(i) \in Listing /\ Listed(GopEnd(i)).key
        BY <1>2, <1>5, GopEndIs DEF KeyPackets
      <4>4. Listed(n).pts < Listed(GopEnd(i)).pts
        BY <4>1, <4>2, <4>3, StreamIs
      <4>5. Listed(GopEnd(i)).pts = t + 1
        BY <1>5 DEF EndsAt
      <4>6. QED
        BY <1>2, <3>2, <4>2, <4>4, <4>5
    <3>3. QED
      BY <3>1, <3>2 DEF Within
  <2>2. QED
    BY <1>2, <1>3, <1>5, <2>1
<1>6. QED
  BY <1>2, <1>4, <1>5

\* A keyframe read is read with its first leading picture.
LEMMA LeadingIsRead ==
    ASSUME FileInv, NEW region, IsRegion(region), NEW i \in region.packets, i \in KeyPackets, Leads(i)
    PROVE  i + 1 \in region.packets
<1>1. PICK first \in Nat, n \in Nat : ReadsPackets(region, first, n)
  BY DEF IsRegion
<1>2. /\ Len(file.packets) \in Nat /\ Listing = 1..Len(file.packets)
      /\ region.packets = first..n - 1 /\ region.limit \in Int
      /\ i \in Nat /\ i < n /\ first <= i /\ i \in Listing
      /\ GopEnd(i) \in Nat /\ GopEnd(i) <= Len(file.packets) + 1 /\ i + 1 < GopEnd(i)
  BY <1>1, StreamIs, GopEndIs, RegionAssumption DEF ReadsPackets, IsRegion, Leads
<1>3. SUFFICES ASSUME n = i + 1 PROVE FALSE
  BY <1>2
<1>4. n \in Listing /\ Listed(n).pts \in Int /\ Listed(n).pts >= region.limit
  BY <1>1, <1>2, <1>3, PtsIs DEF ReadsPackets
<1>5. Listed(i).pts < region.limit /\ Listed(n).pts < Listed(i).pts /\ Listed(i).pts \in Int
  BY <1>1, <1>2, <1>3, PtsIs DEF ReadsPackets, Leads
<1>6. QED
  BY <1>2, <1>4, <1>5

\* The frame shown at a tick whose frames are covered was read.
LastShown(i, t) ==
    /\ i \in Listing /\ Listed(i).shown /\ Listed(i).pts <= t
    /\ \A j \in Listing : Listed(j).shown /\ Listed(j).pts <= t => Listed(j).pts <= Listed(i).pts
LEMMA ReachesFrames ==
    ASSUME FileInv, NEW region, IsRegion(region), NEW t \in Int, Within(region, t, FramesEnd(region)),
           NEW i, LastShown(i, t)
    PROVE  i \in region.packets
<1>1. PICK first \in Nat, n \in Nat : ReadsPackets(region, first, n)
  BY DEF IsRegion
<1>2. /\ Len(file.packets) \in Nat /\ Listing = 1..Len(file.packets) /\ 1 <= first /\ first <= n
      /\ n <= Len(file.packets) + 1 /\ region.packets = first..n - 1 /\ region.limit \in Int
      /\ i \in Listing /\ i \in Nat /\ i <= Len(file.packets) /\ Listed(i).pts \in Int
      /\ ReorderMargin \in Nat /\ FramesEnd(region) = region.limit - ReorderMargin
  BY <1>1, StreamIs, PtsIs, RegionAssumption DEF ReadsPackets, IsRegion, LastShown, FramesEnd
<1>3. first <= i
  <2>1. SUFFICES ASSUME i < first PROVE FALSE
    BY <1>2
  <2>2. first # 1 /\ first \in KeyPackets /\ first \in Listing /\ Listed(first).key
    BY <1>1, <1>2, <2>1, StreamIs DEF ReadsPackets, KeyPackets
  <2>3. Listed(i).pts < Listed(first).pts /\ Listed(first).shown
    BY <1>2, <2>1, <2>2, StreamIs DEF LastShown
  <2>4. CoverStart(region) \in Int /\ CoverStart(region) >= Listed(first).pts
    BY <1>1, <2>2, CoverStartIs
  <2>5. Listed(first).pts <= t /\ Listed(first).pts \in Int
    BY <2>2, <2>4, PtsIs DEF Within
  <2>6. QED
    BY <1>2, <2>2, <2>3, <2>5 DEF LastShown
<1>4. i < n
  <2>1. CASE region.ended
    BY <1>1, <1>2, <2>1, EndedIsAll
  <2>2. CASE t < FramesEnd(region)
    <3>1. SUFFICES ASSUME n <= i PROVE FALSE
      BY <1>2
    <3>2. n \in Listing /\ Listed(n).pts \in Int /\ Listed(n).pts >= region.limit
      BY <1>1, <1>2, <3>1, PtsIs DEF ReadsPackets
    <3>3. n = i \/ Listed(n).pts <= Listed(i).pts + ReorderMargin
      BY <1>2, <3>1, <3>2, StreamIs
    <3>4. QED
      BY <1>2, <2>2, <3>2, <3>3 DEF LastShown
  <2>3. QED
    BY <2>1, <2>2 DEF Within
<1>5. QED
  BY <1>2, <1>3, <1>4

-----------------------------------------------------------------------------
(* The index                                                                 *)

\* What an entry says of the keyframe `i` is so.
EntryOk(e, i) ==
    /\ e.picture = Listed(i).picture /\ e.leading = Leads(i)
    /\ e.closedOut \in BOOLEAN /\ e.after \in Nat /\ e.open \in BOOLEAN
    /\ SeenEnough(e) => e.open = Opens(i)

\* For every covered tick the index knows the keyframe and the frame it belongs
\* to, and at the last tick of a GOP that is not short, what it is.
IndexOk(x) ==
    /\ Keyframes(x) \subseteq TrueKeyframes /\ x.frames \subseteq TrueFrames
    /\ x.cover \subseteq Low..High /\ x.frameCover \subseteq Low..High
    /\ \A i \in KeyPackets : Listed(i).pts \in Keyframes(x) => EntryOk(x.entries[Listed(i).pts], i)
    /\ \A t \in x.cover : \A i \in KeyPackets : LastAt(i, t) =>
          /\ Listed(i).pts \in Keyframes(x)
          /\ EndsAt(i, t) /\ ~Short(i) => x.entries[Listed(i).pts].open = Opens(i)
    /\ \A t \in x.frameCover : \A i \in Listing : LastShown(i, t) => Listed(i).pts \in x.frames

LEMMA EmptyIndexOk == IndexOk(EmptyIndex)
  BY DEF IndexOk, EmptyIndex, Keyframes

LEMMA KeysDiffer ==
    ASSUME FileInv, NEW i \in KeyPackets, NEW k \in KeyPackets, Listed(i).pts = Listed(k).pts
    PROVE  i = k
<1>1. i \in Listing /\ k \in Listing /\ Listed(i).key /\ Listed(k).key /\ i \in Nat /\ k \in Nat
  BY StreamIs DEF KeyPackets
<1>2. Listed(i).pts \in Int
  BY <1>1, PtsIs
<1>3. QED
  BY <1>1, <1>2, StreamIs

\* What a region says of a keyframe is so, and what was rightly said stays.
LEMMA ObservedIs ==
    ASSUME FileInv, NEW x, IndexOk(x), NEW region, IsRegion(region),
           NEW i \in region.packets, i \in KeyPackets
    PROVE  /\ EntryOk(Observed(x, region, i), i)
           /\ Listed(i).pts \in Keyframes(x) /\ x.entries[Listed(i).pts].open = Opens(i) =>
                Observed(x, region, i).open = Opens(i)
           /\ \A t \in Int : Within(region, t, region.limit) /\ LastAt(i, t) /\ EndsAt(i, t) /\ ~Short(i) =>
                Observed(x, region, i).open = Opens(i)
<1> DEFINE k     == Listed(i).pts
           gop   == {j \in region.packets : i < j /\ j < GopEnd(i)}
           known == IF k \in Keyframes(x) THEN x.entries[k]
                    ELSE [picture |-> Listed(i).picture, leading |-> FALSE, after |-> 0, closedOut |-> FALSE,
                          open |-> FALSE]
           leads == known.leading \/ \E j \in gop : Listed(j).pts < k
           out   == \/ known.closedOut \/ GopEnd(i) \in region.packets
                    \/ region.ended /\ \A j \in region.packets \cap KeyPackets : j <= i
           now   == [picture |-> known.picture, leading |-> leads, after |-> Cardinality(gop), closedOut |-> out,
                     open |-> known.open]
           e     == Observed(x, region, i)
<1>1. /\ Len(file.packets) \in Nat /\ region.packets \subseteq Listing /\ i \in Nat /\ i \in Listing
      /\ GopEnd(i) \in Nat /\ i < GopEnd(i) /\ GopEnd(i) <= Len(file.packets) + 1
  <2>1. region.packets \subseteq Listing
    BY StreamIs DEF IsRegion, ReadsPackets
  <2>2. QED
    BY <2>1, StreamIs, GopEndIs
<1>2. /\ known.picture = Listed(i).picture /\ known.leading \in BOOLEAN /\ (known.leading => Leads(i))
      /\ known.closedOut \in BOOLEAN /\ known.open \in BOOLEAN
      /\ known.closedOut => known.open = Opens(i)
  <2>1. Leads(i) \in BOOLEAN
    BY DEF Leads
  <2>2. CASE k \in Keyframes(x)
    <3>1. EntryOk(known, i)
      BY <2>2 DEF IndexOk
    <3> HIDE DEF known
    <3>2. QED
      BY <2>1, <3>1 DEF EntryOk, SeenEnough
  <2>3. CASE k \notin Keyframes(x)
    BY <2>3
  <2>4. QED
    BY <2>2, <2>3
<1>3. e = [now EXCEPT !.open = IF SeenEnough(now) THEN Classify(now) ELSE @]
  BY DEF Observed
<1>4. IsFiniteSet(gop) /\ Cardinality(gop) \in Nat
  <2>1. gop \subseteq Listing
    BY <1>1
  <2>2. IsFiniteSet(Listing)
    BY StreamIs
  <2> HIDE DEF gop
  <2>3. QED
    BY <2>1, <2>2, FS_Subset, FS_CardinalityType
<1>5. leads <=> Leads(i)
  <2>1. ASSUME NEW j \in gop, Listed(j).pts < k PROVE Leads(i)
    BY <1>1, <2>1, LeadsFirst
  <2>2. ASSUME Leads(i) PROVE \E j \in gop : Listed(j).pts < k
    <3>1. i + 1 \in region.packets
      BY <2>2, LeadingIsRead
    <3>2. i + 1 \in gop /\ Listed(i + 1).pts < k
      BY <1>1, <2>2, <3>1 DEF Leads
    <3>3. QED
      BY <3>2
  <2> HIDE DEF gop, known
  <2>3. QED
    BY <1>2, <2>1, <2>2
<1>6. leads \in BOOLEAN /\ out \in BOOLEAN /\ Leads(i) \in BOOLEAN
  <2> HIDE DEF known
  <2>1. QED
    BY <1>2 DEF Leads
<1> HIDE DEF known, leads, out, gop
<1>7. /\ e.picture = Listed(i).picture /\ e.leading = leads /\ e.after = Cardinality(gop)
      /\ e.closedOut = out /\ e.open = IF SeenEnough(now) THEN Classify(now) ELSE known.open
  BY <1>2, <1>3
<1>8. SeenEnough(now) = (out \/ Cardinality(gop) >= LeadingWindow) /\ SeenEnough(e) = SeenEnough(now)
  BY <1>7 DEF SeenEnough
<1>9. Classify(now) = Opens(i)
  <2>1. Classify(now) = (leads /\ ~ClosesGop(Listed(i).picture))
    BY <1>2 DEF Classify
  <2>2. leads = Leads(i)
    BY <1>5, <1>6
  <2>3. QED
    BY <2>1, <2>2 DEF Opens
<1>10. Opens(i) \in BOOLEAN
  BY DEF Opens, Leads
<1>11. EntryOk(e, i)
  <2>1. e.leading = Leads(i) /\ e.closedOut \in BOOLEAN /\ e.after \in Nat
    BY <1>4, <1>5, <1>6, <1>7
  <2>2. e.open \in BOOLEAN
    BY <1>2, <1>7, <1>9, <1>10
  <2>3. SeenEnough(e) => e.open = Opens(i)
    BY <1>7, <1>8, <1>9
  <2> HIDE DEF e
  <2>4. QED
    BY <1>7, <2>1, <2>2, <2>3 DEF EntryOk
<1>12. k \in Keyframes(x) /\ x.entries[k].open = Opens(i) => e.open = Opens(i)
  BY <1>7, <1>9 DEF known
<1>13. ASSUME NEW t \in Int, Within(region, t, region.limit), LastAt(i, t), EndsAt(i, t), ~Short(i)
       PROVE  e.open = Opens(i)
  <2>1. /\ i + 1..GopEnd(i) - 1 \subseteq region.packets
        /\ GopEnd(i) > Len(file.packets) => region.ended
    BY <1>13, ReachesAll
  <2>2. SeenEnough(now)
    <3>1. CASE GopEnd(i) > Len(file.packets)
      <4>1. \A j \in region.packets \cap KeyPackets : j <= i
        BY <1>1, <3>1, GopEndIs, StreamIs
      <4>2. out
        BY <2>1, <3>1, <4>1 DEF out
      <4>3. QED
        BY <1>8, <4>2
    <3>2. CASE GopEnd(i) <= Len(file.packets)
      <4>1. GopEnd(i) - i > LeadingWindow
        BY <1>1, <1>13, <3>2, RegionAssumption DEF Short
      <4>2. gop = i + 1..GopEnd(i) - 1
        BY <1>1, <2>1, StreamIs DEF gop
      <4>3. \A m, n \in Nat : m < n => Cardinality(m + 1..n - 1) = n - m - 1
        <5>1. TAKE m, n \in Nat
        <5>2. m + 1 \in Int /\ n - 1 \in Int
          OBVIOUS
        <5>3. Cardinality(m + 1..n - 1) = IF m + 1 > n - 1 THEN 0 ELSE (n - 1) - (m + 1) + 1
          BY <5>2, FS_Interval
        <5>4. QED
          BY <5>3
      <4>4. Cardinality(gop) = GopEnd(i) - i - 1
        BY <1>1, <4>2, <4>3
      <4>5. Cardinality(gop) >= LeadingWindow
        BY <1>1, <4>1, <4>4, RegionAssumption
      <4>6. QED
        BY <1>8, <4>5
    <3>3. QED
      BY <1>1, <3>1, <3>2
  <2>3. QED
    BY <1>7, <1>9, <2>2
<1>14. QED
  BY <1>11, <1>12, <1>13

LEMMA MergedIs ==
    ASSUME FileInv, NEW x, IndexOk(x), NEW region, IsRegion(region)
    PROVE  LET y    == Merged(x, region)
               keys == region.packets \cap KeyPackets
           IN /\ Keyframes(y) = Keyframes(x) \cup {Listed(i).pts : i \in keys}
              /\ \A i \in keys : y.entries[Listed(i).pts] = Observed(x, region, i)
              /\ \A k \in Keyframes(x) \ {Listed(i).pts : i \in keys} : y.entries[k] = x.entries[k]
              /\ y.cover = x.cover \cup {t \in Low..High : Within(region, t, region.limit)}
              /\ y.frameCover = x.frameCover \cup {t \in Low..High : Within(region, t, FramesEnd(region))}
              /\ y.frames = x.frames \cup {Listed(i).pts : i \in {j \in region.packets : Listed(j).shown}}
<1> DEFINE y    == Merged(x, region)
           keys == region.packets \cap KeyPackets
           seen == {Listed(i).pts : i \in keys}
           at(k) == CHOOSE i \in keys : Listed(i).pts = k
<1>1. \A i \in keys : at(Listed(i).pts) = i
  <2>1. TAKE i \in keys
  <2>2. at(Listed(i).pts) \in keys /\ Listed(at(Listed(i).pts)).pts = Listed(i).pts
    OBVIOUS
  <2> HIDE DEF at
  <2>3. QED
    BY <2>2, KeysDiffer
<1>2. y.entries = [k \in Keyframes(x) \cup seen |-> IF k \in seen THEN Observed(x, region, at(k)) ELSE x.entries[k]]
  BY DEF Merged
<1>3. /\ y.cover = x.cover \cup Ticks(CoverStart(region), region.limit, region.ended)
      /\ y.frameCover = x.frameCover \cup Ticks(CoverStart(region), FramesEnd(region), region.ended)
      /\ y.frames = x.frames \cup {Listed(i).pts : i \in {j \in region.packets : Listed(j).shown}}
  BY DEF Merged
<1> HIDE DEF y
<1>4. Keyframes(y) = Keyframes(x) \cup seen
  BY <1>2 DEF Keyframes
<1>5. \A i \in keys : y.entries[Listed(i).pts] = Observed(x, region, i)
  <2>1. TAKE i \in keys
  <2>2. Listed(i).pts \in seen
    OBVIOUS
  <2> HIDE DEF seen, at
  <2>3. y.entries[Listed(i).pts] = Observed(x, region, at(Listed(i).pts))
    BY <1>2, <2>2
  <2>4. QED
    BY <1>1, <2>3
<1>6. \A k \in Keyframes(x) \ seen : y.entries[k] = x.entries[k]
  <2> HIDE DEF seen, at
  <2>1. QED
    BY <1>2
<1>7. QED
  BY <1>3, <1>4, <1>5, <1>6 DEF y, Ticks, Within

\* A region merged, an index stays true of the file, knows what it knew, and
\* covers where the region began.
LEMMA MergedOk ==
    ASSUME FileInv, NEW x, IndexOk(x), NEW region, IsRegion(region)
    PROVE  LET y == Merged(x, region)
           IN /\ IndexOk(y)
              /\ x.cover \subseteq y.cover /\ x.frameCover \subseteq y.frameCover
              /\ region.from \in y.cover /\ region.from \in y.frameCover
<1> DEFINE y    == Merged(x, region)
           keys == region.packets \cap KeyPackets
           seen == {Listed(i).pts : i \in keys}
<1>1. /\ Keyframes(y) = Keyframes(x) \cup seen
      /\ \A i \in keys : y.entries[Listed(i).pts] = Observed(x, region, i)
      /\ \A k \in Keyframes(x) \ seen : y.entries[k] = x.entries[k]
      /\ y.cover = x.cover \cup {t \in Low..High : Within(region, t, region.limit)}
      /\ y.frameCover = x.frameCover \cup {t \in Low..High : Within(region, t, FramesEnd(region))}
      /\ y.frames = x.frames \cup {Listed(i).pts : i \in {j \in region.packets : Listed(j).shown}}
  BY MergedIs
<1> HIDE DEF y
<1>2. region.packets \subseteq Listing
  BY StreamIs DEF IsRegion, ReadsPackets
<1>3. Keyframes(y) \subseteq TrueKeyframes /\ y.frames \subseteq TrueFrames
  <2>1. seen \subseteq TrueKeyframes
    BY DEF TrueKeyframes
  <2>2. {Listed(i).pts : i \in {j \in region.packets : Listed(j).shown}} \subseteq TrueFrames
    BY <1>2 DEF TrueFrames
  <2>3. Keyframes(x) \subseteq TrueKeyframes /\ x.frames \subseteq TrueFrames
    BY DEF IndexOk
  <2> HIDE DEF seen
  <2>4. QED
    BY <1>1, <2>1, <2>2, <2>3
<1>4. /\ y.cover \subseteq Low..High /\ y.frameCover \subseteq Low..High
      /\ x.cover \subseteq y.cover /\ x.frameCover \subseteq y.frameCover
  BY <1>1 DEF IndexOk
<1>5. \A i \in KeyPackets : Listed(i).pts \in seen => i \in keys
  BY KeysDiffer
<1>6. ASSUME NEW i \in KeyPackets, Listed(i).pts \in Keyframes(y)
      PROVE  EntryOk(y.entries[Listed(i).pts], i)
  <2>1. CASE Listed(i).pts \in seen
    <3>1. i \in keys
      BY <1>5, <2>1
    <3>2. EntryOk(Observed(x, region, i), i)
      BY <3>1, ObservedIs
    <3>3. QED
      BY <1>1, <3>1, <3>2
  <2>2. CASE Listed(i).pts \notin seen
    <3> HIDE DEF seen
    <3>1. Listed(i).pts \in Keyframes(x) /\ y.entries[Listed(i).pts] = x.entries[Listed(i).pts]
      BY <1>1, <1>6, <2>2
    <3>2. QED
      BY <3>1 DEF IndexOk
  <2>3. QED
    BY <2>1, <2>2
<1>7. ASSUME NEW t \in y.cover, NEW i \in KeyPackets, LastAt(i, t)
      PROVE  /\ Listed(i).pts \in Keyframes(y)
             /\ EndsAt(i, t) /\ ~Short(i) => y.entries[Listed(i).pts].open = Opens(i)
  <2>1. CASE t \in x.cover
    <3>1. /\ Listed(i).pts \in Keyframes(x)
          /\ EndsAt(i, t) /\ ~Short(i) => x.entries[Listed(i).pts].open = Opens(i)
      BY <1>7, <2>1 DEF IndexOk
    <3>2. CASE i \in keys
      <4>1. x.entries[Listed(i).pts].open = Opens(i) => Observed(x, region, i).open = Opens(i)
        BY <3>1, <3>2, ObservedIs
      <4>2. y.entries[Listed(i).pts] = Observed(x, region, i)
        BY <1>1, <3>2
      <4>3. QED
        BY <1>1, <3>1, <4>1, <4>2
    <3>3. CASE i \notin keys
      <4>1. Listed(i).pts \notin seen
        BY <1>5, <3>3
      <4> HIDE DEF seen
      <4>2. y.entries[Listed(i).pts] = x.entries[Listed(i).pts]
        BY <1>1, <3>1, <4>1
      <4>3. QED
        BY <1>1, <3>1, <4>2
    <3>4. QED
      BY <3>2, <3>3
  <2>2. CASE t \in Low..High /\ Within(region, t, region.limit)
    <3>1. t \in Int
      BY <2>2, TicksAssumption
    <3>2. i \in keys
      BY <1>7, <2>2, <3>1, Reaches
    <3>3. EndsAt(i, t) /\ ~Short(i) => Observed(x, region, i).open = Opens(i)
      BY <1>7, <2>2, <3>1, <3>2, ObservedIs
    <3>4. QED
      BY <1>1, <3>2, <3>3
  <2>3. QED
    BY <1>1, <2>1, <2>2
<1>8. ASSUME NEW t \in y.frameCover, NEW i \in Listing, LastShown(i, t)
      PROVE  Listed(i).pts \in y.frames
  <2>1. CASE t \in x.frameCover
    BY <1>1, <1>8, <2>1 DEF IndexOk
  <2>2. CASE t \in Low..High /\ Within(region, t, FramesEnd(region))
    <3>1. t \in Int
      BY <2>2, TicksAssumption
    <3>2. i \in region.packets /\ Listed(i).shown
      BY <1>8, <2>2, <3>1, ReachesFrames DEF LastShown
    <3>3. QED
      BY <1>1, <3>2
  <2>3. QED
    BY <1>1, <2>1, <2>2
<1>9. region.from \in y.cover /\ region.from \in y.frameCover
  <2>1. region.from \in Low..High /\ region.from < region.limit /\ region.from < FramesEnd(region)
    BY TicksAssumption, RegionAssumption DEF IsRegion, FramesEnd
  <2>2. CoverStart(region) <= region.from /\ CoverStart(region) \in Int
    BY CoverStartIs DEF IsRegion
  <2>3. region.from >= CoverStart(region)
    BY <2>1, <2>2, TicksAssumption
  <2>4. QED
    BY <1>1, <2>1, <2>3 DEF Within
<1>10. IndexOk(y)
  BY <1>3, <1>4, <1>6, <1>7, <1>8 DEF IndexOk
<1>11. QED
  BY <1>4, <1>9, <1>10 DEF y

LEMMA EndOfRangeIs ==
    ASSUME NEW cover, NEW t \in Low..High
    PROVE  /\ EndOfRange(cover, t) \in t..High
           /\ \A u \in t..EndOfRange(cover, t) - 1 : u \in cover
           /\ EndOfRange(cover, t) # High => EndOfRange(cover, t) \notin cover
<1> DEFINE after == {u \in t..High : u \notin cover}
           end   == EndOfRange(cover, t)
<1>1. t \in Int /\ High \in Int /\ t <= High
  BY TicksAssumption
<1>2. CASE after = {}
  <2>1. end = High
    BY <1>2 DEF EndOfRange
  <2> HIDE DEF end
  <2>2. \A u \in t..end - 1 : u \in cover
    BY <1>1, <1>2, <2>1
  <2>3. QED
    BY <1>1, <2>1, <2>2 DEF end
<1>3. CASE after # {}
  <2>1. end = Min(after)
    BY <1>3 DEF EndOfRange
  <2>2. IsFiniteSet(t..High)
    BY <1>1, FS_Interval
  <2>3. IsFiniteSet(after) /\ after \subseteq Int
    <3>1. after \subseteq t..High
      OBVIOUS
    <3>2. \A u \in after : u \in Int
      BY <1>1, <3>1
    <3>3. QED
      <4> HIDE DEF after
      <4>1. QED
        BY <2>2, <3>1, <3>2, FS_Subset
  <2>4. end \in after /\ \A u \in after : end <= u
    <3> HIDE DEF after
    <3>1. QED
      BY <1>3, <2>1, <2>3, MinIsIn
  <2> HIDE DEF end
  <2>5. end \in t..High /\ end \notin cover
    BY <2>4
  <2>6. ASSUME NEW u \in t..end - 1 PROVE u \in cover
    <3>1. u \in t..High /\ u < end
      BY <1>1, <2>5
    <3>2. u \notin after
      BY <2>4, <2>5, <3>1, <1>1
    <3>3. QED
      BY <3>1, <3>2
  <2>7. QED
    BY <2>5, <2>6 DEF end
<1>4. QED
  BY <1>2, <1>3

LEMMA NotAboveIs ==
    ASSUME NEW S, IsFiniteSet(S), S \subseteq Int, NEW t \in Int
    PROVE  /\ NotAbove(S, t) = Unread <=> \A u \in S : u > t
           /\ NotAbove(S, t) # Unread =>
                 NotAbove(S, t) \in S /\ NotAbove(S, t) <= t /\ \A u \in S : u <= t => u <= NotAbove(S, t)
<1> DEFINE at == {u \in S : u <= t}
<1>1. IsFiniteSet(at) /\ at \subseteq Int
  BY FS_Subset
<1>2. CASE at = {}
  <2>1. NotAbove(S, t) = Unread
    BY <1>2 DEF NotAbove
  <2>2. QED
    BY <1>2, <2>1
<1>3. CASE at # {}
  <2>1. NotAbove(S, t) = Max(at)
    BY <1>3 DEF NotAbove
  <2>2. NotAbove(S, t) \in at /\ \A u \in at : NotAbove(S, t) >= u
    <3> HIDE DEF at
    <3>1. QED
      BY <1>1, <1>3, <2>1, MaxIsIn
  <2>3. NotAbove(S, t) \in S /\ NotAbove(S, t) <= t /\ NotAbove(S, t) \in Int
    BY <2>2
  <2>4. NotAbove(S, t) # Unread
    BY <2>3, TicksAssumption
  <2>5. \A u \in S : u <= t => u <= NotAbove(S, t)
    BY <2>2, <2>3
  <2>6. QED
    BY <2>3, <2>4, <2>5
<1>4. QED
  BY <1>2, <1>3

LEMMA NotBelowIs ==
    ASSUME NEW S, IsFiniteSet(S), S \subseteq Int, NEW t \in Int
    PROVE  /\ NotBelow(S, t) = Unread <=> \A u \in S : u < t
           /\ NotBelow(S, t) # Unread => NotBelow(S, t) \in S /\ NotBelow(S, t) >= t
<1> DEFINE at == {u \in S : u >= t}
<1>1. IsFiniteSet(at) /\ at \subseteq Int
  BY FS_Subset
<1>2. CASE at = {}
  <2>1. NotBelow(S, t) = Unread
    BY <1>2 DEF NotBelow
  <2>2. QED
    BY <1>2, <2>1
<1>3. CASE at # {}
  <2>1. NotBelow(S, t) = Min(at)
    BY <1>3 DEF NotBelow
  <2>2. NotBelow(S, t) \in at
    <3> HIDE DEF at
    <3>1. QED
      BY <1>1, <1>3, <2>1, MinIsIn
  <2>3. NotBelow(S, t) \in S /\ NotBelow(S, t) >= t /\ NotBelow(S, t) \in Int
    BY <2>2
  <2>4. NotBelow(S, t) # Unread
    BY <2>3, TicksAssumption
  <2>5. QED
    BY <2>3, <2>4
<1>4. QED
  BY <1>2, <1>3

LEMMA TimesAre ==
    ASSUME FileInv
    PROVE  /\ IsFiniteSet(TrueKeyframes) /\ TrueKeyframes \subseteq Int
           /\ IsFiniteSet(TrueFrames) /\ TrueFrames \subseteq Int
           /\ \A k \in TrueKeyframes \cup TrueFrames : k >= Low /\ k < High
<1>1. KeyPackets \subseteq Listing /\ {j \in Listing : Listed(j).shown} \subseteq Listing
  BY StreamIs
<1>2. QED
  BY <1>1, TimesAreFinite, PtsIs DEF TrueKeyframes, TrueFrames

\* With what is nearest in the whole set known, the nearest known is it.
LEMMA NearestKnown ==
    ASSUME NEW S, IsFiniteSet(S), S \subseteq Int, NEW t \in Int, NEW K \in SUBSET S,
           \A m \in S : m <= t /\ (\A u \in S : u <= t => u <= m) => m \in K
    PROVE  NotAbove(K, t) = NotAbove(S, t)
<1>1. IsFiniteSet(K) /\ K \subseteq Int
  BY FS_Subset
<1>2. CASE NotAbove(S, t) = Unread
  <2>1. \A u \in K : u > t
    BY <1>2, NotAboveIs
  <2>2. QED
    BY <1>1, <1>2, <2>1, NotAboveIs
<1>3. CASE NotAbove(S, t) # Unread
  <2> DEFINE m == NotAbove(S, t)
             k == NotAbove(K, t)
  <2>1. m \in S /\ m <= t /\ \A u \in S : u <= t => u <= m
    BY <1>3, NotAboveIs
  <2>2. m \in K /\ m \in Int
    BY <2>1
  <2>3. k # Unread
    <3>1. ~(m > t)
      <4> HIDE DEF m
      <4>1. QED
        BY <2>1, <2>2
    <3>2. QED
      <4> HIDE DEF m
      <4>1. QED
        BY <1>1, <2>2, <3>1, NotAboveIs
  <2>4. k \in K /\ k <= t /\ \A u \in K : u <= t => u <= k
    BY <1>1, <2>3, NotAboveIs
  <2> HIDE DEF m, k
  <2>5. m <= k /\ k <= m /\ k \in Int
    BY <1>1, <2>1, <2>2, <2>4
  <2>6. m = k
    BY <2>2, <2>5
  <2>7. QED
    BY <2>6 DEF m, k
<1>4. QED
  BY <1>2, <1>3

\* A covered tick's keyframe and frame are answered as the file has them.
LEMMA CoveredAnswers ==
    ASSUME FileInv, IndexOk(index), NEW t \in Low..High
    PROVE  /\ t \in index.cover => /\ NotAbove(Keyframes(index), t) = NotAbove(TrueKeyframes, t)
                                   /\ t \in TrueKeyframes => t \in Keyframes(index)
           /\ t \in index.frameCover => /\ NotAbove(index.frames, t) = NotAbove(TrueFrames, t)
                                        /\ t \in TrueFrames => t \in index.frames
<1>1. t \in Int
  BY TicksAssumption
<1>2. /\ IsFiniteSet(TrueKeyframes) /\ TrueKeyframes \subseteq Int
      /\ IsFiniteSet(TrueFrames) /\ TrueFrames \subseteq Int
      /\ Keyframes(index) \subseteq TrueKeyframes /\ index.frames \subseteq TrueFrames
  BY TimesAre DEF IndexOk
<1>3. ASSUME t \in index.cover, NEW m \in TrueKeyframes, m <= t, \A u \in TrueKeyframes : u <= t => u <= m
      PROVE  m \in Keyframes(index)
  <2>1. PICK i \in KeyPackets : m = Listed(i).pts
    BY DEF TrueKeyframes
  <2>2. ASSUME NEW j \in KeyPackets, i < j PROVE Listed(j).pts > t
    <3>1. i \in Listing /\ j \in Listing /\ Listed(j).key
      BY <2>1, StreamIs DEF KeyPackets
    <3>2. Listed(i).pts < Listed(j).pts /\ Listed(i).pts \in Int /\ Listed(j).pts \in Int
      BY <2>2, <3>1, StreamIs, PtsIs
    <3>3. Listed(j).pts \in TrueKeyframes
      BY DEF TrueKeyframes
    <3>4. QED
      BY <1>1, <1>3, <2>1, <3>2, <3>3
  <2>3. LastAt(i, t)
    BY <1>3, <2>1, <2>2 DEF LastAt
  <2>4. QED
    BY <1>3, <2>1, <2>3 DEF IndexOk
<1>4. ASSUME t \in index.frameCover, NEW m \in TrueFrames, m <= t, \A u \in TrueFrames : u <= t => u <= m
      PROVE  m \in index.frames
  <2>1. PICK i \in Listing : Listed(i).shown /\ m = Listed(i).pts
    BY DEF TrueFrames
  <2>2. LastShown(i, t)
    BY <1>4, <2>1 DEF LastShown, TrueFrames
  <2>3. QED
    BY <1>4, <2>1, <2>2 DEF IndexOk
<1>5. t \in index.cover => NotAbove(Keyframes(index), t) = NotAbove(TrueKeyframes, t)
  BY <1>1, <1>2, <1>3, NearestKnown
<1>6. t \in index.frameCover => NotAbove(index.frames, t) = NotAbove(TrueFrames, t)
  BY <1>1, <1>2, <1>4, NearestKnown
<1>7. QED
  BY <1>1, <1>2, <1>3, <1>4, <1>5, <1>6

LEMMA IndexTells == FileInv /\ IndexOk(index) => CoveredIsKnown
<1> SUFFICES ASSUME FileInv, IndexOk(index) PROVE CoveredIsKnown
  OBVIOUS
<1>1. index.cover \subseteq Low..High /\ index.frameCover \subseteq Low..High
  BY DEF IndexOk
<1>2. \A k \in TrueKeyframes : k \in index.cover => k \in Keyframes(index)
  BY <1>1, CoveredAnswers
<1>3. \A t \in TrueFrames : t \in index.frameCover => t \in index.frames
  BY <1>1, CoveredAnswers
<1>4. ASSUME NEW k \in Keyframes(index), SeenEnough(index.entries[k]) PROVE index.entries[k].open = TrueOpen(k)
  <2>1. PICK i \in KeyPackets : k = Listed(i).pts
    BY DEF IndexOk, TrueKeyframes
  <2>2. EntryOk(index.entries[k], i)
    BY <2>1 DEF IndexOk
  <2>3. QED
    BY <1>4, <2>1, <2>2, OpenIs DEF EntryOk
<1>5. ASSUME Whole(index), NEW i \in KeyPackets, Listed(i).pts >= 0, ~Short(i)
      PROVE  index.entries[Listed(i).pts].open = TrueOpen(Listed(i).pts)
  <2>1. 0 \in Low..High /\ High \in Int
    BY TicksAssumption
  <2>2. \A u \in 0..High - 1 : u \in index.cover
    BY <1>5, <2>1, EndOfRangeIs DEF Whole
  <2>3. /\ i \in Listing /\ i \in Nat /\ Listed(i).pts \in Int /\ Listed(i).pts < High
        /\ GopEnd(i) \in Nat /\ i < GopEnd(i) /\ \A j \in KeyPackets : i < j => GopEnd(i) <= j
    BY StreamIs, PtsIs, GopEndIs
  <2>4. \E t \in 0..High - 1 : LastAt(i, t) /\ EndsAt(i, t)
    <3>1. CASE GopEnd(i) > Len(file.packets)
      <4>1. \A j \in KeyPackets : ~(i < j)
        BY <2>3, <3>1, StreamIs
      <4>2. High - 1 \in 0..High - 1 /\ Listed(i).pts <= High - 1
        BY <1>5, <2>1, <2>3
      <4>3. ~(GopEnd(i) <= Len(file.packets))
        BY <2>3, <3>1, StreamIs
      <4>4. QED
        BY <4>1, <4>2, <4>3 DEF LastAt, EndsAt
    <3>2. CASE GopEnd(i) <= Len(file.packets)
      <4> DEFINE next == GopEnd(i)
                 t    == Listed(next).pts - 1
      <4>1. next \in KeyPackets /\ next \in Listing /\ Listed(next).key /\ i < next
        BY <2>3, <3>2, GopEndIs, StreamIs DEF KeyPackets
      <4>2. Listed(next).pts \in Int /\ Listed(next).pts < High /\ Listed(i).pts < Listed(next).pts
        BY <2>3, <4>1, StreamIs, PtsIs
      <4>3. ASSUME NEW j \in KeyPackets, i < j PROVE Listed(j).pts > t
        <5>1. j \in Listing /\ j \in Nat /\ Listed(j).key /\ Listed(j).pts \in Int /\ next <= j
          BY <2>3, <4>3, StreamIs, PtsIs DEF KeyPackets
        <5>2. j = next \/ Listed(next).pts < Listed(j).pts
          BY <2>3, <4>1, <5>1, StreamIs
        <5>3. QED
          BY <4>2, <5>1, <5>2
      <4>4. t \in 0..High - 1 /\ Listed(i).pts <= t /\ Listed(next).pts = t + 1
        BY <1>5, <2>1, <2>3, <4>2
      <4>5. LastAt(i, t)
        BY <4>3, <4>4 DEF LastAt
      <4>6. EndsAt(i, t)
        BY <3>2, <4>4 DEF EndsAt
      <4>7. QED
        BY <4>4, <4>5, <4>6
    <3>3. QED
      BY <2>3, <3>1, <3>2, StreamIs
  <2>5. PICK t \in 0..High - 1 : LastAt(i, t) /\ EndsAt(i, t)
    BY <2>4
  <2>6. index.entries[Listed(i).pts].open = Opens(i)
    BY <1>5, <2>2, <2>5 DEF IndexOk
  <2>7. QED
    BY <2>6, OpenIs
<1>6. QED
  BY <1>2, <1>3, <1>4, <1>5 DEF CoveredIsKnown

-----------------------------------------------------------------------------
(* The invariant                                                             *)

AnswerOk(q) ==
    /\ q.kind = "before" => q.answer = NotAbove(TrueKeyframes, q.pts)
    /\ q.kind = "is" => (q.answer = q.pts <=> q.pts \in TrueKeyframes)
    /\ q.kind = "frame" => q.answer = NotAbove(TrueFrames, q.pts)
    /\ q.kind = "after" =>
          \/ q.answer \in {k \in TrueKeyframes : k >= q.pts}
          \/ q.answer = Unread /\ NotBelow(TrueKeyframes, q.pts) = Unread
    /\ q.kind = "frameAfter" =>
          \/ q.answer \in {t \in TrueFrames : t > q.pts}
          \/ q.answer = Unread /\ NotBelow(TrueFrames, q.pts + 1) = Unread

\* How far a question is: what it left behind it is covered.
GotTo(q, x) ==
    /\ q.from >= q.pts
    /\ q.kind \in {"before", "is", "frame"} => q.from = q.pts
    /\ q.kind = "after" => \A u \in q.pts..q.from - 1 : u \in x.cover
    /\ q.kind = "frameAfter" => q.from >= q.pts + 1 /\ \A u \in q.pts + 1..q.from - 1 : u \in x.frameCover
    /\ q.pc = "answers" => q.from \in IF OfFrames(q.kind) THEN x.frameCover ELSE x.cover
    /\ q.pc = "answered" => AnswerOk(q)

AskOk(q, x) ==
    /\ DOMAIN q = {"pc", "kind", "pts", "from", "region", "answer"}
    /\ q.pc \in {"quiet", "covers", "reads", "answers", "answered"} /\ q.kind \in Questions
    /\ q.pts \in Low..High - 1 /\ q.from \in Low..High
    /\ q.pts >= 0 => GotTo(q, x)
    /\ q.pc = "reads" => IsRegion(q.region) /\ q.region.from = NotNegative(q.from)

CompleterOk(c) ==
    /\ DOMAIN c = {"pc", "from", "region"}
    /\ c.from \in 0..High
    /\ c.pc = "reads" => IsRegion(c.region) /\ c.region.from = c.from

IndexInv ==
    /\ FileInv
    /\ IndexOk(index)
    /\ kept = Unread \/ IndexOk(kept)
    /\ DOMAIN ask = Askers /\ \A a \in Askers : AskOk(ask[a], index)
    /\ CompleterOk(completer)

LEMMA QuietOk == ASSUME NEW x PROVE AskOk(Quiet, x)
<1>1. 0 \in Low..High - 1 /\ 0 \in Low..High /\ \A u \in 0..0 - 1 : FALSE
  BY TicksAssumption
<1>2. /\ DOMAIN Quiet = {"pc", "kind", "pts", "from", "region", "answer"}
      /\ Quiet.pc = "quiet" /\ Quiet.kind = "is" /\ Quiet.pts = 0 /\ Quiet.from = 0
  BY DEF Quiet
<1>3. GotTo(Quiet, x)
  BY <1>2 DEF GotTo, OfFrames
<1>4. QED
  BY <1>1, <1>2, <1>3 DEF AskOk, Questions

\* What is more of the index does not disturb a question.
LEMMA AskKeeps ==
    ASSUME NEW q, NEW x, NEW y, AskOk(q, x), x.cover \subseteq y.cover, x.frameCover \subseteq y.frameCover
    PROVE  AskOk(q, y)
<1>1. q.pts >= 0 => GotTo(q, y)
  BY DEF AskOk, GotTo
<1>2. QED
  BY <1>1 DEF AskOk

\* The file is the same: what was right of it is.
LEMMA FileStays ==
    ASSUME UNCHANGED file
    PROVE  /\ IndexOk(index') => IndexOk(index)'
           /\ IndexOk(kept') => IndexOk(kept)'
           /\ CompleterOk(completer') => CompleterOk(completer)'
           /\ \A a \in Askers : AskOk(ask'[a], index') => AskOk(ask[a], index)'
<1>1. Listing' = Listing /\ \A i : Listed(i)' = Listed(i)
  BY DEF Listing, Listed
<1>2. KeyPackets' = KeyPackets /\ TrueKeyframes' = TrueKeyframes /\ TrueFrames' = TrueFrames
  BY DEF KeyPackets, TrueKeyframes, TrueFrames, Listing, Listed
<1>3. \A i : GopEnd(i)' = GopEnd(i)
  BY <1>2 DEF GopEnd
<1>4. \A i : (Leads(i)' <=> Leads(i)) /\ (Opens(i)' <=> Opens(i)) /\ (Short(i)' <=> Short(i))
  BY <1>1, <1>3 DEF Leads, Opens, Short, ClosesGop
<1>5. \A i, t : (LastAt(i, t)' <=> LastAt(i, t)) /\ (EndsAt(i, t)' <=> EndsAt(i, t))
                /\ (LastShown(i, t)' <=> LastShown(i, t))
  BY <1>1, <1>2, <1>3 DEF LastAt, EndsAt, LastShown
<1>6. \A i : Leads(i)' = Leads(i) /\ Opens(i)' = Opens(i)
  BY <1>1, <1>3, <1>4 DEF Leads, Opens
<1>7. IndexOk(index') => IndexOk(index)'
  BY <1>1, <1>2, <1>4, <1>5, <1>6 DEF IndexOk, Keyframes, EntryOk, SeenEnough
<1>8. IndexOk(kept') => IndexOk(kept)'
  BY <1>1, <1>2, <1>4, <1>5, <1>6 DEF IndexOk, Keyframes, EntryOk, SeenEnough
<1>9. CompleterOk(completer') => CompleterOk(completer)'
  BY DEF CompleterOk, IsRegion, ReadsPackets, ReachedEnd, KeyPackets, Listing, Listed
<1>10. \A a \in Askers : AskOk(ask'[a], index') => AskOk(ask[a], index)'
  <2>1. \A a \in Askers : IsRegion(ask'[a].region) => IsRegion(ask[a].region)'
    BY <1>1, <1>2 DEF IsRegion, ReadsPackets, ReachedEnd, Listed
  <2>2. \A a \in Askers : AnswerOk(ask'[a]) => AnswerOk(ask[a])'
    BY <1>2 DEF AnswerOk
  <2>3. \A a \in Askers : GotTo(ask'[a], index') => GotTo(ask[a], index)'
    BY <2>2 DEF GotTo
  <2>4. QED
    BY <2>1, <2>3 DEF AskOk
<1>11. QED
  BY <1>7, <1>8, <1>9, <1>10

-----------------------------------------------------------------------------
(* The questions                                                             *)

\* What is so of the one asker that moves, and of the rest, is so of all.
LEMMA OneAsks ==
    ASSUME IndexInv, NEW a \in Askers, NEW q, ask' = [ask EXCEPT ![a] = q], AskOk(q, index'),
           UNCHANGED <<file, completer, kept>>, IndexOk(index'),
           index.cover \subseteq index'.cover, index.frameCover \subseteq index'.frameCover
    PROVE  IndexInv'
<1>1. DOMAIN ask' = Askers
  BY DEF IndexInv
<1>2. \A b \in Askers : AskOk(ask'[b], index')
  <2>1. TAKE b \in Askers
  <2>2. CASE b = a
    BY <2>2 DEF IndexInv
  <2>3. CASE b # a
    <3>1. ask'[b] = ask[b] /\ AskOk(ask[b], index)
      BY <2>3 DEF IndexInv
    <3>2. QED
      BY <3>1, AskKeeps
  <2>4. QED
    BY <2>2, <2>3
<1>3. FileInv' /\ kept' = kept /\ completer' = completer
  BY DEF IndexInv, FileInv
<1>4. CompleterOk(completer') /\ (kept' = Unread \/ IndexOk(kept'))
  BY <1>3 DEF IndexInv
<1>5. QED
  BY <1>1, <1>2, <1>3, <1>4, FileStays DEF IndexInv

LEMMA AskHolds ==
    ASSUME IndexInv, NEW a \in Askers, Ask(a)
    PROVE  IndexInv'
<1>1. PICK kind \in Questions, t \in Asked :
          ask' = [ask EXCEPT ![a] = [Quiet EXCEPT !.pc = "covers", !.kind = kind, !.pts = t,
                                                  !.from = IF kind = "frameAfter" THEN t + 1 ELSE t]]
  BY DEF Ask
<1> DEFINE from == IF kind = "frameAfter" THEN t + 1 ELSE t
           q == [Quiet EXCEPT !.pc = "covers", !.kind = kind, !.pts = t, !.from = from]
<1>2. ask' = [ask EXCEPT ![a] = q]
  BY <1>1
<1>3. /\ DOMAIN q = {"pc", "kind", "pts", "from", "region", "answer"}
      /\ q.pc = "covers" /\ q.kind = kind /\ q.pts = t /\ q.from = from
  <2> HIDE DEF from
  <2>1. QED
    BY DEF Quiet
<1>4. t \in Low..High - 1 /\ t \in Int /\ from \in Low..High
  BY TicksAssumption
<1>5. GotTo(q, index)
  <2>1. /\ q.from >= q.pts /\ q.pts = t /\ q.from = from /\ q.kind = kind
        /\ q.kind = "frameAfter" => q.from = q.pts + 1
        /\ q.kind # "frameAfter" => q.from = q.pts
    BY <1>4, <1>3
  <2>2. \A m \in Int : \A u \in m..m - 1 : FALSE
    OBVIOUS
  <2>3. t + 1 \in Int
    BY <1>4
  <2>4. q.kind = "after" => \A u \in q.pts..q.from - 1 : FALSE
    BY <1>4, <2>1, <2>2
  <2>5. q.kind = "frameAfter" => q.from >= q.pts + 1 /\ \A u \in q.pts + 1..q.from - 1 : FALSE
    BY <1>4, <2>1, <2>2, <2>3
  <2>6. q.pc = "covers"
    BY <1>3
  <2> HIDE DEF q, from
  <2>7. QED
    BY <2>1, <2>4, <2>5, <2>6 DEF GotTo
<1>6. AskOk(q, index)
  <2> HIDE DEF q, from
  <2>1. QED
    BY <1>4, <1>5, <1>3 DEF AskOk
<1>7. UNCHANGED <<file, index, completer, kept>>
  BY DEF Ask
<1> HIDE DEF q, from
<1>8. QED
  BY <1>2, <1>6, <1>7, OneAsks DEF IndexInv

LEMMA CoversAskedHolds ==
    ASSUME IndexInv, NEW a \in Askers, CoversAsked(a)
    PROVE  IndexInv'
<1> DEFINE p     == ask[a]
           known == IF OfFrames(p.kind) THEN p.from \in index.frameCover ELSE NotNegative(p.from) \in index.cover
           turn   == IF known THEN "answers" ELSE "reads"
           region == IF known THEN NoRegion ELSE Region(NotNegative(p.from))
           q      == [p EXCEPT !.pc = turn, !.region = region]
<1>1. AskOk(p, index) /\ DOMAIN ask = Askers /\ p.pc = "covers"
  BY DEF IndexInv, CoversAsked
<1>2. DOMAIN p = {"pc", "kind", "pts", "from", "region", "answer"}
  BY <1>1 DEF AskOk
<1>3. ask' = [ask EXCEPT ![a] = q]
  BY <1>1 DEF CoversAsked
<1>4. /\ p.kind \in Questions /\ p.pts \in Low..High - 1 /\ p.from \in Low..High
      /\ p.pts >= 0 => GotTo(p, index)
  BY <1>1 DEF AskOk
<1>5. NotNegative(p.from) \in 0..High /\ (p.from >= 0 => NotNegative(p.from) = p.from)
  BY <1>4, TicksAssumption DEF NotNegative
<1>6. /\ DOMAIN q = {"pc", "kind", "pts", "from", "region", "answer"}
      /\ q.pc = turn /\ q.kind = p.kind /\ q.pts = p.pts /\ q.from = p.from /\ q.region = region
  <2> HIDE DEF p, turn, region
  <2>1. QED
    BY <1>2
<1>7. ~known => IsRegion(q.region) /\ q.region.from = NotNegative(p.from)
  <2>1. ~known => q.region = Region(NotNegative(p.from))
    BY <1>6
  <2> HIDE DEF q, known, turn, region
  <2>2. QED
    BY <1>5, <2>1, RegionIs DEF IndexInv
<1>8. q.pc = "reads" => ~known
  BY <1>6
<1>9. q.pc = "answers" => known
  BY <1>6
<1>10. q.pc \in {"answers", "reads"}
  BY <1>6
<1>11. ASSUME q.pts >= 0 PROVE GotTo(q, index)
  <2>1. GotTo(p, index) /\ p.from >= 0
    BY <1>4, <1>6, <1>11, TicksAssumption DEF GotTo
  <2>2. q.pc = "answers" => q.from \in IF OfFrames(q.kind) THEN index.frameCover ELSE index.cover
    <3>1. known => p.from \in IF OfFrames(p.kind) THEN index.frameCover ELSE index.cover
      BY <1>5, <2>1
    <3> HIDE DEF known, q, p, turn, region
    <3>2. QED
      BY <1>9, <1>6, <3>1
  <2> HIDE DEF known, q, p, turn, region
  <2>3. QED
    BY <1>6, <1>10, <2>1, <2>2 DEF GotTo
<1>12. UNCHANGED <<file, index, completer, kept>> /\ IndexOk(index)
  BY DEF CoversAsked, IndexInv
<1> HIDE DEF known, q, p, turn, region
<1>13. AskOk(q, index)
  BY <1>4, <1>7, <1>8, <1>6, <1>10, <1>11 DEF AskOk
<1>14. QED
  BY <1>3, <1>12, <1>13, OneAsks

LEMMA ReadsHolds ==
    ASSUME IndexInv, NEW a \in Askers, Reads(a)
    PROVE  IndexInv'
<1> DEFINE p == ask[a]
           q == [p EXCEPT !.pc = "answers", !.region = NoRegion]
<1>1. /\ AskOk(p, index) /\ DOMAIN ask = Askers /\ p.pc = "reads" /\ IndexOk(index) /\ FileInv
      /\ index' = Merged(index, p.region) /\ UNCHANGED <<file, completer, kept>>
  BY DEF IndexInv, Reads
<1>2. /\ DOMAIN p = {"pc", "kind", "pts", "from", "region", "answer"}
      /\ p.kind \in Questions /\ p.pts \in Low..High - 1 /\ p.from \in Low..High
      /\ p.pts >= 0 => GotTo(p, index)
      /\ IsRegion(p.region) /\ p.region.from = NotNegative(p.from)
  BY <1>1 DEF AskOk
<1>3. ask' = [ask EXCEPT ![a] = q]
  BY <1>1 DEF Reads
<1>4. /\ DOMAIN q = {"pc", "kind", "pts", "from", "region", "answer"}
      /\ q.pc = "answers" /\ q.kind = p.kind /\ q.pts = p.pts /\ q.from = p.from
  <2> HIDE DEF p
  <2>1. QED
    BY <1>2
<1> HIDE DEF q, p
<1>5. /\ IndexOk(index') /\ index.cover \subseteq index'.cover /\ index.frameCover \subseteq index'.frameCover
      /\ p.region.from \in index'.cover /\ p.region.from \in index'.frameCover
  BY <1>1, <1>2, MergedOk
<1>6. ASSUME q.pts >= 0 PROVE GotTo(q, index')
  <2>1. GotTo(p, index) /\ p.from >= 0
    BY <1>2, <1>4, <1>6, TicksAssumption DEF GotTo
  <2>2. p.region.from = p.from
    BY <1>2, <2>1 DEF NotNegative
  <2>3. QED
    BY <1>4, <1>5, <2>1, <2>2 DEF GotTo
<1>7. AskOk(q, index')
  BY <1>2, <1>4, <1>6 DEF AskOk
<1>8. QED
  BY <1>1, <1>3, <1>5, <1>7, OneAsks

\* An answer is given when all before it is covered.
LEMMA AnswersRightly ==
    ASSUME IndexInv, NEW a \in Askers, ask[a].pc = "answers", ask[a].pts >= 0, Onwards(ask[a]) = High,
           NEW q, q.kind = ask[a].kind, q.pts = ask[a].pts, q.answer = Found(ask[a])
    PROVE  AnswerOk(q)
<1> DEFINE p == ask[a]
<1>1. /\ FileInv /\ IndexOk(index) /\ GotTo(p, index) /\ p.kind \in Questions
      /\ p.pts \in Low..High - 1 /\ p.from \in Low..High
  BY DEF IndexInv, AskOk
<1>2. /\ p.pts \in Int /\ p.from \in Int /\ High \in Int /\ p.from >= p.pts /\ p.pts + 1 \in Int
      /\ p.pts \in Low..High /\ \A u \in p.pts..High - 1 : u \in Low..High
  BY <1>1, TicksAssumption DEF GotTo
<1>3. /\ IsFiniteSet(TrueKeyframes) /\ TrueKeyframes \subseteq Int
      /\ IsFiniteSet(TrueFrames) /\ TrueFrames \subseteq Int
      /\ \A k \in TrueKeyframes \cup TrueFrames : k >= Low /\ k < High
      /\ Keyframes(index) \subseteq TrueKeyframes /\ index.frames \subseteq TrueFrames
  BY <1>1, TimesAre DEF IndexOk
<1>4. /\ IsFiniteSet(Keyframes(index)) /\ Keyframes(index) \subseteq Int
      /\ IsFiniteSet(index.frames) /\ index.frames \subseteq Int
  BY <1>3, FS_Subset
<1>5. p.from \in IF OfFrames(p.kind) THEN index.frameCover ELSE index.cover
  BY <1>1 DEF GotTo
<1>6. CASE p.kind = "before"
  <2>1. p.from = p.pts /\ p.pts \in index.cover /\ Found(p) = NotAbove(Keyframes(index), p.pts)
    BY <1>1, <1>5, <1>6 DEF GotTo, OfFrames, Found
  <2>2. Found(p) = NotAbove(TrueKeyframes, p.pts)
    BY <1>1, <1>2, <2>1, CoveredAnswers
  <2>3. QED
    BY <1>6, <2>2 DEF AnswerOk
<1>7. CASE p.kind = "is"
  <2>1. p.from = p.pts /\ p.pts \in index.cover
    BY <1>1, <1>5, <1>7 DEF GotTo, OfFrames
  <2>2. Found(p) = IF p.pts \in Keyframes(index) THEN p.pts ELSE Unread
    BY <1>7 DEF Found
  <2>3. p.pts \in TrueKeyframes <=> p.pts \in Keyframes(index)
    BY <1>1, <1>2, <1>3, <2>1, CoveredAnswers
  <2>4. p.pts # Unread
    BY <1>2, TicksAssumption
  <2>5. QED
    BY <1>7, <2>2, <2>3, <2>4 DEF AnswerOk
<1>8. CASE p.kind = "frame"
  <2>1. p.from = p.pts /\ p.pts \in index.frameCover /\ Found(p) = NotAbove(index.frames, p.pts)
    BY <1>1, <1>5, <1>8 DEF GotTo, OfFrames, Found
  <2>2. Found(p) = NotAbove(TrueFrames, p.pts)
    BY <1>1, <1>2, <2>1, CoveredAnswers
  <2>3. QED
    BY <1>8, <2>2 DEF AnswerOk
<1>9. CASE p.kind = "after"
  <2>1. Found(p) = NotBelow(Keyframes(index), p.pts) /\ p.from \in index.cover
    BY <1>5, <1>9 DEF Found, OfFrames
  <2>2. CASE Found(p) # Unread
    <3>1. Found(p) \in Keyframes(index) /\ Found(p) >= p.pts
      BY <1>2, <1>4, <2>1, <2>2, NotBelowIs
    <3>2. QED
      BY <1>3, <1>9, <3>1 DEF AnswerOk
  <2>3. CASE Found(p) = Unread
    <3>1. EndOfRange(index.cover, p.from) = High
      BY <1>9, <2>1, <2>3 DEF Onwards, OfFrames
    <3>2. \A u \in p.from..High - 1 : u \in index.cover
      BY <1>1, <3>1, EndOfRangeIs
    <3>3. \A u \in p.pts..p.from - 1 : u \in index.cover
      BY <1>1, <1>9 DEF GotTo
    <3>4. ASSUME NEW k \in TrueKeyframes, k >= p.pts PROVE FALSE
      <4>1. k \in Int /\ k < High /\ k \in Low..High
        BY <1>2, <1>3, TicksAssumption
      <4>2. k \in index.cover
        BY <1>2, <3>2, <3>3, <3>4, <4>1
      <4>3. k \in Keyframes(index)
        BY <1>1, <4>1, <4>2, CoveredAnswers
      <4>4. k < p.pts
        BY <1>2, <1>4, <2>1, <2>3, <4>3, NotBelowIs
      <4>5. QED
        BY <1>2, <3>4, <4>1, <4>4
    <3>5. \A k \in TrueKeyframes : k < p.pts
      BY <1>2, <1>3, <3>4
    <3>6. NotBelow(TrueKeyframes, p.pts) = Unread
      BY <1>2, <1>3, <3>5, NotBelowIs
    <3>7. QED
      BY <1>9, <2>3, <3>6 DEF AnswerOk
  <2>4. QED
    BY <2>2, <2>3
<1>10. CASE p.kind = "frameAfter"
  <2>1. Found(p) = NotBelow(index.frames, p.pts + 1) /\ p.from \in index.frameCover
    BY <1>5, <1>10 DEF Found, OfFrames
  <2>2. CASE Found(p) # Unread
    <3>1. Found(p) \in index.frames /\ Found(p) >= p.pts + 1
      BY <1>2, <1>4, <2>1, <2>2, NotBelowIs
    <3>2. Found(p) \in TrueFrames /\ Found(p) > p.pts
      BY <1>2, <1>3, <3>1
    <3>3. QED
      BY <1>10, <3>2 DEF AnswerOk
  <2>3. CASE Found(p) = Unread
    <3>1. EndOfRange(index.frameCover, p.from) = High
      BY <1>10, <2>1, <2>3 DEF Onwards, OfFrames
    <3>2. \A u \in p.from..High - 1 : u \in index.frameCover
      BY <1>1, <3>1, EndOfRangeIs
    <3>3. \A u \in p.pts + 1..p.from - 1 : u \in index.frameCover
      BY <1>1, <1>10 DEF GotTo
    <3>4. ASSUME NEW k \in TrueFrames, k >= p.pts + 1 PROVE FALSE
      <4>1. k \in Int /\ k < High /\ k \in Low..High
        BY <1>2, <1>3, TicksAssumption
      <4>2. k \in index.frameCover
        BY <1>2, <3>2, <3>3, <3>4, <4>1
      <4>3. k \in index.frames
        BY <1>1, <4>1, <4>2, CoveredAnswers
      <4>4. k < p.pts + 1
        BY <1>2, <1>4, <2>1, <2>3, <4>3, NotBelowIs
      <4>5. QED
        BY <1>2, <3>4, <4>1, <4>4
    <3>5. \A k \in TrueFrames : k < p.pts + 1
      BY <1>2, <1>3, <3>4
    <3>6. NotBelow(TrueFrames, p.pts + 1) = Unread
      BY <1>2, <1>3, <3>5, NotBelowIs
    <3>7. QED
      BY <1>10, <2>3, <3>6 DEF AnswerOk
  <2>4. QED
    BY <2>2, <2>3
<1>11. QED
  BY <1>1, <1>6, <1>7, <1>8, <1>9, <1>10 DEF Questions

LEMMA AnswersHolds ==
    ASSUME IndexInv, NEW a \in Askers, Answers(a)
    PROVE  IndexInv'
<1> DEFINE p == ask[a]
<1>1. /\ AskOk(p, index) /\ DOMAIN ask = Askers /\ p.pc = "answers" /\ IndexOk(index)
      /\ UNCHANGED <<file, index, completer, kept>>
  BY DEF IndexInv, Answers
<1>2. /\ DOMAIN p = {"pc", "kind", "pts", "from", "region", "answer"}
      /\ p.kind \in Questions /\ p.pts \in Low..High - 1 /\ p.from \in Low..High
      /\ p.pts >= 0 => GotTo(p, index)
  BY <1>1 DEF AskOk
<1>3. CASE Onwards(p) = High
  <2> DEFINE q == [p EXCEPT !.pc = "answered", !.answer = Found(p)]
  <2>1. ask' = [ask EXCEPT ![a] = q]
    BY <1>1, <1>3 DEF Answers
  <2>2. /\ DOMAIN q = {"pc", "kind", "pts", "from", "region", "answer"}
        /\ q.pc = "answered" /\ q.kind = p.kind /\ q.pts = p.pts /\ q.from = p.from /\ q.answer = Found(p)
    <3> HIDE DEF p
    <3>1. QED
      BY <1>2
  <2> HIDE DEF q
  <2>3. q.pts >= 0 => AnswerOk(q)
    BY <1>1, <1>3, <2>2, AnswersRightly
  <2>4. q.pts >= 0 => GotTo(q, index)
    BY <1>2, <2>2, <2>3 DEF GotTo
  <2>5. AskOk(q, index)
    BY <1>2, <2>2, <2>4 DEF AskOk
  <2>6. QED
    BY <1>1, <2>1, <2>5, OneAsks
<1>4. CASE Onwards(p) # High
  <2> DEFINE q == [p EXCEPT !.pc = "covers", !.from = Onwards(p)]
             cover == IF OfFrames(p.kind) THEN index.frameCover ELSE index.cover
  <2>1. ask' = [ask EXCEPT ![a] = q]
    BY <1>1, <1>4 DEF Answers
  <2>2. /\ DOMAIN q = {"pc", "kind", "pts", "from", "region", "answer"}
        /\ q.pc = "covers" /\ q.kind = p.kind /\ q.pts = p.pts /\ q.from = Onwards(p)
    <3> HIDE DEF p
    <3>1. QED
      BY <1>2
  <2>3. p.kind \in {"after", "frameAfter"} /\ Onwards(p) = EndOfRange(cover, p.from)
    BY <1>4 DEF Onwards
  <2> HIDE DEF q, cover
  <2>4. Onwards(p) \in p.from..High /\ \A u \in p.from..Onwards(p) - 1 : u \in cover
    BY <1>2, <2>3, EndOfRangeIs
  <2>5. Onwards(p) \in Low..High /\ Onwards(p) >= p.from /\ p.from \in Int /\ Onwards(p) \in Int /\ p.pts \in Int
    BY <1>2, <2>4, TicksAssumption
  <2>6. ASSUME q.pts >= 0 PROVE GotTo(q, index)
    <3>1. GotTo(p, index)
      BY <1>2, <2>2, <2>6
    <3>2. q.from >= q.pts
      BY <2>2, <2>5, <3>1 DEF GotTo
    <3>3. q.kind = "after" => \A u \in q.pts..q.from - 1 : u \in index.cover
      <4>1. SUFFICES ASSUME p.kind = "after", NEW u \in p.pts..Onwards(p) - 1 PROVE u \in index.cover
        BY <2>2
      <4>2. cover = index.cover
        BY <4>1 DEF OfFrames, cover
      <4>3. u < p.from => u \in p.pts..p.from - 1
        BY <2>5
      <4>4. ~(u < p.from) => u \in p.from..Onwards(p) - 1
        BY <2>5
      <4>5. QED
        BY <2>4, <3>1, <4>1, <4>2, <4>3, <4>4 DEF GotTo
    <3>4. q.kind = "frameAfter" =>
             q.from >= q.pts + 1 /\ \A u \in q.pts + 1..q.from - 1 : u \in index.frameCover
      <4>1. SUFFICES ASSUME p.kind = "frameAfter"
                     PROVE  /\ Onwards(p) >= p.pts + 1
                            /\ \A u \in p.pts + 1..Onwards(p) - 1 : u \in index.frameCover
        BY <2>2
      <4>2. cover = index.frameCover
        BY <4>1 DEF OfFrames, cover
      <4>3. Onwards(p) >= p.pts + 1
        BY <2>5, <3>1, <4>1 DEF GotTo
      <4>4. ASSUME NEW u \in p.pts + 1..Onwards(p) - 1 PROVE u \in index.frameCover
        <5>1. u < p.from => u \in p.pts + 1..p.from - 1
          BY <2>5
        <5>2. ~(u < p.from) => u \in p.from..Onwards(p) - 1
          BY <2>5
        <5>3. QED
          BY <2>4, <3>1, <4>1, <4>2, <5>1, <5>2 DEF GotTo
      <4>5. QED
        BY <4>3, <4>4
    <3>5. q.kind \notin {"before", "is", "frame"} /\ q.pc = "covers"
      BY <2>2, <2>3
    <3>6. QED
      BY <3>2, <3>3, <3>4, <3>5 DEF GotTo
  <2>7. AskOk(q, index)
    BY <1>2, <2>2, <2>5, <2>6 DEF AskOk
  <2>8. QED
    BY <1>1, <2>1, <2>7, OneAsks
<1>5. QED
  BY <1>3, <1>4

-----------------------------------------------------------------------------
(* The background thread and the next launch                                 *)

\* A step that leaves the asks alone, and takes nothing from the index.
LEMMA NobodyAsks ==
    ASSUME IndexInv, UNCHANGED <<file, ask>>, IndexOk(index'), CompleterOk(completer'),
           kept' = Unread \/ IndexOk(kept'),
           index.cover \subseteq index'.cover, index.frameCover \subseteq index'.frameCover
    PROVE  IndexInv'
<1>1. DOMAIN ask' = Askers /\ \A a \in Askers : AskOk(ask'[a], index')
  BY AskKeeps DEF IndexInv
<1>2. FileInv'
  BY DEF IndexInv, FileInv
<1>3. QED
  BY <1>1, <1>2, FileStays DEF IndexInv

LEMMA NoRegionRead == CompleterOk([pc |-> "idle", from |-> 0, region |-> NoRegion])
                      /\ CompleterOk([pc |-> "next", from |-> 0, region |-> NoRegion])
<1>1. 0 \in 0..High
  BY TicksAssumption
<1>2. QED
  BY <1>1 DEF CompleterOk

LEMMA BeginHolds == ASSUME IndexInv, Begin PROVE IndexInv'
<1>1. IndexOk(index') /\ CompleterOk(completer') /\ UNCHANGED <<file, ask, index, kept>>
  BY NoRegionRead DEF IndexInv, Begin
<1>2. QED
  BY <1>1, NobodyAsks DEF IndexInv

LEMMA PersistedOk == ASSUME IndexInv PROVE Persisted = Unread \/ IndexOk(Persisted)
  BY DEF IndexInv, Persisted

\* The next region begins at a tick that is not covered.
LEMMA NextTickIs ==
    ASSUME IndexInv, NextTick(completer.from) # High
    PROVE  /\ NextTick(completer.from) \in 0..High /\ NextTick(completer.from) \notin index.cover
           /\ IsRegion(Region(NextTick(completer.from)))
           /\ Region(NextTick(completer.from)).from = NextTick(completer.from)
<1>1. FileInv /\ completer.from \in 0..High /\ completer.from \in Low..High
  BY TicksAssumption DEF IndexInv, CompleterOk
<1> DEFINE next == NextTick(completer.from)
<1>2. next \in completer.from..High /\ next \notin index.cover
  BY <1>1, EndOfRangeIs DEF NextTick
<1>3. next \in 0..High
  BY <1>1, <1>2, TicksAssumption
<1> HIDE DEF next
<1>4. IsRegion(Region(next)) /\ Region(next).from = next
  BY <1>1, <1>3, RegionIs
<1>5. QED
  BY <1>2, <1>3, <1>4 DEF next

LEMMA NextHolds == ASSUME IndexInv, Next_ PROVE IndexInv'
<1>1. UNCHANGED <<file, ask, index>> /\ IndexOk(index)
  BY DEF IndexInv, Next_
<1>2. CASE stopped \/ Whole(index) \/ NextTick(completer.from) = High
  <2>1. completer' = [completer EXCEPT !.pc = "done"] /\ kept' = Persisted
    BY <1>2 DEF Next_
  <2>2. DOMAIN completer = {"pc", "from", "region"} /\ completer.from \in 0..High
    BY DEF IndexInv, CompleterOk
  <2>3. completer'.pc = "done" /\ completer'.from = completer.from /\ DOMAIN completer' = {"pc", "from", "region"}
    BY <2>1, <2>2
  <2>4. CompleterOk(completer')
    BY <2>2, <2>3 DEF CompleterOk
  <2>5. QED
    BY <1>1, <2>1, <2>4, PersistedOk, NobodyAsks
<1>3. CASE ~(stopped \/ Whole(index) \/ NextTick(completer.from) = High)
  <2> DEFINE next == NextTick(completer.from)
  <2>1. completer' = [pc |-> "reads", from |-> next, region |-> Region(next)] /\ kept' = kept
    BY <1>3 DEF Next_
  <2>2. next \in 0..High /\ IsRegion(Region(next)) /\ Region(next).from = next
    BY <1>3, NextTickIs
  <2> HIDE DEF next
  <2>3. CompleterOk(completer')
    BY <2>1, <2>2 DEF CompleterOk
  <2>4. QED
    BY <1>1, <2>1, <2>3, NobodyAsks DEF IndexInv
<1>4. QED
  BY <1>2, <1>3

LEMMA CompleterReadsIs ==
    ASSUME IndexInv, CompleterReads
    PROVE  /\ IndexOk(index') /\ completer.region.from \in index'.cover
           /\ index.cover \subseteq index'.cover /\ index.frameCover \subseteq index'.frameCover
<1>1. /\ FileInv /\ IndexOk(index) /\ IsRegion(completer.region) /\ index' = Merged(index, completer.region)
  BY DEF IndexInv, CompleterOk, CompleterReads
<1>2. QED
  BY <1>1, MergedOk

LEMMA CompleterReadsHolds == ASSUME IndexInv, CompleterReads PROVE IndexInv'
<1>1. /\ completer' = [completer EXCEPT !.pc = "next", !.region = NoRegion]
      /\ UNCHANGED <<file, ask, kept>> /\ (kept = Unread \/ IndexOk(kept))
      /\ DOMAIN completer = {"pc", "from", "region"} /\ completer.from \in 0..High
  BY DEF IndexInv, CompleterOk, CompleterReads
<1>2. completer'.pc = "next" /\ completer'.from = completer.from /\ DOMAIN completer' = {"pc", "from", "region"}
  BY <1>1
<1>3. CompleterOk(completer')
  BY <1>1, <1>2 DEF CompleterOk
<1>4. QED
  BY <1>1, <1>3, CompleterReadsIs, NobodyAsks

LEMMA StopHolds == ASSUME IndexInv, StopAndPersist PROVE IndexInv'
<1>1. IndexOk(index') /\ CompleterOk(completer') /\ UNCHANGED <<file, ask, index>> /\ kept' = Persisted
  BY DEF IndexInv, StopAndPersist
<1>2. QED
  BY <1>1, PersistedOk, NobodyAsks DEF IndexInv

LEMMA ReopenHolds == ASSUME IndexInv, Reopen PROVE IndexInv'
<1>1. /\ UNCHANGED file /\ ask' = [a \in Askers |-> Quiet]
      /\ completer' = [pc |-> "idle", from |-> 0, region |-> NoRegion]
      /\ index' = (IF kept = Unread THEN EmptyIndex ELSE kept)
      /\ kept' \in {kept, Unread} /\ (kept = Unread \/ IndexOk(kept))
  BY DEF IndexInv, Reopen
<1>2. IndexOk(index') /\ (kept' = Unread \/ IndexOk(kept'))
  BY <1>1, EmptyIndexOk
<1>3. DOMAIN ask' = Askers /\ \A a \in Askers : AskOk(ask'[a], index')
  BY <1>1, QuietOk
<1>4. CompleterOk(completer')
  BY <1>1, NoRegionRead
<1>5. FileInv'
  BY <1>1 DEF IndexInv, FileInv
<1>6. QED
  BY <1>1, <1>2, <1>3, <1>4, <1>5, FileStays DEF IndexInv

LEMMA IndexBegins == IndexInit => IndexInv
<1> SUFFICES ASSUME IndexInit PROVE IndexInv
  OBVIOUS
<1>1. \A a \in Askers : AskOk(ask[a], index)
  BY QuietOk DEF IndexInit
<1>2. QED
  BY <1>1, EmptyIndexOk, NoRegionRead DEF IndexInit, IndexInv, FileInv

LEMMA IndexHolds == IndexInv /\ [IndexNext]_indexVars => IndexInv'
<1> SUFFICES ASSUME IndexInv, [IndexNext]_indexVars PROVE IndexInv'
  OBVIOUS
<1>1. ASSUME NEW a \in Askers, Ask(a) PROVE IndexInv'
  BY <1>1, AskHolds
<1>2. ASSUME NEW a \in Askers, CoversAsked(a) PROVE IndexInv'
  BY <1>2, CoversAskedHolds
<1>3. ASSUME NEW a \in Askers, Reads(a) PROVE IndexInv'
  BY <1>3, ReadsHolds
<1>4. ASSUME NEW a \in Askers, Answers(a) PROVE IndexInv'
  BY <1>4, AnswersHolds
<1>5. ASSUME Begin \/ Next_ \/ CompleterReads \/ StopAndPersist \/ Reopen PROVE IndexInv'
  BY <1>5, BeginHolds, NextHolds, CompleterReadsHolds, StopHolds, ReopenHolds
<1>6. CASE UNCHANGED indexVars
  BY <1>6, NobodyAsks DEF indexVars, IndexInv
<1>7. QED
  BY <1>1, <1>2, <1>3, <1>4, <1>5, <1>6 DEF IndexNext

-----------------------------------------------------------------------------
(* What is promised                                                          *)

\* Of any file that is as the code takes it to be, and however its regions are
\* read, merged, kept on disk and read again: the index knows every keyframe
\* and every frame of what it covers, and answers what the file holds
\* (read_region, merge, Coverage::add, ensure_covered, ensure_frames_covered).
THEOREM IndexIsRight == IndexSpec => []IndexIsOfTheFile
<1>1. IndexInv => IndexIsOfTheFile
  <2> SUFFICES ASSUME IndexInv PROVE IndexIsOfTheFile
    OBVIOUS
  <2>1. CoveredIsKnown
    BY IndexTells DEF IndexInv
  <2>2. ASSUME NEW a \in Askers, ask[a].pc = "answered", ask[a].pts >= 0 PROVE AnswerOk(ask[a])
    BY <2>2 DEF IndexInv, AskOk, GotTo
  <2>3. AnswersAreOfTheFile
    BY <2>2 DEF AnswersAreOfTheFile, AnswerOk
  <2>4. QED
    BY <2>1, <2>3 DEF IndexIsOfTheFile
<1>2. QED
  BY <1>1, IndexBegins, IndexHolds, PTL DEF IndexSpec

\* The background thread never reads what is covered, and what it read is
\* covered once merged (complete_in_background).
THEOREM ReadsGoOn == IndexSpec => ReadsAdvance
<1> DEFINE Advance == /\ completer.pc = "next" /\ completer'.pc = "reads" => completer'.region.from \notin index.cover
                      /\ CompleterReads => completer.region.from \in index'.cover
<1>1. IndexInv /\ [IndexNext]_indexVars => [Advance]_indexVars
  <2> SUFFICES ASSUME IndexInv, IndexNext PROVE Advance
    OBVIOUS
  <2>1. CompleterReads => completer.region.from \in index'.cover
    BY CompleterReadsIs
  <2>2. ASSUME completer.pc = "next", completer'.pc = "reads" PROVE completer'.region.from \notin index.cover
    <3>1. CASE Next_
      <4>1. CASE stopped \/ Whole(index) \/ NextTick(completer.from) = High
        <5>1. completer' = [completer EXCEPT !.pc = "done"] /\ DOMAIN completer = {"pc", "from", "region"}
          BY <3>1, <4>1 DEF Next_, IndexInv, CompleterOk
        <5>2. QED
          BY <2>2, <5>1
      <4>2. CASE ~(stopped \/ Whole(index) \/ NextTick(completer.from) = High)
        <5>1. completer'.region = Region(NextTick(completer.from))
          BY <3>1, <4>2 DEF Next_
        <5>2. QED
          BY <4>2, <5>1, NextTickIs
      <4>3. QED
        BY <4>1, <4>2
    <3>2. CASE Reopen
      BY <2>2, <3>2 DEF Reopen
    <3>3. CASE Begin \/ CompleterReads
      BY <2>2, <3>3 DEF Begin, CompleterReads
    <3>4. CASE completer' = completer
      BY <2>2, <3>4
    <3>5. QED
      BY <3>1, <3>2, <3>3, <3>4
         DEF IndexNext, Ask, CoversAsked, Reads, Answers, StopAndPersist
  <2>3. QED
    BY <2>1, <2>2
<1>2. QED
  BY <1>1, IndexBegins, IndexHolds, PTL DEF IndexSpec, ReadsAdvance
=============================================================================
