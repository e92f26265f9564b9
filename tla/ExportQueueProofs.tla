--------------------------- MODULE ExportQueueProofs ---------------------------
(***************************************************************************)
(* Proofs about ExportQueue, for any number of callers, jobs, launches and *)
(* targets, any limit of the history, with or without crashes and a store  *)
(* that fails; and that it implements ExportLine where the store can be    *)
(* written and was written by this queue.                                  *)
(***************************************************************************)
EXTENDS ExportQueueRefinement, FiniteSetTheorems, TLAPS

-----------------------------------------------------------------------------
(* Entries *)

LEMMA NoEntryType == NoEntry \in Entries /\ NoEntry.state = "none"
  <1>1. (CHOOSE t \in Targets : TRUE) \in Targets
    BY ConstantsAssumption
  <1>2. 0 \in 0..MaxPlace /\ 0 \in 0..Whole
    BY ConstantsAssumption
  <1>3. QED
    BY <1>1, <1>2 DEF NoEntry, Entries, States, Stages

LEMMA SilentType ==
    Silent \in [id: 0..MaxJobs, word: Words]
  BY ConstantsAssumption DEF Silent, Words, States, Stages

LEMMA EmptyStoreType == EmptyStore \in Stored
  BY NoEntryType, ConstantsAssumption DEF EmptyStore, Stored

LEMMA WordType ==
    ASSUME NEW e \in Entries, NEW i \in Ids
    PROVE  /\ WordOf(e) \in Words
           /\ Say(i, e) \in [id: 0..MaxJobs, word: Words]
  BY ConstantsAssumption DEF WordOf, Say, Words, Entries, Ids

LEMMA ZeroType == 0 \in 0..Whole /\ 0 \in Stages
  BY ConstantsAssumption DEF Stages

LEMMA StillType ==
    ASSUME NEW e \in Entries, NEW s \in States
    PROVE  /\ Still(e, s) \in Entries
           /\ Still(e, s).state = s /\ Still(e, s).spec = e.spec
  BY ZeroType DEF Still, Entries

LEMMA EndedType ==
    ASSUME NEW e \in Entries, NEW s \in States
    PROVE  /\ Ended(e, s) \in Entries /\ Ended(e, s).state = s
           /\ Recorded(e, s) \in Entries /\ Recorded(e, s).state = s
           /\ s = "interrupted" => Recorded(e, s).spec = e.spec
  <1> DEFINE x == Still(e, s)
  <1>0. x \in Entries /\ x.state = s
    BY StillType
  <1> HIDE DEF x
  <1>1. [x EXCEPT !.spec = FALSE] \in Entries
    BY <1>0 DEF Entries
  <1>2. [x EXCEPT !.spec = FALSE].state = s
    BY <1>0 DEF Entries
  <1> USE DEF x
  <1>3. Ended(e, s) \in Entries /\ Ended(e, s).state = s
    BY <1>1, <1>2 DEF Ended
  <1>4. QED
    BY <1>3, StillType DEF Recorded

LEMMA MeteredType ==
    ASSUME NEW e \in Entries, NEW stage \in Stages, NEW f \in Reported
    PROVE  /\ Metered(e, stage, f) \in Entries
           /\ Metered(e, stage, f).state = e.state
           /\ Metered(e, stage, f).spec = e.spec
  <1> DEFINE s == IF stage > e.stage THEN stage ELSE e.stage
             base == IF stage > e.stage THEN 0 ELSE e.fraction
             g == IF (stage = s /\ f # NotFinite) /\ Clamp(f) > base
                  THEN Clamp(f) ELSE base
  <1>1. e.stage \in Stages /\ e.fraction \in 0..Whole
    BY DEF Entries
  <1>2. s \in Stages /\ base \in 0..Whole
    BY <1>1, ConstantsAssumption
  <1>3. f # NotFinite => Clamp(f) \in 0..Whole
    BY ConstantsAssumption DEF Clamp
  <1>4. g \in 0..Whole
    BY <1>2, <1>3
  <1>5. Metered(e, stage, f) = [e EXCEPT !.stage = s, !.fraction = g]
    BY DEF Metered
  <1> HIDE DEF s, base, g
  <1>6. QED
    BY <1>2, <1>4, <1>5 DEF Entries

LEMMA TrimFacts ==
    ASSUME NEW js \in [Ids -> Entries]
    PROVE  /\ Trim(js) \in [Ids -> Entries]
           /\ \A i \in Ids :
                 \/ Trim(js)[i] = js[i]
                 \/ Trim(js)[i] = NoEntry /\ js[i].state \in Finished
  BY NoEntryType DEF Trim, History

LEMMA ClearFacts ==
    ASSUME NEW js \in [Ids -> Entries]
    PROVE  /\ Clear(js) \in [Ids -> Entries]
           /\ \A i \in Ids :
                 \/ Clear(js)[i] = js[i]
                 \/ Clear(js)[i] = NoEntry /\ js[i].state \in Finished
  BY NoEntryType DEF Clear, History

LEMMA InterruptFacts ==
    ASSUME NEW js \in [Ids -> Entries]
    PROVE  /\ Interrupt(js) \in [Ids -> Entries]
           /\ \A i \in Ids : Interrupt(js)[i].state \notin {"queued", "running"}
           /\ \A i \in Ids : Interrupt(js)[i].spec = js[i].spec
           /\ \A i \in Ids : Interrupt(js)[i].state = "interrupted" =>
                 js[i].state \in {"queued", "running", "interrupted"}
  <1> SUFFICES ASSUME NEW i \in Ids
               PROVE  /\ Interrupt(js)[i] \in Entries
                      /\ Interrupt(js)[i].state \notin {"queued", "running"}
                      /\ Interrupt(js)[i].spec = js[i].spec
                      /\ Interrupt(js)[i].state = "interrupted" =>
                            js[i].state \in {"queued", "running", "interrupted"}
    BY DEF Interrupt
  <1>1. Still(js[i], "interrupted") \in Entries
        /\ Still(js[i], "interrupted").state = "interrupted"
        /\ Still(js[i], "interrupted").spec = js[i].spec
    <2>1. "interrupted" \in States
      BY DEF States
    <2>2. QED
      BY <2>1, StillType
  <1>2. Interrupt(js)[i] = IF js[i].state \in {"queued", "running"}
                           THEN Still(js[i], "interrupted") ELSE js[i]
    BY DEF Interrupt
  <1>3. QED
    BY <1>1, <1>2

-----------------------------------------------------------------------------
(* Critical sections *)

LEMMA PersistType ==
    ASSUME NEW js \in [Ids -> Entries], NEW n \in 1..MaxJobs + 1,
           NEW p \in 0..MaxPlace, store \in Stored, Persist(js, n, p)
    PROVE  store' \in Stored
  <1>1. CASE UNCHANGED store
    BY <1>1
  <1>2. CASE store' = [readable |-> TRUE, next |-> n, pushes |-> p, jobs |-> js]
    BY <1>2 DEF Stored
  <1>3. QED
    BY <1>1, <1>2 DEF Persist

\* What is written keeps new ids free, where memory does.
LEMMA PersistFresh ==
    ASSUME NEW js, NEW n, NEW p, Persist(js, n, p), Fresh(js, n),
           Fresh(store.jobs, store.next)
    PROVE  Fresh(store'.jobs, store'.next)
  <1>1. CASE UNCHANGED store
    BY <1>1
  <1>2. CASE store' = [readable |-> TRUE, next |-> n, pushes |-> p, jobs |-> js]
    <2>1. store'.jobs = js /\ store'.next = n
      BY <1>2, Zenon
    <2>2. QED
      BY <2>1
  <1>3. QED
    BY <1>1, <1>2 DEF Persist

LEMMA SettleFacts ==
    ASSUME TypeOK, NEW js \in [Ids -> Entries], NEW i \in Ids, Settle(js, i)
    PROVE  /\ jobs' \in [Ids -> Entries]
           /\ store' \in Stored
           /\ heard' \in [Ids -> Words]
           /\ \A k \in Ids : \/ jobs'[k] = js[k]
                             \/ jobs'[k] = NoEntry /\ js[k].state \in Finished
  <1>1. jobs' = Trim(js) /\ Trim(js) \in [Ids -> Entries]
    BY TrimFacts DEF Settle
  <1>2. store' \in Stored
    BY <1>1, PersistType DEF Settle, TypeOK
  <1>3. heard' \in [Ids -> Words]
    BY WordType DEF Settle, TypeOK
  <1>4. QED
    BY <1>1, <1>2, <1>3, TrimFacts

-----------------------------------------------------------------------------
(* The inductive invariant: types, one export at a time, and nothing left in *)
(* the worker's hands once the process is gone.                              *)

Down ==
    ~up => /\ running.id = 0 /\ worker = "exited"
           /\ \A i \in Ids : jobs[i].state = "none"

NewIdsAreFree == Fresh(jobs, next) /\ Fresh(store.jobs, store.next)

IInv == TypeOK /\ OneExport /\ Down /\ NewIdsAreFree

LEMMA InitIInv == Init => IInv
  <1> SUFFICES ASSUME Init PROVE IInv
    OBVIOUS
  <1>1. jobs \in [Ids -> Entries] /\ \A i \in Ids : jobs[i].state = "none"
    BY NoEntryType DEF Init, EmptyStore
  <1>2. running \in [id: 0..MaxJobs, cancelled: BOOLEAN, token: BOOLEAN]
        /\ running.id = 0
    BY ConstantsAssumption DEF Init, NoRun
  <1>3. store \in Stored
    BY ConstantsAssumption DEF Init
  <1>4. saying \in [Callers \cup {Worker} -> [id: 0..MaxJobs, word: Words]]
    BY SilentType DEF Init
  <1>5. heard \in [Ids -> Words]
    BY SilentType, ConstantsAssumption DEF Init, Unheard, Silent, Words
  <1>6. TypeOK
    <2>0. up \in BOOLEAN /\ stopping \in BOOLEAN /\ worker = "exited"
      BY Zenon DEF Init
    <2>1. /\ launches \in 0..MaxLaunches
          /\ next \in 1..MaxJobs + 1 /\ pushes \in 0..MaxPlace
      BY ConstantsAssumption DEF Init
    <2>2. partial \subseteq Targets /\ file \in [Targets -> 0..MaxJobs]
      BY ConstantsAssumption DEF Init
    <2>3. QED
      BY <1>1, <1>2, <1>3, <1>4, <1>5, <2>0, <2>1, <2>2 DEF TypeOK
  <1>7. OneExport /\ Down
    BY <1>1, <1>2, ConstantsAssumption DEF Init, OneExport, Down, Runs, Ids
  <1>8. NewIdsAreFree
    BY <1>1, ConstantsAssumption DEF Init, NewIdsAreFree, Fresh
  <1>9. QED
    BY <1>6, <1>7, <1>8 DEF IInv

\* A push: submit and resume put an entry in the queue.
LEMMA PushType ==
    ASSUME TypeOK, NEW c \in Callers, NEW i \in Ids, NEW e \in Entries,
           NEW n \in 1..MaxJobs + 1, pushes < MaxPlace,
           jobs' = [jobs EXCEPT ![i] = e],
           Persist([jobs EXCEPT ![i] = e], n, pushes + 1),
           saying' = [saying EXCEPT ![c] = Say(i, e)]
    PROVE  /\ jobs' \in [Ids -> Entries]
           /\ store' \in Stored
           /\ saying' \in [Callers \cup {Worker} -> [id: 0..MaxJobs, word: Words]]
           /\ pushes + 1 \in 0..MaxPlace
  <1>1. [jobs EXCEPT ![i] = e] \in [Ids -> Entries]
    BY DEF TypeOK
  <1>2. pushes + 1 \in 0..MaxPlace
    BY ConstantsAssumption DEF TypeOK
  <1>3. store' \in Stored
    BY <1>1, <1>2, PersistType DEF TypeOK
  <1>4. Say(i, e) \in [id: 0..MaxJobs, word: Words]
    BY WordType
  <1>5. QED
    BY <1>1, <1>2, <1>3, <1>4 DEF TypeOK

LEMMA SubmitIInv ==
    ASSUME IInv, NEW c \in Callers, NEW t \in Targets, NEW o \in BOOLEAN,
           Submit(c, t, o)
    PROVE  IInv'
  <1> DEFINE e == [NoEntry EXCEPT !.place = pushes + 1, !.target = t,
                                  !.overwrite = o, !.state = "queued",
                                  !.spec = TRUE]
  <1>1. pushes + 1 \in 0..MaxPlace /\ next \in Ids /\ next + 1 \in 1..MaxJobs + 1
    BY ConstantsAssumption DEF IInv, TypeOK, Submit, Ids
  <1>2. e \in Entries /\ e.state = "queued"
    BY <1>1, NoEntryType DEF Entries, States
  <1> HIDE DEF e
  <1>3. /\ jobs' = [jobs EXCEPT ![next] = e]
        /\ Persist([jobs EXCEPT ![next] = e], next + 1, pushes + 1)
        /\ saying' = [saying EXCEPT ![c] = Say(next, e)]
        /\ next' = next + 1 /\ pushes' = pushes + 1 /\ pushes < MaxPlace
        /\ UNCHANGED <<up, launches, running, stopping, worker, partial, file,
                       heard>>
    BY DEF Submit, e, files
  <1>4. TypeOK'
    BY <1>1, <1>2, <1>3, PushType DEF IInv, TypeOK
  <1>5. jobs[next].state = "none"
    BY <1>1 DEF IInv, NewIdsAreFree, Fresh, Ids
  <1>6. up' /\ OneExport' /\ Down'
    BY <1>1, <1>2, <1>3, <1>5 DEF IInv, TypeOK, OneExport, Down, Submit, Free
  <1>7. NewIdsAreFree'
    <2>1. Fresh(jobs', next')
      BY <1>1, <1>3 DEF IInv, TypeOK, NewIdsAreFree, Fresh, Ids
    <2>2. Fresh(store.jobs, store.next)
      BY DEF IInv, NewIdsAreFree
    <2>3. Fresh(store'.jobs, store'.next)
      BY <1>3, <2>1, <2>2, PersistFresh
    <2>4. QED
      BY <2>1, <2>3 DEF NewIdsAreFree
  <1>8. QED
    BY <1>4, <1>6, <1>7 DEF IInv

\* What settle leaves: types, and new ids still free.
LEMMA SettleIInv ==
    ASSUME IInv, NEW js \in [Ids -> Entries], NEW i \in Ids, Settle(js, i),
           Fresh(js, next), next' = next
    PROVE  /\ jobs' \in [Ids -> Entries] /\ store' \in Stored
           /\ heard' \in [Ids -> Words]
           /\ NewIdsAreFree'
           /\ \A k \in Ids : jobs'[k].state = "running" <=> js[k].state = "running"
  <1>1. TypeOK
    BY DEF IInv
  <1>2. /\ jobs' \in [Ids -> Entries] /\ store' \in Stored
        /\ heard' \in [Ids -> Words]
        /\ \A k \in Ids : \/ jobs'[k] = js[k]
                          \/ jobs'[k] = NoEntry /\ js[k].state \in Finished
    BY <1>1, SettleFacts
  <1>3. Fresh(jobs', next)
    BY <1>2, NoEntryType DEF Fresh
  <1>4. jobs' = Trim(js) /\ Persist(jobs', next, pushes)
    BY DEF Settle
  <1>5. Fresh(store.jobs, store.next)
    BY DEF IInv, NewIdsAreFree
  <1>6. Fresh(store'.jobs, store'.next)
    BY <1>3, <1>4, <1>5, PersistFresh
  <1>7. NewIdsAreFree'
    BY <1>3, <1>6 DEF NewIdsAreFree
  <1>8. \A k \in Ids : jobs'[k].state = "running" <=> js[k].state = "running"
    BY <1>2, NoEntryType DEF Finished
  <1>9. QED
    BY <1>2, <1>7, <1>8

\* A change of one entry that was there keeps new ids free.
LEMMA OneEntryFresh ==
    ASSUME IInv, NEW i \in Ids, jobs[i].state # "none", NEW e \in Entries
    PROVE  /\ [jobs EXCEPT ![i] = e] \in [Ids -> Entries]
           /\ Fresh([jobs EXCEPT ![i] = e], next)
  BY DEF IInv, TypeOK, NewIdsAreFree, Fresh

\* A settled change of an entry that is not running, to a state that is not
\* running either, keeps the invariant.
LEMMA SettleOneIInv ==
    ASSUME IInv, up, NEW i \in Ids, NEW e \in Entries,
           jobs[i].state \notin {"none", "running"}, e.state # "running",
           Settle([jobs EXCEPT ![i] = e], i),
           partial' \subseteq Targets,
           UNCHANGED <<up, launches, next, pushes, running, stopping, worker,
                       saying, file>>
    PROVE  IInv'
  <1> DEFINE js == [jobs EXCEPT ![i] = e]
  <1>1. js \in [Ids -> Entries] /\ Fresh(js, next)
    BY OneEntryFresh
  <1>2. \A k \in Ids : js[k].state = "running" <=> jobs[k].state = "running"
    BY DEF IInv, TypeOK
  <1> HIDE DEF js
  <1>3. Settle(js, i) /\ next' = next
    BY DEF js
  <1>4. /\ jobs' \in [Ids -> Entries] /\ store' \in Stored
        /\ heard' \in [Ids -> Words] /\ NewIdsAreFree'
        /\ \A k \in Ids : jobs'[k].state = "running" <=> js[k].state = "running"
    BY <1>1, <1>3, SettleIInv
  <1>5. TypeOK'
    BY <1>4 DEF IInv, TypeOK
  <1>6. OneExport' /\ Down'
    BY <1>2, <1>4 DEF IInv, OneExport, Down
  <1>7. QED
    BY <1>4, <1>5, <1>6 DEF IInv

LEMMA TellIInv ==
    ASSUME IInv, NEW c \in Callers, Tell(c)
    PROVE  IInv'
  <1>1. saying[c] \in [id: 0..MaxJobs, word: Words]
    BY DEF IInv, TypeOK
  <1>2. TypeOK'
    <2>1. heard' \in [Ids -> Words]
      BY <1>1 DEF IInv, TypeOK, Tell
    <2>2. saying' \in [Callers \cup {Worker} -> [id: 0..MaxJobs, word: Words]]
      BY SilentType DEF IInv, TypeOK, Tell
    <2>3. worker' \in Runs \cup {"scan", "parked", "exited"}
      BY DEF IInv, TypeOK, Tell, Wake
    <2>4. QED
      BY <2>1, <2>2, <2>3 DEF IInv, TypeOK, Tell, memory, files
  <1>3. worker' \in Runs <=> worker \in Runs
    BY DEF Tell, Wake, Runs
  <1>4. up' /\ up
    BY DEF Tell
  <1>5. OneExport' /\ Down' /\ NewIdsAreFree'
    BY <1>3, <1>4 DEF IInv, OneExport, Down, NewIdsAreFree, Tell, memory
  <1>6. QED
    BY <1>2, <1>5 DEF IInv

LEMMA CancelRunningIInv ==
    ASSUME IInv, NEW c \in Callers, NEW i \in Ids, CancelRunning(c, i)
    PROVE  IInv'
  <1>1. /\ running' \in [id: 0..MaxJobs, cancelled: BOOLEAN, token: BOOLEAN]
        /\ running'.id = running.id
    BY DEF IInv, TypeOK, CancelRunning
  <1>2. TypeOK'
    BY <1>1 DEF IInv, TypeOK, CancelRunning, files
  <1>3. OneExport' /\ Down' /\ NewIdsAreFree'
    BY <1>1 DEF IInv, OneExport, Down, NewIdsAreFree, CancelRunning
  <1>4. QED
    BY <1>2, <1>3 DEF IInv

LEMMA CancelWaitingIInv ==
    ASSUME IInv, NEW c \in Callers, NEW i \in Ids, CancelWaiting(c, i)
    PROVE  IInv'
  <1> DEFINE e == Ended(jobs[i], "cancelled")
  <1>1. jobs[i] \in Entries /\ "cancelled" \in States
    BY DEF IInv, TypeOK, States, Finished
  <1>2. e \in Entries /\ e.state = "cancelled"
    BY <1>1, EndedType
  <1> HIDE DEF e
  <1>3. Settle([jobs EXCEPT ![i] = e], i)
    BY DEF CancelWaiting, e
  <1>4. jobs[i].state \notin {"none", "running"}
    BY DEF CancelWaiting, CanCancel
  <1>5. partial' \subseteq Targets
    BY DEF CancelWaiting, files, IInv, TypeOK
  <1>6. UNCHANGED <<up, launches, next, pushes, running, stopping, worker,
                    saying, file>>
    BY DEF CancelWaiting, files
  <1>7. e.state # "running" /\ up
    BY <1>2 DEF CancelWaiting, Free
  <1>8. QED
    BY <1>2, <1>3, <1>4, <1>5, <1>6, <1>7, SettleOneIInv

LEMMA DiscardIInv ==
    ASSUME IInv, NEW c \in Callers, NEW i \in Ids, Discard(c, i)
    PROVE  IInv'
  <1> DEFINE e == Ended(jobs[i], "cancelled")
  <1>1. jobs[i] \in Entries /\ "cancelled" \in States
    BY DEF IInv, TypeOK, States, Finished
  <1>2. e \in Entries /\ e.state = "cancelled"
    BY <1>1, EndedType
  <1> HIDE DEF e
  <1>3. Settle([jobs EXCEPT ![i] = e], i)
    BY DEF Discard, e
  <1>4. jobs[i].state \notin {"none", "running"}
    BY DEF Discard
  <1>5. partial' \subseteq Targets
    BY DEF Discard, IInv, TypeOK
  <1>6. UNCHANGED <<up, launches, next, pushes, running, stopping, worker,
                    saying, file>>
    BY DEF Discard
  <1>7. e.state # "running" /\ up
    BY <1>2 DEF Discard, Free
  <1>8. QED
    BY <1>2, <1>3, <1>4, <1>5, <1>6, <1>7, SettleOneIInv

LEMMA ResumeIInv ==
    ASSUME IInv, NEW c \in Callers, NEW i \in Ids, Resume(c, i)
    PROVE  IInv'
  <1> DEFINE e == [jobs[i] EXCEPT !.state = "queued", !.place = pushes + 1]
             js == [jobs EXCEPT ![i] = e]
  <1>1. pushes + 1 \in 0..MaxPlace /\ jobs[i] \in Entries
    BY ConstantsAssumption DEF IInv, TypeOK, Resume
  <1>2. e \in Entries /\ e.state = "queued"
    BY <1>1 DEF Entries, States
  <1>3. jobs[i].state = "interrupted"
    BY DEF Resume
  <1> HIDE DEF e
  <1>4. js \in [Ids -> Entries] /\ Fresh(js, next)
    BY <1>2, <1>3, OneEntryFresh
  <1>5. /\ jobs' = js /\ Persist(js, next, pushes + 1)
        /\ saying' = [saying EXCEPT ![c] = Say(i, e)]
        /\ pushes' = pushes + 1 /\ pushes < MaxPlace
        /\ partial' = partial \ {jobs[i].target}
        /\ UNCHANGED <<up, launches, next, running, stopping, worker, file,
                       heard>>
    BY DEF Resume, e
  <1>6. TypeOK /\ next \in 1..MaxJobs + 1
    BY DEF IInv, TypeOK
  <1>7. /\ jobs' \in [Ids -> Entries] /\ store' \in Stored
        /\ saying' \in [Callers \cup {Worker} -> [id: 0..MaxJobs, word: Words]]
        /\ pushes + 1 \in 0..MaxPlace
    BY <1>2, <1>5, <1>6, PushType
  <1>8. TypeOK'
    BY <1>5, <1>6, <1>7 DEF TypeOK
  <1>9. up' /\ OneExport' /\ Down'
    BY <1>2, <1>3, <1>5, <1>6 DEF IInv, TypeOK, OneExport, Down, Resume, Free
  <1>10. Fresh(store.jobs, store.next)
    BY DEF IInv, NewIdsAreFree
  <1>11. Fresh(store'.jobs, store'.next)
    BY <1>4, <1>5, <1>10, PersistFresh
  <1>12. NewIdsAreFree'
    BY <1>4, <1>5, <1>11 DEF NewIdsAreFree
  <1>13. QED
    BY <1>8, <1>9, <1>12 DEF IInv

LEMMA ClearHistoryIInv ==
    ASSUME IInv, NEW c \in Callers, ClearHistory(c)
    PROVE  IInv'
  <1>1. /\ jobs' = Clear(jobs) /\ Persist(Clear(jobs), next, pushes)
        /\ UNCHANGED <<up, launches, next, pushes, running, stopping, worker,
                       saying, partial, file, heard>>
    BY DEF ClearHistory, files
  <1>2. jobs \in [Ids -> Entries] /\ store \in Stored
        /\ next \in 1..MaxJobs + 1 /\ pushes \in 0..MaxPlace
    BY DEF IInv, TypeOK
  <1>3. /\ Clear(jobs) \in [Ids -> Entries]
        /\ \A i \in Ids : \/ Clear(jobs)[i] = jobs[i]
                          \/ /\ Clear(jobs)[i] = NoEntry
                             /\ jobs[i].state \in Finished
    BY <1>2, ClearFacts
  <1>4. store' \in Stored
    BY <1>1, <1>2, <1>3, PersistType
  <1>5. TypeOK'
    BY <1>1, <1>3, <1>4 DEF IInv, TypeOK
  <1>6. \A k \in Ids : jobs'[k].state = "running" <=> jobs[k].state = "running"
    BY <1>1, <1>3, NoEntryType DEF Finished
  <1>7. up' /\ OneExport' /\ Down'
    BY <1>1, <1>6 DEF IInv, OneExport, Down, ClearHistory, Free
  <1>8. Fresh(jobs', next) /\ Fresh(store.jobs, store.next)
    BY <1>1, <1>3, NoEntryType DEF IInv, NewIdsAreFree, Fresh
  <1>9. Fresh(store'.jobs, store'.next)
    BY <1>1, <1>8, PersistFresh
  <1>10. NewIdsAreFree'
    BY <1>1, <1>8, <1>9 DEF NewIdsAreFree
  <1>11. QED
    BY <1>5, <1>7, <1>10 DEF IInv

\* Past Down, a worker that has not exited belongs to a running process.
LEMMA WorkerLives ==
    ASSUME IInv, worker # "exited"
    PROVE  up
  BY DEF IInv, Down

LEMMA StartIInv ==
    ASSUME IInv, NEW i \in Ids, Start(i)
    PROVE  IInv'
  <1> DEFINE e == [jobs[i] EXCEPT !.state = "running", !.stage = 0,
                                  !.fraction = 0]
             js == [jobs EXCEPT ![i] = e]
  <1>1. jobs[i] \in Entries /\ jobs[i].state = "queued" /\ worker = "scan"
    BY DEF IInv, TypeOK, Start, IsFirst, Waiting
  <1>2. e \in Entries /\ e.state = "running"
    BY <1>1, ZeroType DEF Entries, States
  <1> HIDE DEF e
  <1>3. js \in [Ids -> Entries] /\ Fresh(js, next)
    BY <1>1, <1>2, OneEntryFresh
  <1>4. /\ jobs' = js /\ Persist(js, next, pushes)
        /\ saying' = [saying EXCEPT ![Worker] = Say(i, e)]
        /\ worker' = "preparing"
        /\ UNCHANGED <<up, launches, next, pushes, stopping, partial, file,
                       heard>>
    BY DEF Start, e, files
  <1>5. running' \in [id: 0..MaxJobs, cancelled: BOOLEAN, token: BOOLEAN]
        /\ running'.id = i
    BY ConstantsAssumption DEF Start, Ids
  <1>6. store' \in Stored
    BY <1>3, <1>4, PersistType DEF IInv, TypeOK
  <1>7. saying' \in [Callers \cup {Worker} -> [id: 0..MaxJobs, word: Words]]
    <2>1. Say(i, e) \in [id: 0..MaxJobs, word: Words]
      BY <1>2, WordType
    <2>2. QED
      BY <1>4, <2>1 DEF IInv, TypeOK
  <1>8. TypeOK'
    BY <1>3, <1>4, <1>5, <1>6, <1>7 DEF IInv, TypeOK, Runs
  <1>9. up
    BY <1>1, WorkerLives
  <1>10. running.id = 0 /\ \A k \in Ids : jobs[k].state # "running"
    BY <1>1 DEF IInv, OneExport, Runs, Ids
  <1>11. OneExport' /\ Down'
    <2>1. \A k \in Ids : jobs'[k].state = "running" <=> k = i
      BY <1>2, <1>4, <1>10 DEF IInv, TypeOK
    <2>2. i # 0 /\ worker' \in Runs
      BY <1>4 DEF Ids, Runs
    <2>3. QED
      BY <1>4, <1>5, <1>9, <2>1, <2>2 DEF OneExport, Down
  <1>12. Fresh(store.jobs, store.next)
    BY DEF IInv, NewIdsAreFree
  <1>13. Fresh(store'.jobs, store'.next)
    BY <1>3, <1>4, <1>12, PersistFresh
  <1>14. NewIdsAreFree'
    BY <1>3, <1>4, <1>13 DEF NewIdsAreFree
  <1>15. QED
    BY <1>8, <1>11, <1>14 DEF IInv

LEMMA RefuseIInv ==
    ASSUME IInv, NEW i \in Ids, Refuse(i)
    PROVE  IInv'
  <1> DEFINE e == Ended(jobs[i], "failed")
  <1>1. jobs[i] \in Entries /\ "failed" \in States
    BY DEF IInv, TypeOK, States, Finished
  <1>2. e \in Entries /\ e.state = "failed"
    BY <1>1, EndedType
  <1> HIDE DEF e
  <1>3. Settle([jobs EXCEPT ![i] = e], i)
    BY DEF Refuse, e
  <1>4. jobs[i].state \notin {"none", "running"}
    BY DEF Refuse, IsFirst, Waiting
  <1>5. partial' \subseteq Targets
    BY DEF Refuse, files, IInv, TypeOK
  <1>6. UNCHANGED <<up, launches, next, pushes, running, stopping, worker,
                    saying, file>>
    BY DEF Refuse, files
  <1>7. e.state # "running" /\ up
    BY <1>2, WorkerLives DEF Refuse
  <1>8. QED
    BY <1>2, <1>3, <1>4, <1>5, <1>6, <1>7, SettleOneIInv

\* Steps of the worker that only move it, outside a run.
LEMMA IdleIInv ==
    ASSUME IInv, Park \/ WakeUnasked \/ Quit
    PROVE  IInv'
  <1>1. /\ worker \in {"scan", "parked"}
        /\ worker' \in {"scan", "parked", "exited"}
        /\ UNCHANGED <<up, launches, jobs, next, pushes, running, stopping,
                       saying, store, partial, file, heard>>
    BY DEF Park, WakeUnasked, Quit, memory, files
  <1>2. TypeOK'
    BY <1>1 DEF IInv, TypeOK
  <1>3. up
    BY <1>1, WorkerLives
  <1>4. OneExport' /\ Down' /\ NewIdsAreFree'
    BY <1>1, <1>3 DEF IInv, OneExport, Down, NewIdsAreFree, Runs
  <1>5. QED
    BY <1>2, <1>4 DEF IInv

LEMMA WorkerTellsIInv ==
    ASSUME IInv, WorkerTells
    PROVE  IInv'
  <1>1. saying[Worker] \in [id: 0..MaxJobs, word: Words]
    BY DEF IInv, TypeOK
  <1>2. TypeOK'
    <2>1. heard' \in [Ids -> Words]
      BY <1>1 DEF IInv, TypeOK, WorkerTells
    <2>2. saying' \in [Callers \cup {Worker} -> [id: 0..MaxJobs, word: Words]]
      BY SilentType DEF IInv, TypeOK, WorkerTells
    <2>3. QED
      BY <2>1, <2>2 DEF IInv, TypeOK, WorkerTells, memory, files
  <1>3. OneExport' /\ Down' /\ NewIdsAreFree'
    BY DEF IInv, OneExport, Down, NewIdsAreFree, WorkerTells, memory
  <1>4. QED
    BY <1>2, <1>3 DEF IInv

LEMMA ProgressIInv ==
    ASSUME IInv, NEW stage \in Stages, NEW f \in Reported, Progress(stage, f)
    PROVE  IInv'
  <1> DEFINE i == running.id
             e == Metered(jobs[i], stage, f)
             js == [jobs EXCEPT ![i] = e]
  <1>1. worker \in Runs
    BY DEF Progress, Runs
  <1>2. i \in Ids
    BY <1>1, ConstantsAssumption DEF IInv, TypeOK, OneExport, Ids
  <1>3. up
    BY <1>1, WorkerLives DEF Runs
  <1>4. jobs[i] \in Entries /\ jobs[i].state = "running"
    BY <1>2 DEF IInv, TypeOK, Progress
  <1>5. e \in Entries /\ e.state = "running"
    BY <1>4, MeteredType
  <1>6. /\ jobs' = js
        /\ saying' = [saying EXCEPT ![Worker] = Say(i, e)]
        /\ UNCHANGED <<up, launches, next, pushes, running, stopping, worker,
                       store, partial, file, heard>>
    BY DEF Progress, files
  <1>7. running' = running
    BY <1>6
  <1> HIDE DEF e, i
  <1>8. js \in [Ids -> Entries] /\ Fresh(js, next)
    BY <1>2, <1>4, <1>5, OneEntryFresh
  <1>9. Say(i, e) \in [id: 0..MaxJobs, word: Words]
    BY <1>2, <1>5, WordType
  <1>10. TypeOK'
    BY <1>6, <1>8, <1>9 DEF IInv, TypeOK
  <1>11. \A k \in Ids : jobs'[k].state = "running" <=> jobs[k].state = "running"
    BY <1>2, <1>4, <1>5, <1>6 DEF IInv, TypeOK
  <1>12. OneExport' /\ Down'
    BY <1>3, <1>6, <1>11 DEF IInv, OneExport, Down
  <1>13. NewIdsAreFree'
    BY <1>6, <1>8 DEF IInv, NewIdsAreFree
  <1>14. QED
    BY <1>10, <1>12, <1>13 DEF IInv

\* The runner moves the worker within its run, and the files with it.
LEMMA RunnerIInv ==
    ASSUME IInv, Runner
    PROVE  IInv'
  <1>1. /\ worker \in Runs /\ worker' \in Runs
        /\ UNCHANGED <<up, launches, jobs, next, pushes, stopping, saying,
                       store, heard>>
    BY DEF Runner, RunnerOpens, RunnerCommits, RunnerFails, RunnerReturns,
           RunnerAt, Runs, memory, files
  <1>2. running.id \in 1..MaxJobs
    BY <1>1, ConstantsAssumption DEF IInv, TypeOK, OneExport
  <1>3. Target \in Targets
    BY <1>2 DEF Target, IInv, TypeOK, Entries, Ids
  <1>4. partial' \subseteq Targets /\ file' \in [Targets -> 0..MaxJobs]
    <2>1. CASE RunnerOpens
      BY <2>1, <1>3 DEF RunnerOpens, IInv, TypeOK
    <2>2. CASE RunnerCommits
      BY <2>2, <1>2, <1>3, ConstantsAssumption DEF RunnerCommits, IInv, TypeOK
    <2>3. CASE RunnerFails
      BY <2>3 DEF RunnerFails, IInv, TypeOK
    <2>4. CASE RunnerReturns
      BY <2>4 DEF RunnerReturns, files, IInv, TypeOK
    <2>5. QED
      BY <2>1, <2>2, <2>3, <2>4 DEF Runner
  <1>5. /\ running' \in [id: 0..MaxJobs, cancelled: BOOLEAN, token: BOOLEAN]
        /\ running'.id = running.id
    <2>1. CASE RunnerFails
      <3>1. PICK trips \in BOOLEAN :
               running' = [running EXCEPT !.token = @ \/ trips]
        BY <2>1 DEF RunnerFails
      <3>2. running \in [id: 0..MaxJobs, cancelled: BOOLEAN, token: BOOLEAN]
        BY DEF IInv, TypeOK
      <3>3. (running.token \/ trips) \in BOOLEAN
        OBVIOUS
      <3>4. QED
        BY <3>1, <3>2, <3>3
    <2>2. CASE ~RunnerFails
      BY <2>2 DEF Runner, RunnerOpens, RunnerCommits, RunnerReturns, memory,
                  IInv, TypeOK
    <2>3. QED
      BY <2>1, <2>2
  <1>6. TypeOK'
    BY <1>1, <1>4, <1>5 DEF IInv, TypeOK
  <1>7. up
    BY <1>1, WorkerLives DEF Runs
  <1>8. OneExport' /\ Down' /\ NewIdsAreFree'
    BY <1>1, <1>5, <1>7 DEF IInv, OneExport, Down, NewIdsAreFree
  <1>9. QED
    BY <1>6, <1>8 DEF IInv

\* Whatever a run comes to, it is an end.
LEMMA OutcomeType ==
    Outcome \in {"completed", "interrupted", "cancelled", "failed"}
  BY DEF Outcome

LEMMA RecordIInv ==
    ASSUME IInv, Record
    PROVE  IInv'
  <1> DEFINE i == running.id
             e == Recorded(jobs[i], Outcome)
             js == [jobs EXCEPT ![i] = e]
  <1>1. worker \in Runs /\ worker # "exited"
    BY DEF Record, Runs
  <1>2. i \in Ids
    BY <1>1, ConstantsAssumption DEF IInv, TypeOK, OneExport, Ids
  <1>3. jobs[i] \in Entries /\ jobs[i].state = "running"
    BY <1>2 DEF IInv, TypeOK, OneExport
  <1>4. Outcome \in States /\ Outcome # "running"
    BY OutcomeType DEF States, Finished
  <1>5. e \in Entries /\ e.state # "running"
    BY <1>3, <1>4, EndedType
  <1>6. \A k \in Ids : jobs[k].state = "running" <=> k = i
    BY <1>2 DEF IInv, OneExport
  <1>7. /\ Settle(js, i)
        /\ worker' = "scan" /\ running' = NoRun
        /\ UNCHANGED <<up, launches, next, pushes, stopping, saying, partial,
                       file>>
    BY DEF Record, files
  <1> HIDE DEF e, i
  <1>8. js \in [Ids -> Entries] /\ Fresh(js, next)
    BY <1>2, <1>3, <1>5, OneEntryFresh
  <1>9. \A k \in Ids : js[k].state # "running"
    BY <1>2, <1>5, <1>6 DEF IInv, TypeOK
  <1> HIDE DEF js
  <1>10. /\ jobs' \in [Ids -> Entries] /\ store' \in Stored
         /\ heard' \in [Ids -> Words]
         /\ NewIdsAreFree'
         /\ \A k \in Ids : jobs'[k].state = "running" <=> js[k].state = "running"
    BY <1>2, <1>7, <1>8, SettleIInv
  <1>11. running' \in [id: 0..MaxJobs, cancelled: BOOLEAN, token: BOOLEAN]
         /\ running'.id = 0
    BY <1>7, ConstantsAssumption DEF NoRun
  <1>12. TypeOK'
    BY <1>7, <1>10, <1>11 DEF IInv, TypeOK
  <1>13. up
    BY <1>1, WorkerLives
  <1>14. OneExport' /\ Down'
    BY <1>7, <1>9, <1>10, <1>11, <1>13 DEF OneExport, Down, Runs, Ids
  <1>15. QED
    BY <1>10, <1>12, <1>14 DEF IInv

LEMMA ShutdownIInv ==
    ASSUME IInv, Shutdown
    PROVE  IInv'
  <1>1. running \in [id: 0..MaxJobs, cancelled: BOOLEAN, token: BOOLEAN]
    BY DEF IInv, TypeOK
  <1>2. (running.id # 0) \in BOOLEAN
    OBVIOUS
  <1>3. running' = [running EXCEPT !.token = (running.id # 0)]
    BY DEF Shutdown
  <1>4. /\ running' \in [id: 0..MaxJobs, cancelled: BOOLEAN, token: BOOLEAN]
        /\ running'.id = running.id
    BY <1>1, <1>2, <1>3
  <1>5. stopping' \in BOOLEAN
    BY Zenon DEF Shutdown
  <1>6. worker' \in Runs \cup {"scan", "parked", "exited"}
        /\ (worker' \in Runs <=> worker \in Runs)
    BY DEF Shutdown, Wake, Runs, IInv, TypeOK
  <1>7. TypeOK'
    BY <1>4, <1>5, <1>6 DEF Shutdown, files, IInv, TypeOK
  <1>8. OneExport' /\ Down' /\ NewIdsAreFree'
    BY <1>4, <1>6 DEF IInv, OneExport, Down, NewIdsAreFree, Shutdown
  <1>9. QED
    BY <1>7, <1>8 DEF IInv

\* The process ends, of itself or not: nothing of it is left in memory.
LEMMA GoneIInv ==
    ASSUME IInv, Gone
    PROVE  IInv'
  <1>1. jobs' \in [Ids -> Entries] /\ \A i \in Ids : jobs'[i].state = "none"
    BY NoEntryType DEF Gone, EmptyStore
  <1>2. running' \in [id: 0..MaxJobs, cancelled: BOOLEAN, token: BOOLEAN]
        /\ running'.id = 0
    BY ConstantsAssumption DEF Gone, NoRun
  <1>3. saying' \in [Callers \cup {Worker} -> [id: 0..MaxJobs, word: Words]]
    BY SilentType DEF Gone
  <1>4. up' \in BOOLEAN /\ stopping' \in BOOLEAN /\ worker' = "exited"
    BY Zenon DEF Gone
  <1>5. next' \in 1..MaxJobs + 1 /\ pushes' \in 0..MaxPlace
    BY ConstantsAssumption DEF Gone
  <1>6. UNCHANGED <<launches, store, partial, file, heard>>
    BY DEF Gone, files
  <1>7. TypeOK'
    BY <1>1, <1>2, <1>3, <1>4, <1>5, <1>6 DEF IInv, TypeOK
  <1>8. OneExport' /\ Down'
    BY <1>1, <1>2, <1>4 DEF OneExport, Down, Runs, Ids
  <1>9. NewIdsAreFree'
    BY <1>1, <1>6 DEF IInv, NewIdsAreFree, Fresh
  <1>10. QED
    BY <1>7, <1>8, <1>9 DEF IInv

LEMMA OpenIInv ==
    ASSUME IInv, Open
    PROVE  IInv'
  <1> DEFINE loaded == IF store.readable THEN store ELSE EmptyStore
             js == Interrupt(loaded.jobs)
  <1>1. loaded \in Stored
    BY EmptyStoreType DEF IInv, TypeOK
  <1>2. /\ loaded.jobs \in [Ids -> Entries]
        /\ loaded.next \in 1..MaxJobs + 1 /\ loaded.pushes \in 0..MaxPlace
    BY <1>1 DEF Stored
  <1>3. Fresh(loaded.jobs, loaded.next)
    BY NoEntryType DEF IInv, NewIdsAreFree, Fresh, EmptyStore
  <1>4. /\ jobs' = js /\ next' = loaded.next /\ pushes' = loaded.pushes
        /\ Persist(js, loaded.next, loaded.pushes)
        /\ heard' = [i \in Ids |-> WordOf(js[i])]
        /\ worker' = "scan" /\ launches' = launches + 1
        /\ UNCHANGED <<running, stopping, saying, partial, file>>
    BY DEF Open, files
  <1> HIDE DEF loaded
  <1>5. /\ js \in [Ids -> Entries]
        /\ \A i \in Ids : js[i].state \notin {"queued", "running"}
    BY <1>2, InterruptFacts
  <1>6. Fresh(js, loaded.next)
    BY <1>3 DEF Fresh, Interrupt
  <1> HIDE DEF js
  <1>7. store' \in Stored
    BY <1>2, <1>4, <1>5, PersistType DEF IInv, TypeOK
  <1>8. heard' \in [Ids -> Words]
    BY <1>4, <1>5, WordType
  <1>9. launches' \in 0..MaxLaunches
    BY <1>4, ConstantsAssumption DEF Open, IInv, TypeOK
  <1>10. up' /\ up' \in BOOLEAN
    BY Zenon DEF Open
  <1>11. TypeOK'
    BY <1>2, <1>4, <1>5, <1>7, <1>8, <1>9, <1>10 DEF IInv, TypeOK
  <1>12. running.id = 0
    BY DEF IInv, Down, Open
  <1>13. OneExport' /\ Down'
    BY <1>4, <1>5, <1>10, <1>12 DEF OneExport, Down, Runs, Ids
  <1>14. NewIdsAreFree'
    <2>1. Fresh(store.jobs, store.next)
      BY DEF IInv, NewIdsAreFree
    <2>2. Fresh(store'.jobs, store'.next)
      BY <1>4, <1>6, <2>1, PersistFresh
    <2>3. QED
      BY <1>4, <1>6, <2>2 DEF NewIdsAreFree
  <1>15. QED
    BY <1>11, <1>13, <1>14 DEF IInv

LEMMA StutterIInv ==
    ASSUME IInv, UNCHANGED vars
    PROVE  IInv'
  BY DEF IInv, TypeOK, OneExport, Down, NewIdsAreFree, vars, memory, files

LEMMA NextIInv ==
    ASSUME IInv, [Next]_vars
    PROVE  IInv'
  <1>1. CASE UNCHANGED vars
    BY <1>1, StutterIInv
  <1>2. CASE \E c \in Callers : Command(c)
    BY <1>2, SubmitIInv, TellIInv, CancelRunningIInv, CancelWaitingIInv,
       ResumeIInv, DiscardIInv, ClearHistoryIInv DEF Command
  <1>3. CASE WorkerStep
    BY <1>3, StartIInv, RefuseIInv, IdleIInv, WorkerTellsIInv, RunnerIInv,
       RecordIInv DEF WorkerStep
  <1>4. CASE WakeUnasked
    BY <1>4, IdleIInv
  <1>5. CASE \E stage \in Stages, f \in Reported : Progress(stage, f)
    BY <1>5, ProgressIInv
  <1>6. CASE Shutdown
    BY <1>6, ShutdownIInv
  <1>7. CASE Exit \/ Crash
    BY <1>7, GoneIInv DEF Exit, Crash
  <1>8. CASE Open
    BY <1>8, OpenIInv
  <1>9. QED
    BY <1>1, <1>2, <1>3, <1>4, <1>5, <1>6, <1>7, <1>8 DEF Next

LEMMA Invariance == Spec => []IInv
  <1>1. Init => IInv
    BY InitIInv
  <1>2. IInv /\ [Next]_vars => IInv'
    BY NextIInv
  <1>3. QED
    BY <1>1, <1>2, PTL DEF Spec

\* Every variable of the queue keeps its shape, for any number of jobs,
\* callers and launches.
THEOREM TypeCorrect == Spec => []TypeOK
  <1>1. IInv => TypeOK
    BY DEF IInv
  <1>2. QED
    BY <1>1, Invariance, PTL

\* One export at a time: a job is recorded as running exactly while the
\* worker runs it, whatever callers, shutdowns and crashes come between.
THEOREM OneExportAtATime == Spec => []OneExport
  <1>1. IInv => OneExport
    BY DEF IInv
  <1>2. QED
    BY <1>1, Invariance, PTL

-----------------------------------------------------------------------------
(* What a step may do to a job: one that finished is left or forgotten; one  *)
(* that runs goes on, or ends as Outcome says.                               *)

StateSteps ==
    \A k \in Ids :
        /\ jobs[k].state \in Finished => jobs'[k].state \in {jobs[k].state, "none"}
        /\ (jobs[k].state = "running" /\ up') =>
              jobs'[k].state \in {"running", Outcome, "none"}

LEMMA UnchangedSteps ==
    ASSUME UNCHANGED jobs
    PROVE  StateSteps
  BY DEF StateSteps

\* An entry that neither ran nor had finished is replaced.
LEMMA ReplaceSteps ==
    ASSUME IInv, NEW i \in Ids, NEW e,
           jobs[i].state \notin Finished \cup {"running"},
           jobs' = [jobs EXCEPT ![i] = e]
    PROVE  StateSteps
  BY DEF StateSteps, IInv, TypeOK

\* Such a replacement is settled.
LEMMA SettleSteps ==
    ASSUME IInv, NEW i \in Ids, NEW s \in States,
           jobs[i].state \notin Finished \cup {"running"},
           Settle([jobs EXCEPT ![i] = Ended(@, s)], i)
    PROVE  StateSteps
  <1> DEFINE e == Ended(jobs[i], s)
             js == [jobs EXCEPT ![i] = e]
  <1>1. TypeOK /\ jobs[i] \in Entries
    BY DEF IInv, TypeOK
  <1>2. e \in Entries
    BY <1>1, EndedType
  <1> HIDE DEF e
  <1>3. js \in [Ids -> Entries]
    BY <1>1, <1>2 DEF TypeOK
  <1>4. \A k \in Ids : k # i => js[k] = jobs[k]
    BY <1>1 DEF TypeOK
  <1>5. Settle(js, i)
    BY DEF e
  <1> HIDE DEF js
  <1>6. \A k \in Ids : \/ jobs'[k] = js[k]
                       \/ jobs'[k] = NoEntry /\ js[k].state \in Finished
    BY <1>1, <1>3, <1>5, SettleFacts
  <1>7. QED
    BY <1>4, <1>6, NoEntryType DEF StateSteps

LEMMA CommandSteps ==
    ASSUME IInv, NEW c \in Callers, Command(c)
    PROVE  StateSteps
  <1>1. CASE \E t \in Targets, o \in BOOLEAN : Submit(c, t, o)
    <2>1. PICK t \in Targets, o \in BOOLEAN : Submit(c, t, o)
      BY <1>1
    <2>2. next \in Ids /\ jobs[next].state = "none"
      BY <2>1, ConstantsAssumption
      DEF Submit, IInv, TypeOK, NewIdsAreFree, Fresh, Ids
    <2>3. PICK e : jobs' = [jobs EXCEPT ![next] = e]
      BY <2>1 DEF Submit
    <2>4. QED
      BY <2>2, <2>3, ReplaceSteps DEF Finished
  <1>2. CASE Tell(c) \/ \E i \in Ids : CancelRunning(c, i)
    BY <1>2, UnchangedSteps DEF Tell, CancelRunning, memory
  <1>3. CASE \E i \in Ids : CancelWaiting(c, i)
    <2>1. PICK i \in Ids : CancelWaiting(c, i)
      BY <1>3
    <2>2. jobs[i].state \notin Finished \cup {"running"}
      BY <2>1 DEF CancelWaiting, CanCancel, Finished
    <2>3. Settle([jobs EXCEPT ![i] = Ended(@, "cancelled")], i)
      BY <2>1 DEF CancelWaiting
    <2>4. QED
      BY <2>2, <2>3, SettleSteps DEF States, Finished
  <1>4. CASE \E i \in Ids : Resume(c, i)
    <2>1. PICK i \in Ids : Resume(c, i)
      BY <1>4
    <2>2. jobs[i].state \notin Finished \cup {"running"}
      BY <2>1 DEF Resume, Finished
    <2>3. PICK e : jobs' = [jobs EXCEPT ![i] = e]
      BY <2>1 DEF Resume
    <2>4. QED
      BY <2>2, <2>3, ReplaceSteps
  <1>5. CASE \E i \in Ids : Discard(c, i)
    <2>1. PICK i \in Ids : Discard(c, i)
      BY <1>5
    <2>2. jobs[i].state \notin Finished \cup {"running"}
      BY <2>1 DEF Discard, Finished
    <2>3. Settle([jobs EXCEPT ![i] = Ended(@, "cancelled")], i)
      BY <2>1 DEF Discard
    <2>4. QED
      BY <2>2, <2>3, SettleSteps DEF States, Finished
  <1>6. CASE ClearHistory(c)
    <2>1. jobs' = Clear(jobs) /\ jobs \in [Ids -> Entries]
      BY <1>6 DEF ClearHistory, IInv, TypeOK
    <2>2. \A i \in Ids : \/ jobs'[i] = jobs[i]
                         \/ jobs'[i] = NoEntry /\ jobs[i].state \in Finished
      BY <2>1, ClearFacts
    <2>3. QED
      BY <2>2, NoEntryType DEF StateSteps, Finished
  <1>7. QED
    BY <1>1, <1>2, <1>3, <1>4, <1>5, <1>6 DEF Command

LEMMA RecordSteps ==
    ASSUME IInv, Record
    PROVE  StateSteps
  <1> DEFINE i == running.id
             e == Recorded(jobs[i], Outcome)
             js == [jobs EXCEPT ![i] = e]
  <1>1. i \in Ids
    BY ConstantsAssumption DEF IInv, TypeOK, OneExport, Record, Runs, Ids
  <1>2. TypeOK /\ jobs[i] \in Entries /\ jobs[i].state = "running"
    BY <1>1 DEF IInv, TypeOK, OneExport
  <1>3. Outcome \in States
    BY OutcomeType DEF States, Finished
  <1>4. e \in Entries /\ e.state = Outcome
    BY <1>2, <1>3, EndedType
  <1>5. Settle(js, i)
    BY DEF Record
  <1> HIDE DEF e, i
  <1>6. js \in [Ids -> Entries]
    BY <1>1, <1>2, <1>4 DEF TypeOK
  <1>7. js[i] = e /\ \A k \in Ids : k # i => js[k] = jobs[k]
    BY <1>1, <1>2 DEF TypeOK
  <1> HIDE DEF js
  <1>8. \A k \in Ids : \/ jobs'[k] = js[k]
                       \/ jobs'[k] = NoEntry /\ js[k].state \in Finished
    BY <1>1, <1>2, <1>5, <1>6, SettleFacts
  <1>9. \A k \in Ids : \/ jobs'[k].state = js[k].state
                       \/ jobs'[k].state = "none"
    BY <1>8, NoEntryType
  <1>10. SUFFICES ASSUME NEW k \in Ids
                  PROVE  /\ jobs[k].state \in Finished =>
                               jobs'[k].state \in {jobs[k].state, "none"}
                         /\ (jobs[k].state = "running" /\ up') =>
                               jobs'[k].state \in {"running", Outcome, "none"}
    BY DEF StateSteps
  <1>11. CASE k = i
    BY <1>2, <1>4, <1>7, <1>9, <1>11 DEF Finished
  <1>12. CASE k # i
    BY <1>7, <1>9, <1>12
  <1>13. QED
    BY <1>11, <1>12

LEMMA NextSteps ==
    ASSUME IInv, [Next]_vars
    PROVE  StateSteps
  <1>1. CASE UNCHANGED vars
    BY <1>1, UnchangedSteps DEF vars, memory
  <1>2. CASE \E c \in Callers : Command(c)
    BY <1>2, CommandSteps
  <1>3. CASE \E i \in Ids : Start(i)
    <2>1. PICK i \in Ids : Start(i)
      BY <1>3
    <2>2. jobs[i].state \notin Finished \cup {"running"}
      BY <2>1 DEF Start, IsFirst, Waiting, Finished
    <2>3. PICK e : jobs' = [jobs EXCEPT ![i] = e]
      BY <2>1 DEF Start
    <2>4. QED
      BY <2>2, <2>3, ReplaceSteps
  <1>4. CASE \E i \in Ids : Refuse(i)
    <2>1. PICK i \in Ids : Refuse(i)
      BY <1>4
    <2>2. jobs[i].state \notin Finished \cup {"running"}
      BY <2>1 DEF Refuse, IsFirst, Waiting, Finished
    <2>3. Settle([jobs EXCEPT ![i] = Ended(@, "failed")], i)
      BY <2>1 DEF Refuse
    <2>4. QED
      BY <2>2, <2>3, SettleSteps DEF States, Finished
  <1>5. CASE Record
    BY <1>5, RecordSteps
  <1>6. CASE \E stage \in Stages, f \in Reported : Progress(stage, f)
    <2>1. PICK stage \in Stages, f \in Reported : Progress(stage, f)
      BY <1>6
    <2>2. running.id \in Ids
      BY <2>1, ConstantsAssumption
      DEF Progress, IInv, TypeOK, OneExport, Runs, Ids
    <2>3. jobs[running.id] \in Entries /\ jobs[running.id].state = "running"
      BY <2>1, <2>2 DEF Progress, IInv, TypeOK
    <2>4. Metered(jobs[running.id], stage, f).state = "running"
      BY <2>3, MeteredType
    <2>5. jobs' = [jobs EXCEPT ![running.id] =
                      Metered(jobs[running.id], stage, f)]
      BY <2>1 DEF Progress
    <2>6. QED
      BY <2>2, <2>3, <2>4, <2>5 DEF StateSteps, IInv, TypeOK, Finished
  <1>7. CASE Park \/ Quit \/ WorkerTells \/ Runner \/ WakeUnasked \/ Shutdown
    BY <1>7, UnchangedSteps
    DEF Park, Quit, WorkerTells, Runner, RunnerOpens, RunnerCommits,
        RunnerFails, RunnerReturns, WakeUnasked, Shutdown, memory
  <1>8. CASE Exit \/ Crash
    <2>1. ~up' /\ jobs' = [i \in Ids |-> NoEntry]
      BY <1>8 DEF Exit, Crash, Gone, EmptyStore
    <2>2. QED
      BY <2>1, NoEntryType DEF StateSteps
  <1>9. CASE Open
    BY <1>9 DEF Open, IInv, Down, StateSteps, Finished
  <1>10. QED
    BY <1>1, <1>2, <1>3, <1>4, <1>5, <1>6, <1>7, <1>8, <1>9
    DEF Next, WorkerStep

\* A job that completed, failed or was cancelled is never given another
\* outcome: not by a command that comes late, nor by the worker, nor by a
\* launch.
THEOREM FinishedStays == Spec => FinishedForGood
  <1>1. StateSteps => \A i \in Ids : jobs[i].state \in Finished =>
                          jobs'[i].state \in {jobs[i].state, "none"}
    BY DEF StateSteps
  <1>2. IInv /\ [Next]_vars =>
           [\A i \in Ids : jobs[i].state \in Finished =>
                jobs'[i].state \in {jobs[i].state, "none"}]_vars
    BY <1>1, NextSteps
  <1>3. QED
    BY <1>2, Invariance, PTL DEF Spec, FinishedForGood

-----------------------------------------------------------------------------
(* A cancel is only ever asked of a job that runs. *)

CancelHasRun == running.cancelled => running.id \in Ids

LEMMA NobodyCancelled == ~NoRun.cancelled
  BY DEF NoRun

LEMMA NextCancelHasRun ==
    ASSUME IInv, CancelHasRun, [Next]_vars
    PROVE  CancelHasRun'
  <1>1. CASE running' = running
    BY <1>1 DEF CancelHasRun
  <1>2. CASE \E c \in Callers, i \in Ids : CancelRunning(c, i)
    BY <1>2 DEF CancelRunning, CancelHasRun, IInv, TypeOK
  <1>3. CASE \E i \in Ids : Start(i)
    BY <1>3 DEF Start, CancelHasRun
  <1>4. CASE Record \/ Exit \/ Crash
    <2>1. running' = NoRun
      BY <1>4 DEF Record, Exit, Crash, Gone
    <2>2. QED
      BY <2>1, NobodyCancelled DEF CancelHasRun
  <1>5. CASE RunnerFails \/ Shutdown
    <2>1. running'.cancelled = running.cancelled /\ running'.id = running.id
      BY <1>5 DEF RunnerFails, Shutdown, IInv, TypeOK
    <2>2. QED
      BY <2>1 DEF CancelHasRun
  <1>6. QED
    BY <1>1, <1>2, <1>3, <1>4, <1>5
    DEF Next, Command, WorkerStep, Runner, vars, memory, Submit, Tell,
        CancelWaiting, Resume, Discard, ClearHistory, Refuse, Park, Quit,
        WorkerTells, RunnerOpens, RunnerCommits, RunnerReturns, WakeUnasked,
        Progress, Open

\* A job the user cancelled while it ran is never recorded as failed.
THEOREM CancelledIsNotFailed == Spec => CancelIsNoFailure
  <1>1. Init => CancelHasRun
    BY NobodyCancelled DEF Init, CancelHasRun
  <1>2. IInv /\ CancelHasRun /\ StateSteps =>
           ((running.cancelled /\ up') => jobs'[running.id].state # "failed")
    <2>1. SUFFICES ASSUME IInv, CancelHasRun, StateSteps, running.cancelled, up'
                   PROVE  jobs'[running.id].state # "failed"
      OBVIOUS
    <2>2. running.id \in Ids /\ jobs[running.id].state = "running"
      BY <2>1 DEF CancelHasRun, IInv, OneExport
    <2>3. jobs'[running.id].state \in {"running", Outcome, "none"}
      BY <2>1, <2>2 DEF StateSteps
    <2>4. Outcome # "failed"
      BY <2>1 DEF Outcome
    <2>5. QED
      BY <2>3, <2>4
  <1>3. IInv /\ CancelHasRun /\ [Next]_vars => CancelHasRun'
    BY NextCancelHasRun
  <1>4. IInv /\ CancelHasRun /\ [Next]_vars =>
           [(running.cancelled /\ up') =>
               jobs'[running.id].state # "failed"]_vars
    BY <1>2, NextSteps
  <1>5. QED
    BY <1>1, <1>3, <1>4, Invariance, PTL DEF Spec, CancelIsNoFailure

\* What became of a job stands, whatever callers, crashes and stores do.
THEOREM OutcomeIsFinal == Spec => OutcomesStand
  <1>1. QED
    BY FinishedStays, CancelledIsNotFailed, PTL DEF OutcomesStand

-----------------------------------------------------------------------------
(* The history's bound *)

\* Two entries never share a place.
Apart(js) ==
    \A i, k \in Present(js) : js[i].place = js[k].place => i = k

LEMMA HistoryFinite ==
    ASSUME NEW S, S \subseteq Ids
    PROVE  IsFiniteSet(S) /\ Cardinality(S) \in Nat
  <1>1. IsFiniteSet(Ids)
    BY FS_Interval, ConstantsAssumption DEF Ids
  <1>2. QED
    BY <1>1, FS_Subset, FS_CardinalityType

\* An entry that lies after another has fewer entries after it.
LEMMA FewerLater ==
    ASSUME NEW js \in [Ids -> Entries], NEW i \in History(js),
           NEW k \in History(js), js[i].place < js[k].place
    PROVE  Cardinality(Later(js, k)) < Cardinality(Later(js, i))
  <1>1. js[i].place \in Nat /\ js[k].place \in Nat
    BY ConstantsAssumption DEF Entries, History
  <1>2. \A h \in History(js) : js[h].place \in Nat
    BY ConstantsAssumption DEF Entries, History
  <1>3. /\ Later(js, k) \subseteq Later(js, i) /\ Later(js, i) \subseteq Ids
        /\ k \in Later(js, i) /\ k \notin Later(js, k)
    BY <1>1, <1>2 DEF Later, History
  <1>4. IsFiniteSet(Later(js, i)) /\ Cardinality(Later(js, i)) \in Nat
    BY <1>3, HistoryFinite
  <1>5. /\ Cardinality(Later(js, k)) <= Cardinality(Later(js, i))
        /\ Cardinality(Later(js, k)) # Cardinality(Later(js, i))
    BY <1>3, <1>4, FS_Subset, Zenon
  <1>6. Cardinality(Later(js, k)) \in Nat
    BY <1>3, HistoryFinite
  <1>7. QED
    BY <1>4, <1>5, <1>6

\* Inner::trim: what is left of the history is within HISTORY_LIMIT, where no
\* two entries share a place: each has another number of entries after it,
\* and every number is below the limit.
LEMMA TrimBounds ==
    ASSUME NEW js \in [Ids -> Entries], Apart(js)
    PROVE  Cardinality(History(Trim(js))) <= HistoryLimit
  <1> DEFINE K == History(Trim(js))
             f == [i \in K |-> Cardinality(Later(js, i))]
             N == 0..HistoryLimit - 1
  <1>1. K = {i \in History(js) : ~(Cardinality(Later(js, i)) >= HistoryLimit)}
    BY NoEntryType DEF Trim, History, Finished
  <1>2. K \subseteq History(js) /\ K \subseteq Ids
    BY <1>1 DEF History
  <1>3. \A i \in K : Cardinality(Later(js, i)) \in N
    <2>1. \A i \in K : Later(js, i) \subseteq Ids
      BY DEF Later, History
    <2>2. \A i \in K : Cardinality(Later(js, i)) \in Nat
      BY <2>1, HistoryFinite
    <2>3. QED
      BY <1>1, <2>2, ConstantsAssumption
  <1>4. IsFiniteSet(N) /\ Cardinality(N) = HistoryLimit
    BY FS_Interval, ConstantsAssumption
  <1>5. IsFiniteSet(K) /\ Cardinality(K) \in Nat
    BY <1>2, HistoryFinite
  <1>6. \A i, k \in K : i # k => f[i] # f[k]
    <2>1. SUFFICES ASSUME NEW i \in K, NEW k \in K, i # k
                   PROVE  Cardinality(Later(js, i)) # Cardinality(Later(js, k))
      OBVIOUS
    <2>2. i \in Present(js) /\ k \in Present(js)
      BY <1>2 DEF History, Present, Finished
    <2>3. js[i].place # js[k].place
      BY <2>1, <2>2 DEF Apart
    <2>4. js[i].place \in Nat /\ js[k].place \in Nat
      BY <1>2, ConstantsAssumption DEF Entries
    <2>5. js[i].place < js[k].place \/ js[k].place < js[i].place
      BY <2>3, <2>4
    <2>6. /\ i \in History(js) /\ k \in History(js)
          /\ Cardinality(Later(js, i)) \in Int
          /\ Cardinality(Later(js, k)) \in Int
      BY <1>2, <1>3
    <2>7. \/ Cardinality(Later(js, i)) < Cardinality(Later(js, k))
          \/ Cardinality(Later(js, k)) < Cardinality(Later(js, i))
      BY <2>5, <2>6, FewerLater
    <2>8. QED
      BY <2>6, <2>7
  <1>7. f \in [K -> N]
    BY <1>3
  <1> HIDE DEF K, f, N
  <1>8. ~(Cardinality(N) < Cardinality(K))
    BY <1>4, <1>5, <1>6, <1>7, FS_PigeonHole, Zenon
  <1>9. QED
    BY <1>4, <1>5, <1>8, ConstantsAssumption DEF K

-----------------------------------------------------------------------------
(* What is kept of the jobs, in memory and in a file that can be read *)

Live == {"queued", "running", "interrupted"}

\* The entries a store may hold, `p` being the last place given
WellKept(js, p) ==
    /\ \A i \in Ids : js[i].state \in Live => js[i].spec
    /\ Cardinality(History(js)) <= HistoryLimit
    /\ Apart(js)
    /\ \A i \in Present(js) : js[i].place <= p

\* What lay at the path at the first launch was written by this queue, or
\* cannot be read.
OwnStores == \A s \in InitStores : s.readable => WellKept(s.jobs, s.pushes)

KInv ==
    /\ IInv /\ OwnStores
    /\ WellKept(jobs, pushes)
    /\ store.readable => WellKept(store.jobs, store.pushes)

LEMMA NothingKept ==
    ASSUME NEW p \in Nat
    PROVE  WellKept([i \in Ids |-> NoEntry], p)
  <1> DEFINE js == [i \in Ids |-> NoEntry]
  <1>1. \A i \in Ids : js[i].state = "none"
    BY NoEntryType
  <1> HIDE DEF js
  <1>2. History(js) = {} /\ Present(js) = {}
    BY <1>1 DEF History, Present, Finished
  <1>3. Cardinality(History(js)) <= HistoryLimit
    BY <1>2, FS_EmptySet, ConstantsAssumption
  <1>4. WellKept(js, p)
    BY <1>1, <1>2, <1>3 DEF WellKept, Live, Apart
  <1>5. QED
    BY <1>4 DEF js

\* What is persisted is kept in the file as it is in memory.
LEMMA PersistKept ==
    ASSUME KInv, NEW js, NEW n, NEW p, Persist(js, n, p), WellKept(js, p)
    PROVE  store'.readable => WellKept(store'.jobs, store'.pushes)
  <1>1. CASE UNCHANGED store
    BY <1>1 DEF KInv
  <1>2. CASE store' = [readable |-> TRUE, next |-> n, pushes |-> p, jobs |-> js]
    <2>1. store'.jobs = js /\ store'.pushes = p
      BY <1>2, Zenon
    <2>2. QED
      BY <2>1
  <1>3. QED
    BY <1>1, <1>2 DEF Persist

\* Entries of which some are forgotten, none moved, and none given a project,
\* while the history stays bounded
LEMMA FewerKept ==
    ASSUME NEW js \in [Ids -> Entries], NEW ks \in [Ids -> Entries],
           NEW p \in Nat, Apart(js),
           \A i \in Ids : js[i].state \in Live => js[i].spec,
           \A i \in Present(js) : js[i].place <= p,
           \A i \in Ids : ks[i] = js[i] \/ ks[i] = NoEntry,
           Cardinality(History(ks)) <= HistoryLimit
    PROVE  WellKept(ks, p)
  <1>1. \A i \in Ids : ks[i].state # "none" => ks[i] = js[i]
    BY NoEntryType
  <1>2. Present(ks) \subseteq Present(js)
    BY <1>1 DEF Present
  <1>3. Apart(ks)
    BY <1>1, <1>2 DEF Apart, Present
  <1>4. \A i \in Present(ks) : ks[i].place <= p
    BY <1>1, <1>2 DEF Present
  <1>5. \A i \in Ids : ks[i].state \in Live => ks[i].spec
    BY <1>1 DEF Live
  <1>6. QED
    BY <1>3, <1>4, <1>5 DEF WellKept

\* Entries changed where they are: each keeps its place, whether it is there,
\* and its project while it can run.
LEMMA SamePlaces ==
    ASSUME NEW js \in [Ids -> Entries], NEW ks \in [Ids -> Entries], NEW p,
           WellKept(js, p),
           \A i \in Ids : /\ ks[i].state = "none" <=> js[i].state = "none"
                          /\ js[i].state # "none" => ks[i].place = js[i].place
                          /\ ks[i].state \in Live => ks[i].spec
    PROVE  /\ Apart(ks)
           /\ \A i \in Present(ks) : ks[i].place <= p
           /\ \A i \in Ids : ks[i].state \in Live => ks[i].spec
  <1>1. Present(ks) = Present(js)
    BY DEF Present
  <1>2. \A i \in Present(js) : ks[i].place = js[i].place
    BY DEF Present
  <1>3. QED
    BY <1>1, <1>2 DEF WellKept, Apart

\* An entry in another state keeps its place.
LEMMA SamePlace ==
    ASSUME NEW e \in Entries, NEW s \in States
    PROVE  /\ Still(e, s).place = e.place
           /\ Ended(e, s).place = e.place /\ Recorded(e, s).place = e.place
  <1>1. Still(e, s) \in Entries /\ Still(e, s).place = e.place
    BY ZeroType DEF Still, Entries
  <1>2. Ended(e, s).place = e.place
    BY <1>1 DEF Ended, Entries
  <1>3. QED
    BY <1>1, <1>2 DEF Recorded

\* A push: the entry lies behind all others.
LEMMA PushKept ==
    ASSUME IInv, WellKept(jobs, pushes), NEW i \in Ids, NEW e \in Entries,
           jobs[i].state \notin Finished, e.state = "queued", e.spec,
           e.place = pushes + 1
    PROVE  WellKept([jobs EXCEPT ![i] = e], pushes + 1)
  <1> DEFINE js == [jobs EXCEPT ![i] = e]
  <1>1. jobs \in [Ids -> Entries] /\ pushes \in Nat
    BY ConstantsAssumption DEF IInv, TypeOK
  <1>2. js \in [Ids -> Entries] /\ js[i] = e
        /\ \A k \in Ids : k # i => js[k] = jobs[k]
    BY <1>1
  <1> HIDE DEF js
  <1>3. History(js) = History(jobs)
    BY <1>2 DEF History, Finished
  <1>4. \A k \in Ids : js[k].place \in Nat /\ jobs[k].place \in Nat
    BY <1>1, <1>2, ConstantsAssumption DEF Entries
  <1>5. \A k \in Present(js) : k # i => k \in Present(jobs) /\ js[k] = jobs[k]
    BY <1>2 DEF Present
  <1>6. \A k \in Present(js) : k # i => js[k].place <= pushes
    BY <1>5 DEF WellKept
  <1>7. \A k \in Present(js) : js[k].place <= pushes + 1
    BY <1>1, <1>2, <1>4, <1>6 DEF Present
  <1>8. Apart(js)
    <2>1. SUFFICES ASSUME NEW h \in Present(js), NEW k \in Present(js),
                          js[h].place = js[k].place, h # k
                   PROVE  FALSE
      BY DEF Apart
    <2>2. CASE h # i /\ k # i
      BY <1>5, <2>1, <2>2 DEF WellKept, Apart
    <2>3. CASE h = i \/ k = i
      BY <1>1, <1>2, <1>4, <1>6, <2>1, <2>3 DEF Present
    <2>4. QED
      BY <2>2, <2>3
  <1>9. \A k \in Ids : js[k].state \in Live => js[k].spec
    BY <1>2 DEF WellKept
  <1>10. WellKept(js, pushes + 1)
    BY <1>3, <1>7, <1>8, <1>9 DEF WellKept
  <1>11. QED
    BY <1>10 DEF js

\* An entry changed where it is
LEMMA ChangeKept ==
    ASSUME IInv, WellKept(jobs, pushes), NEW i \in Ids, NEW e \in Entries,
           jobs[i].state # "none", e.state # "none", e.place = jobs[i].place,
           e.state \in Live => e.spec
    PROVE  LET js == [jobs EXCEPT ![i] = e]
           IN  /\ WellKept(Trim(js), pushes)
               /\ {jobs[i].state, e.state} \cap Finished = {} =>
                     WellKept(js, pushes)
  <1> DEFINE js == [jobs EXCEPT ![i] = e]
  <1>1. jobs \in [Ids -> Entries] /\ pushes \in Nat
    BY ConstantsAssumption DEF IInv, TypeOK
  <1>2. js \in [Ids -> Entries] /\ js[i] = e
        /\ \A k \in Ids : k # i => js[k] = jobs[k]
    BY <1>1
  <1> HIDE DEF js
  <1>3. \A k \in Ids : /\ js[k].state = "none" <=> jobs[k].state = "none"
                       /\ jobs[k].state # "none" => js[k].place = jobs[k].place
                       /\ js[k].state \in Live => js[k].spec
    BY <1>2 DEF WellKept
  <1>4. /\ Apart(js) /\ \A k \in Present(js) : js[k].place <= pushes
        /\ \A k \in Ids : js[k].state \in Live => js[k].spec
    BY <1>1, <1>2, <1>3, SamePlaces
  <1>5. WellKept(Trim(js), pushes)
    <2>1. /\ Trim(js) \in [Ids -> Entries]
          /\ \A k \in Ids : Trim(js)[k] = js[k] \/ Trim(js)[k] = NoEntry
          /\ Cardinality(History(Trim(js))) <= HistoryLimit
      BY <1>2, <1>4, TrimFacts, TrimBounds
    <2> DEFINE ks == Trim(js)
    <2> HIDE DEF ks
    <2>2. /\ ks \in [Ids -> Entries]
          /\ \A k \in Ids : ks[k] = js[k] \/ ks[k] = NoEntry
          /\ Cardinality(History(ks)) <= HistoryLimit
      BY <2>1 DEF ks
    <2>3. WellKept(ks, pushes)
      BY <1>1, <1>2, <1>4, <2>2, FewerKept
    <2>4. QED
      BY <2>3 DEF ks
  <1>6. ASSUME {jobs[i].state, e.state} \cap Finished = {}
        PROVE  WellKept(js, pushes)
    <2>1. History(js) = History(jobs)
      BY <1>2, <1>6 DEF History
    <2>2. QED
      BY <1>4, <2>1 DEF WellKept
  <1>7. QED
    BY <1>5, <1>6 DEF js

\* open: what was interrupted can be taken up.
LEMMA InterruptKept ==
    ASSUME NEW js \in [Ids -> Entries], NEW p, WellKept(js, p)
    PROVE  WellKept(Interrupt(js), p)
  <1> DEFINE ks == Interrupt(js)
  <1>1. ks \in [Ids -> Entries]
    BY InterruptFacts
  <1>2. \A i \in Ids : \/ ks[i] = js[i]
                       \/ /\ js[i].state \in {"queued", "running"}
                          /\ ks[i].state = "interrupted"
                          /\ ks[i].place = js[i].place
                          /\ ks[i].spec = js[i].spec
    <2>1. SUFFICES ASSUME NEW i \in Ids, js[i].state \in {"queued", "running"}
                   PROVE  /\ ks[i].state = "interrupted"
                          /\ ks[i].place = js[i].place
                          /\ ks[i].spec = js[i].spec
      BY DEF Interrupt
    <2>2. "interrupted" \in States
      BY DEF States
    <2>3. ks[i] = Still(js[i], "interrupted")
      BY <2>1 DEF Interrupt
    <2>4. QED
      BY <2>2, <2>3, StillType, SamePlace
  <1> HIDE DEF ks
  <1>3. History(ks) = History(js)
    BY <1>2 DEF History, Finished
  <1>4. \A i \in Ids : /\ ks[i].state = "none" <=> js[i].state = "none"
                       /\ js[i].state # "none" => ks[i].place = js[i].place
                       /\ ks[i].state \in Live => ks[i].spec
    BY <1>2 DEF WellKept, Live
  <1>5. /\ Apart(ks) /\ \A i \in Present(ks) : ks[i].place <= p
        /\ \A i \in Ids : ks[i].state \in Live => ks[i].spec
    BY <1>1, <1>4, SamePlaces
  <1>6. WellKept(ks, p)
    BY <1>3, <1>5 DEF WellKept
  <1>7. QED
    BY <1>6 DEF ks

LEMMA InitKInv == OwnStores /\ Init => KInv
  <1> SUFFICES ASSUME OwnStores, Init PROVE KInv
    OBVIOUS
  <1>1. jobs = [i \in Ids |-> NoEntry] /\ pushes = 0
    BY DEF Init, EmptyStore
  <1>2. WellKept(jobs, pushes)
    BY <1>1, NothingKept
  <1>3. store.readable => WellKept(store.jobs, store.pushes)
    BY DEF Init, OwnStores
  <1>4. QED
    BY <1>2, <1>3, InitIInv DEF KInv

\* settle, of an entry that was there
LEMMA SettleKept ==
    ASSUME KInv, NEW i \in Ids, NEW e \in Entries, jobs[i].state # "none",
           e.state # "none", e.place = jobs[i].place, e.state \in Live => e.spec,
           Settle([jobs EXCEPT ![i] = e], i), pushes' = pushes
    PROVE  /\ WellKept(jobs', pushes')
           /\ store'.readable => WellKept(store'.jobs, store'.pushes)
  <1>1. IInv /\ WellKept(jobs, pushes)
    BY DEF KInv
  <1>2. WellKept(Trim([jobs EXCEPT ![i] = e]), pushes)
    BY <1>1, ChangeKept
  <1>3. WellKept(jobs', pushes) /\ Persist(jobs', next, pushes)
    BY <1>2 DEF Settle
  <1>4. QED
    BY <1>3, PersistKept

\* cancel, discard and a refusal end a job that waited.
LEMMA EndKept ==
    ASSUME KInv, NEW i \in Ids, NEW s \in Finished, jobs[i].state # "none",
           Settle([jobs EXCEPT ![i] = Ended(@, s)], i), pushes' = pushes
    PROVE  /\ WellKept(jobs', pushes')
           /\ store'.readable => WellKept(store'.jobs, store'.pushes)
  <1> DEFINE e == Ended(jobs[i], s)
  <1>1. jobs[i] \in Entries /\ s \in States
    BY DEF KInv, IInv, TypeOK, States
  <1>2. e \in Entries /\ e.state = s /\ e.place = jobs[i].place
    BY <1>1, EndedType, SamePlace
  <1>3. Settle([jobs EXCEPT ![i] = e], i)
    OBVIOUS
  <1> HIDE DEF e
  <1>4. e.state # "none" /\ e.state \notin Live
    BY <1>2 DEF Finished, Live
  <1>5. QED
    BY <1>2, <1>3, <1>4, SettleKept

LEMMA SubmitKept ==
    ASSUME KInv, NEW c \in Callers, NEW t \in Targets, NEW o \in BOOLEAN,
           Submit(c, t, o)
    PROVE  /\ WellKept(jobs', pushes')
           /\ store'.readable => WellKept(store'.jobs, store'.pushes)
  <1> DEFINE e == [NoEntry EXCEPT !.place = pushes + 1, !.target = t,
                                  !.overwrite = o, !.state = "queued",
                                  !.spec = TRUE]
  <1>1. pushes + 1 \in 0..MaxPlace /\ next \in Ids
    BY ConstantsAssumption DEF KInv, IInv, TypeOK, Submit, Ids
  <1>2. e \in Entries /\ e.state = "queued" /\ e.spec /\ e.place = pushes + 1
    BY <1>1, NoEntryType DEF Entries, States
  <1>3. jobs[next].state \notin Finished
    BY <1>1 DEF KInv, IInv, NewIdsAreFree, Fresh, Ids, Finished
  <1>4. /\ jobs' = [jobs EXCEPT ![next] = e] /\ pushes' = pushes + 1
        /\ Persist([jobs EXCEPT ![next] = e], next + 1, pushes + 1)
    BY DEF Submit
  <1> HIDE DEF e
  <1>5. WellKept([jobs EXCEPT ![next] = e], pushes + 1)
    BY <1>1, <1>2, <1>3, PushKept DEF KInv
  <1>6. QED
    BY <1>4, <1>5, PersistKept

LEMMA ResumeKept ==
    ASSUME KInv, NEW c \in Callers, NEW i \in Ids, Resume(c, i)
    PROVE  /\ WellKept(jobs', pushes')
           /\ store'.readable => WellKept(store'.jobs, store'.pushes)
  <1> DEFINE e == [jobs[i] EXCEPT !.state = "queued", !.place = pushes + 1]
  <1>1. pushes + 1 \in 0..MaxPlace /\ jobs[i] \in Entries
    BY ConstantsAssumption DEF KInv, IInv, TypeOK, Resume
  <1>2. jobs[i].state = "interrupted" /\ jobs[i].spec
    BY DEF Resume, KInv, WellKept, Live
  <1>3. e \in Entries /\ e.state = "queued" /\ e.spec /\ e.place = pushes + 1
    BY <1>1, <1>2 DEF Entries, States
  <1>4. /\ jobs' = [jobs EXCEPT ![i] = e] /\ pushes' = pushes + 1
        /\ Persist([jobs EXCEPT ![i] = e], next, pushes + 1)
    BY DEF Resume
  <1> HIDE DEF e
  <1>5. jobs[i].state \notin Finished
    BY <1>2 DEF Finished
  <1>6. WellKept([jobs EXCEPT ![i] = e], pushes + 1)
    BY <1>3, <1>5, PushKept DEF KInv
  <1>7. QED
    BY <1>4, <1>6, PersistKept

LEMMA CommandKept ==
    ASSUME KInv, NEW c \in Callers, Command(c)
    PROVE  /\ WellKept(jobs', pushes')
           /\ store'.readable => WellKept(store'.jobs, store'.pushes)
  <1>1. CASE \E t \in Targets, o \in BOOLEAN : Submit(c, t, o)
    BY <1>1, SubmitKept
  <1>2. CASE Tell(c) \/ \E i \in Ids : CancelRunning(c, i)
    BY <1>2 DEF Tell, CancelRunning, memory, KInv
  <1>3. CASE \E i \in Ids : CancelWaiting(c, i)
    <2>1. PICK i \in Ids : CancelWaiting(c, i)
      BY <1>3
    <2>2. /\ jobs[i].state # "none" /\ pushes' = pushes
          /\ Settle([jobs EXCEPT ![i] = Ended(@, "cancelled")], i)
      BY <2>1 DEF CancelWaiting, CanCancel
    <2>3. QED
      BY <2>2, EndKept DEF Finished
  <1>4. CASE \E i \in Ids : Resume(c, i)
    BY <1>4, ResumeKept
  <1>5. CASE \E i \in Ids : Discard(c, i)
    <2>1. PICK i \in Ids : Discard(c, i)
      BY <1>5
    <2>2. /\ jobs[i].state # "none" /\ pushes' = pushes
          /\ Settle([jobs EXCEPT ![i] = Ended(@, "cancelled")], i)
      BY <2>1 DEF Discard
    <2>3. QED
      BY <2>2, EndKept DEF Finished
  <1>6. CASE ClearHistory(c)
    <2> DEFINE ks == Clear(jobs)
    <2>1. jobs \in [Ids -> Entries] /\ pushes \in Nat
      BY ConstantsAssumption DEF KInv, IInv, TypeOK
    <2>2. /\ ks \in [Ids -> Entries]
          /\ \A i \in Ids : ks[i] = jobs[i] \/ ks[i] = NoEntry
      BY <2>1, ClearFacts
    <2>3. History(ks) = {}
      BY NoEntryType DEF Clear, History, Finished
    <2>4. jobs' = ks /\ Persist(ks, next, pushes) /\ pushes' = pushes
      BY <1>6 DEF ClearHistory
    <2> HIDE DEF ks
    <2>5. Cardinality(History(ks)) <= HistoryLimit
      BY <2>3, FS_EmptySet, ConstantsAssumption
    <2>6. WellKept(ks, pushes)
      BY <2>1, <2>2, <2>5, FewerKept DEF KInv, WellKept
    <2>7. QED
      BY <2>4, <2>6, PersistKept
  <1>7. QED
    BY <1>1, <1>2, <1>3, <1>4, <1>5, <1>6 DEF Command

LEMMA StartKept ==
    ASSUME KInv, NEW i \in Ids, Start(i)
    PROVE  /\ WellKept(jobs', pushes')
           /\ store'.readable => WellKept(store'.jobs, store'.pushes)
  <1> DEFINE e == [jobs[i] EXCEPT !.state = "running", !.stage = 0,
                                  !.fraction = 0]
  <1>1. jobs[i] \in Entries /\ jobs[i].state = "queued" /\ jobs[i].spec
    BY DEF KInv, IInv, TypeOK, Start, IsFirst, Waiting
  <1>2. /\ e \in Entries /\ e.state = "running" /\ e.spec
        /\ e.place = jobs[i].place
    BY <1>1, ZeroType DEF Entries, States
  <1>3. /\ jobs' = [jobs EXCEPT ![i] = e] /\ pushes' = pushes
        /\ Persist([jobs EXCEPT ![i] = e], next, pushes)
    BY DEF Start
  <1> HIDE DEF e
  <1>4. {jobs[i].state, e.state} \cap Finished = {}
    BY <1>1, <1>2 DEF Finished
  <1>5. jobs[i].state # "none" /\ e.state # "none"
    BY <1>1, <1>2
  <1>6. WellKept([jobs EXCEPT ![i] = e], pushes)
    BY <1>2, <1>4, <1>5, ChangeKept DEF KInv
  <1>7. QED
    BY <1>3, <1>6, PersistKept

LEMMA ProgressKept ==
    ASSUME KInv, NEW stage \in Stages, NEW f \in Reported, Progress(stage, f)
    PROVE  /\ WellKept(jobs', pushes')
           /\ store'.readable => WellKept(store'.jobs, store'.pushes)
  <1> DEFINE i == running.id
             e == Metered(jobs[i], stage, f)
  <1>1. i \in Ids
    BY ConstantsAssumption DEF Progress, KInv, IInv, TypeOK, OneExport, Runs, Ids
  <1>2. jobs[i] \in Entries /\ jobs[i].state = "running" /\ jobs[i].spec
    BY <1>1 DEF KInv, IInv, TypeOK, Progress, WellKept, Live
  <1>3. e \in Entries /\ e.state = "running" /\ e.spec
    BY <1>2, MeteredType
  <1>4. e.place = jobs[i].place
    BY <1>2 DEF Metered, Entries
  <1>5. jobs' = [jobs EXCEPT ![i] = e] /\ UNCHANGED <<pushes, store>>
    BY DEF Progress
  <1> HIDE DEF e, i
  <1>6. {jobs[i].state, e.state} \cap Finished = {}
    BY <1>2, <1>3 DEF Finished
  <1>7. jobs[i].state # "none" /\ e.state # "none"
    BY <1>2, <1>3
  <1>8. WellKept([jobs EXCEPT ![i] = e], pushes)
    BY <1>1, <1>3, <1>4, <1>6, <1>7, ChangeKept DEF KInv
  <1>9. QED
    BY <1>5, <1>8 DEF KInv

LEMMA RecordKept ==
    ASSUME KInv, Record
    PROVE  /\ WellKept(jobs', pushes')
           /\ store'.readable => WellKept(store'.jobs, store'.pushes)
  <1> DEFINE i == running.id
             e == Recorded(jobs[i], Outcome)
  <1>1. i \in Ids
    BY ConstantsAssumption DEF Record, KInv, IInv, TypeOK, OneExport, Runs, Ids
  <1>2. jobs[i] \in Entries /\ jobs[i].state = "running" /\ jobs[i].spec
    BY <1>1 DEF KInv, IInv, TypeOK, OneExport, WellKept, Live
  <1>3. Outcome \in States
    BY OutcomeType DEF States, Finished
  <1>4. /\ e \in Entries /\ e.state = Outcome /\ e.place = jobs[i].place
        /\ Outcome = "interrupted" => e.spec = jobs[i].spec
    BY <1>2, <1>3, EndedType, SamePlace
  <1>5. Settle([jobs EXCEPT ![i] = e], i) /\ pushes' = pushes
    BY DEF Record
  <1> HIDE DEF e, i
  <1>6. e.state # "none" /\ (e.state \in Live => e.spec)
    BY <1>2, <1>4, OutcomeType DEF Live
  <1>7. jobs[i].state # "none"
    BY <1>2
  <1>8. QED
    BY <1>1, <1>4, <1>5, <1>6, <1>7, SettleKept

LEMMA OpenKept ==
    ASSUME KInv, Open
    PROVE  /\ WellKept(jobs', pushes')
           /\ store'.readable => WellKept(store'.jobs, store'.pushes)
  <1> DEFINE loaded == IF store.readable THEN store ELSE EmptyStore
  <1>1. loaded \in Stored
    BY EmptyStoreType DEF KInv, IInv, TypeOK
  <1>2. WellKept(loaded.jobs, loaded.pushes)
    <2>1. CASE store.readable
      BY <2>1 DEF KInv
    <2>2. CASE ~store.readable
      BY <2>2, NothingKept DEF EmptyStore
    <2>3. QED
      BY <2>1, <2>2
  <1>3. /\ jobs' = Interrupt(loaded.jobs) /\ pushes' = loaded.pushes
        /\ Persist(Interrupt(loaded.jobs), loaded.next, loaded.pushes)
    BY DEF Open
  <1> HIDE DEF loaded
  <1>4. loaded.jobs \in [Ids -> Entries]
    BY <1>1 DEF Stored
  <1>5. WellKept(Interrupt(loaded.jobs), loaded.pushes)
    BY <1>2, <1>4, InterruptKept
  <1>6. QED
    BY <1>3, <1>5, PersistKept

LEMMA NextKInv ==
    ASSUME KInv, [Next]_vars
    PROVE  KInv'
  <1>1. IInv' /\ OwnStores'
    BY NextIInv DEF KInv, OwnStores
  <1>2. /\ WellKept(jobs', pushes')
        /\ store'.readable => WellKept(store'.jobs, store'.pushes)
    <2>1. CASE UNCHANGED <<jobs, pushes, store>>
      BY <2>1 DEF KInv
    <2>2. CASE \E c \in Callers : Command(c)
      BY <2>2, CommandKept
    <2>3. CASE \E i \in Ids : Start(i)
      BY <2>3, StartKept
    <2>4. CASE \E i \in Ids : Refuse(i)
      <3>1. PICK i \in Ids : Refuse(i)
        BY <2>4
      <3>2. /\ jobs[i].state # "none" /\ pushes' = pushes
            /\ Settle([jobs EXCEPT ![i] = Ended(@, "failed")], i)
        BY <3>1 DEF Refuse, IsFirst, Waiting
      <3>3. QED
        BY <3>2, EndKept DEF Finished
    <2>5. CASE Record
      BY <2>5, RecordKept
    <2>6. CASE \E stage \in Stages, f \in Reported : Progress(stage, f)
      BY <2>6, ProgressKept
    <2>7. CASE Exit \/ Crash
      <3>1. /\ jobs' = [i \in Ids |-> NoEntry] /\ pushes' = 0
            /\ UNCHANGED store
        BY <2>7 DEF Exit, Crash, Gone, EmptyStore
      <3>2. QED
        BY <3>1, NothingKept DEF KInv
    <2>8. CASE Open
      BY <2>8, OpenKept
    <2>9. CASE \/ Park \/ Quit \/ WorkerTells \/ Runner \/ WakeUnasked
               \/ Shutdown \/ UNCHANGED vars
      BY <2>1, <2>9
      DEF Park, Quit, WorkerTells, Runner, RunnerOpens, RunnerCommits,
          RunnerFails, RunnerReturns, WakeUnasked, Shutdown, memory, vars
    <2>10. QED
      BY <2>2, <2>3, <2>4, <2>5, <2>6, <2>7, <2>8, <2>9
      DEF Next, WorkerStep
  <1>3. QED
    BY <1>1, <1>2 DEF KInv

\* Whatever callers, crashes and a failing store do, a job that can still run
\* has its project and the history its bound, given stores this queue wrote.
THEOREM JobsAreKept ==
    OwnStores /\ Spec => [](ResumableHasProject /\ HistoryBounded)
  <1>1. KInv => ResumableHasProject /\ HistoryBounded
    BY DEF KInv, WellKept, Apart, Live, ResumableHasProject, HistoryBounded
  <1>2. OwnStores /\ Init => KInv
    BY InitKInv
  <1>3. KInv /\ [Next]_vars => KInv'
    BY NextKInv
  <1>4. QED
    BY <1>1, <1>2, <1>3, PTL DEF Spec

-----------------------------------------------------------------------------
(* The file and memory, where writing the store does not fail: the file says *)
(* what memory says, and nothing announced is lost with the process.         *)

NothingUntold ==
    /\ \A th \in Callers \cup {Worker} : saying[th].word.state \notin Finished
    /\ up => \A i \in Ids : i >= next => heard[i].state \notin Finished

SInv ==
    /\ IInv /\ ~StoreMayFail
    /\ StoreIsMemory /\ ToldOutcomeStands /\ NothingUntold

LEMMA PersistExact ==
    ASSUME SInv, NEW js, NEW n, NEW p, Persist(js, n, p)
    PROVE  /\ store'.readable /\ store'.jobs = js
           /\ store'.next = n /\ store'.pushes = p
  <1>1. store' = [readable |-> TRUE, next |-> n, pushes |-> p, jobs |-> js]
    BY DEF Persist, SInv
  <1>2. store'.readable
    BY <1>1
  <1>3. store'.jobs = js /\ store'.next = n /\ store'.pushes = p
    BY <1>1, Zenon
  <1>4. QED
    BY <1>2, <1>3

LEMMA SilentUntold == Silent.word.state \notin Finished
  BY DEF Silent, Finished

LEMMA SayWords ==
    ASSUME NEW i, NEW e
    PROVE  /\ Say(i, e).word.state = e.state /\ Say(i, e).id = i
           /\ WordOf(e).state = e.state
  BY DEF Say, WordOf

\* A step that persists what memory then holds
LEMMA PersistedIsMemory ==
    ASSUME SInv, Persist(jobs', next', pushes')
    PROVE  StoreIsMemory'
  <1>1. /\ store'.readable /\ store'.jobs = jobs'
        /\ store'.next = next' /\ store'.pushes = pushes'
    BY PersistExact, Zenon
  <1>2. QED
    BY <1>1 DEF StoreIsMemory, StateOf

\* An entry that waited or ran is changed, persisted, and announced later, as
\* something that has not ended.
LEMMA PushedIsTold ==
    ASSUME SInv, up, NEW th \in Callers \cup {Worker}, NEW i \in Ids,
           NEW e \in Entries, e.state \notin Finished,
           jobs[i].state \notin Finished,
           jobs' = [jobs EXCEPT ![i] = e],
           heard[i].state \notin Finished,
           saying' = [saying EXCEPT ![th] = Say(i, e)],
           next' \in Nat, next' >= next, UNCHANGED <<up, heard>>
    PROVE  ToldOutcomeStands' /\ NothingUntold'
  <1>1. /\ jobs \in [Ids -> Entries] /\ next \in Nat
        /\ saying \in [Callers \cup {Worker} -> [id: 0..MaxJobs, word: Words]]
    BY DEF SInv, IInv, TypeOK
  <1>2. \A k \in Ids : k # i => jobs'[k] = jobs[k]
    BY <1>1
  <1>3. ToldOutcomeStands'
    BY <1>2 DEF SInv, ToldOutcomeStands, Known
  <1>4. \A x \in Callers \cup {Worker} : saying'[x].word.state \notin Finished
    BY <1>1, SayWords DEF SInv, NothingUntold
  <1>5. \A k \in Ids : k >= next' => heard'[k].state \notin Finished
    BY <1>1 DEF SInv, NothingUntold, Ids
  <1>6. QED
    BY <1>3, <1>4, <1>5 DEF NothingUntold

\* What waits or runs was not announced as ended.
LEMMA UntoldWhileLive ==
    ASSUME SInv, up, NEW i \in Ids,
           jobs[i].state \notin Finished \cup {"none"}
    PROVE  heard[i].state \notin Finished
  BY DEF SInv, ToldOutcomeStands, Known

\* settle announces what it recorded.
LEMMA SettledIsTold ==
    ASSUME SInv, up, NEW i \in Ids, NEW e \in Entries, jobs[i].state # "none",
           jobs[i].state \notin Finished,
           Settle([jobs EXCEPT ![i] = e], i),
           UNCHANGED <<up, next, pushes, saying>>
    PROVE  StoreIsMemory' /\ ToldOutcomeStands' /\ NothingUntold'
  <1> DEFINE js == [jobs EXCEPT ![i] = e]
  <1>1. /\ jobs \in [Ids -> Entries] /\ heard \in [Ids -> Words] /\ TypeOK
    BY DEF SInv, IInv, TypeOK
  <1>2. js \in [Ids -> Entries] /\ js[i] = e
        /\ \A k \in Ids : k # i => js[k] = jobs[k]
    BY <1>1
  <1> HIDE DEF js
  <1>3. Settle(js, i)
    BY DEF js
  <1>4. \A k \in Ids : \/ jobs'[k] = js[k]
                       \/ jobs'[k] = NoEntry /\ js[k].state \in Finished
    BY <1>1, <1>2, <1>3, SettleFacts
  <1>5. \A k \in Ids : jobs'[k].state \in {js[k].state, "none"}
    BY <1>4, NoEntryType
  <1>6. heard' = [heard EXCEPT ![i] = WordOf(js[i])]
    BY <1>3 DEF Settle
  <1>7. heard'[i].state = e.state /\ \A k \in Ids : k # i => heard'[k] = heard[k]
    BY <1>1, <1>2, <1>6, SayWords
  <1>8. ToldOutcomeStands'
    <2>1. SUFFICES ASSUME NEW k \in Ids, heard'[k].state \in Finished
                   PROVE  jobs'[k].state \in {heard'[k].state, "none"}
      BY DEF ToldOutcomeStands, Known
    <2>2. CASE k = i
      BY <1>2, <1>5, <1>7, <2>2
    <2>3. CASE k # i
      <3>1. jobs[k].state \in {heard[k].state, "none"}
        BY <1>7, <2>1, <2>3 DEF SInv, ToldOutcomeStands, Known
      <3>2. QED
        BY <1>2, <1>5, <1>7, <2>3, <3>1
    <2>4. QED
      BY <2>2, <2>3
  <1>9. i < next
    BY DEF SInv, IInv, TypeOK, NewIdsAreFree, Fresh, Ids
  <1>10. NothingUntold'
    <2>1. \A x \in Callers \cup {Worker} : saying'[x].word.state \notin Finished
      BY DEF SInv, NothingUntold
    <2>2. \A k \in Ids : k >= next' => heard'[k].state \notin Finished
      BY <1>1, <1>7, <1>9 DEF SInv, NothingUntold, Ids, TypeOK
    <2>3. QED
      BY <2>1, <2>2 DEF NothingUntold
  <1>11. Persist(jobs', next', pushes')
    BY <1>3 DEF Settle
  <1>12. QED
    BY <1>8, <1>10, <1>11, PersistedIsMemory

\* cancel, discard and a refusal, and the end of a run
LEMMA EndIsTold ==
    ASSUME SInv, up, NEW i \in Ids, NEW s \in States,
           jobs[i].state \notin Finished \cup {"none"},
           \/ Settle([jobs EXCEPT ![i] = Ended(@, s)], i)
           \/ Settle([jobs EXCEPT ![i] = Recorded(@, s)], i),
           UNCHANGED <<up, next, pushes, saying>>
    PROVE  StoreIsMemory' /\ ToldOutcomeStands' /\ NothingUntold'
  <1>1. jobs[i] \in Entries
    BY DEF SInv, IInv, TypeOK
  <1>2. Ended(jobs[i], s) \in Entries /\ Recorded(jobs[i], s) \in Entries
    BY <1>1, EndedType
  <1>3. PICK e \in Entries : Settle([jobs EXCEPT ![i] = e], i)
    BY <1>2
  <1>4. QED
    BY <1>3, SettledIsTold

\* A thread announces what it has to say.
LEMMA TellIsTold ==
    ASSUME SInv, NEW th \in Callers \cup {Worker}, up,
           heard' = [heard EXCEPT ![saying[th].id] = saying[th].word],
           saying' = [saying EXCEPT ![th] = Silent],
           UNCHANGED <<up, jobs, next, pushes, store>>
    PROVE  StoreIsMemory' /\ ToldOutcomeStands' /\ NothingUntold'
  <1>1. /\ heard \in [Ids -> Words]
        /\ saying \in [Callers \cup {Worker} -> [id: 0..MaxJobs, word: Words]]
    BY DEF SInv, IInv, TypeOK
  <1>2. saying[th].word.state \notin Finished
    BY DEF SInv, NothingUntold
  <1>3. \A k \in Ids : heard'[k] = heard[k] \/ heard'[k].state \notin Finished
    BY <1>1, <1>2
  <1>4. ToldOutcomeStands'
    BY <1>3 DEF SInv, ToldOutcomeStands, Known
  <1>5. NothingUntold'
    BY <1>1, <1>3, SilentUntold DEF SInv, NothingUntold
  <1>6. StoreIsMemory'
    BY DEF SInv, StoreIsMemory
  <1>7. QED
    BY <1>4, <1>5, <1>6

LEMMA InitSInv == ~StoreMayFail /\ Init => SInv
  <1> SUFFICES ASSUME ~StoreMayFail, Init PROVE SInv
    OBVIOUS
  <1>1. \A i \in Ids : heard[i].state \notin Finished
    BY SilentUntold DEF Init, Unheard
  <1>2. ~up /\ \A th \in Callers \cup {Worker} : saying[th] = Silent
    BY DEF Init
  <1>3. StoreIsMemory /\ ToldOutcomeStands /\ NothingUntold
    BY <1>1, <1>2, SilentUntold DEF StoreIsMemory, ToldOutcomeStands, NothingUntold
  <1>4. QED
    BY <1>3, InitIInv DEF SInv

LEMMA CommandIsTold ==
    ASSUME SInv, NEW c \in Callers, Command(c)
    PROVE  StoreIsMemory' /\ ToldOutcomeStands' /\ NothingUntold'
  <1>1. CASE \E t \in Targets, o \in BOOLEAN : Submit(c, t, o)
    <2>1. PICK t \in Targets, o \in BOOLEAN : Submit(c, t, o)
      BY <1>1
    <2> DEFINE e == [NoEntry EXCEPT !.place = pushes + 1, !.target = t,
                                    !.overwrite = o, !.state = "queued",
                                    !.spec = TRUE]
    <2>2. pushes + 1 \in 0..MaxPlace /\ next \in Ids
      BY <2>1, ConstantsAssumption DEF SInv, IInv, TypeOK, Submit, Ids
    <2>3. e \in Entries /\ e.state = "queued"
      BY <2>2, NoEntryType DEF Entries, States
    <2>4. /\ jobs' = [jobs EXCEPT ![next] = e]
          /\ pushes' = pushes + 1 /\ next' = next + 1
          /\ Persist([jobs EXCEPT ![next] = e], next + 1, pushes + 1)
          /\ saying' = [saying EXCEPT ![c] = Say(next, e)]
          /\ up /\ UNCHANGED <<up, heard>>
      BY <2>1 DEF Submit, Free
    <2> HIDE DEF e
    <2>5. jobs[next].state = "none" /\ heard[next].state \notin Finished
      BY <2>2, <2>4 DEF SInv, IInv, NewIdsAreFree, Fresh, NothingUntold, Ids
    <2>6. StoreIsMemory'
      BY <2>4, PersistedIsMemory
    <2>7. next' \in Nat /\ next' >= next
      BY <2>2, <2>4 DEF Ids
    <2>8. e.state \notin Finished /\ jobs[next].state \notin Finished
      BY <2>3, <2>5 DEF Finished
    <2>9. ToldOutcomeStands' /\ NothingUntold'
      BY <2>2, <2>3, <2>4, <2>5, <2>7, <2>8, PushedIsTold
    <2>10. QED
      BY <2>6, <2>9
  <1>2. CASE Tell(c)
    BY <1>2, TellIsTold DEF Tell, memory
  <1>3. CASE \E i \in Ids : CancelRunning(c, i)
    BY <1>3 DEF CancelRunning, SInv, StoreIsMemory, ToldOutcomeStands, Known,
                NothingUntold
  <1>4. CASE \E i \in Ids : CancelWaiting(c, i)
    <2>1. PICK i \in Ids : CancelWaiting(c, i)
      BY <1>4
    <2>2. /\ jobs[i].state \notin Finished \cup {"none"} /\ up
          /\ Settle([jobs EXCEPT ![i] = Ended(@, "cancelled")], i)
          /\ UNCHANGED <<up, next, pushes, saying>>
      BY <2>1 DEF CancelWaiting, CanCancel, Free, Finished
    <2>3. QED
      BY <2>2, EndIsTold DEF States, Finished
  <1>5. CASE \E i \in Ids : Resume(c, i)
    <2>1. PICK i \in Ids : Resume(c, i)
      BY <1>5
    <2> DEFINE e == [jobs[i] EXCEPT !.state = "queued", !.place = pushes + 1]
    <2>2. pushes + 1 \in 0..MaxPlace /\ jobs[i] \in Entries
      BY <2>1, ConstantsAssumption DEF SInv, IInv, TypeOK, Resume
    <2>3. e \in Entries /\ e.state = "queued"
      BY <2>2 DEF Entries, States
    <2>4. /\ jobs' = [jobs EXCEPT ![i] = e]
          /\ pushes' = pushes + 1 /\ next' = next
          /\ Persist([jobs EXCEPT ![i] = e], next, pushes + 1)
          /\ saying' = [saying EXCEPT ![c] = Say(i, e)]
          /\ up /\ UNCHANGED <<up, heard>>
          /\ jobs[i].state = "interrupted"
      BY <2>1 DEF Resume, Free
    <2> HIDE DEF e
    <2>5. /\ jobs[i].state \notin Finished \cup {"none"}
          /\ e.state \notin Finished
      BY <2>3, <2>4 DEF Finished
    <2>6. heard[i].state \notin Finished
      BY <2>4, <2>5, UntoldWhileLive
    <2>7. StoreIsMemory'
      BY <2>4, PersistedIsMemory
    <2>8. next' \in Nat /\ next' >= next
      BY <2>4 DEF SInv, IInv, TypeOK
    <2>9. ToldOutcomeStands' /\ NothingUntold'
      BY <2>3, <2>4, <2>5, <2>6, <2>8, PushedIsTold
    <2>10. QED
      BY <2>7, <2>9
  <1>6. CASE \E i \in Ids : Discard(c, i)
    <2>1. PICK i \in Ids : Discard(c, i)
      BY <1>6
    <2>2. /\ jobs[i].state \notin Finished \cup {"none"} /\ up
          /\ Settle([jobs EXCEPT ![i] = Ended(@, "cancelled")], i)
          /\ UNCHANGED <<up, next, pushes, saying>>
      BY <2>1 DEF Discard, Free, Finished
    <2>3. QED
      BY <2>2, EndIsTold DEF States, Finished
  <1>7. CASE ClearHistory(c)
    <2>1. /\ jobs' = Clear(jobs) /\ Persist(jobs', next', pushes') /\ up
          /\ UNCHANGED <<up, next, pushes, saying, heard>>
      BY <1>7 DEF ClearHistory, Free
    <2>2. jobs \in [Ids -> Entries]
      BY DEF SInv, IInv, TypeOK
    <2>3. \A i \in Ids : jobs'[i].state \in {jobs[i].state, "none"}
      BY <2>1, <2>2, ClearFacts, NoEntryType
    <2>4. ToldOutcomeStands'
      BY <2>1, <2>3 DEF SInv, ToldOutcomeStands, Known
    <2>5. NothingUntold'
      BY <2>1 DEF SInv, NothingUntold
    <2>6. QED
      BY <2>1, <2>4, <2>5, PersistedIsMemory
  <1>8. QED
    BY <1>1, <1>2, <1>3, <1>4, <1>5, <1>6, <1>7 DEF Command

LEMMA StartIsTold ==
    ASSUME SInv, NEW i \in Ids, Start(i)
    PROVE  StoreIsMemory' /\ ToldOutcomeStands' /\ NothingUntold'
  <1> DEFINE e == [jobs[i] EXCEPT !.state = "running", !.stage = 0,
                                  !.fraction = 0]
  <1>1. /\ jobs[i] \in Entries /\ jobs[i].state = "queued"
        /\ worker # "exited"
    BY DEF SInv, IInv, TypeOK, Start, IsFirst, Waiting
  <1>2. e \in Entries /\ e.state = "running"
    BY <1>1, ZeroType DEF Entries, States
  <1>3. up
    BY <1>1, WorkerLives DEF SInv
  <1>4. /\ jobs' = [jobs EXCEPT ![i] = e] /\ Persist(jobs', next', pushes')
        /\ saying' = [saying EXCEPT ![Worker] = Say(i, e)]
        /\ UNCHANGED <<up, next, pushes, heard>>
    BY DEF Start
  <1> HIDE DEF e
  <1>5. /\ jobs[i].state \notin Finished \cup {"none"}
        /\ e.state \notin Finished
    BY <1>1, <1>2 DEF Finished
  <1>6. heard[i].state \notin Finished
    BY <1>3, <1>5, UntoldWhileLive
  <1>7. next' \in Nat /\ next' >= next
    BY <1>4 DEF SInv, IInv, TypeOK
  <1>8. ToldOutcomeStands' /\ NothingUntold'
    BY <1>2, <1>3, <1>4, <1>5, <1>6, <1>7, PushedIsTold
  <1>9. QED
    BY <1>4, <1>8, PersistedIsMemory

\* A report is not persisted: it changes nothing but progress.
LEMMA ProgressIsTold ==
    ASSUME SInv, NEW stage \in Stages, NEW f \in Reported, Progress(stage, f)
    PROVE  StoreIsMemory' /\ ToldOutcomeStands' /\ NothingUntold'
  <1> DEFINE i == running.id
             e == Metered(jobs[i], stage, f)
  <1>1. i \in Ids /\ worker # "exited"
    BY ConstantsAssumption DEF Progress, SInv, IInv, TypeOK, OneExport, Runs, Ids
  <1>2. up /\ jobs \in [Ids -> Entries]
    BY <1>1, WorkerLives DEF SInv, IInv, TypeOK
  <1>3. jobs[i] \in Entries /\ jobs[i].state = "running"
    BY <1>1 DEF SInv, IInv, TypeOK, Progress
  <1>4. e \in Entries /\ e.state = "running"
    BY <1>3, MeteredType
  <1>5. [e EXCEPT !.stage = 0, !.fraction = 0]
           = [jobs[i] EXCEPT !.stage = 0, !.fraction = 0]
    BY <1>3 DEF Metered, Entries
  <1>6. /\ jobs' = [jobs EXCEPT ![i] = e]
        /\ saying' = [saying EXCEPT ![Worker] = Say(i, e)]
        /\ UNCHANGED <<up, next, pushes, store, heard>>
    BY DEF Progress
  <1> HIDE DEF e, i
  <1>7. StateOf(jobs') = StateOf(jobs)
    BY <1>1, <1>2, <1>5, <1>6 DEF StateOf
  <1>8. StoreIsMemory'
    BY <1>6, <1>7 DEF SInv, StoreIsMemory
  <1>9. /\ jobs[i].state \notin Finished \cup {"none"}
        /\ e.state \notin Finished
    BY <1>3, <1>4 DEF Finished
  <1>10. heard[i].state \notin Finished
    BY <1>1, <1>2, <1>9, UntoldWhileLive
  <1>11. next' \in Nat /\ next' >= next
    BY <1>6 DEF SInv, IInv, TypeOK
  <1>12. ToldOutcomeStands' /\ NothingUntold'
    BY <1>1, <1>2, <1>4, <1>6, <1>9, <1>10, <1>11, PushedIsTold
  <1>13. QED
    BY <1>8, <1>12

\* Entries that differ in progress only are in the same state.
LEMMA StateOfStates ==
    ASSUME NEW js \in [Ids -> Entries], NEW ks \in [Ids -> Entries],
           StateOf(js) = StateOf(ks)
    PROVE  \A i \in Ids : js[i].state = ks[i].state
  <1>1. \A e \in Entries : [e EXCEPT !.stage = 0, !.fraction = 0].state = e.state
    BY DEF Entries
  <1>2. SUFFICES ASSUME NEW i \in Ids
                 PROVE  js[i].state = ks[i].state
    OBVIOUS
  <1>3. /\ StateOf(js)[i] = [js[i] EXCEPT !.stage = 0, !.fraction = 0]
        /\ StateOf(ks)[i] = [ks[i] EXCEPT !.stage = 0, !.fraction = 0]
    BY DEF StateOf
  <1>4. js[i] \in Entries /\ ks[i] \in Entries
    OBVIOUS
  <1>5. QED
    BY <1>1, <1>3, <1>4

\* The process is gone, and what it announced is in the file.
LEMMA GoneIsTold ==
    ASSUME SInv, up, Gone
    PROVE  StoreIsMemory' /\ ToldOutcomeStands' /\ NothingUntold'
  <1>1. /\ ~up' /\ UNCHANGED <<store, heard>>
        /\ \A th \in Callers \cup {Worker} : saying'[th] = Silent
    BY DEF Gone
  <1>2. \A i \in Ids : store.jobs[i].state = jobs[i].state
    BY StateOfStates DEF SInv, StoreIsMemory, IInv, TypeOK, Stored
  <1>3. ToldOutcomeStands'
    BY <1>1, <1>2 DEF SInv, ToldOutcomeStands, Known
  <1>4. NothingUntold' /\ StoreIsMemory'
    BY <1>1, SilentUntold DEF NothingUntold, StoreIsMemory
  <1>5. QED
    BY <1>3, <1>4

\* A launch announces what it found.
LEMMA OpenIsTold ==
    ASSUME SInv, Open
    PROVE  StoreIsMemory' /\ ToldOutcomeStands' /\ NothingUntold'
  <1>1. /\ Persist(jobs', next', pushes') /\ up'
        /\ heard' = [i \in Ids |-> WordOf(jobs'[i])]
        /\ UNCHANGED saying
    BY DEF Open
  <1>2. StoreIsMemory'
    BY <1>1, PersistedIsMemory
  <1>3. \A i \in Ids : heard'[i].state = jobs'[i].state
    BY <1>1, SayWords
  <1>4. ToldOutcomeStands'
    BY <1>1, <1>3 DEF ToldOutcomeStands, Known
  <1>5. Fresh(jobs', next')
    BY OpenIInv DEF SInv, IInv, NewIdsAreFree
  <1>6. NothingUntold'
    BY <1>1, <1>3, <1>5 DEF SInv, NothingUntold, Fresh, Finished
  <1>7. QED
    BY <1>2, <1>4, <1>6

LEMMA NextSInv ==
    ASSUME SInv, [Next]_vars
    PROVE  SInv'
  <1>1. IInv' /\ ~StoreMayFail
    BY NextIInv DEF SInv
  <1>2. StoreIsMemory' /\ ToldOutcomeStands' /\ NothingUntold'
    <2>1. CASE UNCHANGED <<up, jobs, next, pushes, saying, store, heard>>
      BY <2>1 DEF SInv, StoreIsMemory, ToldOutcomeStands, Known, NothingUntold
    <2>2. CASE \E c \in Callers : Command(c)
      BY <2>2, CommandIsTold
    <2>3. CASE \E i \in Ids : Start(i)
      BY <2>3, StartIsTold
    <2>4. CASE \E i \in Ids : Refuse(i)
      <3>1. PICK i \in Ids : Refuse(i)
        BY <2>4
      <3>2. /\ jobs[i].state \notin Finished \cup {"none"}
            /\ Settle([jobs EXCEPT ![i] = Ended(@, "failed")], i)
            /\ UNCHANGED <<up, next, pushes, saying>>
        BY <3>1 DEF Refuse, IsFirst, Waiting, Finished
      <3>3. up
        BY <3>1, WorkerLives DEF SInv, Refuse
      <3>4. QED
        BY <3>2, <3>3, EndIsTold DEF States, Finished
    <2>5. CASE Record
      <3>1. running.id \in Ids
        BY <2>5, ConstantsAssumption
        DEF Record, SInv, IInv, TypeOK, OneExport, Runs, Ids
      <3>2. jobs[running.id].state = "running"
        BY <3>1 DEF SInv, IInv, OneExport
      <3>3. up
        BY <2>5, WorkerLives DEF SInv, Record
      <3>4. /\ Settle([jobs EXCEPT ![running.id] = Recorded(@, Outcome)],
                      running.id)
            /\ UNCHANGED <<up, next, pushes, saying>>
        BY <2>5 DEF Record
      <3>5. Outcome \in States
        BY OutcomeType DEF States, Finished
      <3>6. jobs[running.id].state \notin Finished \cup {"none"}
        BY <3>2 DEF Finished
      <3>7. QED
        BY <3>1, <3>3, <3>4, <3>5, <3>6, EndIsTold
    <2>6. CASE \E stage \in Stages, f \in Reported : Progress(stage, f)
      BY <2>6, ProgressIsTold
    <2>7. CASE Exit \/ Crash
      BY <2>7, GoneIsTold DEF Exit, Crash
    <2>8. CASE Open
      BY <2>8, OpenIsTold
    <2>9. CASE WorkerTells
      BY <2>9, TellIsTold DEF WorkerTells, memory
    <2>10. CASE \/ Park \/ Quit \/ Runner \/ WakeUnasked
                \/ Shutdown \/ UNCHANGED vars
      BY <2>1, <2>10
      DEF Park, Quit, Runner, RunnerOpens, RunnerCommits,
          RunnerFails, RunnerReturns, WakeUnasked, Shutdown, memory, vars
    <2>11. QED
      BY <2>2, <2>3, <2>4, <2>5, <2>6, <2>7, <2>8, <2>9, <2>10
      DEF Next, WorkerStep
  <1>3. QED
    BY <1>1, <1>2 DEF SInv

\* Where the store can be written, the file says what memory says whenever the
\* lock is free, and an outcome that was announced is not taken back by a crash
\* just after, a late command or the next launch.
THEOREM NothingToldIsLost ==
    ~StoreMayFail /\ Spec => [](StoreIsMemory /\ ToldOutcomeStands)
  <1>1. SInv => StoreIsMemory /\ ToldOutcomeStands
    BY DEF SInv
  <1>2. ~StoreMayFail /\ Init => SInv
    BY InitSInv
  <1>3. SInv /\ [Next]_vars => SInv'
    BY NextSInv
  <1>4. QED
    BY <1>1, <1>2, <1>3, PTL DEF Spec

\* A job that can run keeps its project, the history its bound, the file keeps
\* up with memory, and an announced outcome outlives a crash.
THEOREM StoreFollows ==
    OwnStores /\ ~StoreMayFail /\ Spec => []StoreKeepsUp
  <1>1. (ResumableHasProject /\ HistoryBounded)
           /\ (StoreIsMemory /\ ToldOutcomeStands) => StoreKeepsUp
    BY DEF StoreKeepsUp
  <1>2. QED
    BY <1>1, JobsAreKept, NothingToldIsLost, PTL

-----------------------------------------------------------------------------
(* Announced progress.  What was announced of a run is no further than its   *)
(* entry, and what the worker is about to announce is its entry.             *)

\* `w` is as far as `v`, or further.
NotBehind(v, w) ==
    \/ w.stage > v.stage
    \/ w.stage = v.stage /\ w.fraction >= v.fraction

Working == {"preparing", "writing", "verifying"}

PInv ==
    /\ IInv
    /\ worker \notin Working => saying[Worker] = Silent
    /\ saying[Worker] # Silent =>
          saying[Worker] = Say(running.id, jobs[running.id])
    /\ \A c \in Callers : saying[c].word.state # "running"
    /\ up => \A i \in Ids : heard[i].state = "running" =>
                 running.id = i /\ NotBehind(heard[i], jobs[i])

LEMMA SilentIsNoRun == Silent.word.state # "running"
  BY DEF Silent

LEMMA NotBehindItself ==
    ASSUME NEW e \in Entries
    PROVE  NotBehind(e, e) /\ NotBehind(WordOf(e), e)
  BY ConstantsAssumption DEF NotBehind, Entries, Stages, WordOf

\* Meter::update: a report never takes an entry back.
LEMMA MeteredGoesOn ==
    ASSUME NEW e \in Entries, NEW stage \in Stages, NEW f \in Reported
    PROVE  NotBehind(e, Metered(e, stage, f))
  <1> DEFINE s == IF stage > e.stage THEN stage ELSE e.stage
             base == IF stage > e.stage THEN 0 ELSE e.fraction
             g == IF (stage = s /\ f # NotFinite) /\ Clamp(f) > base
                  THEN Clamp(f) ELSE base
  <1>1. e.stage \in Nat /\ e.fraction \in Nat /\ stage \in Nat
    BY ConstantsAssumption DEF Entries, Stages
  <1>2. f # NotFinite => Clamp(f) \in Int
    BY ConstantsAssumption DEF Clamp
  <1>3. s > e.stage \/ (s = e.stage /\ base = e.fraction)
    BY <1>1
  <1>4. g >= base
    BY <1>1, <1>2
  <1>5. Metered(e, stage, f) = [e EXCEPT !.stage = s, !.fraction = g]
    BY DEF Metered
  <1> HIDE DEF s, base, g
  <1>6. Metered(e, stage, f).stage = s /\ Metered(e, stage, f).fraction = g
    BY <1>5 DEF Entries
  <1>7. QED
    BY <1>3, <1>4, <1>6 DEF NotBehind

LEMMA NotBehindThrough ==
    ASSUME NEW v \in Words, NEW e \in Entries, NEW x \in Entries,
           NotBehind(v, e), NotBehind(e, x)
    PROVE  NotBehind(v, x)
  BY ConstantsAssumption DEF NotBehind, Words, Entries, Stages

\* The running entry, and what is said and heard of it, stay as they are.
LEMMA SameRun ==
    ASSUME PInv, up, running'.id = running.id,
           \A i \in Ids : jobs[i].state = "running" => jobs'[i] = jobs[i],
           UNCHANGED saying, worker' \in Working <=> worker \in Working,
           \A i \in Ids : \/ heard'[i] = heard[i]
                          \/ heard'[i].state # "running"
    PROVE  /\ worker' \notin Working => saying'[Worker] = Silent
           /\ saying'[Worker] # Silent =>
                 saying'[Worker] = Say(running'.id, jobs'[running'.id])
           /\ \A c \in Callers : saying'[c].word.state # "running"
           /\ \A i \in Ids : heard'[i].state = "running" =>
                 running'.id = i /\ NotBehind(heard'[i], jobs'[i])
  <1>1. \A i \in Ids : running.id = i => jobs'[i] = jobs[i]
    BY DEF PInv, IInv, OneExport
  <1>2. saying[Worker] # Silent => running.id \in Ids
    BY ConstantsAssumption
    DEF PInv, IInv, TypeOK, OneExport, Working, Runs, Ids
  <1>3. saying'[Worker] # Silent =>
           saying'[Worker] = Say(running'.id, jobs'[running'.id])
    BY <1>1, <1>2 DEF PInv
  <1>4. \A i \in Ids : heard'[i].state = "running" =>
            running'.id = i /\ NotBehind(heard'[i], jobs'[i])
    BY <1>1 DEF PInv
  <1>5. QED
    BY <1>3, <1>4 DEF PInv

\* settle, of an entry that does not run
LEMMA SettleSameRun ==
    ASSUME PInv, NEW i \in Ids, NEW s \in States, jobs[i].state # "running",
           s # "running",
           Settle([jobs EXCEPT ![i] = Ended(@, s)], i)
    PROVE  /\ \A k \in Ids : jobs[k].state = "running" => jobs'[k] = jobs[k]
           /\ \A k \in Ids : \/ heard'[k] = heard[k]
                             \/ heard'[k].state # "running"
  <1> DEFINE e == Ended(jobs[i], s)
             js == [jobs EXCEPT ![i] = e]
  <1>1. TypeOK /\ jobs[i] \in Entries
    BY DEF PInv, IInv, TypeOK
  <1>2. e \in Entries /\ e.state = s
    BY <1>1, EndedType
  <1> HIDE DEF e
  <1>3. js \in [Ids -> Entries] /\ js[i] = e
        /\ \A k \in Ids : k # i => js[k] = jobs[k]
    BY <1>1, <1>2 DEF TypeOK
  <1>4. Settle(js, i)
    BY DEF e
  <1> HIDE DEF js
  <1>5. \A k \in Ids : \/ jobs'[k] = js[k]
                       \/ jobs'[k] = NoEntry /\ js[k].state \in Finished
    BY <1>1, <1>3, <1>4, SettleFacts
  <1>6. heard' = [heard EXCEPT ![i] = WordOf(js[i])]
    BY <1>4 DEF Settle
  <1>7. WordOf(js[i]).state # "running"
    BY <1>2, <1>3, SayWords
  <1>8. QED
    BY <1>1, <1>3, <1>5, <1>6, <1>7 DEF TypeOK, Finished

LEMMA InitPInv == Init => PInv
  <1> SUFFICES ASSUME Init PROVE PInv
    OBVIOUS
  <1>1. saying[Worker] = Silent /\ \A c \in Callers : saying[c] = Silent
    BY DEF Init
  <1>2. ~up
    BY DEF Init
  <1>3. QED
    BY <1>1, <1>2, SilentIsNoRun, InitIInv DEF PInv

LEMMA CommandPInv ==
    ASSUME PInv, NEW c \in Callers, Command(c)
    PROVE  PInv'
  <1>0. /\ IInv' /\ up /\ up' /\ c # Worker
        /\ saying \in [Callers \cup {Worker} -> [id: 0..MaxJobs, word: Words]]
        /\ jobs \in [Ids -> Entries]
    BY NextIInv, ConstantsAssumption
    DEF PInv, IInv, TypeOK, Next, Command, Submit, Tell, CancelRunning,
        CancelWaiting, Resume, Discard, ClearHistory, Free
  <1>1. CASE (\E t \in Targets, o \in BOOLEAN : Submit(c, t, o))
             \/ \E i \in Ids : Resume(c, i)
    <2>1. PICK i \in Ids, e \in Entries :
             /\ e.state = "queued" /\ jobs[i].state # "running"
             /\ jobs' = [jobs EXCEPT ![i] = e]
             /\ saying' = [saying EXCEPT ![c] = Say(i, e)]
             /\ UNCHANGED <<running, worker, heard>>
      <3>1. CASE \E t \in Targets, o \in BOOLEAN : Submit(c, t, o)
        <4>1. PICK t \in Targets, o \in BOOLEAN : Submit(c, t, o)
          BY <3>1
        <4> DEFINE e == [NoEntry EXCEPT !.place = pushes + 1, !.target = t,
                                        !.overwrite = o, !.state = "queued",
                                        !.spec = TRUE]
        <4>2. pushes + 1 \in 0..MaxPlace /\ next \in Ids
          BY <4>1, ConstantsAssumption DEF PInv, IInv, TypeOK, Submit, Ids
        <4>3. e \in Entries /\ e.state = "queued"
          BY <4>2, NoEntryType DEF Entries, States
        <4>4. jobs[next].state # "running"
          BY <4>2 DEF PInv, IInv, NewIdsAreFree, Fresh, Ids
        <4>5. /\ jobs' = [jobs EXCEPT ![next] = e]
              /\ saying' = [saying EXCEPT ![c] = Say(next, e)]
              /\ UNCHANGED <<running, worker, heard>>
          BY <4>1 DEF Submit
        <4> HIDE DEF e
        <4>6. QED
          BY <4>2, <4>3, <4>4, <4>5
      <3>2. CASE \E i \in Ids : Resume(c, i)
        <4>1. PICK i \in Ids : Resume(c, i)
          BY <3>2
        <4> DEFINE e == [jobs[i] EXCEPT !.state = "queued", !.place = pushes + 1]
        <4>2. pushes + 1 \in 0..MaxPlace /\ jobs[i] \in Entries
          BY <4>1, ConstantsAssumption DEF PInv, IInv, TypeOK, Resume
        <4>3. e \in Entries /\ e.state = "queued"
          BY <4>2 DEF Entries, States
        <4>4. /\ jobs' = [jobs EXCEPT ![i] = e]
              /\ saying' = [saying EXCEPT ![c] = Say(i, e)]
              /\ jobs[i].state # "running"
              /\ UNCHANGED <<running, worker, heard>>
          BY <4>1 DEF Resume
        <4> HIDE DEF e
        <4>5. QED
          BY <4>3, <4>4
      <3>3. QED
        BY <1>1, <3>1, <3>2
    <2>2. \A k \in Ids : running.id = k => jobs'[k] = jobs[k]
      BY <1>0, <2>1 DEF PInv, IInv, OneExport
    <2>3. saying'[Worker] = saying[Worker]
      BY <1>0, <2>1
    <2>4. \A x \in Callers : saying'[x].word.state # "running"
      BY <1>0, <2>1, SayWords DEF PInv
    <2>5. saying[Worker] # Silent => running.id \in Ids
      BY ConstantsAssumption
      DEF PInv, IInv, TypeOK, OneExport, Working, Runs, Ids
    <2>6. saying'[Worker] # Silent =>
             saying'[Worker] = Say(running'.id, jobs'[running'.id])
      BY <2>1, <2>2, <2>3, <2>5 DEF PInv
    <2>7. \A k \in Ids : heard'[k].state = "running" =>
              running'.id = k /\ NotBehind(heard'[k], jobs'[k])
      BY <1>0, <2>1, <2>2 DEF PInv
    <2>8. QED
      BY <1>0, <2>1, <2>3, <2>4, <2>6, <2>7 DEF PInv
  <1>2. CASE Tell(c)
    <2>1. /\ heard' = [heard EXCEPT ![saying[c].id] = saying[c].word]
          /\ saying' = [saying EXCEPT ![c] = Silent]
          /\ UNCHANGED <<jobs, running>>
          /\ worker' \in Working <=> worker \in Working
      BY <1>2 DEF Tell, Wake, Working, memory
    <2>2. heard \in [Ids -> Words]
      BY DEF PInv, IInv, TypeOK
    <2>3. \A k \in Ids : heard'[k] = heard[k] \/ heard'[k].state # "running"
      BY <2>1, <2>2 DEF PInv
    <2>4. saying'[Worker] = saying[Worker]
      BY <1>0, <2>1
    <2>5. \A x \in Callers : saying'[x].word.state # "running"
      BY <1>0, <2>1, SilentIsNoRun DEF PInv
    <2>6. \A k \in Ids : heard'[k].state = "running" =>
              running'.id = k /\ NotBehind(heard'[k], jobs'[k])
      BY <1>0, <2>1, <2>3 DEF PInv
    <2>7. QED
      BY <1>0, <2>1, <2>4, <2>5, <2>6 DEF PInv
  <1>3. CASE /\ running'.id = running.id
             /\ \A i \in Ids : jobs[i].state = "running" => jobs'[i] = jobs[i]
             /\ UNCHANGED <<saying, worker>>
             /\ \A i \in Ids : \/ heard'[i] = heard[i]
                               \/ heard'[i].state # "running"
    BY <1>0, <1>3, SameRun DEF PInv
  <1>4. CASE \E i \in Ids : CancelRunning(c, i)
    <2>1. /\ running'.id = running.id
          /\ UNCHANGED <<saying, worker, jobs, heard>>
      BY <1>4 DEF CancelRunning, PInv, IInv, TypeOK
    <2>2. QED
      BY <1>3, <2>1
  <1>5. CASE \E i \in Ids : CancelWaiting(c, i) \/ Discard(c, i)
    <2>1. PICK i \in Ids : CancelWaiting(c, i) \/ Discard(c, i)
      BY <1>5
    <2>2. /\ jobs[i].state # "running"
          /\ Settle([jobs EXCEPT ![i] = Ended(@, "cancelled")], i)
          /\ UNCHANGED <<saying, worker, running>>
      BY <2>1 DEF CancelWaiting, CanCancel, Discard
    <2>3. QED
      BY <1>3, <2>2, SettleSameRun DEF States, Finished
  <1>6. CASE ClearHistory(c)
    <2>1. jobs' = Clear(jobs) /\ UNCHANGED <<saying, worker, running, heard>>
      BY <1>6 DEF ClearHistory
    <2>2. \A i \in Ids : jobs[i].state = "running" => jobs'[i] = jobs[i]
      BY <1>0, <2>1, ClearFacts DEF Finished
    <2>3. QED
      BY <1>3, <2>1, <2>2
  <1>7. QED
    BY <1>1, <1>2, <1>4, <1>5, <1>6 DEF Command

LEMMA StartPInv ==
    ASSUME PInv, NEW i \in Ids, Start(i)
    PROVE  PInv'
  <1> DEFINE e == [jobs[i] EXCEPT !.state = "running", !.stage = 0,
                                  !.fraction = 0]
  <1>1. /\ IInv' /\ worker = "scan" /\ jobs[i].state = "queued"
        /\ saying \in [Callers \cup {Worker} -> [id: 0..MaxJobs, word: Words]]
        /\ jobs \in [Ids -> Entries] /\ Worker \notin Callers
    BY StartIInv, ConstantsAssumption
    DEF PInv, IInv, TypeOK, Start, IsFirst, Waiting
  <1>2. up /\ running.id = 0
    BY <1>1, WorkerLives DEF PInv, IInv, OneExport, Runs
  <1>3. /\ jobs' = [jobs EXCEPT ![i] = e]
        /\ saying' = [saying EXCEPT ![Worker] = Say(i, e)]
        /\ running'.id = i /\ worker' = "preparing"
        /\ UNCHANGED <<up, heard>>
    BY DEF Start
  <1> HIDE DEF e
  <1>4. saying'[Worker] = Say(running'.id, jobs'[running'.id])
    BY <1>1, <1>3
  <1>5. \A c \in Callers : saying'[c].word.state # "running"
    BY <1>1, <1>3 DEF PInv
  <1>6. \A k \in Ids : heard'[k].state # "running"
    BY <1>2, <1>3 DEF PInv, Ids
  <1>7. QED
    BY <1>1, <1>3, <1>4, <1>5, <1>6 DEF PInv, Working

LEMMA ProgressPInv ==
    ASSUME PInv, NEW stage \in Stages, NEW f \in Reported, Progress(stage, f)
    PROVE  PInv'
  <1> DEFINE i == running.id
             e == Metered(jobs[i], stage, f)
  <1>1. /\ IInv' /\ worker \in Working /\ saying[Worker] = Silent
        /\ saying \in [Callers \cup {Worker} -> [id: 0..MaxJobs, word: Words]]
        /\ jobs \in [Ids -> Entries] /\ heard \in [Ids -> Words]
        /\ Worker \notin Callers
    BY ProgressIInv, ConstantsAssumption
    DEF PInv, IInv, TypeOK, Progress, Working
  <1>2. i \in Ids
    BY <1>1, ConstantsAssumption DEF PInv, IInv, TypeOK, OneExport, Working, Runs, Ids
  <1>3. up /\ jobs[i] \in Entries
    BY <1>1, <1>2, WorkerLives DEF PInv, Working
  <1>4. e \in Entries /\ NotBehind(jobs[i], e)
    BY <1>3, MeteredType, MeteredGoesOn
  <1>5. /\ jobs' = [jobs EXCEPT ![i] = e]
        /\ saying' = [saying EXCEPT ![Worker] = Say(i, e)]
        /\ running'.id = i /\ UNCHANGED <<up, heard, worker>>
    BY DEF Progress
  <1> HIDE DEF e, i
  <1>6. saying'[Worker] = Say(running'.id, jobs'[running'.id])
    BY <1>1, <1>2, <1>5
  <1>7. \A c \in Callers : saying'[c].word.state # "running"
    BY <1>1, <1>5 DEF PInv
  <1>8. \A k \in Ids : heard'[k].state = "running" =>
            running'.id = k /\ NotBehind(heard'[k], jobs'[k])
    <2>1. SUFFICES ASSUME NEW k \in Ids, heard[k].state = "running"
                   PROVE  i = k /\ NotBehind(heard[k], jobs'[k])
      BY <1>5
    <2>2. i = k /\ NotBehind(heard[k], jobs[k])
      BY <1>3, <2>1 DEF PInv, i
    <2>3. NotBehind(heard[k], e)
      BY <1>1, <1>3, <1>4, <2>2, NotBehindThrough
    <2>4. QED
      BY <1>1, <1>2, <1>5, <2>2, <2>3
  <1>9. QED
    BY <1>1, <1>5, <1>6, <1>7, <1>8 DEF PInv

LEMMA WorkerTellsPInv ==
    ASSUME PInv, WorkerTells
    PROVE  PInv'
  <1>1. /\ IInv' /\ up /\ saying[Worker] # Silent
        /\ saying \in [Callers \cup {Worker} -> [id: 0..MaxJobs, word: Words]]
        /\ jobs \in [Ids -> Entries] /\ heard \in [Ids -> Words]
        /\ Worker \notin Callers
    BY WorkerTellsIInv, ConstantsAssumption DEF PInv, IInv, TypeOK, WorkerTells
  <1>2. running.id \in Ids
    BY <1>1, ConstantsAssumption
    DEF PInv, IInv, TypeOK, OneExport, Working, Runs, Ids
  <1>3. saying[Worker] = Say(running.id, jobs[running.id])
    BY <1>1 DEF PInv
  <1>4. /\ heard' = [heard EXCEPT ![running.id] = WordOf(jobs[running.id])]
        /\ saying' = [saying EXCEPT ![Worker] = Silent]
        /\ UNCHANGED <<up, jobs, running, worker>>
    BY <1>3 DEF WorkerTells, Say, memory
  <1>5. NotBehind(WordOf(jobs[running.id]), jobs[running.id])
    BY <1>1, <1>2, NotBehindItself
  <1>6. \A k \in Ids : heard'[k].state = "running" =>
            running'.id = k /\ NotBehind(heard'[k], jobs'[k])
    BY <1>1, <1>2, <1>4, <1>5 DEF PInv
  <1>7. saying'[Worker] = Silent /\ \A c \in Callers : saying'[c] = saying[c]
    BY <1>1, <1>4
  <1>8. QED
    BY <1>1, <1>6, <1>7 DEF PInv

LEMMA RecordPInv ==
    ASSUME PInv, Record
    PROVE  PInv'
  <1> DEFINE i == running.id
             e == Recorded(jobs[i], Outcome)
             js == [jobs EXCEPT ![i] = e]
  <1>1. /\ IInv' /\ saying[Worker] = Silent /\ TypeOK
        /\ worker # "exited"
    BY RecordIInv DEF PInv, IInv, Record, Working
  <1>2. i \in Ids
    BY <1>1, ConstantsAssumption DEF Record, PInv, IInv, TypeOK, OneExport, Runs, Ids
  <1>3. jobs[i] \in Entries /\ up
    BY <1>1, <1>2, WorkerLives DEF TypeOK, PInv
  <1>4. e \in Entries /\ e.state # "running"
    BY <1>3, OutcomeType, EndedType DEF States, Finished
  <1>5. Settle(js, i) /\ UNCHANGED <<up, saying>> /\ worker' = "scan"
    BY DEF Record
  <1>6. \A k \in Ids : heard[k].state = "running" => k = i
    BY <1>3 DEF PInv
  <1> HIDE DEF e, i
  <1>7. js[i] = e
    BY <1>1, <1>2 DEF TypeOK
  <1>8. heard' = [heard EXCEPT ![i] = WordOf(js[i])] /\ heard \in [Ids -> Words]
    BY <1>1, <1>5 DEF Settle, TypeOK
  <1>9. \A k \in Ids : heard'[k].state # "running"
    BY <1>2, <1>4, <1>6, <1>7, <1>8, SayWords
  <1>10. QED
    BY <1>1, <1>5, <1>9 DEF PInv, Working

LEMMA OpenPInv ==
    ASSUME PInv, Open
    PROVE  PInv'
  <1>1. IInv' /\ saying[Worker] = Silent
    BY OpenIInv DEF PInv, IInv, Down, Open, Working
  <1>2. \A i \in Ids : heard'[i].state # "running"
    <2> DEFINE loaded == IF store.readable THEN store ELSE EmptyStore
    <2>1. loaded.jobs \in [Ids -> Entries]
      BY EmptyStoreType DEF PInv, IInv, TypeOK, Stored
    <2>2. heard' = [i \in Ids |-> WordOf(Interrupt(loaded.jobs)[i])]
      BY DEF Open
    <2> HIDE DEF loaded
    <2>3. \A i \in Ids : Interrupt(loaded.jobs)[i].state # "running"
      BY <2>1, InterruptFacts
    <2>4. QED
      BY <2>2, <2>3, SayWords
  <1>3. UNCHANGED saying
    BY DEF Open
  <1>4. QED
    BY <1>1, <1>2, <1>3 DEF PInv

\* The runner, a shutdown and idling leave entries and announcements alone.
LEMMA ElsewherePInv ==
    ASSUME PInv, Park \/ Quit \/ Runner \/ WakeUnasked \/ Shutdown
    PROVE  PInv'
  <1>1. IInv'
    BY IdleIInv, RunnerIInv, ShutdownIInv DEF PInv
  <1>2. UNCHANGED <<up, jobs, saying, heard>>
    BY DEF Park, Quit, Runner, RunnerOpens, RunnerCommits, RunnerFails,
           RunnerReturns, WakeUnasked, Shutdown, memory
  <1>3. running'.id = running.id
    BY DEF Park, Quit, Runner, RunnerOpens, RunnerCommits, RunnerFails,
           RunnerReturns, WakeUnasked, Shutdown, memory, PInv, IInv, TypeOK
  <1>4. worker' \notin Working => saying[Worker] = Silent
    BY DEF Park, Quit, Runner, RunnerOpens, RunnerCommits, RunnerFails,
           RunnerReturns, RunnerAt, WakeUnasked, Shutdown, Wake, Working, PInv
  <1>5. QED
    BY <1>1, <1>2, <1>3, <1>4 DEF PInv

LEMMA NextPInv ==
    ASSUME PInv, [Next]_vars
    PROVE  PInv'
  <1>0. IInv'
    BY NextIInv DEF PInv
  <1>1. CASE UNCHANGED vars
    BY <1>0, <1>1 DEF PInv, vars, memory
  <1>2. CASE \E c \in Callers : Command(c)
    BY <1>2, CommandPInv
  <1>3. CASE \E i \in Ids : Refuse(i)
    <2>1. PICK i \in Ids : Refuse(i)
      BY <1>3
    <2>2. /\ jobs[i].state # "running" /\ worker # "exited"
          /\ Settle([jobs EXCEPT ![i] = Ended(@, "failed")], i)
          /\ UNCHANGED <<up, saying, worker, running>>
      BY <2>1 DEF Refuse, IsFirst, Waiting
    <2>3. up
      BY <2>2, WorkerLives DEF PInv
    <2>4. /\ \A k \in Ids : jobs[k].state = "running" => jobs'[k] = jobs[k]
          /\ \A k \in Ids : heard'[k] = heard[k] \/ heard'[k].state # "running"
      BY <2>2, SettleSameRun DEF States, Finished
    <2>5. QED
      BY <1>0, <2>2, <2>3, <2>4, SameRun DEF PInv
  <1>4. CASE Exit \/ Crash
    <2>1. /\ ~up' /\ \A th \in Callers \cup {Worker} : saying'[th] = Silent
      BY <1>4 DEF Exit, Crash, Gone
    <2>2. QED
      BY <1>0, <2>1, SilentIsNoRun DEF PInv
  <1>5. QED
    BY <1>1, <1>2, <1>3, <1>4, StartPInv, ProgressPInv, WorkerTellsPInv,
       RecordPInv, OpenPInv, ElsewherePInv DEF Next, WorkerStep

\* What a step announces of a run that was announced is no further back.
LEMMA HeardGoesOn ==
    ASSUME PInv, [Next]_vars, NEW i \in Ids, heard[i].state = "running",
           heard'[i].state = "running"
    PROVE  NotBehind(heard[i], heard'[i])
  <1>1. heard \in [Ids -> Words]
    BY DEF PInv, IInv, TypeOK
  <1>2. CASE heard'[i] = heard[i]
    BY <1>1, <1>2, ConstantsAssumption DEF NotBehind, Words, Stages
  <1>3. CASE WorkerTells
    <2>1. /\ up /\ saying[Worker] = Say(running.id, jobs[running.id])
          /\ heard' = [heard EXCEPT ![saying[Worker].id] = saying[Worker].word]
      BY <1>3 DEF WorkerTells, PInv
    <2>2. running.id = i /\ NotBehind(heard[i], jobs[i])
      BY <2>1 DEF PInv
    <2>3. heard'[i] = WordOf(jobs[i])
      BY <1>1, <2>1, <2>2 DEF Say
    <2>4. QED
      BY <2>2, <2>3 DEF NotBehind, WordOf
  <1>4. CASE \E c \in Callers : Tell(c)
    <2>1. PICK c \in Callers :
             heard' = [heard EXCEPT ![saying[c].id] = saying[c].word]
      BY <1>4 DEF Tell
    <2>2. heard'[i] = heard[i]
      BY <1>1, <2>1 DEF PInv
    <2>3. QED
      BY <1>2, <2>2
  <1>5. CASE \E k \in Ids, s \in States \ {"running"} :
               /\ jobs[k].state # "running"
               /\ Settle([jobs EXCEPT ![k] = Ended(@, s)], k)
    <2>1. heard'[i] = heard[i]
      BY <1>5, SettleSameRun
    <2>2. QED
      BY <1>2, <2>1
  <1>6. CASE \E c \in Callers, k \in Ids : CancelWaiting(c, k) \/ Discard(c, k)
    BY <1>5, <1>6 DEF CancelWaiting, CanCancel, Discard, States, Finished
  <1>7. CASE \E k \in Ids : Refuse(k)
    BY <1>5, <1>7 DEF Refuse, IsFirst, Waiting, States, Finished
  <1>8. CASE Record
    <2>1. up /\ running.id = i /\ ~(running'.id = i) /\ up'
      BY <1>8, WorkerLives
      DEF Record, PInv, NoRun, Ids
    <2>2. PInv'
      BY <1>8, RecordPInv
    <2>3. QED
      BY <2>1, <2>2 DEF PInv
  <1>9. CASE Open
    <2>1. PInv' /\ up' /\ ~up /\ running' = running
      BY <1>9, OpenPInv DEF Open
    <2>2. running.id = 0
      BY <2>1 DEF PInv, IInv, Down
    <2>3. QED
      BY <2>1, <2>2 DEF PInv, Ids
  <1>10. CASE UNCHANGED heard
    BY <1>2, <1>10
  <1>11. QED
    BY <1>3, <1>4, <1>6, <1>7, <1>8, <1>9, <1>10
    DEF Next, Command, WorkerStep, Runner, vars, files, Submit, CancelRunning,
        Resume, ClearHistory, Start, Park, Quit, RunnerOpens, RunnerCommits,
        RunnerFails, RunnerReturns, WakeUnasked, Progress, Shutdown, Exit,
        Crash, Gone

\* What is announced of a run only goes forwards, whatever the runner reports
\* and in whatever order, and however late the worker announces it.
THEOREM ProgressGoesOn == Spec => ProgressForward
  <1>1. PInv /\ [Next]_vars =>
           [\A i \in Ids :
              (heard[i].state = "running" /\ heard'[i].state = "running") =>
                 \/ heard'[i].stage > heard[i].stage
                 \/ /\ heard'[i].stage = heard[i].stage
                    /\ heard'[i].fraction >= heard[i].fraction]_vars
    BY HeardGoesOn DEF NotBehind
  <1>2. Init => PInv
    BY InitPInv
  <1>3. PInv /\ [Next]_vars => PInv'
    BY NextPInv
  <1>4. QED
    BY <1>1, <1>2, <1>3, PTL DEF Spec, ProgressForward

-----------------------------------------------------------------------------
(* The queue implements a line of jobs: what each step does to the line, to  *)
(* what is offered and to what has ended.                                    *)

RInv == KInv /\ SInv

\* With a process, what counts is its memory.
LEMMA InMemory ==
    ASSUME up
    PROVE  /\ Asked = 1..next - 1 /\ Lined = Waiting(jobs)
           /\ Before = InOrder(jobs) /\ Entry = jobs
           /\ Offered = {i \in Ids : jobs[i].state = "interrupted"}
  BY DEF Asked, Lined, Before, Entry, Offered

LEMMA InMemoryNext ==
    ASSUME up'
    PROVE  /\ Asked' = 1..next' - 1 /\ Lined' = Waiting(jobs')
           /\ Before' = InOrder(jobs') /\ Entry' = jobs'
           /\ Offered' = {i \in Ids : jobs'[i].state = "interrupted"}
  BY DEF Asked, Lined, Before, Entry, Offered

\* An entry pushed to the Vec lies behind all who wait.
LEMMA PushJoins ==
    ASSUME RInv, NEW i \in Ids, NEW e \in Entries, jobs[i].state # "queued",
           e.state = "queued", e.place = pushes + 1
    PROVE  LET js == [jobs EXCEPT ![i] = e]
           IN  /\ Waiting(js) = Waiting(jobs) \cup {i}
               /\ InOrder(js) = InOrder(jobs) \cup (Waiting(jobs) \X {i})
  <1> DEFINE js == [jobs EXCEPT ![i] = e]
  <1>1. /\ jobs \in [Ids -> Entries] /\ pushes \in Nat
        /\ \A k \in Present(jobs) : jobs[k].place <= pushes
    BY ConstantsAssumption DEF RInv, KInv, IInv, TypeOK, WellKept
  <1>2. js[i] = e /\ \A k \in Ids : k # i => js[k] = jobs[k]
    BY <1>1
  <1> HIDE DEF js
  <1>3. Waiting(js) = Waiting(jobs) \cup {i} /\ i \notin Waiting(jobs)
    BY <1>2 DEF Waiting
  <1>4. \A k \in Waiting(jobs) : /\ js[k] = jobs[k] /\ jobs[k].place \in Nat
                                 /\ jobs[k].place < js[i].place
    <2>1. SUFFICES ASSUME NEW k \in Waiting(jobs)
                   PROVE  /\ js[k] = jobs[k] /\ jobs[k].place \in Nat
                          /\ jobs[k].place < js[i].place
      OBVIOUS
    <2>2. k \in Present(jobs) /\ k # i /\ k \in Ids
      BY DEF Waiting, Present
    <2>3. jobs[k].place \in Nat /\ jobs[k].place <= pushes
      BY <1>1, <2>2, ConstantsAssumption DEF Entries
    <2>4. QED
      BY <1>1, <1>2, <2>2, <2>3
  <1>5. js[i].place \in Nat
    BY <1>1, <1>2
  <1>6. InOrder(js) = InOrder(jobs) \cup (Waiting(jobs) \X {i})
    <2>1. SUFFICES ASSUME NEW a \in Waiting(jobs) \cup {i},
                          NEW b \in Waiting(jobs) \cup {i}
                   PROVE  js[a].place < js[b].place <=>
                             \/ /\ a \in Waiting(jobs) /\ b \in Waiting(jobs)
                                /\ jobs[a].place < jobs[b].place
                             \/ a \in Waiting(jobs) /\ b = i
      BY <1>3 DEF InOrder
    <2>2. CASE a \in Waiting(jobs) /\ b \in Waiting(jobs)
      BY <1>3, <1>4, <2>2
    <2>3. CASE a \in Waiting(jobs) /\ b = i
      BY <1>4, <2>3
    <2>4. CASE a = i /\ b \in Waiting(jobs)
      BY <1>3, <1>4, <1>5, <2>4
    <2>5. CASE a = i /\ b = i
      BY <1>3, <1>5, <2>5
    <2>6. QED
      BY <2>2, <2>3, <2>4, <2>5
  <1>7. QED
    BY <1>3, <1>6 DEF js

\* Entries of which one no longer waits, and others only if they had finished
LEMMA OneLeaves ==
    ASSUME NEW js \in [Ids -> Entries], NEW ks, NEW i \in Ids,
           ks[i].state # "queued",
           \A k \in Ids : k # i => \/ ks[k] = js[k]
                                   \/ ks[k] = NoEntry /\ js[k].state \in Finished
    PROVE  /\ Waiting(ks) = Waiting(js) \ {i}
           /\ InOrder(ks) = {p \in InOrder(js) : i \notin {p[1], p[2]}}
  <1>1. \A k \in Ids : k # i => (ks[k].state = "queued" <=> js[k].state = "queued")
    BY NoEntryType DEF Finished
  <1>2. Waiting(ks) = Waiting(js) \ {i}
    BY <1>1 DEF Waiting
  <1>3. \A k \in Waiting(ks) : ks[k] = js[k]
    BY NoEntryType DEF Waiting
  <1>4. InOrder(ks) = {p \in InOrder(js) : i \notin {p[1], p[2]}}
    BY <1>2, <1>3 DEF InOrder
  <1>5. QED
    BY <1>2, <1>4

\* The line stays as it is where the entries that wait do.
LEMMA SameLine ==
    ASSUME NEW js \in [Ids -> Entries], NEW ks,
           \A k \in Ids : ks[k].state = "queued" <=> js[k].state = "queued",
           \A k \in Ids : js[k].state = "queued" => ks[k] = js[k]
    PROVE  Waiting(ks) = Waiting(js) /\ InOrder(ks) = InOrder(js)
  <1>1. Waiting(ks) = Waiting(js)
    BY DEF Waiting
  <1>2. \A k \in Waiting(js) : ks[k] = js[k]
    BY DEF Waiting
  <1>3. QED
    BY <1>1, <1>2 DEF InOrder

\* One entry in another state, some finished ones forgotten: what has ended
LEMMA EndsSettle ==
    ASSUME NEW js \in [Ids -> Entries], NEW ks, NEW i \in Ids, NEW e,
           \A k \in Ids :
              LET was == IF k = i THEN e ELSE js[k]
              IN  ks[k] = was \/ (ks[k] = NoEntry /\ was.state \in Finished)
    PROVE  /\ e.state \in Finished =>
                 Line!Settled([EndOf(js) EXCEPT ![i] = e.state], EndOf(ks))
           /\ (e.state \notin Finished /\ js[i].state \notin Finished) =>
                 Line!Settled(EndOf(js), EndOf(ks))
  <1>1. NoEntry.state \notin Finished
    BY NoEntryType DEF Finished
  <1>2. EndOf(js) \in [Ids -> Finished \cup {"none"}]
    BY DEF EndOf
  <1>3. \A k \in Ids : EndOf(ks)[k] = IF ks[k].state \in Finished
                                      THEN ks[k].state ELSE "none"
    BY DEF EndOf
  <1>4. \A k \in Ids : EndOf(js)[k] = IF js[k].state \in Finished
                                      THEN js[k].state ELSE "none"
    BY DEF EndOf
  <1>5. Line!Outcomes = Finished
    BY DEF Line!Outcomes, Finished
  <1>6. ASSUME e.state \in Finished
        PROVE  Line!Settled([EndOf(js) EXCEPT ![i] = e.state], EndOf(ks))
    <2>1. SUFFICES ASSUME NEW k \in Ids
                   PROVE  LET was == [EndOf(js) EXCEPT ![i] = e.state]
                          IN  \/ EndOf(ks)[k] = was[k]
                              \/ was[k] \in Finished /\ EndOf(ks)[k] = "none"
      BY <1>5 DEF Line!Settled
    <2>2. CASE k = i
      BY <1>1, <1>2, <1>3, <1>6, <2>2
    <2>3. CASE k # i
      BY <1>1, <1>2, <1>3, <1>4, <2>3
    <2>4. QED
      BY <2>2, <2>3
  <1>7. ASSUME e.state \notin Finished, js[i].state \notin Finished
        PROVE  Line!Settled(EndOf(js), EndOf(ks))
    <2>1. SUFFICES ASSUME NEW k \in Ids
                   PROVE  \/ EndOf(ks)[k] = EndOf(js)[k]
                          \/ EndOf(js)[k] \in Finished /\ EndOf(ks)[k] = "none"
      BY <1>5 DEF Line!Settled
    <2>2. CASE k = i
      BY <1>1, <1>3, <1>4, <1>7, <2>2
    <2>3. CASE k # i
      BY <1>1, <1>3, <1>4, <2>3
    <2>4. QED
      BY <2>2, <2>3
  <1>8. QED
    BY <1>6, <1>7

\* submit and resume
LEMMA PushImplements ==
    ASSUME RInv, up, up', NEW i \in Ids, NEW e \in Entries,
           e.state = "queued", e.place = pushes + 1,
           jobs' = [jobs EXCEPT ![i] = e], UNCHANGED running,
           \/ jobs[i].state = "none" /\ i = next /\ next' = next + 1
           \/ jobs[i].state = "interrupted" /\ next' = next
    PROVE  Line!Ask(i) \/ Line!AskAgain(i)
  <1>1. jobs \in [Ids -> Entries] /\ next \in 1..MaxJobs + 1
    BY DEF RInv, KInv, IInv, TypeOK
  <1>2. Line!Join(i)
    BY PushJoins, InMemory, InMemoryNext DEF Line!Join
  <1>3. EndOf(jobs') = EndOf(jobs)
    <2>1. \A k \in Ids : k # i => jobs'[k] = jobs[k]
      BY <1>1
    <2>2. jobs'[i] = e
      BY <1>1
    <2>3. QED
      BY <2>1, <2>2 DEF EndOf, Finished
  <1>4. CASE jobs[i].state = "none" /\ i = next /\ next' = next + 1
    <2>1. Offered' = Offered
      BY <1>1, <1>4, InMemory, InMemoryNext
    <2>2. i \in Ids \ Asked /\ Asked' = Asked \cup {i}
      BY <1>1, <1>4, InMemory, InMemoryNext, ConstantsAssumption DEF Ids
    <2>3. QED
      BY <1>2, <1>3, <2>1, <2>2, InMemory, InMemoryNext DEF Line!Ask
  <1>5. CASE jobs[i].state = "interrupted" /\ next' = next
    <2>1. i \in Offered /\ Offered' = Offered \ {i}
      BY <1>1, <1>5, InMemory, InMemoryNext
    <2>2. Asked' = Asked
      BY <1>5, InMemory, InMemoryNext
    <2>3. QED
      BY <1>2, <1>3, <2>1, <2>2, InMemory, InMemoryNext DEF Line!AskAgain
  <1>6. QED
    BY <1>4, <1>5

\* cancel, discard and a refusal
LEMMA EndImplements ==
    ASSUME RInv, up, up', NEW i \in Ids, NEW s \in {"cancelled", "failed"},
           jobs[i].state \in {"queued", "interrupted"},
           Settle([jobs EXCEPT ![i] = Ended(@, s)], i),
           UNCHANGED <<next, running>>
    PROVE  Line!GiveUp(i)
  <1> DEFINE e == Ended(jobs[i], s)
             js == [jobs EXCEPT ![i] = e]
  <1>1. TypeOK /\ jobs[i] \in Entries /\ s \in States
    BY DEF RInv, KInv, IInv, TypeOK, States, Finished
  <1>2. e \in Entries /\ e.state = s
    BY <1>1, EndedType
  <1> HIDE DEF e
  <1>3. js \in [Ids -> Entries] /\ js[i] = e
        /\ \A k \in Ids : k # i => js[k] = jobs[k]
    BY <1>1, <1>2 DEF TypeOK
  <1>4. Settle(js, i)
    BY DEF e
  <1> HIDE DEF js
  <1>5. \A k \in Ids : \/ jobs'[k] = js[k]
                       \/ jobs'[k] = NoEntry /\ js[k].state \in Finished
    BY <1>1, <1>3, <1>4, SettleFacts
  <1>6. jobs \in [Ids -> Entries] /\ jobs'[i].state \notin {"queued", "interrupted"}
    BY <1>1, <1>2, <1>3, <1>5, NoEntryType DEF TypeOK
  <1>7. Line!Leave(i)
    <2>1. /\ Waiting(jobs') = Waiting(jobs) \ {i}
          /\ InOrder(jobs') = {p \in InOrder(jobs) : i \notin {p[1], p[2]}}
      BY <1>3, <1>5, <1>6, OneLeaves
    <2>2. QED
      BY <2>1, InMemory, InMemoryNext DEF Line!Leave
  <1>8. i \in Lined \cup Offered
    BY InMemory DEF Waiting
  <1>9. Offered' = Offered \ {i}
    <2>1. \A k \in Ids : k # i => (jobs'[k].state = "interrupted" <=>
                                    jobs[k].state = "interrupted")
      BY <1>3, <1>5, NoEntryType DEF Finished
    <2>2. QED
      BY <1>6, <2>1, InMemory, InMemoryNext
  <1>10. Line!Settled([EndOf(jobs) EXCEPT ![i] = s], EndOf(jobs'))
    <2>1. e.state \in Finished
      BY <1>2 DEF Finished
    <2>2. \A k \in Ids :
             LET was == IF k = i THEN e ELSE jobs[k]
             IN  jobs'[k] = was \/ (jobs'[k] = NoEntry /\ was.state \in Finished)
      BY <1>3, <1>5
    <2>3. QED
      BY <1>2, <1>6, <2>1, <2>2, EndsSettle
  <1>11. UNCHANGED <<Asked, running.id>>
    BY InMemory, InMemoryNext
  <1>12. QED
    BY <1>7, <1>8, <1>9, <1>10, <1>11, InMemory, InMemoryNext DEF Line!GiveUp

\* next_job: the first queued entry of the Vec is the head of the line.
LEMMA StartImplements ==
    ASSUME RInv, NEW i \in Ids, Start(i)
    PROVE  Line!Begin(i)
  <1> DEFINE e == [jobs[i] EXCEPT !.state = "running", !.stage = 0,
                                  !.fraction = 0]
  <1>1. /\ jobs \in [Ids -> Entries] /\ jobs[i].state = "queued"
        /\ worker = "scan" /\ i \in Waiting(jobs)
        /\ \A k \in Waiting(jobs) : jobs[i].place <= jobs[k].place
    BY DEF RInv, KInv, IInv, TypeOK, Start, IsFirst, Waiting
  <1>2. up /\ running.id = 0
    BY <1>1, WorkerLives DEF RInv, KInv, IInv, OneExport, Runs
  <1>3. e.state = "running"
    BY <1>1 DEF Entries
  <1>4. /\ jobs' = [jobs EXCEPT ![i] = e] /\ running'.id = i
        /\ UNCHANGED <<up, next>>
    BY DEF Start
  <1> HIDE DEF e
  <1>5. jobs'[i] = e /\ \A k \in Ids : k # i => jobs'[k] = jobs[k]
    BY <1>1, <1>4
  <1>6. \A k \in Waiting(jobs) \ {i} : <<i, k>> \in InOrder(jobs)
    <2>1. SUFFICES ASSUME NEW k \in Waiting(jobs), k # i
                   PROVE  jobs[i].place < jobs[k].place
      BY <1>1 DEF InOrder
    <2>2. i \in Present(jobs) /\ k \in Present(jobs)
      BY <1>1 DEF Waiting, Present
    <2>3. jobs[i].place # jobs[k].place
      BY <2>1, <2>2 DEF RInv, KInv, WellKept, Apart
    <2>4. jobs[i].place \in Nat /\ jobs[k].place \in Nat
      BY <1>1, <2>2, ConstantsAssumption DEF Present, Entries
    <2>5. QED
      BY <1>1, <2>3, <2>4
  <1>7. /\ Waiting(jobs') = Waiting(jobs) \ {i}
        /\ InOrder(jobs') = {p \in InOrder(jobs) : i \notin {p[1], p[2]}}
    <2>1. jobs'[i].state # "queued"
      BY <1>3, <1>5
    <2>2. QED
      BY <1>1, <1>5, <2>1, OneLeaves
  <1>8. Offered' = Offered /\ EndOf(jobs') = EndOf(jobs)
    <2>1. \A k \in Ids : jobs'[k] = jobs[k] \/ (k = i /\ jobs'[k] = e)
      BY <1>5
    <2>2. EndOf(jobs') = EndOf(jobs)
      BY <1>1, <1>3, <2>1 DEF EndOf, Finished
    <2>3. QED
      BY <1>1, <1>2, <1>3, <1>4, <2>1, <2>2, InMemory, InMemoryNext
  <1>9. Line!Leave(i)
    BY <1>2, <1>4, <1>7, InMemory, InMemoryNext DEF Line!Leave
  <1>10. QED
    BY <1>1, <1>2, <1>4, <1>6, <1>8, <1>9, InMemory, InMemoryNext
    DEF Line!Begin

\* work: a run that ended has its outcome, or is offered again.
LEMMA RecordImplements ==
    ASSUME RInv, Record
    PROVE  Line!End \/ Line!Interrupt
  <1> DEFINE i == running.id
             e == Recorded(jobs[i], Outcome)
             js == [jobs EXCEPT ![i] = e]
  <1>1. TypeOK /\ worker # "exited"
    BY DEF RInv, KInv, IInv, Record
  <1>2. i \in Ids /\ i # 0
    BY <1>1, ConstantsAssumption
    DEF Record, RInv, KInv, IInv, TypeOK, OneExport, Runs, Ids
  <1>3. jobs[i] \in Entries /\ jobs[i].state = "running" /\ up
    BY <1>1, <1>2, WorkerLives DEF TypeOK, RInv, KInv, IInv, OneExport
  <1>4. Outcome \in States
    BY OutcomeType DEF States, Finished
  <1>5. e \in Entries /\ e.state = Outcome
    BY <1>3, <1>4, EndedType
  <1>6. Settle(js, i) /\ UNCHANGED <<up, next>> /\ running'.id = 0
    BY DEF Record, NoRun
  <1> HIDE DEF e
  <1>7. js \in [Ids -> Entries] /\ js[i] = e
        /\ \A k \in Ids : k # i => js[k] = jobs[k]
    BY <1>1, <1>2, <1>5 DEF TypeOK
  <1> HIDE DEF js
  <1>8. \A k \in Ids : \/ jobs'[k] = js[k]
                       \/ jobs'[k] = NoEntry /\ js[k].state \in Finished
    BY <1>1, <1>2, <1>6, <1>7, SettleFacts
  <1> HIDE DEF i
  <1>9. jobs \in [Ids -> Entries]
    BY <1>1 DEF TypeOK
  <1>10. Lined' = Lined /\ Before' = Before /\ Asked' = Asked
    <2>1. \A k \in Ids : jobs'[k].state = "queued" <=> jobs[k].state = "queued"
      BY <1>3, <1>5, <1>7, <1>8, OutcomeType, NoEntryType DEF Finished
    <2>2. \A k \in Ids : jobs[k].state = "queued" => jobs'[k] = jobs[k]
      BY <1>3, <1>7, <1>8 DEF Finished
    <2>3. Waiting(jobs') = Waiting(jobs) /\ InOrder(jobs') = InOrder(jobs)
      BY <1>9, <2>1, <2>2, SameLine
    <2>4. QED
      BY <1>3, <1>6, <2>3, InMemory, InMemoryNext
  <1>11. \A k \in Ids :
            LET was == IF k = i THEN e ELSE jobs[k]
            IN  jobs'[k] = was \/ (jobs'[k] = NoEntry /\ was.state \in Finished)
    BY <1>7, <1>8
  <1>12. jobs[i].state \notin Finished
    BY <1>3 DEF Finished
  <1>13. /\ e.state \in Finished =>
               Line!Settled([EndOf(jobs) EXCEPT ![i] = e.state], EndOf(jobs'))
         /\ e.state \notin Finished => Line!Settled(EndOf(jobs), EndOf(jobs'))
    BY <1>2, <1>9, <1>11, <1>12, EndsSettle
  <1>14. \A k \in Ids : jobs'[k].state = "interrupted" <=>
            (jobs[k].state = "interrupted" \/ (k = i /\ e.state = "interrupted"))
    BY <1>3, <1>5, <1>7, <1>8, NoEntryType DEF Finished
  <1>15. CASE e.state \in Finished
    <2>1. Offered' = Offered
      BY <1>3, <1>6, <1>14, <1>15, InMemory, InMemoryNext DEF Finished
    <2>2. QED
      BY <1>2, <1>3, <1>6, <1>10, <1>13, <1>15, <2>1, InMemory, InMemoryNext
      DEF Line!End, Line!Outcomes, Finished, i
  <1>16. CASE e.state \notin Finished
    <2>1. e.state = "interrupted"
      BY <1>5, <1>16, OutcomeType DEF Finished
    <2>2. Offered' = Offered \cup {i}
      BY <1>2, <1>3, <1>6, <1>14, <2>1, InMemory, InMemoryNext
    <2>3. QED
      BY <1>2, <1>3, <1>6, <1>10, <1>13, <1>16, <2>2, InMemory, InMemoryNext
      DEF Line!Interrupt, i
  <1>17. QED
    BY <1>15, <1>16

\* Steps that leave the line, what is offered and what has ended: all but the
\* entries' progress, or what was finished and is forgotten
LEMMA ForgetImplements ==
    ASSUME RInv, up, up', UNCHANGED <<next, running>>,
           \A k \in Ids : \/ jobs'[k] = jobs[k]
                          \/ jobs'[k] = NoEntry /\ jobs[k].state \in Finished
    PROVE  Line!Forget
  <1>1. jobs \in [Ids -> Entries]
    BY DEF RInv, KInv, IInv, TypeOK
  <1>2. Lined' = Lined /\ Before' = Before
    <2>1. \A k \in Ids : jobs'[k].state = "queued" <=> jobs[k].state = "queued"
      BY NoEntryType DEF Finished
    <2>2. \A k \in Ids : jobs[k].state = "queued" => jobs'[k] = jobs[k]
      BY DEF Finished
    <2>3. Waiting(jobs') = Waiting(jobs) /\ InOrder(jobs') = InOrder(jobs)
      BY <1>1, <2>1, <2>2, SameLine
    <2>4. QED
      BY <2>3, InMemory, InMemoryNext
  <1>3. Offered' = Offered
    <2>1. \A k \in Ids :
             jobs'[k].state = "interrupted" <=> jobs[k].state = "interrupted"
      BY NoEntryType DEF Finished
    <2>2. QED
      BY <2>1, InMemory, InMemoryNext
  <1>4. Line!Settled(EndOf(jobs), EndOf(jobs'))
    BY NoEntryType DEF Line!Settled, Line!Outcomes, EndOf, Finished
  <1>5. QED
    BY <1>2, <1>3, <1>4, InMemory, InMemoryNext DEF Line!Forget

\* Steps that move nothing the line is made of
LEMMA ElsewhereImplements ==
    ASSUME UNCHANGED <<up, jobs, next, store>>, running'.id = running.id
    PROVE  UNCHANGED Line!vars
  BY DEF Line!vars, Asked, Lined, Before, Offered, Entry, OnDisk, InOrder,
         Waiting, EndOf

LEMMA ProgressImplements ==
    ASSUME RInv, NEW stage \in Stages, NEW f \in Reported, Progress(stage, f)
    PROVE  UNCHANGED Line!vars
  <1> DEFINE i == running.id
             e == Metered(jobs[i], stage, f)
  <1>1. i \in Ids /\ worker # "exited"
    BY ConstantsAssumption
    DEF Progress, RInv, KInv, IInv, TypeOK, OneExport, Runs, Ids
  <1>2. up /\ jobs \in [Ids -> Entries]
    BY <1>1, WorkerLives DEF RInv, KInv, IInv, TypeOK
  <1>3. jobs[i] \in Entries /\ jobs[i].state = "running"
    BY <1>1 DEF RInv, KInv, IInv, TypeOK, Progress
  <1>4. e.state = "running"
    BY <1>3, MeteredType
  <1>5. /\ jobs' = [jobs EXCEPT ![i] = e]
        /\ UNCHANGED <<up, next, running>>
    BY DEF Progress
  <1> HIDE DEF e, i
  <1>6. \A k \in Ids : jobs'[k] = jobs[k] \/ (k = i /\ jobs'[k] = e)
    BY <1>2, <1>5
  <1>7. \A k \in Ids : jobs'[k].state = jobs[k].state
    BY <1>3, <1>4, <1>6
  <1>8. \A k \in Ids : jobs[k].state = "queued" => jobs'[k] = jobs[k]
    BY <1>3, <1>6
  <1>9. Waiting(jobs') = Waiting(jobs) /\ InOrder(jobs') = InOrder(jobs)
    BY <1>2, <1>7, <1>8, SameLine
  <1>10. EndOf(jobs') = EndOf(jobs) /\ Offered' = Offered
    BY <1>2, <1>5, <1>7, InMemory, InMemoryNext DEF EndOf
  <1>11. QED
    BY <1>2, <1>5, <1>9, <1>10, InMemory, InMemoryNext DEF Line!vars

\* The process is gone: all that waited or ran is offered again.
LEMMA GoneImplements ==
    ASSUME RInv, up, Gone
    PROVE  Line!Stop
  <1>1. /\ ~up' /\ UNCHANGED store /\ running' = NoRun
        /\ store.readable /\ store.next = next
        /\ StateOf(store.jobs) = StateOf(jobs)
    BY DEF Gone, RInv, SInv, StoreIsMemory
  <1>2. \A i \in Ids : store.jobs[i].state = jobs[i].state
    BY <1>1, StateOfStates DEF RInv, SInv, IInv, TypeOK, Stored
  <1>3. /\ Entry' = store.jobs /\ Entry = jobs
        /\ Asked' = 1..next - 1 /\ Asked = 1..next - 1
        /\ Lined' = {} /\ Before' = {} /\ running'.id = 0
    BY <1>1 DEF Entry, Asked, Lined, Before, OnDisk, NoRun
  <1>4. EndOf(store.jobs) = EndOf(jobs)
    BY <1>2 DEF EndOf
  <1>5. Offered' = {i \in Ids :
                      jobs[i].state \in {"interrupted", "queued", "running"}}
    BY <1>1, <1>2, <1>3 DEF Offered
  <1>6. {i \in Ids : jobs[i].state = "running"} = {running.id} \ {0}
    <2>1. running.id \in Ids \cup {0}
      BY ConstantsAssumption DEF RInv, KInv, IInv, TypeOK, Ids
    <2>2. 0 \notin Ids
      BY DEF Ids
    <2>3. \A i \in Ids : jobs[i].state = "running" <=> running.id = i
      BY DEF RInv, KInv, IInv, OneExport
    <2>4. QED
      BY <2>1, <2>2, <2>3
  <1>7. Offered' = Offered \cup Lined \cup ({running.id} \ {0})
    BY <1>5, <1>6, InMemory DEF Waiting
  <1>8. QED
    BY <1>3, <1>4, <1>7 DEF Line!Stop

\* A launch: what was offered still is, and nothing starts.
LEMMA OpenImplements ==
    ASSUME RInv, Open
    PROVE  UNCHANGED Line!vars
  <1>1. ~up /\ up' /\ UNCHANGED running
        /\ jobs' = Interrupt(OnDisk.jobs) /\ next' = OnDisk.next
    BY DEF Open, OnDisk
  <1>2. OnDisk.jobs \in [Ids -> Entries]
    BY EmptyStoreType DEF OnDisk, RInv, KInv, IInv, TypeOK, Stored
  <1>3. \A i \in Ids :
           IF OnDisk.jobs[i].state \in {"queued", "running"}
           THEN jobs'[i].state = "interrupted"
           ELSE jobs'[i].state = OnDisk.jobs[i].state
    <2>1. "interrupted" \in States
      BY DEF States
    <2>2. QED
      BY <1>1, <1>2, <2>1, StillType DEF Interrupt
  <1>4. EndOf(jobs') = EndOf(OnDisk.jobs)
    BY <1>3 DEF EndOf, Finished
  <1>5. /\ Entry = OnDisk.jobs /\ Asked = 1..OnDisk.next - 1
        /\ Lined = {} /\ Before = {}
        /\ Offered = {i \in Ids : OnDisk.jobs[i].state
                                     \in {"interrupted", "queued", "running"}}
    BY <1>1 DEF Entry, Asked, Lined, Before, Offered
  <1>6. Waiting(jobs') = {} /\ InOrder(jobs') = {}
    BY <1>3 DEF Waiting, InOrder
  <1>7. Offered' = Offered
    BY <1>1, <1>3, <1>5, InMemoryNext
  <1>8. QED
    BY <1>1, <1>4, <1>5, <1>6, <1>7, InMemoryNext DEF Line!vars

LEMMA CommandImplements ==
    ASSUME RInv, NEW c \in Callers, Command(c)
    PROVE  [Line!Next]_(Line!vars)
  <1>0. up /\ up' /\ jobs \in [Ids -> Entries]
    BY DEF Command, Submit, Tell, CancelRunning, CancelWaiting, Resume, Discard,
           ClearHistory, Free, RInv, KInv, IInv, TypeOK
  <1>1. CASE \E t \in Targets, o \in BOOLEAN : Submit(c, t, o)
    <2>1. PICK t \in Targets, o \in BOOLEAN : Submit(c, t, o)
      BY <1>1
    <2> DEFINE e == [NoEntry EXCEPT !.place = pushes + 1, !.target = t,
                                    !.overwrite = o, !.state = "queued",
                                    !.spec = TRUE]
    <2>2. pushes + 1 \in 0..MaxPlace /\ next \in Ids
      BY <2>1, ConstantsAssumption DEF RInv, KInv, IInv, TypeOK, Submit, Ids
    <2>3. e \in Entries /\ e.state = "queued" /\ e.place = pushes + 1
      BY <2>2, NoEntryType DEF Entries, States
    <2>4. /\ jobs' = [jobs EXCEPT ![next] = e] /\ next' = next + 1
          /\ UNCHANGED running
      BY <2>1 DEF Submit
    <2>5. jobs[next].state = "none"
      BY <2>2 DEF RInv, KInv, IInv, NewIdsAreFree, Fresh, Ids
    <2> HIDE DEF e
    <2>6. Line!Ask(next) \/ Line!AskAgain(next)
      BY <1>0, <2>2, <2>3, <2>4, <2>5, PushImplements
    <2>7. QED
      BY <2>2, <2>6 DEF Line!Next
  <1>2. CASE Tell(c) \/ \E i \in Ids : CancelRunning(c, i)
    <2>1. UNCHANGED <<up, jobs, next, store>> /\ running'.id = running.id
      BY <1>2 DEF Tell, CancelRunning, memory, RInv, KInv, IInv, TypeOK
    <2>2. QED
      BY <2>1, ElsewhereImplements
  <1>3. CASE \E i \in Ids : CancelWaiting(c, i) \/ Discard(c, i)
    <2>1. PICK i \in Ids : CancelWaiting(c, i) \/ Discard(c, i)
      BY <1>3
    <2>2. /\ jobs[i].state \in {"queued", "interrupted"}
          /\ Settle([jobs EXCEPT ![i] = Ended(@, "cancelled")], i)
          /\ UNCHANGED <<next, running>>
      BY <2>1 DEF CancelWaiting, CanCancel, Discard
    <2>3. Line!GiveUp(i)
      BY <1>0, <2>2, EndImplements
    <2>4. QED
      BY <2>3 DEF Line!Next
  <1>4. CASE \E i \in Ids : Resume(c, i)
    <2>1. PICK i \in Ids : Resume(c, i)
      BY <1>4
    <2> DEFINE e == [jobs[i] EXCEPT !.state = "queued", !.place = pushes + 1]
    <2>2. pushes + 1 \in 0..MaxPlace /\ jobs[i] \in Entries
      BY <1>0, <2>1, ConstantsAssumption DEF RInv, KInv, IInv, TypeOK, Resume
    <2>3. e \in Entries /\ e.state = "queued" /\ e.place = pushes + 1
      BY <2>2 DEF Entries, States
    <2>4. /\ jobs' = [jobs EXCEPT ![i] = e] /\ next' = next
          /\ UNCHANGED running /\ jobs[i].state = "interrupted"
      BY <2>1 DEF Resume
    <2> HIDE DEF e
    <2>5. Line!Ask(i) \/ Line!AskAgain(i)
      BY <1>0, <2>3, <2>4, PushImplements
    <2>6. QED
      BY <2>5 DEF Line!Next
  <1>5. CASE ClearHistory(c)
    <2>1. jobs' = Clear(jobs) /\ UNCHANGED <<next, running>>
      BY <1>5 DEF ClearHistory
    <2>2. \A k \in Ids : \/ jobs'[k] = jobs[k]
                         \/ jobs'[k] = NoEntry /\ jobs[k].state \in Finished
      BY <1>0, <2>1, ClearFacts
    <2>3. QED
      BY <1>0, <2>1, <2>2, ForgetImplements DEF Line!Next
  <1>6. QED
    BY <1>1, <1>2, <1>3, <1>4, <1>5 DEF Command

LEMMA NextImplements ==
    ASSUME RInv, [Next]_vars
    PROVE  [Line!Next]_(Line!vars)
  <1>1. CASE \E c \in Callers : Command(c)
    BY <1>1, CommandImplements
  <1>2. CASE \E i \in Ids : Start(i)
    BY <1>2, StartImplements DEF Line!Next
  <1>3. CASE \E i \in Ids : Refuse(i)
    <2>1. PICK i \in Ids : Refuse(i)
      BY <1>3
    <2>2. /\ jobs[i].state \in {"queued", "interrupted"}
          /\ Settle([jobs EXCEPT ![i] = Ended(@, "failed")], i)
          /\ UNCHANGED <<up, next, running>> /\ worker # "exited"
      BY <2>1 DEF Refuse, IsFirst, Waiting
    <2>3. up
      BY <2>2, WorkerLives DEF RInv, KInv
    <2>4. Line!GiveUp(i)
      BY <2>2, <2>3, EndImplements
    <2>5. QED
      BY <2>4 DEF Line!Next
  <1>4. CASE Record
    BY <1>4, RecordImplements DEF Line!Next
  <1>5. CASE \E stage \in Stages, f \in Reported : Progress(stage, f)
    BY <1>5, ProgressImplements
  <1>6. CASE Exit \/ Crash
    BY <1>6, GoneImplements DEF Exit, Crash, Line!Next
  <1>7. CASE Open
    BY <1>7, OpenImplements
  <1>8. CASE \/ Park \/ Quit \/ WorkerTells \/ Runner \/ WakeUnasked
             \/ Shutdown \/ UNCHANGED vars
    <2>1. UNCHANGED <<up, jobs, next, store>> /\ running'.id = running.id
      BY <1>8 DEF Park, Quit, WorkerTells, Runner, RunnerOpens, RunnerCommits,
                  RunnerFails, RunnerReturns, WakeUnasked, Shutdown, memory,
                  vars, RInv, KInv, IInv, TypeOK
    <2>2. QED
      BY <2>1, ElsewhereImplements
  <1>9. QED
    BY <1>1, <1>2, <1>3, <1>4, <1>5, <1>6, <1>7, <1>8 DEF Next, WorkerStep

LEMMA InitImplements ==
    ASSUME Init
    PROVE  Line!Init
  <1>1. /\ ~up /\ running.id = 0 /\ store \in Stored
        /\ Fresh(store.jobs, store.next)
    BY ConstantsAssumption DEF Init, NoRun
  <1>2. OnDisk \in Stored /\ Fresh(OnDisk.jobs, OnDisk.next)
    BY <1>1, EmptyStoreType, NoEntryType DEF OnDisk, EmptyStore, Fresh
  <1>3. /\ Asked = 1..OnDisk.next - 1 /\ Lined = {} /\ Before = {}
        /\ Entry = OnDisk.jobs
    BY <1>1 DEF Asked, Lined, Before, Entry
  <1>4. OnDisk.next \in 1..MaxJobs + 1
    BY <1>2 DEF Stored
  <1>5. Asked \in SUBSET Ids
    BY <1>3, <1>4, ConstantsAssumption DEF Ids
  <1>6. Offered \in SUBSET Asked
    <2>1. SUFFICES ASSUME NEW i \in Ids, OnDisk.jobs[i].state # "none"
                   PROVE  i \in Asked
      BY <1>3 DEF Offered
    <2>2. ~(i >= OnDisk.next)
      BY <1>2, <2>1 DEF Fresh
    <2>3. QED
      BY <1>3, <1>4, <2>2, ConstantsAssumption DEF Ids
  <1>7. EndOf(Entry) \in [Ids -> Line!Outcomes \cup {"none"}]
    BY DEF EndOf, Line!Outcomes, Finished
  <1>8. QED
    BY <1>1, <1>3, <1>5, <1>6, <1>7 DEF Line!Init

\* Where the store can be written and was written by this queue, the queue
\* keeps the promises of the line: first come first made, one at a time,
\* outcomes for ever, nothing lost and nothing restarted by itself.
THEOREM QueueIsALine ==
    OwnStores /\ ~StoreMayFail /\ Spec => ImplementsExportLine
  <1>1. Init => Line!Init
    BY InitImplements
  <1>2. KInv /\ SInv /\ [Next]_vars => [Line!Next]_(Line!vars)
    BY NextImplements DEF RInv
  <1>3. OwnStores /\ Init => KInv
    BY InitKInv
  <1>4. ~StoreMayFail /\ Init => SInv
    BY InitSInv
  <1>5. KInv /\ [Next]_vars => KInv'
    BY NextKInv
  <1>6. SInv /\ [Next]_vars => SInv'
    BY NextSInv
  <1>7. QED
    BY <1>1, <1>2, <1>3, <1>4, <1>5, <1>6, PTL
    DEF Spec, ImplementsExportLine, Line!Spec
===============================================================================
