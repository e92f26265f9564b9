------------------------------ MODULE DesktopProofs ------------------------------
(***************************************************************************)
(* Proofs about components of the desktop application, for any number of   *)
(* clicks, views, attempts, runs, files and writers.                       *)
(*                                                                         *)
(* ShowsItsSession: a preview session is in one place, the store's, one an *)
(* open has been answered and not yet installed, or one that is being      *)
(* closed.  That they differ is what makes an answer that comes late       *)
(* harmless, and it holds because next_preview never hands out a number    *)
(* twice.                                                                  *)
(*                                                                         *)
(* NothingWaits: a view that holds "pending" with no answer of its own to  *)
(* come was told so by, or on behalf of, an attempt that has not spoken    *)
(* its last word; and the slot is pending only while one attempt is at     *)
(* work.                                                                   *)
(*                                                                         *)
(* ProxyCovers: for some number of segments, those before it are closed,   *)
(* each with its file and one line in the lists, and a process, when there *)
(* is one, is at the next; a proxy is made when there is no next.          *)
(*                                                                         *)
(* WholeWithinBudget: a file in the cache is being written by one writer   *)
(* or has settled.  Settled files come and go, but of the writers that     *)
(* are evicting the last to have listed the directory has, in what it has  *)
(* yet to look at and its own entry, all of them.                          *)
(***************************************************************************)
EXTENDS PreviewSessions, WaveformSlots, ProxyFolder, Session, ArtefactCache, Extremes, SequenceTheorems, TLAPS

-----------------------------------------------------------------------------
(* The preview's sessions                                                    *)

PreviewShapes ==
    /\ generation \in Nat /\ created \in Nat
    /\ store \in [status : {"empty", "opening", "open", "failed"}, session : Nat, playback : Nat]
    /\ opening \in [Opens -> [pc : {"idle", "closes", "asks", "opened", "refused", "over"},
                              mine : Nat, closes : Nat, got : Nat]]
    /\ sessions \subseteq Nat
    /\ request \in [Requests -> Nat]

\* A session being closed, one answered and the one shown are three, all of
\* them among those handed out.
Apart ==
    /\ store.session <= created
    /\ \A o \in Opens : opening[o].pc = "closes" =>
           opening[o].closes \in 1..created /\ opening[o].closes # store.session
    /\ \A o \in Opens : opening[o].pc = "opened" =>
           opening[o].got \in 1..created /\ opening[o].got # store.session
    /\ \A o, b \in Opens : opening[o].pc = "opened" /\ opening[b].pc = "closes" =>
           opening[o].got # opening[b].closes
    /\ \A o, b \in Opens : opening[o].pc = "opened" /\ opening[b].pc = "opened" /\ o # b =>
           opening[o].got # opening[b].got

PreviewInv == PreviewShapes /\ Apart /\ ShowsItsSession

LEMMA PreviewStarts == PreviewInit => PreviewInv
  BY DEF PreviewInit, PreviewInv, PreviewShapes, Apart, ShowsItsSession, Empty, NotBegun, Begun, NoPreview

LEMMA PreviewKeeps == PreviewInv /\ [PreviewNext]_previewVars => PreviewInv'
  <1> SUFFICES ASSUME PreviewInv, [PreviewNext]_previewVars PROVE PreviewInv'
    OBVIOUS
  <1> USE DEF PreviewInv
  <1>1. ASSUME NEW o \in Opens, Clicks(o) PROVE PreviewInv'
    <2>1. PICK old \in Nat, mine \in Nat, at \in {"asks", "closes"}, words \in {"empty", "opening"} :
            /\ generation' \in Nat /\ pump' = NoPreview
            /\ store' = [status |-> words, session |-> NoPreview, playback |-> NoPreview]
            /\ opening' = [opening EXCEPT ![o] = [pc |-> at, mine |-> mine, closes |-> old,
                                                 got |-> NoPreview]]
            /\ at = "closes" => old = store.session /\ old # NoPreview
            /\ UNCHANGED <<sessions, created, request>>
      <3>1. CASE store.session = NoPreview
        <4>1. /\ generation' = generation + 1 /\ pump' = NoPreview
              /\ store' = [status |-> "opening", session |-> NoPreview, playback |-> NoPreview]
              /\ opening' = [opening EXCEPT ![o] = [pc |-> "asks", mine |-> generation + 1,
                                                   closes |-> NoPreview, got |-> NoPreview]]
              /\ UNCHANGED <<sessions, created, request>>
          BY <1>1, <3>1 DEF Clicks, Pulls, Empty, Begun
        <4>2. generation + 1 \in Nat /\ NoPreview \in Nat /\ "asks" # "closes"
          BY DEF PreviewShapes, NoPreview
        <4>3. QED
          BY <4>1, <4>2
      <3>2. CASE store.session # NoPreview
        <4>1. /\ generation' = generation + 1 + 1 /\ pump' = NoPreview
              /\ store' = [status |-> "empty", session |-> NoPreview, playback |-> NoPreview]
              /\ opening' = [opening EXCEPT ![o] = [pc |-> "closes", mine |-> generation + 1,
                                                   closes |-> store.session, got |-> NoPreview]]
              /\ UNCHANGED <<sessions, created, request>>
          BY <1>1, <3>2 DEF Clicks, Pulls, Empty, Begun
        <4>2. generation + 1 \in Nat /\ generation + 1 + 1 \in Nat /\ store.session \in Nat
          BY DEF PreviewShapes
        <4>3. QED
          BY <3>2, <4>1, <4>2
      <3>3. QED
        BY <3>1, <3>2
    <2>2. /\ \A a \in Opens : a # o => opening'[a] = opening[a]
          /\ opening'[o] = [pc |-> at, mine |-> mine, closes |-> old, got |-> NoPreview]
      BY <2>1 DEF PreviewShapes
    <2>3. PreviewShapes'
      <3>1. opening'[o] \in [pc : {"idle", "closes", "asks", "opened", "refused", "over"},
                             mine : Nat, closes : Nat, got : Nat]
        BY <2>2 DEF NoPreview
      <3>2. QED
        BY <2>1, <3>1 DEF PreviewShapes, NoPreview
    <2>4. Apart'
      BY <2>1, <2>2 DEF PreviewShapes, Apart, NoPreview
    <2>5. ShowsItsSession'
      BY <2>1, <2>2 DEF PreviewShapes, Apart, ShowsItsSession, NoPreview
    <2>6. QED
      BY <2>3, <2>4, <2>5
  <1>2. ASSUME NEW o \in Opens, SessionCloses(o) PROVE PreviewInv'
    BY <1>2 DEF SessionCloses, Pulls, NoPreview, PreviewShapes, Apart, ShowsItsSession
  <1>3. ASSUME NEW o \in Opens, EngineOpens(o) PROVE PreviewInv'
    <2>1. CASE /\ created' = created + 1 /\ sessions' = sessions \cup {created'}
               /\ opening' = [opening EXCEPT ![o].pc = "opened", ![o].got = created']
      <3>1. /\ \A a \in Opens : a # o => opening'[a] = opening[a]
            /\ opening'[o].pc = "opened" /\ opening'[o].got = created + 1
            /\ created' = created + 1
            /\ UNCHANGED <<generation, store, request, pump>>
        BY <1>3, <2>1 DEF EngineOpens, PreviewShapes
      <3>2. PreviewShapes'
        <4>1. opening'[o] = [opening[o] EXCEPT !.pc = "opened", !.got = created + 1]
          BY <2>1 DEF PreviewShapes
        <4>2. /\ created + 1 \in Nat
              /\ opening[o] \in [pc : {"idle", "closes", "asks", "opened", "refused", "over"},
                                 mine : Nat, closes : Nat, got : Nat]
          BY DEF PreviewShapes
        <4>3. opening'[o] \in [pc : {"idle", "closes", "asks", "opened", "refused", "over"},
                               mine : Nat, closes : Nat, got : Nat]
          BY <4>1, <4>2
        <4>4. opening' = [a \in Opens |-> opening'[a]]
          BY <2>1 DEF PreviewShapes
        <4>5. QED
          BY <2>1, <3>1, <4>2, <4>3, <4>4 DEF PreviewShapes
      <3>3. Apart'
        BY <3>1 DEF PreviewShapes, Apart
      <3>4. ShowsItsSession'
        BY <3>1 DEF ShowsItsSession
      <3>5. QED
        BY <3>2, <3>3, <3>4
    <2>2. CASE opening' = [opening EXCEPT ![o].pc = "refused"] /\ UNCHANGED <<created, sessions>>
      BY <1>3, <2>2 DEF EngineOpens, PreviewShapes, Apart, ShowsItsSession
    <2>3. QED
      BY <1>3, <2>1, <2>2 DEF EngineOpens
  <1>4. ASSUME NEW o \in Opens, Installs(o) PROVE PreviewInv'
    <2>1. /\ \A a \in Opens : a # o => opening'[a] = opening[a]
          /\ opening[o].pc = "opened" /\ opening'[o].pc = "over"
          /\ pump' = store'.session
          /\ UNCHANGED <<generation, created, request>>
          /\ sessions' \subseteq sessions
          /\ \/ store' = [status |-> "open", session |-> opening[o].got,
                          playback |-> opening[o].got]
             \/ store' = store
      BY <1>4 DEF Installs, Pulls, PreviewShapes
    <2>2. PreviewShapes'
      BY <1>4, <2>1 DEF Installs, PreviewShapes
    <2>3. Apart'
      BY <2>1 DEF PreviewShapes, Apart
    <2>4. ShowsItsSession'
      BY <2>1 DEF PreviewShapes, Apart, ShowsItsSession, NoPreview
    <2>5. QED
      BY <2>2, <2>3, <2>4
  <1>5. ASSUME NEW o \in Opens, Refused(o) PROVE PreviewInv'
    <2>1. /\ \A a \in Opens : a # o => opening'[a] = opening[a]
          /\ opening'[o].pc = "over"
          /\ pump' = store'.session
          /\ UNCHANGED <<generation, sessions, created, request>>
      BY <1>5 DEF Refused, Pulls, PreviewShapes
    <2>2. /\ store' \in [status : {"empty", "opening", "open", "failed"}, session : Nat,
                          playback : Nat]
          /\ \/ store'.status = "failed" /\ store'.session = NoPreview
             \/ store' = store
      BY <1>5 DEF Refused, NoPreview, PreviewShapes
    <2>3. PreviewShapes'
      BY <1>5, <2>1, <2>2 DEF Refused, PreviewShapes
    <2>4. Apart'
      BY <2>1, <2>2 DEF PreviewShapes, Apart, NoPreview
    <2>5. ShowsItsSession'
      BY <2>1, <2>2 DEF ShowsItsSession, Apart, NoPreview
    <2>6. QED
      BY <2>3, <2>4, <2>5
  <1>6. CASE ClosePreview
    <2>1. /\ store' = Empty /\ generation' = generation + 1 /\ sessions' \subseteq sessions
          /\ pump' = NoPreview /\ UNCHANGED <<opening, created, request>>
      BY <1>6 DEF ClosePreview, Emptied, Pulls, Empty
    <2>2. PreviewShapes'
      BY <2>1 DEF PreviewShapes, Empty, NoPreview
    <2>3. Apart'
      BY <2>1 DEF PreviewShapes, Apart, Empty, NoPreview
    <2>4. ShowsItsSession'
      BY <2>1 DEF Apart, ShowsItsSession, Empty, NoPreview
    <2>5. QED
      BY <2>2, <2>3, <2>4
  <1>7. ASSUME NEW r \in Requests, Sends(r) \/ Returns(r) PROVE PreviewInv'
    BY <1>7 DEF Sends, Returns, ForThis, NoPreview, PreviewShapes, Apart, ShowsItsSession
  <1>8. ASSUME NEW s \in sessions, Updates(s) PROVE PreviewInv'
    BY <1>8 DEF Updates, ForThis, NoPreview, PreviewShapes, Apart, ShowsItsSession
  <1>9. CASE FrameGone \/ EngineClosesAll
    BY <1>9 DEF FrameGone, EngineClosesAll, NoPreview, PreviewShapes, Apart, ShowsItsSession
  <1>10. CASE UNCHANGED previewVars
    BY <1>10 DEF previewVars, PreviewShapes, Apart, ShowsItsSession
  <1>11. QED
    BY <1>1, <1>2, <1>3, <1>4, <1>5, <1>6, <1>7, <1>8, <1>9, <1>10 DEF PreviewNext

\* However opens, closes, answers and events overtake each other, the playback
\* shown and the frames pulled are the shown session's (start, close,
\* transport, applyUpdate, framePump).
THEOREM PreviewIsOfItsSession == PreviewSpec => []ShowsItsSession
  <1>1. PreviewInv => ShowsItsSession
    BY DEF PreviewInv
  <1>2. QED
    BY PreviewStarts, PreviewKeeps, <1>1, PTL DEF PreviewSpec

-----------------------------------------------------------------------------
(* The waveform's slot                                                       *)

Statuses == {"pending", "ready", "failed"}
Attempts == [pc : Views \cup {"runs", "tells", "over"}, progress : Nat, well : BOOLEAN]

SlotShapes ==
    /\ slot \in {"none", "pending", "ready"}
    /\ attempts \in Seq(Attempts)
    /\ sent \in Seq(Statuses)
    /\ view \in [Views -> Statuses \cup {"unasked"}]
    /\ asked \in [Views -> {"none", "asks", "prepares", "refuses"} \cup Statuses]
    /\ drawn \in [Views -> {"nothing", "peaks", "refused"}]

AtWork(i) == attempts[i].pc \in Views \cup {"runs"}

\* The slot is pending while one attempt is at work, and only then; the view
\* it prepares for is waiting for the answer.
OneAtWork ==
    /\ \A i, k \in DOMAIN attempts : AtWork(i) /\ AtWork(k) => i = k
    /\ slot = "pending" <=> \E i \in DOMAIN attempts : AtWork(i)
    /\ \A i \in DOMAIN attempts :
           attempts[i].pc \in Views => asked[attempts[i].pc] = "prepares"

\* Who was told ready was told the truth, and the truth stays.
ReadyIsReady ==
    /\ \A i \in DOMAIN attempts :
           attempts[i].pc = "tells" /\ attempts[i].well => slot = "ready"
    /\ \A k \in DOMAIN sent : sent[k] = "ready" => slot = "ready"
    /\ \A v \in Views : "ready" \in {view[v], asked[v]} => slot = "ready"
    /\ \A v \in Views : drawn[v] # "refused"

\* Somebody has yet to speak: an attempt, or a command that was refused.
ToSpeak ==
    \/ \E i \in DOMAIN attempts : attempts[i].pc # "over"
    \/ \E v \in Views : asked[v] = "refuses"
LastIsPending == sent # <<>> /\ sent[Len(sent)] = "pending"
WillHear ==
    /\ LastIsPending => ToSpeak
    /\ \A v \in Views : view[v] = "pending" /\ asked[v] \in {"none", "pending"} =>
           ToSpeak \/ sent # <<>>

\* A view has one question on its way at most.
AsksOnce == \A v \in Views : view[v] = "unasked" => asked[v] = "none"

SlotInv == SlotShapes /\ OneAtWork /\ ReadyIsReady /\ WillHear
WaveInv == AsksOnce /\ SlotInv
\* What is left of the attempts when one of them moves on, or one is begun.
LEMMA OneMoves ==
    ASSUME attempts \in Seq(Attempts), NEW i \in DOMAIN attempts, NEW to \in Attempts,
           attempts' = [attempts EXCEPT ![i] = to]
    PROVE  /\ attempts' \in Seq(Attempts) /\ DOMAIN attempts' = DOMAIN attempts
           /\ attempts'[i] = to
           /\ \A k \in DOMAIN attempts : k # i => attempts'[k] = attempts[k]
  BY ExceptSeq

LEMMA OneBegins ==
    ASSUME attempts \in Seq(Attempts), NEW new \in Attempts, attempts' = Append(attempts, new)
    PROVE  /\ attempts' \in Seq(Attempts)
           /\ DOMAIN attempts' = DOMAIN attempts \cup {Len(attempts) + 1}
           /\ Len(attempts) + 1 \notin DOMAIN attempts
           /\ attempts'[Len(attempts) + 1] = new
           /\ \A k \in DOMAIN attempts : attempts'[k] = attempts[k]
  OBVIOUS

LEMMA OneIsSent ==
    ASSUME sent \in Seq(Statuses), NEW status \in Statuses, Emits(status)
    PROVE  /\ sent' \in Seq(Statuses) /\ sent' # <<>> /\ sent'[Len(sent')] = status
           /\ \A k \in DOMAIN sent' : sent'[k] = status \/ (k \in DOMAIN sent /\ sent'[k] = sent[k])
  <1>1. /\ sent' \in Seq(Statuses) /\ Len(sent') = Len(sent) + 1 /\ sent'[Len(sent')] = status
        /\ Len(sent) \in Nat
        /\ \A k \in 1..Len(sent) : sent'[k] = sent[k]
    BY AppendProperties DEF Emits
  <1>2. sent' # <<>>
    BY <1>1
  <1>3. \A k \in DOMAIN sent' : k = Len(sent') \/ k \in DOMAIN sent
    BY <1>1
  <1>4. QED
    BY <1>1, <1>2, <1>3

LEMMA OneIsReceived ==
    ASSUME sent \in Seq(Statuses), sent # <<>>
    PROVE  /\ Tail(sent) \in Seq(Statuses) /\ Head(sent) \in Statuses /\ Head(sent) = sent[1]
           /\ 1 \in DOMAIN sent
           /\ \A k \in DOMAIN Tail(sent) : k + 1 \in DOMAIN sent /\ Tail(sent)[k] = sent[k + 1]
           /\ Tail(sent) = <<>> => Head(sent) = sent[Len(sent)]
           /\ Tail(sent) # <<>> => Tail(sent)[Len(Tail(sent))] = sent[Len(sent)]
  OBVIOUS
-----------------------------------------------------------------------------

LEMMA WaveStarts == WaveInit => WaveInv
  BY DEF WaveInit, WaveInv, SlotInv, AsksOnce, SlotShapes, OneAtWork, AtWork, ReadyIsReady, WillHear,
         LastIsPending

LEMMA AsksOnceKeeps == WaveInv /\ [WaveNext]_waveVars => AsksOnce'
  <1> SUFFICES ASSUME WaveInv, [WaveNext]_waveVars PROVE AsksOnce'
    OBVIOUS
  <1> USE DEF WaveInv, SlotInv
  <1>1. ASSUME NEW v \in Views, Generates(v) \/ Prepares(v) \/ Refuses(v) PROVE AsksOnce'
    BY <1>1 DEF Generates, Prepares, Refuses, AsksOnce, SlotShapes
  <1>2. ASSUME NEW v \in Views, Asks(v) \/ Answered(v) \/ Draws(v) \/ Remounts(v)
        PROVE  AsksOnce'
    BY <1>2 DEF Asks, Answered, Applies, Draws, Remounts, AsksOnce, SlotShapes
  <1>3. ASSUME NEW i \in DOMAIN attempts, Progresses(i) \/ Settles(i) \/ Tells(i)
        PROVE  AsksOnce'
    BY <1>3 DEF Progresses, Settles, Tells, AsksOnce
  <1>4. CASE Receives
    <2>1. Head(sent) \in Statuses
      BY <1>4, OneIsReceived DEF Receives, SlotShapes
    <2>2. QED
      BY <1>4, <2>1 DEF Receives, Statuses, AsksOnce
  <1>5. CASE UNCHANGED waveVars
    BY <1>5 DEF waveVars, AsksOnce
  <1>6. QED
    BY <1>1, <1>2, <1>3, <1>4, <1>5 DEF WaveNext

LEMMA SlotKeeps == WaveInv /\ [WaveNext]_waveVars => SlotInv'
  <1> SUFFICES ASSUME WaveInv, [WaveNext]_waveVars PROVE SlotInv'
    OBVIOUS
  <1> USE WaveformAssumption DEF WaveInv, SlotInv
  <1>0. (\E i \in DOMAIN attempts : AtWork(i)) => ToSpeak
    BY DEF AtWork, ToSpeak
  <1>1. ASSUME NEW v \in Views, Generates(v) PROVE SlotInv'
    <2>1. CASE slot # "none"
      <3>1. /\ asked[v] = "asks" /\ asked' = [asked EXCEPT ![v] = slot]
            /\ UNCHANGED <<slot, attempts, sent, view, drawn>>
        BY <1>1, <2>1 DEF Generates
      <3>2. asked'[v] \in {"pending", "ready"} /\ \A w \in Views : w # v => asked'[w] = asked[w]
        BY <3>1, <2>1 DEF SlotShapes
      <3>3. SlotShapes' /\ OneAtWork' /\ ReadyIsReady'
        BY <3>1, <2>1 DEF SlotShapes, Statuses, OneAtWork, AtWork, ReadyIsReady
      <3>4. ToSpeak => ToSpeak'
        BY <3>1, <3>2 DEF ToSpeak
      <3>5. asked'[v] = "pending" => ToSpeak
        BY <1>0, <3>1 DEF SlotShapes, OneAtWork
      <3>6. WillHear'
        BY <3>1, <3>2, <3>4, <3>5 DEF WillHear, LastIsPending, SlotShapes
      <3>7. QED
        BY <3>3, <3>6
    <2>2. CASE slot = "none"
      <3> DEFINE new == [NewAttempt EXCEPT !.pc = v]
      <3>1. /\ asked[v] = "asks" /\ asked' = [asked EXCEPT ![v] = "prepares"]
            /\ slot' = "pending" /\ attempts' = Append(attempts, new)
            /\ UNCHANGED <<sent, view, drawn>>
        BY <1>1, <2>2 DEF Generates
      <3>2. asked'[v] = "prepares" /\ \A w \in Views : w # v => asked'[w] = asked[w]
        BY <3>1 DEF SlotShapes
      <3>3. new \in Attempts /\ new.pc = v /\ new.well = FALSE
        BY DEF NewAttempt, Attempts
      <3> HIDE DEF new
      <3>4. /\ attempts' \in Seq(Attempts)
            /\ DOMAIN attempts' = DOMAIN attempts \cup {Len(attempts) + 1}
            /\ Len(attempts) + 1 \notin DOMAIN attempts
            /\ attempts'[Len(attempts) + 1] = new
            /\ \A k \in DOMAIN attempts : attempts'[k] = attempts[k]
        BY <3>1, <3>3, OneBegins DEF SlotShapes
      <3>5. SlotShapes'
        BY <3>1, <3>4 DEF SlotShapes, Statuses
      <3>6. OneAtWork'
        BY <2>2, <3>1, <3>2, <3>3, <3>4 DEF OneAtWork, AtWork
      <3>7. ReadyIsReady'
        BY <2>2, <3>1, <3>2, <3>3, <3>4 DEF ReadyIsReady
      <3>8. ToSpeak'
        BY <3>3, <3>4 DEF ToSpeak
      <3>9. QED
        BY <3>5, <3>6, <3>7, <3>8 DEF WillHear
    <2>3. QED
      BY <2>1, <2>2
  <1>2. ASSUME NEW v \in Views, Prepares(v) PROVE SlotInv'
    <2>1. PICK i \in DOMAIN attempts :
            /\ attempts[i].pc = v /\ asked[v] = "prepares"
            /\ UNCHANGED <<sent, view, drawn>>
            /\ \/ /\ attempts' = [attempts EXCEPT ![i].pc = "runs"]
                  /\ asked' = [asked EXCEPT ![v] = "pending"] /\ slot' = slot
               \/ /\ slot' = "none"
                  /\ attempts' = [attempts EXCEPT ![i].pc = "over"]
                  /\ asked' = [asked EXCEPT ![v] = "refuses"]
      BY <1>2 DEF Prepares, Settled
    <2>2. AtWork(i) /\ slot = "pending" /\ attempts[i] \in Attempts
      BY <2>1 DEF OneAtWork, AtWork, SlotShapes
    <2>3. CASE /\ attempts' = [attempts EXCEPT ![i].pc = "runs"]
               /\ asked' = [asked EXCEPT ![v] = "pending"] /\ slot' = slot
      <3> DEFINE to == [attempts[i] EXCEPT !.pc = "runs"]
      <3>1. to \in Attempts /\ to.pc = "runs" /\ to.well = attempts[i].well
        BY <2>2 DEF Attempts
      <3>2. attempts' = [attempts EXCEPT ![i] = to]
        BY <2>3
      <3> HIDE DEF to
      <3>3. /\ attempts' \in Seq(Attempts) /\ DOMAIN attempts' = DOMAIN attempts
            /\ attempts'[i] = to
            /\ \A k \in DOMAIN attempts : k # i => attempts'[k] = attempts[k]
        BY <3>1, <3>2, OneMoves DEF SlotShapes
      <3>4. asked'[v] = "pending" /\ \A w \in Views : w # v => asked'[w] = asked[w]
        BY <2>3 DEF SlotShapes
      <3>5. SlotShapes'
        BY <2>1, <2>3, <3>3 DEF SlotShapes, Statuses
      <3>6. OneAtWork'
        BY <2>1, <2>2, <2>3, <3>1, <3>3, <3>4 DEF OneAtWork, AtWork
      <3>7. ReadyIsReady'
        BY <2>1, <2>2, <2>3, <3>1, <3>3, <3>4 DEF ReadyIsReady
      <3>8. ToSpeak'
        BY <3>1, <3>3 DEF ToSpeak
      <3>9. QED
        BY <3>5, <3>6, <3>7, <3>8 DEF WillHear
    <2>4. CASE /\ slot' = "none"
               /\ attempts' = [attempts EXCEPT ![i].pc = "over"]
               /\ asked' = [asked EXCEPT ![v] = "refuses"]
      <3> DEFINE to == [attempts[i] EXCEPT !.pc = "over"]
      <3>1. to \in Attempts /\ to.pc = "over"
        BY <2>2 DEF Attempts
      <3>2. attempts' = [attempts EXCEPT ![i] = to]
        BY <2>4
      <3> HIDE DEF to
      <3>3. /\ attempts' \in Seq(Attempts) /\ DOMAIN attempts' = DOMAIN attempts
            /\ attempts'[i] = to
            /\ \A k \in DOMAIN attempts : k # i => attempts'[k] = attempts[k]
        BY <3>1, <3>2, OneMoves DEF SlotShapes
      <3>4. asked'[v] = "refuses" /\ \A w \in Views : w # v => asked'[w] = asked[w]
        BY <2>4 DEF SlotShapes
      <3>5. SlotShapes'
        BY <2>1, <2>4, <3>3 DEF SlotShapes, Statuses
      <3>6. OneAtWork'
        BY <2>1, <2>2, <2>4, <3>1, <3>3, <3>4 DEF OneAtWork, AtWork
      <3>7. ReadyIsReady'
        BY <2>1, <2>2, <2>4, <3>1, <3>3, <3>4 DEF ReadyIsReady
      <3>8. ToSpeak'
        BY <3>4 DEF ToSpeak
      <3>9. QED
        BY <3>5, <3>6, <3>7, <3>8 DEF WillHear
    <2>5. QED
      BY <2>1, <2>3, <2>4
  <1>3. ASSUME NEW v \in Views, Refuses(v) PROVE SlotInv'
    <2>1. /\ asked[v] = "refuses" /\ asked' = [asked EXCEPT ![v] = "failed"]
          /\ Emits("failed") /\ UNCHANGED <<slot, attempts, view, drawn>>
      BY <1>3 DEF Refuses, TellsFailure
    <2>2. asked'[v] = "failed" /\ \A w \in Views : w # v => asked'[w] = asked[w]
      BY <2>1 DEF SlotShapes
    <2>3. /\ sent' \in Seq(Statuses) /\ sent' # <<>> /\ sent'[Len(sent')] = "failed"
          /\ \A k \in DOMAIN sent' : sent'[k] = "failed" \/ (k \in DOMAIN sent /\ sent'[k] = sent[k])
      BY <2>1, OneIsSent DEF SlotShapes, Statuses
    <2>4. SlotShapes'
      BY <2>1, <2>3 DEF SlotShapes, Statuses
    <2>5. OneAtWork'
      BY <2>1, <2>2 DEF OneAtWork, AtWork
    <2>6. ReadyIsReady'
      BY <2>1, <2>2, <2>3 DEF ReadyIsReady
    <2>7. WillHear'
      BY <2>3 DEF WillHear, LastIsPending
    <2>8. QED
      BY <2>4, <2>5, <2>6, <2>7
  <1>4. ASSUME NEW i \in DOMAIN attempts, Progresses(i) PROVE SlotInv'
    <2>1. /\ attempts[i].pc = "runs" /\ slot' = "pending" /\ Emits("pending")
          /\ UNCHANGED <<view, asked, drawn>>
      BY <1>4 DEF Progresses
    <2> DEFINE to == [attempts[i] EXCEPT !.progress = @ + 1]
    <2>2. to \in Attempts /\ to.pc = "runs" /\ attempts' = [attempts EXCEPT ![i] = to]
      <3>1. attempts[i] \in Attempts
        BY DEF SlotShapes
      <3>2. QED
        BY <1>4, <2>1, <3>1 DEF Progresses, Attempts
    <2> HIDE DEF to
    <2>3. /\ attempts' \in Seq(Attempts) /\ DOMAIN attempts' = DOMAIN attempts
          /\ attempts'[i] = to
          /\ \A k \in DOMAIN attempts : k # i => attempts'[k] = attempts[k]
      BY <2>2, OneMoves DEF SlotShapes
    <2>4. /\ sent' \in Seq(Statuses)
          /\ \A k \in DOMAIN sent' : sent'[k] = "pending" \/ (k \in DOMAIN sent /\ sent'[k] = sent[k])
      BY <2>1, OneIsSent DEF SlotShapes, Statuses
    <2>5. AtWork(i) /\ slot = "pending"
      BY <2>1 DEF AtWork, OneAtWork
    <2>6. SlotShapes'
      BY <2>1, <2>3, <2>4 DEF SlotShapes
    <2>7. OneAtWork'
      BY <2>1, <2>2, <2>3, <2>5 DEF OneAtWork, AtWork
    <2>8. ReadyIsReady'
      BY <2>1, <2>2, <2>3, <2>4, <2>5 DEF ReadyIsReady
    <2>9. ToSpeak'
      BY <2>2, <2>3 DEF ToSpeak
    <2>10. QED
      BY <2>6, <2>7, <2>8, <2>9 DEF WillHear
  <1>5. ASSUME NEW i \in DOMAIN attempts, Settles(i) PROVE SlotInv'
    <2>1. PICK well \in BOOLEAN :
            /\ attempts[i].pc = "runs" /\ slot' = Settled(well)
            /\ attempts' = [attempts EXCEPT ![i].pc = "tells", ![i].well = well]
            /\ UNCHANGED <<sent, view, asked, drawn>>
      BY <1>5 DEF Settles
    <2> DEFINE to == [attempts[i] EXCEPT !.pc = "tells", !.well = well]
    <2>2. to \in Attempts /\ to.pc = "tells" /\ to.well = well
      <3>1. attempts[i] \in Attempts
        BY DEF SlotShapes
      <3>2. QED
        BY <2>1, <3>1 DEF Attempts
    <2>3. attempts' = [attempts EXCEPT ![i] = to]
      BY <2>1 DEF SlotShapes
    <2> HIDE DEF to
    <2>4. /\ attempts' \in Seq(Attempts) /\ DOMAIN attempts' = DOMAIN attempts
          /\ attempts'[i] = to
          /\ \A k \in DOMAIN attempts : k # i => attempts'[k] = attempts[k]
      BY <2>2, <2>3, OneMoves DEF SlotShapes
    <2>5. /\ AtWork(i) /\ slot = "pending"
          /\ slot' = IF well THEN "ready" ELSE "none"
      BY <2>1 DEF AtWork, OneAtWork, Settled
    <2>6. SlotShapes'
      BY <2>1, <2>4, <2>5 DEF SlotShapes
    <2>7. OneAtWork'
      BY <2>1, <2>2, <2>4, <2>5 DEF OneAtWork, AtWork
    <2>8. ReadyIsReady'
      BY <2>1, <2>2, <2>4, <2>5 DEF ReadyIsReady
    <2>9. ToSpeak'
      BY <2>2, <2>4 DEF ToSpeak
    <2>10. QED
      BY <2>6, <2>7, <2>8, <2>9 DEF WillHear
  <1>6. ASSUME NEW i \in DOMAIN attempts, Tells(i) PROVE SlotInv'
    <2> DEFINE last == IF attempts[i].well THEN "ready" ELSE "failed"
    <2>1. /\ attempts[i].pc = "tells" /\ Emits(last)
          /\ attempts' = [attempts EXCEPT ![i].pc = "over"]
          /\ UNCHANGED <<slot, view, asked, drawn>>
      BY <1>6 DEF Tells
    <2> DEFINE to == [attempts[i] EXCEPT !.pc = "over"]
    <2>2. to \in Attempts /\ to.pc = "over" /\ attempts' = [attempts EXCEPT ![i] = to]
      <3>1. attempts[i] \in Attempts
        BY DEF SlotShapes
      <3>2. QED
        BY <2>1, <3>1 DEF Attempts
    <2> HIDE DEF to
    <2>3. /\ attempts' \in Seq(Attempts) /\ DOMAIN attempts' = DOMAIN attempts
          /\ attempts'[i] = to
          /\ \A k \in DOMAIN attempts : k # i => attempts'[k] = attempts[k]
      BY <2>2, OneMoves DEF SlotShapes
    <2>4. last \in Statuses /\ last # "pending" /\ (last = "ready" => slot = "ready")
      BY <2>1 DEF Statuses, ReadyIsReady
    <2>5. /\ sent' \in Seq(Statuses) /\ sent' # <<>> /\ sent'[Len(sent')] = last
          /\ \A k \in DOMAIN sent' : sent'[k] = last \/ (k \in DOMAIN sent /\ sent'[k] = sent[k])
      BY <2>1, <2>4, OneIsSent DEF SlotShapes
    <2> HIDE DEF last
    <2>6. SlotShapes'
      BY <2>1, <2>3, <2>5 DEF SlotShapes
    <2>7. OneAtWork'
      BY <2>1, <2>2, <2>3 DEF OneAtWork, AtWork
    <2>8. ReadyIsReady'
      BY <2>1, <2>2, <2>3, <2>4, <2>5 DEF ReadyIsReady
    <2>9. WillHear'
      BY <2>4, <2>5 DEF WillHear, LastIsPending
    <2>10. QED
      BY <2>6, <2>7, <2>8, <2>9
  <1>7. ASSUME NEW v \in Views, Asks(v) PROVE SlotInv'
    <2>1. /\ view[v] = "unasked" /\ view' = [view EXCEPT ![v] = "pending"]
          /\ asked' = [asked EXCEPT ![v] = "asks"]
          /\ UNCHANGED <<slot, attempts, sent, drawn>>
      BY <1>7 DEF Asks
    <2>2. /\ asked'[v] = "asks" /\ \A w \in Views : w # v => asked'[w] = asked[w]
          /\ view'[v] = "pending" /\ \A w \in Views : w # v => view'[w] = view[w]
      BY <2>1 DEF SlotShapes
    <2>3. \A w \in Views : asked[w] \in {"prepares", "refuses"} => asked'[w] = asked[w]
      BY <2>1, <2>2 DEF AsksOnce
    <2>4. ToSpeak' = ToSpeak
      <3>1. asked[v] = "none"
        BY <2>1 DEF AsksOnce
      <3>2. QED
        BY <2>1, <2>2, <3>1 DEF ToSpeak
    <2>5. SlotShapes'
      BY <2>1 DEF SlotShapes, Statuses
    <2>6. OneAtWork'
      BY <2>1, <2>3 DEF OneAtWork, AtWork
    <2>7. ReadyIsReady'
      BY <2>1, <2>2 DEF ReadyIsReady
    <2>8. WillHear'
      BY <2>1, <2>2, <2>4 DEF WillHear, LastIsPending
    <2>9. QED
      BY <2>5, <2>6, <2>7, <2>8
  <1>8. CASE Receives
    <2>1. /\ sent # <<>> /\ view' = [v \in Views |-> Head(sent)] /\ sent' = Tail(sent)
          /\ UNCHANGED <<slot, attempts, asked, drawn>>
      BY <1>8 DEF Receives
    <2>2. /\ Tail(sent) \in Seq(Statuses) /\ Head(sent) \in Statuses /\ Head(sent) = sent[1]
          /\ 1 \in DOMAIN sent
          /\ \A k \in DOMAIN Tail(sent) : k + 1 \in DOMAIN sent /\ Tail(sent)[k] = sent[k + 1]
          /\ Tail(sent) = <<>> => Head(sent) = sent[Len(sent)]
          /\ Tail(sent) # <<>> => Tail(sent)[Len(Tail(sent))] = sent[Len(sent)]
      BY <2>1, OneIsReceived DEF SlotShapes
    <2>3. SlotShapes'
      BY <2>1, <2>2 DEF SlotShapes
    <2>4. OneAtWork'
      BY <2>1 DEF OneAtWork, AtWork
    <2>5. ReadyIsReady'
      BY <2>1, <2>2 DEF ReadyIsReady
    <2>6. ToSpeak' = ToSpeak
      BY <2>1 DEF ToSpeak
    <2>7. LastIsPending' => LastIsPending
      BY <2>1, <2>2 DEF LastIsPending
    <2>8. sent' = <<>> /\ Head(sent) = "pending" => LastIsPending
      BY <2>1, <2>2 DEF LastIsPending
    <2>9. WillHear'
      BY <2>1, <2>6, <2>7, <2>8 DEF WillHear
    <2>10. QED
      BY <2>3, <2>4, <2>5, <2>9
  <1>9. ASSUME NEW v \in Views, Answered(v) PROVE SlotInv'
    <2>1. /\ asked[v] \in Statuses
          /\ view' = [view EXCEPT ![v] = IF asked[v] = "pending" THEN view[v] ELSE asked[v]]
          /\ asked' = [asked EXCEPT ![v] = "none"]
          /\ UNCHANGED <<slot, attempts, sent, drawn>>
      BY <1>9 DEF Answered, Applies, Statuses
    <2>2. /\ asked'[v] = "none" /\ \A w \in Views : w # v => asked'[w] = asked[w]
          /\ view'[v] = IF asked[v] = "pending" THEN view[v] ELSE asked[v]
          /\ \A w \in Views : w # v => view'[w] = view[w]
      BY <2>1 DEF SlotShapes
    <2>3. SlotShapes'
      BY <2>1 DEF SlotShapes, Statuses
    <2>4. OneAtWork'
      BY <2>1, <2>2 DEF OneAtWork, AtWork, Statuses
    <2>5. ReadyIsReady'
      BY <2>1, <2>2 DEF ReadyIsReady
    <2>6. ToSpeak' = ToSpeak
      BY <2>1, <2>2 DEF ToSpeak, Statuses
    <2>7. WillHear'
      BY <2>1, <2>2, <2>6 DEF WillHear, LastIsPending
    <2>8. QED
      BY <2>3, <2>4, <2>5, <2>7
  <1>10. ASSUME NEW v \in Views, Draws(v) \/ Remounts(v) PROVE SlotInv'
    <2>1. SlotShapes'
      BY <1>10 DEF Draws, Remounts, SlotShapes
    <2>2. OneAtWork'
      BY <1>10 DEF Draws, Remounts, OneAtWork, AtWork
    <2>3. ReadyIsReady'
      BY <1>10 DEF Draws, Remounts, SlotShapes, ReadyIsReady
    <2>4. WillHear'
      BY <1>10 DEF Draws, Remounts, SlotShapes, WillHear, ToSpeak, LastIsPending
    <2>5. QED
      BY <2>1, <2>2, <2>3, <2>4
  <1>11. CASE UNCHANGED waveVars
    BY <1>11 DEF waveVars, SlotShapes, OneAtWork, AtWork, ReadyIsReady, WillHear, ToSpeak,
                 LastIsPending
  <1>12. QED
    BY <1>1, <1>2, <1>3, <1>4, <1>5, <1>6, <1>7, <1>8, <1>9, <1>10, <1>11 DEF WaveNext

\* "Nothing that was told `pending` waits forever", nor does anyone who was
\* told ready ask for peaks in vain (generate_waveform, settle_waveform,
\* waveformUpdate, waveform_peaks).
THEOREM NothingWaitsInVain == WaveSpec => []NothingWaits
  <1>1. WaveInv => NothingWaits
    BY WaveformAssumption DEF WaveInv, SlotInv, OneAtWork, AtWork, ReadyIsReady, WillHear, ToSpeak,
                              NothingWaits, AtRest
  <1>2. QED
    BY WaveStarts, AsksOnceKeeps, SlotKeeps, <1>1, PTL DEF WaveSpec, WaveInv

-----------------------------------------------------------------------------
(* What the folder holds                                                     *)

Lines == UNION {listed[l] : l \in DOMAIN listed}
Boundary(n) == IF n * SegmentTicks <= SourceTicks THEN n * SegmentTicks ELSE SourceTicks
FirstOf(k) == [i \in 1..k |-> [number |-> i - 1, start |-> Boundary(i - 1), end |-> Boundary(i)]]

\* The first `k` segments are closed: each has its file, and one line in the
\* lists; no list has a line of a segment before its run's first.
Holds(k) ==
    /\ DOMAIN listed \subseteq Nat
    /\ \A l \in DOMAIN listed : \A line \in listed[l] : line.number >= l
    /\ \A line \in Lines : line.number \in 0..k - 1 /\ line.end = Boundary(line.number + 1)
    /\ \A x, y \in Lines : x.number = y.number => x = y
    /\ \A n \in 0..k - 1 :
          /\ \E line \in Lines : line.number = n
          /\ n \in DOMAIN segments /\ segments[n] = Ticked(Boundary(n), Boundary(n + 1))

\* The process, when there is one, is at the segment after them.
GoesOnAt(k) ==
    \/ process = NoProcess
    \/ /\ process \in [pc : {"runs", "writes"}, at : Nat, number : Nat, list : Nat]
       /\ process.number = k /\ process.at = Boundary(k) /\ process.list <= k
       /\ process.list < k \/ process.pc = "writes" => process.list \in DOMAIN listed
       /\ process.pc = "writes" => process.at < SourceTicks /\ k \in DOMAIN segments

\* A proxy was made when there was nothing left to write.
IsWhole(proxy, k) == k > 0 /\ Boundary(k) = SourceTicks /\ proxy = FirstOf(k)

FolderInv(k) ==
    /\ Holds(k) /\ GoesOnAt(k)
    /\ manifest # NoProxy => IsWhole(manifest, k)
    /\ made # NoProxy => IsWhole(made, k)
ProxyInv == \E k \in Nat : FolderInv(k)

LEMMA BoundaryIs ==
    /\ Boundary(0) = 0
    /\ \A n \in Nat : Boundary(n) \in Nat /\ Boundary(n) <= SourceTicks
    /\ \A n \in Nat : Boundary(n) < SourceTicks =>
          Boundary(n + 1) = IF Boundary(n) + SegmentTicks <= SourceTicks THEN Boundary(n) + SegmentTicks
                            ELSE SourceTicks
<1>1. SourceTicks \in Nat /\ SourceTicks > 0 /\ SegmentTicks \in Nat /\ SegmentTicks > 0
  BY ProxyAssumption
<1>2. \A n \in Nat : n * SegmentTicks \in Nat /\ (n + 1) * SegmentTicks = n * SegmentTicks + SegmentTicks
  BY <1>1
<1>3. 0 * SegmentTicks = 0
  BY <1>1
<1>4. QED
  BY <1>1, <1>2, <1>3 DEF Boundary

\* As many lines up to a segment as there are segments.
LEMMA LinesCounted ==
    ASSUME NEW k \in Nat, Holds(k), NEW n \in 0..k
    PROVE  LET upTo == {u \in Lines : u.number <= n - 1}
           IN IsFiniteSet(upTo) /\ Cardinality(upTo) = n
<1> DEFINE upTo == {u \in Lines : u.number <= n - 1}
           the  == [m \in 0..n - 1 |-> CHOOSE line \in Lines : line.number = m]
<1>1. n \in Nat /\ n <= k /\ \A m \in 0..n - 1 : m \in 0..k - 1 /\ m <= n - 1 /\ m \in Int
  OBVIOUS
<1>2. \A m \in 0..n - 1 : the[m] \in Lines /\ the[m].number = m
  BY <1>1 DEF Holds
<1>3. \A u \in upTo : u \in Lines /\ u.number \in 0..n - 1
  BY <1>1 DEF Holds
<1>4. \A x, y \in Lines : x.number = y.number => x = y
  BY DEF Holds
<1>5. DOMAIN the = 0..n - 1 /\ \A m \in 0..n - 1 : the[m] \in upTo
  BY <1>1, <1>2
<1>6. the \in [0..n - 1 -> upTo]
  BY <1>5
<1>7. \A x, y \in 0..n - 1 : the[x] = the[y] => x = y
  BY <1>2
<1>8. \A u \in upTo : \E m \in 0..n - 1 : the[m] = u
  BY <1>2, <1>3, <1>4
<1> HIDE DEF the, upTo
<1>9. the \in Bijection(0..n - 1, upTo)
  <2>1. IsInjective(the)
    BY <1>5, <1>7 DEF IsInjective
  <2>2. QED
    BY <1>6, <1>7, <1>8, <2>1 DEF Bijection, Injection, Surjection
<1>10. ExistsBijection(0..n - 1, upTo)
  BY <1>9 DEF ExistsBijection
<1>11. IsFiniteSet(0..n - 1) /\ Cardinality(0..n - 1) = n
  <2>1. 0 \in Int /\ n - 1 \in Int /\ (IF 0 > n - 1 THEN 0 ELSE (n - 1) - 0 + 1) = n
    BY <1>1
  <2>2. QED
    BY <2>1, FS_Interval
<1>12. IsFiniteSet(upTo) /\ Cardinality(upTo) = n
  BY <1>10, <1>11, FS_Bijection
<1>13. QED
  BY <1>12 DEF upTo

\* What is complete: the closed segments, each from where the last one ended.
LEMMA CompletedAre ==
    ASSUME NEW k \in Nat, Holds(k)
    PROVE  Completed = FirstOf(k)
<1> DEFINE done == InOrder(Closed)
<1>1. Closed = Lines
  <2>1. \A line \in Lines : line.number \in DOMAIN segments
    BY DEF Holds
  <2>2. QED
    BY <2>1 DEF Closed, Lines
<1>2. Cardinality(Lines) = k
  <2>1. {u \in Lines : u.number <= k - 1} = Lines
    <3>1. \A u \in Lines : u.number \in 0..k - 1
      BY DEF Holds
    <3>2. \A u \in Lines : u.number <= k - 1
      BY <3>1
    <3>3. QED
      BY <3>2
  <2>2. k \in 0..k
    OBVIOUS
  <2>3. QED
    BY <2>1, <2>2, LinesCounted
<1>3. \A line \in Lines : Cardinality({u \in Lines : u.number <= line.number}) = line.number + 1
  <2>1. TAKE line \in Lines
  <2> DEFINE n == line.number + 1
  <2>2. n \in 0..k /\ n - 1 = line.number /\ line.number \in Int
    BY DEF Holds
  <2>3. Cardinality({u \in Lines : u.number <= n - 1}) = n
    <3> HIDE DEF n
    <3>1. QED
      BY <2>2, LinesCounted
  <2>4. QED
    BY <2>2, <2>3
<1>4. done = [i \in 1..k |-> CHOOSE line \in Lines : Cardinality({u \in Lines : u.number <= line.number}) = i]
  BY <1>1, <1>2 DEF InOrder
<1>5. ASSUME NEW i \in 1..k
      PROVE  done[i].number = i - 1 /\ done[i].end = Boundary(i)
  <2>1. done[i] = CHOOSE line \in Lines : Cardinality({u \in Lines : u.number <= line.number}) = i
    BY <1>4
  <2>2. i - 1 \in 0..k - 1 /\ i \in Int /\ (i - 1) + 1 = i
    OBVIOUS
  <2>3. PICK line \in Lines : line.number = i - 1
    BY <2>2 DEF Holds
  <2>4. \E u \in Lines : Cardinality({v \in Lines : v.number <= u.number}) = i
    BY <1>3, <2>2, <2>3
  <2>5. done[i] \in Lines /\ Cardinality({v \in Lines : v.number <= done[i].number}) = i
    BY <2>1, <2>4
  <2>6. done[i].number + 1 = i /\ done[i].number \in 0..k - 1 /\ done[i].end = Boundary(done[i].number + 1)
    BY <1>3, <2>5 DEF Holds
  <2>7. QED
    BY <2>2, <2>6
<1>6. DOMAIN done = 1..k
  BY <1>4
<1>7. ASSUME NEW i \in 1..k PROVE StartOf(done, i) = Boundary(i - 1)
  <2>1. CASE i = 1
    BY <2>1, BoundaryIs DEF StartOf
  <2>2. CASE i # 1
    <3>1. i - 1 \in 1..k
      BY <2>2
    <3>2. done[i - 1].end = Boundary(i - 1)
      BY <1>5, <3>1
    <3>3. QED
      BY <2>2, <3>2 DEF StartOf
  <2>3. QED
    BY <2>1, <2>2
<1>8. Completed = [i \in DOMAIN done |-> [number |-> done[i].number, start |-> StartOf(done, i), end |-> done[i].end]]
  BY DEF Completed
<1> HIDE DEF done
<1>9. QED
  BY <1>5, <1>6, <1>7, <1>8 DEF FirstOf

\* Only they are kept.
LEMMA OnlyOfKeeps ==
    ASSUME NEW k \in Nat, Holds(k)
    PROVE  LET kept == OnlyOf(FirstOf(k))
           IN DOMAIN kept = 0..k - 1 /\ \A n \in 0..k - 1 : kept[n] = segments[n]
<1> DEFINE numbers == {FirstOf(k)[i].number : i \in DOMAIN FirstOf(k)}
<1>1. numbers = 0..k - 1
  <2>1. numbers = {i - 1 : i \in 1..k}
    BY DEF FirstOf
  <2>2. \A n \in 0..k - 1 : n + 1 \in 1..k /\ (n + 1) - 1 = n
    OBVIOUS
  <2>3. \A i \in 1..k : i - 1 \in 0..k - 1
    OBVIOUS
  <2>4. QED
    BY <2>1, <2>2, <2>3
<1>2. numbers \cap DOMAIN segments = 0..k - 1
  BY <1>1 DEF Holds
<1>3. OnlyOf(FirstOf(k)) = [n \in numbers \cap DOMAIN segments |-> segments[n]]
  BY DEF OnlyOf
<1> HIDE DEF numbers
<1>4. QED
  BY <1>2, <1>3

LEMMA TidiedHolds ==
    ASSUME NEW k \in Nat, Holds(k), segments' = OnlyOf(Completed), UNCHANGED listed
    PROVE  Holds(k)'
<1>1. DOMAIN segments' = 0..k - 1 /\ \A n \in 0..k - 1 : segments'[n] = segments[n]
  BY CompletedAre, OnlyOfKeeps
<1>2. Lines' = Lines
  BY DEF Lines
<1>3. QED
  BY <1>1, <1>2 DEF Holds, Ticked, Boundary

LEMMA LengthOf ==
    ASSUME NEW k \in Nat
    PROVE  /\ Len(FirstOf(k)) = k
           /\ k > 0 => FirstOf(k) # <<>> /\ FirstOf(k)[k].end = Boundary(k)
           /\ k = 0 => FirstOf(k) = <<>>
<1>1. DOMAIN FirstOf(k) = 1..k
  BY DEF FirstOf
<1>2. Len(FirstOf(k)) = k
  BY DEF FirstOf
<1>3. k > 0 => k \in 1..k
  OBVIOUS
<1>4. k > 0 => FirstOf(k)[k].end = Boundary(k)
  BY <1>3 DEF FirstOf
<1>5. k = 0 => FirstOf(k) = <<>>
  <2>1. \A f : f = [i \in 1..0 |-> f[i]] => f = <<>>
    OBVIOUS
  <2>2. QED
    BY <2>1 DEF FirstOf
<1>6. k > 0 => FirstOf(k) # <<>>
  BY <1>2
<1>7. QED
  BY <1>2, <1>4, <1>5, <1>6

-----------------------------------------------------------------------------
(* Its steps                                                                 *)

LEMMA GenerateHolds == ASSUME NEW k \in Nat, FolderInv(k), Generate PROVE FolderInv(k)'
<1>1. Holds(k) /\ GoesOnAt(k) /\ process.pc = "none"
  BY DEF FolderInv, Generate
<1>2. CASE FoundProxy
  <2>1. made' = manifest /\ UNCHANGED <<segments, listed, process, manifest>>
    BY <1>2 DEF Generate
  <2>2. QED
    BY <2>1 DEF FolderInv, Holds, GoesOnAt, IsWhole, Lines
<1>3. CASE ~FoundProxy
  <2> DEFINE done == Completed
             at   == IF done = <<>> THEN 0 ELSE done[Len(done)].end
  <2>1. /\ segments' = OnlyOf(Completed) /\ UNCHANGED <<listed, made, manifest>>
        /\ process' = [pc |-> "runs", at |-> at, number |-> Len(done), list |-> Len(done)]
    BY <1>3 DEF Generate, NextNumber
  <2>2. done = FirstOf(k)
    BY <1>1, CompletedAre
  <2> HIDE DEF done
  <2>3. Len(done) = k
    BY <2>2, LengthOf
  <2>4. at = Boundary(k)
    <3>1. CASE k = 0
      BY <2>2, <3>1, LengthOf, BoundaryIs
    <3>2. CASE k > 0
      <4>1. done # <<>> /\ done[k].end = Boundary(k)
        BY <2>2, <3>2, LengthOf
      <4>2. QED
        BY <2>3, <4>1
    <3>3. QED
      BY <3>1, <3>2
  <2> HIDE DEF at
  <2>5. GoesOnAt(k)'
    <3>1. Boundary(k) \in Nat
      BY BoundaryIs
    <3>2. QED
      BY <2>1, <2>3, <2>4, <3>1 DEF GoesOnAt, Boundary
  <2>6. Holds(k)'
    BY <1>1, <2>1, TidiedHolds
  <2>7. QED
    BY <2>1, <2>5, <2>6 DEF FolderInv, IsWhole, FirstOf, Boundary
<1>4. QED
  BY <1>2, <1>3

\* While there is something to write, no proxy is made.
LEMMA RunningIs ==
    ASSUME NEW k \in Nat, FolderInv(k), process.pc \in {"runs", "writes"}
    PROVE  /\ process \in [pc : {"runs", "writes"}, at : Nat, number : Nat, list : Nat]
           /\ process.number = k /\ process.at = Boundary(k) /\ process.list <= k
           /\ process.list < k \/ process.pc = "writes" => process.list \in DOMAIN listed
           /\ process.pc = "writes" => process.at < SourceTicks /\ k \in DOMAIN segments
           /\ process.at < SourceTicks => manifest = NoProxy /\ made = NoProxy
<1>1. process # NoProcess
  BY DEF NoProcess
<1>2. GoesOnAt(k)
  BY DEF FolderInv
<1>3. process.at = Boundary(k)
  BY <1>1, <1>2 DEF GoesOnAt
<1>4. process.at < SourceTicks => Boundary(k) # SourceTicks
  BY <1>3, ProxyAssumption
<1>5. process.at < SourceTicks => manifest = NoProxy /\ made = NoProxy
  BY <1>4 DEF FolderInv, IsWhole
<1>6. QED
  BY <1>1, <1>2, <1>5 DEF GoesOnAt

LEMMA OpensHolds == ASSUME NEW k \in Nat, FolderInv(k), OpensSegment PROVE FolderInv(k)'
<1>1. /\ process \in [pc : {"runs", "writes"}, at : Nat, number : Nat, list : Nat]
      /\ process.number = k /\ process.at = Boundary(k) /\ process.list <= k
      /\ process.list < k => process.list \in DOMAIN listed
      /\ manifest = NoProxy /\ made = NoProxy /\ process.at < SourceTicks /\ Holds(k)
  BY RunningIs DEF OpensSegment, FolderInv
<1>2. /\ segments' = [n \in DOMAIN segments \cup {k} |-> IF n = k THEN {} ELSE segments[n]]
      /\ listed' = (IF k # process.list THEN listed
                    ELSE [l \in DOMAIN listed \cup {k} |-> IF l = k THEN {} ELSE listed[l]])
      /\ process' = [process EXCEPT !.pc = "writes"] /\ UNCHANGED <<manifest, made>>
  BY <1>1 DEF OpensSegment
<1>3. /\ DOMAIN listed' \subseteq Nat
      /\ Lines' = Lines
      /\ \A l \in DOMAIN listed' : \A line \in listed'[l] : line.number >= l
      /\ process.list \in DOMAIN listed'
  <2>1. CASE k # process.list
    <3>1. listed' = listed /\ process.list < k
      BY <1>1, <1>2, <2>1
    <3>2. QED
      BY <1>1, <3>1 DEF Holds, Lines
  <2>2. CASE k = process.list
    <3>1. listed' = [l \in DOMAIN listed \cup {k} |-> IF l = k THEN {} ELSE listed[l]]
      BY <1>2, <2>2
    <3>2. k \in DOMAIN listed => listed[k] = {}
      <4>1. SUFFICES ASSUME k \in DOMAIN listed, NEW line \in listed[k] PROVE FALSE
        OBVIOUS
      <4>2. line \in Lines
        BY <4>1 DEF Lines
      <4>3. line.number \in 0..k - 1 /\ line.number >= k
        BY <1>1, <4>1, <4>2 DEF Holds
      <4>4. QED
        BY <4>3
    <3>3. Lines' = Lines
      <4>1. Lines' = UNION {listed'[l] : l \in DOMAIN listed'}
        BY DEF Lines
      <4>2. \A x : x \in Lines' <=> \E l \in DOMAIN listed' : x \in listed'[l]
        BY <4>1
      <4>3. \A x : x \in Lines <=> \E l \in DOMAIN listed : x \in listed[l]
        BY DEF Lines
      <4>4. \A x : (\E l \in DOMAIN listed' : x \in listed'[l]) <=> (\E l \in DOMAIN listed : x \in listed[l])
        BY <3>1, <3>2
      <4>5. QED
        BY <4>2, <4>3, <4>4
    <3>4. QED
      BY <1>1, <2>2, <3>1, <3>3 DEF Holds
  <2>3. QED
    BY <2>1, <2>2
<1>4. \A n \in 0..k - 1 : n \in DOMAIN segments' /\ segments'[n] = segments[n]
  <2>1. \A n \in 0..k - 1 : n # k /\ n \in DOMAIN segments
    BY <1>1 DEF Holds
  <2>2. QED
    BY <1>2, <2>1
<1>5. Holds(k)'
  BY <1>1, <1>3, <1>4 DEF Holds, Boundary, Ticked
<1>6. GoesOnAt(k)'
  <2>1. /\ process' \in [pc : {"runs", "writes"}, at : Nat, number : Nat, list : Nat]
        /\ process'.pc = "writes" /\ process'.number = k /\ process'.at = process.at /\ process'.list = process.list
    BY <1>1, <1>2
  <2>2. k \in DOMAIN segments'
    BY <1>2
  <2>3. QED
    BY <1>1, <1>3, <2>1, <2>2 DEF GoesOnAt, Boundary
<1>7. QED
  BY <1>1, <1>2, <1>5, <1>6 DEF FolderInv

LEMMA ClosesHolds == ASSUME NEW k \in Nat, FolderInv(k), ClosesSegment PROVE FolderInv(k + 1)'
<1>1. /\ process \in [pc : {"runs", "writes"}, at : Nat, number : Nat, list : Nat]
      /\ process.number = k /\ process.at = Boundary(k) /\ process.list <= k
      /\ process.list \in DOMAIN listed /\ k \in DOMAIN segments
      /\ manifest = NoProxy /\ made = NoProxy /\ process.at < SourceTicks /\ Holds(k)
  BY RunningIs DEF ClosesSegment, FolderInv
<1> DEFINE end  == Min({process.at + SegmentTicks, SourceTicks})
           line == [number |-> k, end |-> end, start |-> IF k = process.list THEN 0 ELSE process.at]
<1>2. /\ segments' = [segments EXCEPT ![k] = Ticked(process.at, end)]
      /\ listed' = [listed EXCEPT ![process.list] = listed[process.list] \cup {line}]
      /\ process' = [process EXCEPT !.pc = "runs", !.number = process.number + 1, !.at = end]
      /\ UNCHANGED <<manifest, made>>
  BY <1>1 DEF ClosesSegment
<1>3. end = Boundary(k + 1) /\ end \in Nat
  <2>1. process.at + SegmentTicks \in Int /\ SourceTicks \in Int /\ Boundary(k + 1) \in Nat
    BY <1>1, BoundaryIs, ProxyAssumption
  <2>2. end = IF process.at + SegmentTicks <= SourceTicks THEN process.at + SegmentTicks ELSE SourceTicks
    BY <2>1, LesserOf
  <2>3. QED
    BY <1>1, <2>1, <2>2, BoundaryIs
<1>4. line.number = k /\ line.end = end
  OBVIOUS
<1> HIDE DEF end, line
<1>5. DOMAIN listed' = DOMAIN listed /\ \A l \in DOMAIN listed :
          listed'[l] = IF l = process.list THEN listed[l] \cup {line} ELSE listed[l]
  BY <1>1, <1>2
<1>6. Lines' = Lines \cup {line}
  <2>1. \A x : x \in Lines' <=> \E l \in DOMAIN listed' : x \in listed'[l]
    BY DEF Lines
  <2>2. \A x : x \in Lines <=> \E l \in DOMAIN listed : x \in listed[l]
    BY DEF Lines
  <2>3. \A x : (\E l \in DOMAIN listed' : x \in listed'[l]) <=> (x = line \/ \E l \in DOMAIN listed : x \in listed[l])
    BY <1>1, <1>5
  <2>4. QED
    BY <2>1, <2>2, <2>3
<1>7. \A x \in Lines : x.number \in 0..k - 1 /\ x.end = Boundary(x.number + 1) /\ x.number # k
  <2>1. \A x \in Lines : x.number \in 0..k - 1 /\ x.end = Boundary(x.number + 1)
    BY <1>1 DEF Holds
  <2>2. QED
    BY <2>1
<1>8. DOMAIN segments' = DOMAIN segments /\ segments'[k] = Ticked(process.at, end)
      /\ \A n \in DOMAIN segments : n # k => segments'[n] = segments[n]
  BY <1>1, <1>2
<1>9. \A n \in 0..k : (n \in 0..k - 1 /\ n # k) \/ n = k
  OBVIOUS
<1>10. (k + 1) - 1 = k /\ k \in 0..k /\ \A n \in 0..k - 1 : n \in 0..k
  OBVIOUS
<1>11. Holds(k + 1)'
  <2>1. DOMAIN listed' \subseteq Nat /\ \A l \in DOMAIN listed' : \A x \in listed'[l] : x.number >= l
    BY <1>1, <1>4, <1>5 DEF Holds
  <2>2. \A x \in Lines' : x.number \in 0..(k + 1) - 1 /\ x.end = Boundary(x.number + 1)
    BY <1>3, <1>4, <1>6, <1>7, <1>10
  <2>3. \A x, y \in Lines' : x.number = y.number => x = y
    <3>1. \A x, y \in Lines : x.number = y.number => x = y
      BY <1>1 DEF Holds
    <3>2. QED
      BY <1>4, <1>6, <1>7, <3>1
  <2>4. ASSUME NEW n \in 0..(k + 1) - 1
        PROVE  /\ \E x \in Lines' : x.number = n
               /\ n \in DOMAIN segments' /\ segments'[n] = Ticked(Boundary(n), Boundary(n + 1))
    <3>1. CASE n = k
      BY <1>1, <1>3, <1>4, <1>6, <1>8, <3>1
    <3>2. CASE n \in 0..k - 1 /\ n # k
      <4>1. /\ \E x \in Lines : x.number = n
            /\ n \in DOMAIN segments /\ segments[n] = Ticked(Boundary(n), Boundary(n + 1))
        BY <1>1, <3>2 DEF Holds
      <4>2. QED
        BY <1>6, <1>8, <3>2, <4>1
    <3>3. QED
      BY <1>9, <1>10, <3>1, <3>2
  <2>5. QED
    BY <2>1, <2>2, <2>3, <2>4 DEF Holds, Boundary, Ticked
<1>12. GoesOnAt(k + 1)'
  <2>1. /\ process' \in [pc : {"runs", "writes"}, at : Nat, number : Nat, list : Nat]
        /\ process'.pc = "runs" /\ process'.number = k + 1 /\ process'.at = end /\ process'.list = process.list
    <3>1. \A p \in [pc : {"runs", "writes"}, at : Nat, number : Nat, list : Nat] : \A m, e \in Nat :
             LET q == [p EXCEPT !.pc = "runs", !.number = m, !.at = e]
             IN /\ q \in [pc : {"runs", "writes"}, at : Nat, number : Nat, list : Nat]
                /\ q.pc = "runs" /\ q.number = m /\ q.at = e /\ q.list = p.list
      OBVIOUS
    <3>2. process.number + 1 \in Nat
      BY <1>1
    <3>3. QED
      BY <1>1, <1>2, <1>3, <3>1, <3>2
  <2>2. process.list <= k + 1
    BY <1>1
  <2>3. QED
    BY <1>1, <1>3, <1>5, <2>1, <2>2 DEF GoesOnAt, Boundary
<1>13. QED
  BY <1>1, <1>2, <1>11, <1>12 DEF FolderInv

LEMMA EndsHolds ==
    ASSUME NEW k \in Nat, FolderInv(k), NEW well \in BOOLEAN, Ends(well), well => Boundary(k) = SourceTicks
    PROVE  FolderInv(k)'
<1>1. Holds(k) /\ Completed = FirstOf(k)
  BY CompletedAre DEF FolderInv
<1>2. /\ segments' = OnlyOf(Completed) /\ UNCHANGED listed /\ process' = NoProcess
      /\ manifest' = (IF well THEN FirstOf(k) ELSE manifest)
      /\ made' = (IF well THEN FirstOf(k) ELSE made)
  BY <1>1 DEF Ends
<1>3. well => k > 0
  <2>1. k = 0 => Boundary(k) # SourceTicks
    BY BoundaryIs, ProxyAssumption
  <2>2. QED
    BY <2>1
<1>4. Holds(k)'
  BY <1>1, <1>2, TidiedHolds
<1>5. (manifest' # NoProxy => IsWhole(manifest', k)) /\ (made' # NoProxy => IsWhole(made', k))
  BY <1>2, <1>3 DEF FolderInv, IsWhole
<1>6. GoesOnAt(k)'
  BY <1>2 DEF GoesOnAt, NoProcess
<1>7. QED
  BY <1>4, <1>5, <1>6 DEF FolderInv, IsWhole, FirstOf, Boundary

LEMMA DiscardsHolds == ASSUME NEW k \in Nat, FolderInv(k), Discards PROVE FolderInv(0)'
<1>1. process = NoProcess
  BY DEF FolderInv, GoesOnAt, Discards
<1>2. /\ listed' = [l \in {} |-> {}] /\ manifest' = NoProxy /\ made' = NoProxy /\ process' = NoProcess
  BY <1>1 DEF Discards
<1>3. DOMAIN listed' = {}
  BY <1>2
<1>4. Lines' = {}
  BY <1>3 DEF Lines
<1>5. \A n \in 0..0 - 1 : FALSE
  OBVIOUS
<1>6. Holds(0)'
  BY <1>3, <1>4, <1>5 DEF Holds
<1>7. QED
  BY <1>2, <1>6 DEF FolderInv, GoesOnAt, NoProcess

LEMMA KilledHolds == ASSUME NEW k \in Nat, FolderInv(k), Killed PROVE FolderInv(k)'
<1>1. UNCHANGED <<segments, listed, manifest>> /\ process' = NoProcess /\ made' = NoProxy
  BY DEF Killed
<1>2. Lines' = Lines
  BY <1>1 DEF Lines
<1>3. Holds(k)'
  BY <1>1, <1>2 DEF FolderInv, Holds
<1>4. GoesOnAt(k)'
  BY <1>1 DEF GoesOnAt
<1>5. QED
  BY <1>1, <1>3, <1>4 DEF FolderInv

LEMMA FolderBegins == ProxyInit => ProxyInv
<1> SUFFICES ASSUME ProxyInit PROVE FolderInv(0)
  BY DEF ProxyInv
<1>1. DOMAIN listed = {} /\ manifest = NoProxy /\ made = NoProxy /\ process = NoProcess
  BY DEF ProxyInit
<1>2. Lines = {}
  BY <1>1 DEF Lines
<1>3. \A n \in 0..0 - 1 : FALSE
  OBVIOUS
<1>4. Holds(0)
  BY <1>1, <1>2, <1>3 DEF Holds
<1>5. QED
  BY <1>1, <1>4 DEF FolderInv, GoesOnAt

LEMMA FolderHolds == ProxyInv /\ [ProxyNext]_proxyVars => ProxyInv'
<1> SUFFICES ASSUME NEW k \in Nat, FolderInv(k), [ProxyNext]_proxyVars
             PROVE  ProxyInv'
  BY DEF ProxyInv
<1>0. ASSUME NEW n \in Nat, FolderInv(n)' PROVE ProxyInv'
  BY <1>0 DEF ProxyInv
<1>1. CASE Generate
  BY <1>0, <1>1, GenerateHolds
<1>2. CASE OpensSegment
  BY <1>0, <1>2, OpensHolds
<1>3. CASE ClosesSegment
  <2>1. k + 1 \in Nat
    OBVIOUS
  <2>2. QED
    BY <1>0, <1>3, <2>1, ClosesHolds
<1>4. CASE Finishes
  <2>1. process.at = Boundary(k) /\ process.at >= SourceTicks
    BY <1>4, RunningIs DEF Finishes
  <2>2. Boundary(k) = SourceTicks
    BY <2>1, BoundaryIs, ProxyAssumption
  <2>3. QED
    BY <1>0, <1>4, <2>2, EndsHolds DEF Finishes
<1>5. CASE Fails
  <2>1. PICK well \in BOOLEAN : ~well /\ Ends(well)
    BY <1>5 DEF Fails
  <2>2. FolderInv(k)'
    BY <2>1, EndsHolds
  <2>3. QED
    BY <1>0, <2>2
<1>6. CASE Discards
  BY <1>0, <1>6, DiscardsHolds
<1>7. CASE Killed
  BY <1>0, <1>7, KilledHolds
<1>8. CASE UNCHANGED proxyVars
  <2>1. UNCHANGED <<segments, listed, manifest, process, made>> /\ Holds(k) /\ GoesOnAt(k)
    BY <1>8 DEF proxyVars, FolderInv
  <2>2. Holds(k)'
    BY <2>1 DEF Holds, Lines, Boundary, Ticked
  <2>3. GoesOnAt(k)'
    BY <2>1 DEF GoesOnAt, Boundary, NoProcess
  <2>4. FolderInv(k)'
    BY <2>1, <2>2, <2>3 DEF FolderInv, IsWhole, FirstOf, Boundary
  <2>5. QED
    BY <1>0, <2>4
<1>9. QED
  BY <1>1, <1>2, <1>3, <1>4, <1>5, <1>6, <1>7, <1>8 DEF ProxyNext

LEMMA WholeCovers ==
    ASSUME NEW k \in Nat, Holds(k), NEW proxy, IsWhole(proxy, k)
    PROVE  /\ proxy # <<>> /\ proxy[1].start = 0 /\ proxy[Len(proxy)].end = SourceTicks
           /\ \A i \in DOMAIN proxy :
                 /\ proxy[i].number \in DOMAIN segments
                 /\ segments[proxy[i].number] = Ticked(proxy[i].start, proxy[i].end)
                 /\ i > 1 => proxy[i].start = proxy[i - 1].end
<1>1. k > 0 /\ Boundary(k) = SourceTicks /\ proxy = FirstOf(k)
  BY DEF IsWhole
<1>2. \A i \in 1..k : /\ proxy[i].number = i - 1 /\ proxy[i].start = Boundary(i - 1)
                       /\ proxy[i].end = Boundary(i)
  BY <1>1 DEF FirstOf
<1>3. DOMAIN proxy = 1..k
  BY <1>1 DEF FirstOf
<1>4. proxy # <<>> /\ proxy[Len(proxy)].end = SourceTicks
  BY <1>1, LengthOf
<1>5. proxy[1].start = 0
  <2>1. 1 \in 1..k /\ 1 - 1 = 0
    BY <1>1
  <2>2. QED
    BY <1>2, <2>1, BoundaryIs
<1>6. ASSUME NEW i \in 1..k
      PROVE  /\ proxy[i].number \in DOMAIN segments
             /\ segments[proxy[i].number] = Ticked(proxy[i].start, proxy[i].end)
             /\ i > 1 => proxy[i].start = proxy[i - 1].end
  <2>1. i - 1 \in 0..k - 1 /\ (i - 1) + 1 = i /\ (i > 1 => i - 1 \in 1..k)
    OBVIOUS
  <2>2. i - 1 \in DOMAIN segments /\ segments[i - 1] = Ticked(Boundary(i - 1), Boundary((i - 1) + 1))
    BY <2>1 DEF Holds
  <2>3. i > 1 => proxy[i - 1].end = Boundary(i - 1)
    BY <1>2, <2>1
  <2>4. QED
    BY <1>2, <2>1, <2>2, <2>3
<1>7. QED
  BY <1>3, <1>4, <1>5, <1>6

\* However often a proxy was cancelled, failed or died with the application,
\* and of whatever length source and segments are, the one that is answered
\* covers the whole source, segment by segment (generate, completed_segments).
THEOREM ProxyIsWhole == ProxySpec => []ProxyCovers
<1>1. ProxyInv => ProxyCovers
  <2> SUFFICES ASSUME NEW k \in Nat, FolderInv(k), NEW proxy \in {manifest, made} \ {NoProxy}
               PROVE  /\ proxy # <<>> /\ proxy[1].start = 0 /\ proxy[Len(proxy)].end = SourceTicks
                      /\ \A i \in DOMAIN proxy :
                            /\ proxy[i].number \in DOMAIN segments
                            /\ segments[proxy[i].number] = Ticked(proxy[i].start, proxy[i].end)
                            /\ i > 1 => proxy[i].start = proxy[i - 1].end
    BY DEF ProxyInv, ProxyCovers
  <2>1. Holds(k) /\ IsWhole(proxy, k)
    BY DEF FolderInv
  <2>2. QED
    BY <2>1, WholeCovers
<1>2. QED
  BY <1>1, FolderBegins, FolderHolds, PTL DEF ProxySpec

-----------------------------------------------------------------------------
(* The project session and what a launch offers                              *)

Sessions == [path : Paths \cup {None}, text : Texts, saved : Texts \cup {None},
             autosaved : Texts \cup {None}, recovery : Recoveries]

Shapes ==
    /\ up \in {"no", "starting", "yes", "quitting"} /\ launches \in Nat
    /\ open \in Sessions \cup {NoSession}
    /\ saving \in Paths \cup {None}
    /\ project \in [Paths -> Texts \cup {None}]
    /\ recov \in [Recoveries -> Texts \cup {None}]
    /\ newer \subseteq Recoveries
    /\ recent \in Seq(Paths)
    /\ offers \subseteq Recoveries /\ waiting \in Recoveries \cup {None}

\* Of a process that does not run nothing is open; one that quits has no
\* unsaved work; the dialogs keep a save from being begun.
Stages ==
    /\ up \in {"no", "starting"} => ~IsOpen /\ saving = None /\ offers = {}
    /\ up = "quitting" /\ IsOpen => open.text = open.saved
    /\ offers # {} => saving = None
    /\ saving # None => IsOpen /\ project[saving] = open.text

\* A project is in the list once.
RecentOnce == \A i, k \in DOMAIN recent : recent[i] = recent[k] => i = k

\* What the open session knows of the disk.
KnowsItsFile ==
    IsOpen /\ open.recovery \in Paths =>
        /\ open.recovery \in Recent
        /\ saving = None => open.saved = project[open.recovery]
KnowsItsRecovery ==
    IsOpen /\ saving = None /\ open.autosaved # None /\ open.recovery \notin dropped =>
        open.recovery \in Offers /\ recov[open.recovery] = open.autosaved

\* A recovery file that is newer says something else than its project does.
NewerDiffers ==
    \A p \in Paths \cap newer : recov[p] # None => recov[p] # project[p]

\* What the user refused is not on the disk, and what is still offered is.
DroppedIsGone == \A r \in dropped \cap Recoveries : recov[r] = None
OfferedStays == \A r \in offers : recov[r] # None => r \in Offers

SessionInv ==
    /\ Shapes /\ Stages /\ RecentOnce
    /\ KnowsItsFile /\ KnowsItsRecovery /\ NewerDiffers /\ DroppedIsGone /\ OfferedStays
-----------------------------------------------------------------------------
(* The recent projects *)

LEMMA TouchedIsFirst ==
    ASSUME recent \in Seq(Paths), RecentOnce, NEW p \in Paths, recent' = Touch(p)
    PROVE  recent' \in Seq(Paths) /\ RecentOnce' /\ p \in Recent'
  <1> DEFINE was == IF p \in Recent THEN CHOOSE i \in DOMAIN recent : recent[i] = p
                                    ELSE Len(recent) + 1
             front == <<p>> \o SubSeq(recent, 1, was - 1)
             back == SubSeq(recent, was + 1, Len(recent))
             list == front \o back
             n == IF Len(list) < RecentLimit THEN Len(list) ELSE RecentLimit
  <1>1. /\ was \in 1..(Len(recent) + 1) /\ Len(recent) \in Nat
        /\ \A i \in DOMAIN recent : recent[i] = p => i = was
    BY DEF Recent, RecentOnce
  <1>2. recent' = SubSeq(list, 1, n)
    BY DEF Touch
  <1> HIDE DEF was
  <1>3. /\ front \in Seq(Paths) /\ Len(front) = was /\ front[1] = p
        /\ \A k \in 2..was : front[k] = recent[k - 1]
    <2>1. \A i \in 1..(was - 1) : recent[i] \in Paths
      BY <1>1
    <2>2. /\ SubSeq(recent, 1, was - 1) \in Seq(Paths)
          /\ Len(SubSeq(recent, 1, was - 1)) = was - 1
          /\ \A i \in 1..(was - 1) : SubSeq(recent, 1, was - 1)[i] = recent[i]
      BY <1>1, <2>1, SubSeqProperties
    <2>3. <<p>> \in Seq(Paths) /\ Len(<<p>>) = 1 /\ <<p>>[1] = p
      OBVIOUS
    <2>4. QED
      BY <1>1, <2>2, <2>3, ConcatProperties
  <1>4. /\ back \in Seq(Paths) /\ Len(back) = IF was <= Len(recent) THEN Len(recent) - was ELSE 0
        /\ \A i \in 1..Len(back) : back[i] = recent[was + i]
    <2>1. \A i \in (was + 1)..Len(recent) : recent[i] \in Paths
      BY <1>1
    <2>2. /\ back \in Seq(Paths)
          /\ Len(back) = IF was + 1 <= Len(recent) THEN Len(recent) - (was + 1) + 1 ELSE 0
          /\ \A i \in 1..(Len(recent) - (was + 1) + 1) : back[i] = recent[was + 1 + i - 1]
      BY <1>1, <2>1, SubSeqProperties
    <2>3. QED
      BY <1>1, <2>2
  <1> HIDE DEF front, back
  <1>5. /\ list \in Seq(Paths) /\ Len(list) = was + Len(back) /\ list[1] = p
        /\ \A k \in 2..was : list[k] = recent[k - 1]
        /\ \A k \in (was + 1)..Len(list) : list[k] = recent[k]
    <2>1. /\ list \in Seq(Paths) /\ Len(list) = Len(front) + Len(back)
          /\ \A k \in 1..(Len(front) + Len(back)) :
                 list[k] = IF k <= Len(front) THEN front[k] ELSE back[k - Len(front)]
      BY <1>3, <1>4, ConcatProperties
    <2> HIDE DEF list
    <2>2. Len(back) \in Nat /\ was \in Nat \ {0}
      BY <1>1, <1>4
    <2>3. \A k \in 1..was : list[k] = front[k]
      BY <1>3, <2>1, <2>2
    <2>4. \A k \in (was + 1)..Len(list) : list[k] = recent[k]
      <3> SUFFICES ASSUME NEW k \in (was + 1)..Len(list) PROVE list[k] = recent[k]
        OBVIOUS
      <3>1. list[k] = back[k - was] /\ k - was \in 1..Len(back)
        BY <1>3, <2>1, <2>2
      <3>2. back[k - was] = recent[was + (k - was)]
        BY <1>4, <3>1
      <3>3. was + (k - was) = k
        BY <2>2
      <3>4. QED
        BY <3>1, <3>2, <3>3
    <2>5. QED
      BY <1>3, <2>1, <2>2, <2>3, <2>4
  <1>6. \A i, k \in 1..Len(list) : list[i] = list[k] => i = k
    <2> HIDE DEF list
    <2> SUFFICES ASSUME NEW i \in 1..Len(list), NEW k \in 1..Len(list), i < k
                 PROVE  list[i] # list[k]
      BY <1>5
    <2> DEFINE From(m) == IF m <= was THEN m - 1 ELSE m
    <2>1. ASSUME NEW m \in 2..Len(list)
          PROVE  From(m) \in 1..Len(recent) /\ From(m) # was /\ list[m] = recent[From(m)]
      <3>1. CASE m <= was
        <4>1. From(m) = m - 1 /\ m \in 2..was
          BY <1>1, <3>1
        <4>2. list[m] = recent[m - 1]
          BY <1>5, <4>1
        <4>3. was \in Nat /\ was <= Len(recent) + 1 /\ Len(recent) \in Nat
          BY <1>1
        <4>4. m - 1 \in 1..Len(recent) /\ m - 1 # was
          BY <4>1, <4>3
        <4>5. QED
          BY <4>1, <4>2, <4>4
      <3>2. CASE m > was
        <4>1. m <= was + Len(back) /\ Len(back) # 0
          BY <1>1, <1>4, <1>5, <3>2
        <4>2. m <= Len(recent)
          BY <1>1, <1>4, <4>1
        <4>3. QED
          BY <1>1, <1>5, <3>2, <4>2
      <3>3. QED
        BY <1>1, <3>1, <3>2
    <2>2. k \in 2..Len(list)
      OBVIOUS
    <2>3. CASE i = 1
      <3>1. recent[From(k)] # p
        BY <1>1, <2>1, <2>2
      <3>2. QED
        BY <1>5, <2>1, <2>2, <2>3, <3>1
    <2>4. CASE i # 1
      <3>1. i \in 2..Len(list) /\ From(i) # From(k)
        BY <1>1, <2>1, <2>4
      <3>2. QED
        BY <2>1, <2>2, <3>1 DEF RecentOnce
    <2>5. QED
      BY <2>3, <2>4
  <1> HIDE DEF list
  <1>7. n \in 1..Len(list)
    BY <1>1, <1>4, <1>5, SessionAssumption
  <1> HIDE DEF n
  <1>8. /\ recent' \in Seq(Paths) /\ Len(recent') = n
        /\ \A i \in 1..n : recent'[i] = list[i]
    BY <1>2, <1>5, <1>7, SubSeqProperties
  <1>9. recent'[1] = p /\ 1 \in DOMAIN recent'
    BY <1>5, <1>7, <1>8
  <1>10. RecentOnce'
    BY <1>5, <1>6, <1>7, <1>8 DEF RecentOnce
  <1>11. QED
    BY <1>8, <1>9, <1>10 DEF Recent

-----------------------------------------------------------------------------
(* The session and the disk *)

LEMMA ASessionIsOpen == \A s \in Sessions : s # NoSession
  <1> SUFFICES ASSUME NEW s \in Sessions PROVE s # NoSession
    OBVIOUS
  <1>1. "text" \in DOMAIN s /\ "text" \notin DOMAIN NoSession
    BY DEF Sessions, NoSession
  <1>2. QED
    BY <1>1

LEMMA SessionStarts == Init => SessionInv
  <1> SUFFICES ASSUME Init PROVE SessionInv
    OBVIOUS
  <1>1. Shapes
    BY SessionAssumption DEF Init, Shapes, Recoveries
  <1>2. QED
    BY <1>1 DEF Init, SessionInv, Stages, IsOpen, RecentOnce, KnowsItsFile, KnowsItsRecovery,
                NewerDiffers, DroppedIsGone, OfferedStays

\* An autosave of the open session, as it is or just edited.
LEMMA AutosaveKeeps ==
    ASSUME SessionInv, IsOpen, saving = None, up \in {"yes", "quitting"},
           NEW s \in Sessions, Autosaves(s), dropped' = Renewed,
           s.recovery = open.recovery, s.saved = open.saved, s.autosaved = open.autosaved,
           up = "yes" \/ s.text = s.saved,
           UNCHANGED <<up, launches, saving, project, recent, ui, left>>
    PROVE  SessionInv'
  <1> USE SessionAssumption DEF SessionInv
  <1> DEFINE r == open.recovery
  <1>1. open \in Sessions /\ r \in Recoveries
    BY DEF Shapes, IsOpen, Sessions
  <1>2. /\ open' \in Sessions /\ open'.recovery = r /\ open'.saved = open.saved
        /\ open'.text = s.text
        /\ recov' \in [Recoveries -> Texts \cup {None}] /\ newer' \subseteq Recoveries
        /\ \A b \in Recoveries : b # r => recov'[b] = recov[b] /\ (b \in newer' <=> b \in newer)
    BY <1>1 DEF Autosaves, CleanRemoves, Gone, Shapes, Sessions
  <1>3. \/ /\ open'.autosaved = None /\ recov'[r] = None
        \/ /\ open'.autosaved = open.autosaved /\ UNCHANGED <<recov, newer>>
           /\ s.text # s.saved
        \/ /\ open'.autosaved = s.text /\ recov'[r] = s.text /\ r \in newer'
           /\ s.text # s.saved
    BY <1>1 DEF Autosaves, CleanRemoves, Gone, Shapes, Sessions
  <1>4. dropped' = IF up = "yes" /\ recov'[r] # None THEN dropped \ {r} ELSE dropped
    BY DEF Renewed
  <1>5. open' # NoSession
    BY <1>2, ASessionIsOpen
  <1> HIDE DEF r
  <1>6. Shapes'
    BY <1>2 DEF Shapes, ui
  <1>7. Stages' /\ RecentOnce'
    BY <1>2, <1>3, <1>5 DEF Stages, RecentOnce, IsOpen, ui
  <1>8. KnowsItsFile'
    BY <1>2, <1>5 DEF KnowsItsFile, IsOpen, Recent, r
  <1>9. NewerDiffers'
    BY <1>1, <1>2, <1>3 DEF NewerDiffers, KnowsItsFile, Recoveries, r
  <1>10. DroppedIsGone'
    BY <1>1, <1>2, <1>3, <1>4 DEF DroppedIsGone
  <1>11. s.text \in Texts /\ s.text # None
    BY DEF Sessions
  <1>12. \A b \in Recoveries : b # r => (b \in Offers' <=> b \in Offers)
    BY <1>1, <1>2 DEF Offers, Recoveries, Recent
  <1>13. recov'[r] = s.text /\ r \in newer' => r \in Offers'
    BY <1>1, <1>11 DEF Offers, Recoveries, Recent, KnowsItsFile, r
  <1>14. UNCHANGED <<recov, newer>> => Offers' = Offers
    BY DEF Offers, Recent
  <1>15. KnowsItsRecovery'
    BY <1>1, <1>2, <1>3, <1>4, <1>13, <1>14 DEF KnowsItsRecovery, DroppedIsGone, IsOpen, r
  <1>16. OfferedStays'
    BY <1>1, <1>2, <1>3, <1>12, <1>13, <1>14 DEF OfferedStays, Shapes, ui
  <1>17. QED
    BY <1>6, <1>7, <1>8, <1>9, <1>10, <1>15, <1>16
\* A project is opened: its file is read, and it heads the list.
LEMMA OpeningKeeps ==
    ASSUME SessionInv, saving = None, offers = {}, waiting \in Recoveries \cup {None},
           NEW p \in Paths, project[p] # None, up' = "yes",
           open' = Opened(p), recent' = Touch(p), dropped' = dropped \ {p},
           UNCHANGED <<launches, saving, project, recov, newer, ui, left>>
    PROVE  SessionInv'
  <1> USE SessionAssumption DEF SessionInv
  <1>1. /\ recent' \in Seq(Paths) /\ RecentOnce' /\ p \in Recent'
    BY TouchedIsFirst DEF Shapes
  <1>2. /\ open' \in Sessions /\ open'.recovery = p /\ open'.saved = project[p]
        /\ open'.text = project[p] /\ open'.autosaved = None
    BY DEF Opened, Sessions, Shapes, Recoveries
  <1>3. open' # NoSession
    BY <1>2, ASessionIsOpen
  <1>4. Shapes'
    BY <1>1, <1>2 DEF Shapes, ui
  <1>5. Stages' /\ KnowsItsRecovery' /\ OfferedStays'
    BY <1>2, <1>3 DEF Stages, IsOpen, KnowsItsRecovery, OfferedStays, ui
  <1>6. KnowsItsFile' /\ NewerDiffers' /\ DroppedIsGone'
    BY <1>1, <1>2 DEF KnowsItsFile, NewerDiffers, DroppedIsGone
  <1>7. QED
    BY <1>1, <1>4, <1>5, <1>6

\* A text is written over a project file: nothing else is known of it until
\* the save ends.
LEMMA SavingKeeps ==
    ASSUME SessionInv, Free, IsOpen, NEW p \in Paths, NEW s \in Sessions,
           s.recovery = open.recovery, open' = s, Written(s, p), saving' = p,
           UNCHANGED <<up, launches, recent, ui, history>>
    PROVE  SessionInv'
  <1> USE SessionAssumption DEF SessionInv
  <1>1. /\ project' \in [Paths -> Texts \cup {None}] /\ project'[p] = s.text
        /\ \A q \in Paths : q # p => project'[q] = project[q]
        /\ newer' = newer \ {p} /\ recov' = recov /\ p # None
    BY DEF Written, Shapes, Sessions, Recoveries
  <1>2. open' # NoSession /\ offers' = {} /\ waiting' = None /\ up' = "yes"
    BY ASessionIsOpen DEF Free, ui
  <1>3. Shapes' /\ Stages'
    BY <1>1, <1>2 DEF Shapes, Stages, Free, IsOpen
  <1>4. RecentOnce' /\ KnowsItsFile' /\ KnowsItsRecovery'
    BY <1>1 DEF RecentOnce, KnowsItsFile, KnowsItsRecovery, Recent, IsOpen
  <1>5. NewerDiffers' /\ DroppedIsGone' /\ OfferedStays'
    BY <1>1, <1>2 DEF NewerDiffers, DroppedIsGone, OfferedStays, history
  <1>6. QED
    BY <1>3, <1>4, <1>5

LEMMA SessionKeeps == SessionInv /\ [Next]_vars => SessionInv'
  <1> SUFFICES ASSUME SessionInv, [Next]_vars PROVE SessionInv'
    OBVIOUS
  <1> USE SessionAssumption DEF SessionInv
  <1>0. NoSession # open => open \in Sessions
    BY DEF Shapes
  <1>1. CASE Launch
    BY <1>1 DEF Launch, Shapes, Stages, RecentOnce, KnowsItsFile, KnowsItsRecovery, NewerDiffers,
                DroppedIsGone, OfferedStays, Offers, Recent, IsOpen, disk, ui, history
  <1>2. ASSUME NEW p \in Paths, LaunchOpens(p) \/ Open(p) PROVE SessionInv'
    BY <1>2, OpeningKeeps DEF LaunchOpens, Open, Free, Shapes, Stages
  <1>3. CASE LaunchOffers
    <2>1. Offers' = Offers
      BY <1>3 DEF LaunchOffers, Offers, Recent, disk
    <2>2. Offers \subseteq Recoveries
      BY DEF Offers, Recent, Recoveries, Shapes
    <2>3. QED
      BY <1>3, <2>1, <2>2
      DEF LaunchOffers, Shapes, Stages, RecentOnce, KnowsItsFile, KnowsItsRecovery, NewerDiffers,
          DroppedIsGone, OfferedStays, IsOpen, disk
  <1>4. ASSUME NEW r \in Recoveries, Restore(r) PROVE SessionInv'
    <2>1. /\ up = "yes" /\ r \in offers /\ saving = None /\ recov[r] # None
          /\ open' = RestoredText(r) /\ waiting' = r /\ dropped' = dropped \ {r}
          /\ UNCHANGED <<up, launches, saving, disk, offers, left>>
      BY <1>4 DEF Restore
    <2>2. /\ open' \in Sessions /\ open'.recovery = r /\ open'.autosaved = recov[r]
          /\ r \in Paths => open'.saved = project[r]
      BY <2>1 DEF RestoredText, Sessions, Shapes, Recoveries
    <2>3. r \in Offers /\ Offers' = Offers /\ Recent' = Recent
      BY <2>1 DEF OfferedStays, Offers, Recent, disk
    <2>4. r \in Paths => r \in Recent
      BY <2>3 DEF Offers
    <2>5. Shapes' /\ Stages' /\ RecentOnce'
      BY <2>1, <2>2 DEF Shapes, Stages, RecentOnce, disk
    <2>6. KnowsItsFile' /\ KnowsItsRecovery'
      BY <2>1, <2>2, <2>3, <2>4 DEF KnowsItsFile, KnowsItsRecovery, disk
    <2>7. NewerDiffers' /\ DroppedIsGone' /\ OfferedStays'
      BY <2>1, <2>3 DEF NewerDiffers, DroppedIsGone, OfferedStays, disk
    <2>8. QED
      BY <2>5, <2>6, <2>7
  <1>5. CASE Restored
    BY <1>5 DEF Restored, Shapes, Stages, RecentOnce, KnowsItsFile, KnowsItsRecovery, NewerDiffers,
                DroppedIsGone, OfferedStays, Offers, Recent, IsOpen, disk, history
  <1>6. ASSUME NEW r \in Recoveries, DiscardOffer(r) PROVE SessionInv'
    <2>1. /\ up = "yes" /\ r \in offers /\ recov' = Gone(r) /\ newer' = newer \ {r}
          /\ offers' = offers \ {r} /\ dropped' = dropped \cup {r}
          /\ UNCHANGED <<up, launches, open, saving, project, recent, waiting, left>>
      BY <1>6 DEF DiscardOffer
    <2>2. /\ recov' \in [Recoveries -> Texts \cup {None}] /\ recov'[r] = None
          /\ \A b \in Recoveries : b # r => recov'[b] = recov[b]
      BY <2>1 DEF Gone, Shapes
    <2>3. \A b \in Recoveries : b # r => (b \in Offers' <=> b \in Offers)
      BY <2>1, <2>2 DEF Offers, Recoveries, Recent
    <2>4. Shapes' /\ Stages' /\ RecentOnce'
      BY <2>1, <2>2 DEF Shapes, Stages, RecentOnce, IsOpen
    <2>5. KnowsItsFile'
      BY <2>1 DEF KnowsItsFile, IsOpen, Recent
    <2>6. KnowsItsRecovery'
      <3>1. IsOpen => open.recovery \in Recoveries
        BY <1>0 DEF IsOpen, Sessions
      <3>2. QED
        BY <2>1, <2>2, <2>3, <3>1 DEF KnowsItsRecovery, IsOpen
    <2>7. NewerDiffers' /\ DroppedIsGone'
      BY <2>1, <2>2 DEF NewerDiffers, DroppedIsGone, Recoveries
    <2>8. OfferedStays'
      BY <2>1, <2>2, <2>3 DEF OfferedStays, Shapes
    <2>9. QED
      BY <2>4, <2>5, <2>6, <2>7, <2>8
  <1>7. ASSUME NEW u \in Untitled, NEW t \in Texts, New(u, t) PROVE SessionInv'
    <2>1. /\ open' \in Sessions /\ open'.recovery = u /\ open'.autosaved = None
          /\ u \notin Paths
      BY <1>7 DEF New, Sessions, Recoveries
    <2>2. /\ up = "yes" /\ saving = None /\ offers = {} /\ dropped' = dropped \ {u}
          /\ UNCHANGED <<up, launches, saving, disk, ui, left>>
      BY <1>7 DEF New, Free
    <2>3. Offers' = Offers
      BY <2>2 DEF Offers, Recent, disk
    <2>4. QED
      BY <2>1, <2>2, <2>3 DEF Shapes, Stages, RecentOnce, KnowsItsFile, KnowsItsRecovery,
                              NewerDiffers, DroppedIsGone, OfferedStays, IsOpen, disk, ui
  <1>8. CASE Autosave
    <2>1. /\ up \in {"yes", "quitting"} /\ saving = None /\ IsOpen /\ Autosaves(open)
          /\ dropped' = Renewed
          /\ UNCHANGED <<up, launches, saving, project, recent, ui, left>>
      BY <1>8 DEF Autosave
    <2>2. open \in Sessions /\ (up = "yes" \/ open.text = open.saved)
      BY <1>0, <2>1 DEF Stages, IsOpen
    <2>3. QED
      BY <2>1, <2>2, AutosaveKeeps
  <1>9. ASSUME NEW t \in Texts, Edit(t) PROVE SessionInv'
    <2>1. /\ open \in Sessions /\ open' = [open EXCEPT !.text = t]
          /\ saving = None /\ up = "yes" /\ offers = {}
          /\ UNCHANGED <<up, launches, saving, disk, ui, history>>
      BY <1>0, <1>9 DEF Edit, Free, IsOpen
    <2>2. /\ open' \in Sessions /\ open'.recovery = open.recovery /\ open'.saved = open.saved
          /\ open'.autosaved = open.autosaved
      BY <2>1 DEF Sessions
    <2>3. Offers' = Offers /\ Recent' = Recent /\ open # NoSession
      BY <1>9, <2>1 DEF Offers, Recent, disk, Edit, IsOpen
    <2>4. Shapes' /\ Stages' /\ RecentOnce'
      BY <2>1, <2>2 DEF Shapes, Stages, RecentOnce, disk, ui
    <2>5. KnowsItsFile' /\ KnowsItsRecovery'
      BY <2>1, <2>2, <2>3 DEF KnowsItsFile, KnowsItsRecovery, IsOpen, disk, history
    <2>6. NewerDiffers' /\ DroppedIsGone' /\ OfferedStays'
      BY <2>1, <2>3 DEF NewerDiffers, DroppedIsGone, OfferedStays, disk, ui, history
    <2>7. QED
      BY <2>4, <2>5, <2>6
  <1>10. ASSUME NEW t \in Texts, EditSignificant(t) PROVE SessionInv'
    <2> DEFINE s == [open EXCEPT !.text = t]
    <2>1. /\ up = "yes" /\ saving = None /\ IsOpen /\ Autosaves(s) /\ dropped' = Renewed
          /\ UNCHANGED <<up, launches, saving, project, recent, ui, left>>
      BY <1>10 DEF EditSignificant, Free
    <2>2. /\ s \in Sessions /\ s.recovery = open.recovery /\ s.saved = open.saved
          /\ s.autosaved = open.autosaved
      BY <1>0, <2>1 DEF Sessions, IsOpen
    <2>3. QED
      BY <2>1, <2>2, AutosaveKeeps
  <1>11. ASSUME NEW p \in Paths, Save(p) PROVE SessionInv'
    <2>1. /\ Free /\ IsOpen /\ Written(open, p) /\ saving' = p /\ open' = open
          /\ UNCHANGED <<up, launches, recent, ui, history>>
      BY <1>11 DEF Save
    <2>2. open \in Sessions
      BY <1>0, <2>1 DEF IsOpen
    <2>3. QED
      BY <2>1, <2>2, SavingKeeps
  <1>12. ASSUME NEW t \in Texts, Relink(t) PROVE SessionInv'
    <2>1. /\ Free /\ IsOpen /\ open.path # None /\ open' = [open EXCEPT !.text = t]
          /\ Written(open', open.path) /\ saving' = open.path
          /\ UNCHANGED <<up, launches, recent, ui, history>>
      BY <1>12 DEF Relink
    <2>2. open' \in Sessions /\ open'.recovery = open.recovery /\ open.path \in Paths
      BY <1>0, <2>1 DEF Sessions, IsOpen
    <2>3. QED
      BY <2>1, <2>2, SavingKeeps
  <1>13. CASE SaveEnds
    <2>1. /\ saving \in Paths /\ open \in Sessions /\ project[saving] = open.text
          /\ offers = {} /\ up \in {"yes", "quitting"}
      BY <1>0, <1>13 DEF SaveEnds, Stages, Shapes, IsOpen
    <2>2. /\ open' = SavedAs(open, saving) /\ recov' = Gone(open.recovery)
          /\ newer' = newer \ {open.recovery} /\ recent' = Touch(saving)
          /\ dropped' = dropped \ {saving} /\ saving' = None
          /\ UNCHANGED <<up, launches, project, ui, left>>
      BY <1>13 DEF SaveEnds
    <2>3. /\ open' \in Sessions /\ open'.recovery = saving /\ open'.text = open.text
          /\ open'.saved = open.text /\ open'.autosaved = None
      BY <2>1, <2>2 DEF SavedAs, Sessions, Recoveries
    <2>4. recent' \in Seq(Paths) /\ RecentOnce' /\ saving \in Recent'
      BY <2>1, <2>2, TouchedIsFirst DEF Shapes
    <2>5. /\ recov' \in [Recoveries -> Texts \cup {None}]
          /\ \A b \in Recoveries : recov'[b] = None \/ recov'[b] = recov[b]
      BY <2>2 DEF Gone, Shapes
    <2>6. Shapes' /\ Stages'
      BY <2>1, <2>2, <2>3, <2>4, <2>5 DEF Shapes, Stages, ui
    <2>7. KnowsItsFile' /\ KnowsItsRecovery'
      BY <2>1, <2>2, <2>3, <2>4 DEF KnowsItsFile, KnowsItsRecovery
    <2>8. NewerDiffers' /\ DroppedIsGone' /\ OfferedStays'
      BY <2>1, <2>2, <2>5 DEF NewerDiffers, DroppedIsGone, OfferedStays, Recoveries, ui
    <2>9. QED
      BY <2>4, <2>6, <2>7, <2>8
  <1>14. CASE Close \/ Quit
    <2>1. /\ saving = None /\ up = "yes" /\ up' \in {"yes", "quitting"}
          /\ UNCHANGED <<launches, saving, project, recent, ui, left>>
      BY <1>14 DEF Close, Quit, Free
    <2>2. CASE open' = NoSession /\ IsOpen /\ Dirty /\ Leave
      <3>1. /\ open.recovery \in Recoveries /\ recov' = Gone(open.recovery)
            /\ newer' = newer \ {open.recovery} /\ dropped' = dropped \cup {open.recovery}
        BY <1>0, <2>2 DEF Leave, IsOpen, Sessions
      <3>2. /\ recov' \in [Recoveries -> Texts \cup {None}] /\ recov'[open.recovery] = None
            /\ \A b \in Recoveries : b # open.recovery => recov'[b] = recov[b]
        BY <3>1 DEF Gone, Shapes
      <3>3. \A b \in Recoveries : b # open.recovery => (b \in Offers' <=> b \in Offers)
        BY <2>1, <3>1, <3>2 DEF Offers, Recoveries, Recent
      <3>4. Shapes' /\ Stages' /\ RecentOnce'
        BY <2>1, <2>2, <3>1, <3>2 DEF Shapes, Stages, RecentOnce, IsOpen, ui
      <3>5. KnowsItsFile' /\ KnowsItsRecovery'
        BY <2>2 DEF KnowsItsFile, KnowsItsRecovery, IsOpen
      <3>6. NewerDiffers' /\ DroppedIsGone'
        BY <2>1, <3>1, <3>2 DEF NewerDiffers, DroppedIsGone, Recoveries
      <3>7. OfferedStays'
        BY <2>1, <3>2, <3>3 DEF OfferedStays, Shapes, ui
      <3>8. QED
        BY <3>4, <3>5, <3>6, <3>7
    <2>3. CASE /\ open' \in {NoSession, open} /\ ~(IsOpen /\ Dirty)
               /\ UNCHANGED <<recov, newer, dropped>>
      <3>1. Offers' = Offers /\ Recent' = Recent
        BY <2>1, <2>3 DEF Offers, Recent
      <3>2. Shapes' /\ Stages' /\ RecentOnce'
        BY <2>1, <2>3 DEF Shapes, Stages, RecentOnce, IsOpen, Dirty, ui
      <3>3. QED
        BY <2>1, <2>3, <3>1, <3>2
        DEF KnowsItsFile, KnowsItsRecovery, NewerDiffers, DroppedIsGone, OfferedStays, IsOpen, ui
    <2>4. QED
      BY <1>14, <2>2, <2>3 DEF Close, Quit, Leave, Taken
  <1>15. ASSUME NEW p \in Paths, Deleted(p) PROVE SessionInv'
    <2>1. /\ ~IsOpen /\ saving = None /\ offers = {} /\ up = "no"
          /\ project' = [project EXCEPT ![p] = None]
          /\ UNCHANGED <<up, launches, open, saving, recov, newer, recent, ui, history>>
      BY <1>15 DEF Deleted, Stages
    <2>2. QED
      BY <2>1 DEF Shapes, Stages, RecentOnce, KnowsItsFile, KnowsItsRecovery, NewerDiffers,
                  DroppedIsGone, OfferedStays, IsOpen, ui, history
  <1>16. CASE Exit \/ Crash
    <2>1. /\ up' = "no" /\ open' = NoSession /\ saving' = None /\ offers' = {} /\ waiting' = None
          /\ UNCHANGED <<launches, disk, dropped>>
      BY <1>16 DEF Exit, Crash, ProcessEnds
    <2>2. QED
      BY <2>1 DEF Shapes, Stages, RecentOnce, KnowsItsFile, KnowsItsRecovery, NewerDiffers,
                  DroppedIsGone, OfferedStays, IsOpen, disk
  <1>17. CASE UNCHANGED vars
    BY <1>17 DEF vars, Shapes, Stages, RecentOnce, KnowsItsFile, KnowsItsRecovery, NewerDiffers,
                 DroppedIsGone, OfferedStays, Offers, Recent, IsOpen, disk, ui, history
  <1>18. QED
    BY <1>1, <1>2, <1>3, <1>4, <1>5, <1>6, <1>7, <1>8, <1>9, <1>10, <1>11, <1>12, <1>13, <1>14,
       <1>15, <1>16, <1>17 DEF Next

\* For any projects, texts and launches, what the next launch offers is the
\* work that would be lost and no other (autosave, save_to, scan,
\* discard_recovery, quit_app).
THEOREM OffersStayRight == Spec => []OffersAreRight
  <1>1. SessionInv => OffersAreRight
    <2> SUFFICES ASSUME SessionInv PROVE OffersAreRight
      OBVIOUS
    <2> USE SessionAssumption DEF SessionInv
    <2>1. Offers \subseteq Recoveries /\ \A r \in Offers : recov[r] # None
      BY DEF Offers, Recent, Recoveries, Shapes
    <2>2. ASSUME IsOpen, open.autosaved # None, open.recovery \notin dropped
          PROVE  \/ open.recovery \in Offers /\ recov[open.recovery] = open.autosaved
                 \/ saving # None /\ project[saving] = open.text
      BY <2>2 DEF KnowsItsRecovery, Stages
    <2>3. \A p \in Offers \cap Paths : recov[p] # project[p]
      BY <2>1 DEF Offers, NewerDiffers
    <2>4. DiscardIsFinal
      BY <2>1 DEF DiscardIsFinal, DroppedIsGone
    <2>5. QED
      BY <2>2, <2>3, <2>4 DEF OffersAreRight, UnsavedWorkIsOffered
  <1>2. QED
    BY SessionStarts, SessionKeeps, <1>1, PTL DEF Spec

-----------------------------------------------------------------------------
(* The cache of derived artefacts                                            *)

CacheNames == UNION {Range(EntriesOf[j]) : j \in Jobs}
FileType == [name : CacheNames, partial : BOOLEAN, size : Nat, whole : BOOLEAN]
OneOfAName(d) ==
    \A i, k \in DOMAIN d : d[i].name = d[k].name /\ d[i].partial = d[k].partial => i = k
IsDirectory(d) == d \in Seq(FileType) /\ OneOfAName(d)

\* What a set of files takes up
Size(R) == SumOf(R, [f \in R |-> f.size])

LEMMA SizeIsASum ==
    ASSUME NEW R \in SUBSET FileType, IsFiniteSet(R)
    PROVE  /\ [f \in R |-> f.size] \in [R -> Nat]
           /\ IsSum(SumsOf(R, [f \in R |-> f.size]), R, [f \in R |-> f.size])
<1>1. [f \in R |-> f.size] \in [R -> Nat]
  BY DEF FileType
<1>2. QED
  BY <1>1, SumsAreSums

LEMMA SizeOfFewer ==
    ASSUME NEW R \in SUBSET FileType, IsFiniteSet(R), NEW Q \in SUBSET R
    PROVE  Size(Q) <= Size(R) /\ Size(Q) \in Nat /\ Size(R) \in Nat
<1> DEFINE v == [f \in R |-> f.size]
           w == [f \in Q |-> f.size]
<1>1. IsFiniteSet(Q) /\ Q \in SUBSET FileType
  BY FS_Subset
<1>2. IsSum(SumsOf(R, v), R, v) /\ v \in [R -> Nat] /\ IsSum(SumsOf(Q, w), Q, w)
  BY <1>1, SizeIsASum
<1>3. \A x \in Q : v[x] = w[x]
  OBVIOUS
<1> DEFINE g == SumsOf(R, v)
           h == SumsOf(Q, w)
<1>4. Size(Q) = h[Q] /\ Size(R) = g[R]
  BY DEF Size, SumOf
<1> HIDE DEF v, w, g, h
<1>5. IsSum(g, R, v) /\ IsSum(h, Q, w) /\ Q \subseteq R /\ IsFiniteSet(Q) /\ \A x \in Q : v[x] = w[x]
  BY <1>1, <1>2 DEF g, h, v, w
<1>6. \A U \in SUBSET Q : g[U] = h[U]
  BY <1>5, SumIsUnique
<1>7. g[Q] <= g[R] /\ g[Q] \in Nat /\ g[R] \in Nat
  BY <1>2, <1>5, SumIsMonotone
<1>8. QED
  BY <1>4, <1>6, <1>7

LEMMA SizeOfOneMore ==
    ASSUME NEW R \in SUBSET FileType, IsFiniteSet(R), NEW f \in R
    PROVE  Size(R) = f.size + Size(R \ {f})
<1> DEFINE v == [x \in R |-> x.size]
           w == [x \in R \ {f} |-> x.size]
<1>1. IsFiniteSet(R \ {f}) /\ R \ {f} \in SUBSET FileType /\ R \ {f} \subseteq R
  BY FS_Subset
<1>2. IsSum(SumsOf(R, v), R, v) /\ IsSum(SumsOf(R \ {f}, w), R \ {f}, w)
  BY <1>1, SizeIsASum
<1>3. (\A x \in R \ {f} : v[x] = w[x]) /\ v[f] = f.size
  OBVIOUS
<1> DEFINE g == SumsOf(R, v)
           h == SumsOf(R \ {f}, w)
<1>4. Size(R \ {f}) = h[R \ {f}] /\ Size(R) = g[R]
  BY DEF Size, SumOf
<1> HIDE DEF v, w, g, h
<1> DEFINE Q == R \ {f}
<1>5. IsSum(g, R, v) /\ IsSum(h, Q, w) /\ Q \subseteq R /\ IsFiniteSet(Q) /\ \A x \in Q : v[x] = w[x]
  BY <1>1, <1>2 DEF g, h, v, w
<1>6. \A U \in SUBSET Q : g[U] = h[U]
  <2> HIDE DEF Q
  <2>1. QED
    BY <1>5, SumIsUnique
<1>7. g[R] = v[f] + g[R \ {f}]
  BY <1>5 DEF IsSum
<1>8. QED
  BY <1>3, <1>4, <1>6, <1>7

LEMMA FilesAreFinite ==
    ASSUME NEW d \in Seq(FileType)
    PROVE  IsFiniteSet(Range(d)) /\ Range(d) \in SUBSET FileType
<1>1. DOMAIN d = 1..Len(d) /\ Len(d) \in Nat
  OBVIOUS
<1>2. IsFiniteSet(DOMAIN d)
  BY <1>1, FS_Interval
<1>3. IsFiniteSet({d[x] : x \in DOMAIN d})
  BY <1>2, ImageIsFinite
<1>4. QED
  BY <1>1, <1>3 DEF Range

\* What the directory takes up is what its files do: the fold goes through the
\* indices in some order, and at each has added up the files of those it has.
LEMMA TotalIsSize ==
    ASSUME NEW d, IsDirectory(d)
    PROVE  Total(d) = Size(Range(d)) /\ Total(d) \in Nat
<1> DEFINE I == DOMAIN d
           R == Range(d)
           w == [f \in R |-> f.size]
           G == SumsOf(R, w)
           Of(s) == {d[i] : i \in s}
           step(iter) == [s \in SUBSET I |->
                             IF s = {} THEN 0
                             ELSE d[CHOOSE x \in s : TRUE].size + iter[s \ {CHOOSE x \in s : TRUE}]]
           g == [s \in SUBSET I |-> G[Of(s)]]
<1>1. Total(d) = (CHOOSE iter : iter = step(iter))[I]
  BY DEF Total, FoldSeq, FoldFunction, FoldFunctionOnSet, MapThenFoldSet
<1>2. IsFiniteSet(I) /\ IsFiniteSet(R) /\ R \in SUBSET FileType
  <2>1. d \in Seq(FileType)
    BY DEF IsDirectory
  <2>2. I = 1..Len(d) /\ Len(d) \in Nat
    BY <2>1
  <2>3. QED
    BY <2>1, <2>2, FilesAreFinite, FS_Interval
<1>3. IsSum(G, R, w)
  BY <1>2, SizeIsASum
<1>4. \A s \in SUBSET I : Of(s) \in SUBSET R
  BY DEF Range
<1>5. ASSUME NEW s \in SUBSET I, NEW x \in s
      PROVE  g[s] = d[x].size + g[s \ {x}]
  <2>1. Of(s \ {x}) = Of(s) \ {d[x]}
    <3>1. \A i, k \in I : d[i] = d[k] => i = k
      BY DEF IsDirectory, OneOfAName
    <3>2. QED
      BY <3>1
  <2>2. d[x] \in Of(s) /\ Of(s) \in SUBSET R /\ d[x] \in R
    BY <1>4
  <2>3. G[Of(s)] = w[d[x]] + G[Of(s) \ {d[x]}]
    BY <1>3, <2>2 DEF IsSum
  <2>4. w[d[x]] = d[x].size
    BY <2>2
  <2>5. g[s] = G[Of(s)] /\ g[s \ {x}] = G[Of(s \ {x})]
    OBVIOUS
  <2>6. QED
    BY <2>1, <2>3, <2>4, <2>5
<1>6. g[{}] = 0
  <2>1. Of({}) = {}
    OBVIOUS
  <2>2. QED
    BY <2>1, <1>3 DEF IsSum
<1>7. g = step(g)
  <2>1. \A s \in SUBSET I : s # {} => (CHOOSE x \in s : TRUE) \in s
    OBVIOUS
  <2>2. \A s \in SUBSET I : g[s] = step(g)[s]
    <3>1. SUFFICES ASSUME NEW s \in SUBSET I PROVE g[s] = step(g)[s]
      OBVIOUS
    <3>2. CASE s = {}
      BY <3>2, <1>6
    <3>3. CASE s # {}
      <4> DEFINE x == CHOOSE x \in s : TRUE
      <4>1. x \in s
        BY <3>3, <2>1
      <4>2. step(g)[s] = d[x].size + g[s \ {x}]
        BY <3>3
      <4> HIDE DEF x, g
      <4>3. QED
        BY <4>1, <4>2, <1>5
    <3>4. QED
      BY <3>2, <3>3
  <2>3. DOMAIN g = SUBSET I /\ DOMAIN step(g) = SUBSET I
    OBVIOUS
  <2>4. g = [s \in SUBSET I |-> g[s]] /\ step(g) = [s \in SUBSET I |-> step(g)[s]]
    OBVIOUS
  <2> HIDE DEF g, step
  <2>5. QED
    BY <2>2, <2>4
<1> DEFINE iter == CHOOSE iter : iter = step(iter)
<1>8. iter = step(iter)
  <2> HIDE DEF step, g
  <2>1. QED
    BY <1>7
<1>9. iter[I] = g[I]
  <2> DEFINE N == {n \in Nat : \A s \in SUBSET I : Cardinality(s) = n => iter[s] = g[s]}
  <2> HIDE DEF iter, g
  <2>1. iter[{}] = 0
    BY <1>8
  <2>2. 0 \in N
    <3>1. \A s \in SUBSET I : Cardinality(s) = 0 => s = {}
      BY <1>2, FS_EmptySet, FS_Subset
    <3>2. QED
      BY <3>1, <2>1, <1>6
  <2>3. ASSUME NEW n \in Nat, n \in N PROVE n + 1 \in N
    <3>1. SUFFICES ASSUME NEW s \in SUBSET I, Cardinality(s) = n + 1 PROVE iter[s] = g[s]
      BY <2>3
    <3>2. IsFiniteSet(s) /\ s # {}
      BY <3>1, <1>2, FS_Subset, FS_EmptySet
    <3> DEFINE x == CHOOSE x \in s : TRUE
    <3>3. x \in s
      BY <3>2
    <3>4. iter[s] = d[x].size + iter[s \ {x}]
      BY <1>8, <3>2
    <3> HIDE DEF x
    <3>5. Cardinality(s \ {x}) = n /\ s \ {x} \in SUBSET I
      BY <3>1, <3>2, <3>3, OneFewer
    <3>6. iter[s \ {x}] = g[s \ {x}]
      BY <3>5, <2>3
    <3>7. QED
      BY <3>3, <3>4, <3>6, <1>5
  <2>4. Nat \subseteq N
    <3> HIDE DEF N
    <3>1. QED
      BY <2>2, <2>3, Inductively
  <2>5. Cardinality(I) \in Nat
    BY <1>2, FS_CardinalityType
  <2>6. QED
    BY <2>4, <2>5
<1>10. g[I] = Size(R)
  <2>1. Of(I) = R
    BY DEF Range
  <2>2. QED
    BY <2>1 DEF Size, SumOf
<1>11. Size(R) \in Nat
  BY <1>2, SizeOfFewer
<1>12. QED
  BY <1>1, <1>9, <1>10, <1>11

LEMMA AllButOne ==
    ASSUME NEW d, IsDirectory(d), NEW i \in DOMAIN d
    PROVE  IsDirectory(RemoveAt(d, i)) /\ Range(RemoveAt(d, i)) = Range(d) \ {d[i]}
<1> DEFINE n == Len(d)
           e == RemoveAt(d, i)
<1>1. d \in Seq(FileType) /\ i \in 1..n /\ n \in Nat
  BY DEF IsDirectory
<1>2. /\ e \in Seq(FileType) /\ Len(e) = n - 1
      /\ \A k \in 1..n - 1 : e[k] = IF k < i THEN d[k] ELSE d[k + 1]
  <2>1. /\ SubSeq(d, 1, i - 1) \in Seq(FileType) /\ Len(SubSeq(d, 1, i - 1)) = i - 1
        /\ \A k \in 1..i - 1 : SubSeq(d, 1, i - 1)[k] = d[k]
    BY <1>1
  <2>2. /\ SubSeq(d, i + 1, n) \in Seq(FileType) /\ Len(SubSeq(d, i + 1, n)) = n - i
        /\ \A k \in 1..n - i : SubSeq(d, i + 1, n)[k] = d[i + k]
    BY <1>1
  <2> DEFINE A == SubSeq(d, 1, i - 1)
             B == SubSeq(d, i + 1, n)
  <2>3. e = A \o B
    BY DEF RemoveAt
  <2> HIDE DEF A, B, e, n
  <2>4. /\ A \in Seq(FileType) /\ Len(A) = i - 1 /\ \A k \in 1..i - 1 : A[k] = d[k]
        /\ B \in Seq(FileType) /\ Len(B) = n - i /\ \A k \in 1..n - i : B[k] = d[i + k]
    BY <2>1, <2>2 DEF A, B, n
  <2>8. /\ A \o B \in Seq(FileType) /\ Len(A \o B) = Len(A) + Len(B)
        /\ \A k \in 1..Len(A) + Len(B) : (A \o B)[k] = IF k <= Len(A) THEN A[k] ELSE B[k - Len(A)]
    BY <2>4, ConcatProperties
  <2>5. e \in Seq(FileType) /\ Len(e) = n - 1
    BY <2>3, <2>4, <2>8, <1>1
  <2>6. ASSUME NEW k \in 1..n - 1 PROVE e[k] = IF k < i THEN d[k] ELSE d[k + 1]
    <3>1. e[k] = IF k <= Len(A) THEN A[k] ELSE B[k - Len(A)]
      <4>1. Len(A) + Len(B) = n - 1
        BY <2>4, <1>1
      <4>2. QED
        BY <2>3, <2>8, <4>1
    <3>2. CASE k < i
      <4>1. k \in 1..i - 1
        BY <3>2, <1>1
      <4>2. QED
        BY <3>1, <3>2, <4>1, <2>4
    <3>3. CASE ~(k < i)
      <4>1. k - (i - 1) \in 1..n - i /\ i + (k - (i - 1)) = k + 1 /\ ~(k <= i - 1)
        BY <3>3, <1>1
      <4>2. QED
        BY <3>1, <3>3, <4>1, <2>4
    <3>4. QED
      BY <3>2, <3>3
  <2>7. QED
    BY <2>5, <2>6
<1> HIDE DEF e
<1>3. \A k \in 1..n - 1 : \E m \in 1..n : m # i /\ e[k] = d[m] /\ m = IF k < i THEN k ELSE k + 1
  BY <1>1, <1>2
<1>4. \A m \in 1..n : m # i => \E k \in 1..n - 1 : e[k] = d[m]
  <2>1. SUFFICES ASSUME NEW m \in 1..n, m # i PROVE \E k \in 1..n - 1 : e[k] = d[m]
    OBVIOUS
  <2>2. CASE m < i
    BY <2>2, <1>1, <1>2
  <2>3. CASE m > i
    <3>1. m - 1 \in 1..n - 1 /\ ~(m - 1 < i) /\ (m - 1) + 1 = m
      BY <2>3, <1>1
    <3>2. QED
      BY <3>1, <1>2
  <2>4. QED
    BY <2>1, <2>2, <2>3, <1>1
<1>5. \A m \in 1..n : d[m] = d[i] => m = i
  BY <1>1 DEF IsDirectory, OneOfAName
<1>6. Range(e) = Range(d) \ {d[i]}
  <2>1. DOMAIN e = 1..n - 1 /\ DOMAIN d = 1..n
    BY <1>1, <1>2
  <2>2. Range(e) \subseteq Range(d) \ {d[i]}
    BY <2>1, <1>3, <1>5 DEF Range
  <2>3. ASSUME NEW f \in Range(d) \ {d[i]} PROVE f \in Range(e)
    <3>1. PICK m \in 1..n : f = d[m]
      BY <2>1 DEF Range
    <3>2. PICK k \in 1..n - 1 : e[k] = d[m]
      BY <3>1, <1>4
    <3>3. QED
      BY <2>1, <3>1, <3>2 DEF Range
  <2>4. QED
    BY <2>2, <2>3
<1>7. OneOfAName(e)
  <2>1. SUFFICES ASSUME NEW a \in 1..n - 1, NEW b \in 1..n - 1,
                        e[a].name = e[b].name /\ e[a].partial = e[b].partial
                 PROVE  a = b
    BY <1>1, <1>2 DEF OneOfAName
  <2>2. PICK k \in 1..n : e[a] = d[k] /\ k = IF a < i THEN a ELSE a + 1
    BY <1>3
  <2>3. PICK m \in 1..n : e[b] = d[m] /\ m = IF b < i THEN b ELSE b + 1
    BY <1>3
  <2>4. k = m
    BY <2>1, <2>2, <2>3, <1>1 DEF IsDirectory, OneOfAName
  <2>5. QED
    BY <2>2, <2>3, <2>4, <1>1
<1>8. QED
  BY <1>2, <1>6, <1>7 DEF IsDirectory, e

LEMMA WithoutIs ==
    ASSUME NEW d, IsDirectory(d), NEW name, NEW partial
    PROVE  /\ IsDirectory(Without(d, name, partial))
           /\ Range(Without(d, name, partial)) = {f \in Range(d) : ~Named(f, name, partial)}
<1> DEFINE found == {i \in DOMAIN d : Named(d[i], name, partial)}
           x == CHOOSE i \in found : TRUE
<1>1. Without(d, name, partial) = IF found = {} THEN d ELSE RemoveAt(d, x)
  BY DEF Without
<1>2. CASE found = {}
  <2>1. \A f \in Range(d) : ~Named(f, name, partial)
    BY <1>2 DEF Range
  <2>2. QED
    BY <1>1, <1>2, <2>1
<1>3. CASE found # {}
  <2>1. x \in found
    BY <1>3
  <2>2. Named(d[x], name, partial) /\ x \in DOMAIN d
    BY <2>1
  <2> HIDE DEF x
  <2>3. \A f \in Range(d) : Named(f, name, partial) <=> f = d[x]
    <3>1. \A i \in DOMAIN d : Named(d[i], name, partial) => i = x
      BY <2>2 DEF IsDirectory, OneOfAName, Named
    <3>2. QED
      BY <3>1, <2>2 DEF Range
  <2>4. IsDirectory(RemoveAt(d, x)) /\ Range(RemoveAt(d, x)) = Range(d) \ {d[x]}
    BY <2>2, AllButOne
  <2>5. QED
    BY <1>1, <1>3, <2>3, <2>4
<1>4. QED
  BY <1>2, <1>3

LEMMA UsedIs ==
    ASSUME NEW d, IsDirectory(d), NEW f \in FileType
    PROVE  /\ IsDirectory(Used(d, f))
           /\ Range(Used(d, f)) = {g \in Range(d) : ~Named(g, f.name, f.partial)} \cup {f}
<1> DEFINE e == Without(d, f.name, f.partial)
           u == Append(e, f)
           n == Len(e)
<1>1. Used(d, f) = u
  BY DEF Used
<1>2. IsDirectory(e) /\ Range(e) = {g \in Range(d) : ~Named(g, f.name, f.partial)}
  BY WithoutIs
<1> HIDE DEF e
<1>3. e \in Seq(FileType) /\ n \in Nat /\ DOMAIN e = 1..n
  BY <1>2 DEF IsDirectory
<1>4. /\ u \in Seq(FileType) /\ Len(u) = n + 1 /\ DOMAIN u = 1..n + 1
      /\ \A k \in 1..n : u[k] = e[k]
      /\ u[n + 1] = f
  BY <1>3
<1> HIDE DEF u
<1>5. Range(u) = Range(e) \cup {f}
  <2>1. \A k \in 1..n + 1 : k \in 1..n \/ k = n + 1
    BY <1>3
  <2>2. \A k \in 1..n : k \in 1..n + 1
    BY <1>3
  <2>3. n + 1 \in 1..n + 1
    BY <1>3
  <2>4. QED
    BY <2>1, <2>2, <2>3, <1>3, <1>4 DEF Range
<1>6. \A k \in 1..n : ~Named(e[k], f.name, f.partial)
  BY <1>2, <1>3 DEF Range
<1>7. OneOfAName(u)
  <2>1. SUFFICES ASSUME NEW a \in 1..n + 1, NEW b \in 1..n + 1,
                        u[a].name = u[b].name /\ u[a].partial = u[b].partial
                 PROVE  a = b
    BY <1>4 DEF OneOfAName
  <2>2. CASE a \in 1..n /\ b \in 1..n
    BY <2>1, <2>2, <1>2, <1>3, <1>4 DEF IsDirectory, OneOfAName
  <2>3. CASE a = n + 1 /\ b = n + 1
    BY <2>3
  <2>4. ~(a \in 1..n /\ b = n + 1) /\ ~(b \in 1..n /\ a = n + 1)
    BY <2>1, <1>4, <1>6 DEF Named
  <2>5. (a \in 1..n \/ a = n + 1) /\ (b \in 1..n \/ b = n + 1)
    BY <1>3
  <2>6. QED
    BY <2>2, <2>3, <2>4, <2>5
<1>8. QED
  BY <1>1, <1>2, <1>4, <1>5, <1>7 DEF IsDirectory

\* A directory in which the partial of a name has been renamed
Renamed(d, name) ==
    [i \in DOMAIN d |-> IF Named(d[i], name, TRUE) THEN [d[i] EXCEPT !.partial = FALSE] ELSE d[i]]

LEMMA RenamedIs ==
    ASSUME NEW d, IsDirectory(d), NEW name \in CacheNames,
           \A f \in Range(d) : ~Named(f, name, FALSE)
    PROVE  /\ IsDirectory(Renamed(d, name))
           /\ \A f \in Range(Renamed(d, name)) :
                 \/ f \in Range(d) /\ ~Named(f, name, TRUE)
                 \/ \E g \in Range(d) : Named(g, name, TRUE) /\ f = [g EXCEPT !.partial = FALSE]
<1> DEFINE e == Renamed(d, name)
<1>0. e = [i \in DOMAIN d |-> IF Named(d[i], name, TRUE)
                              THEN [d[i] EXCEPT !.partial = FALSE] ELSE d[i]]
  BY DEF Renamed
<1> HIDE DEF e
<1>1. d \in Seq(FileType) /\ DOMAIN d = 1..Len(d) /\ Len(d) \in Nat
  BY DEF IsDirectory
<1>2. \A i \in DOMAIN d : d[i] \in FileType
  BY <1>1
<1>3. \A i \in DOMAIN d : e[i] \in FileType
  BY <1>0, <1>2 DEF FileType
<1>4. e \in Seq(FileType) /\ DOMAIN e = DOMAIN d
  <2>1. e = [i \in 1..Len(d) |-> e[i]]
    BY <1>0, <1>1
  <2>2. \A i \in 1..Len(d) : e[i] \in FileType
    BY <1>1, <1>3
  <2>3. e \in [1..Len(d) -> FileType]
    BY <2>1, <2>2
  <2>4. QED
    BY <1>1, <2>3, SeqDef
<1>5. OneOfAName(e)
  <2>1. SUFFICES ASSUME NEW a \in DOMAIN d, NEW b \in DOMAIN d,
                        e[a].name = e[b].name /\ e[a].partial = e[b].partial
                 PROVE  a = b
    BY <1>4 DEF OneOfAName
  <2>2. d[a] \in FileType /\ d[b] \in FileType /\ d[a] \in Range(d) /\ d[b] \in Range(d)
    BY <1>2 DEF Range
  <2>3. e[a].name = d[a].name /\ e[b].name = d[b].name
    BY <1>0, <2>2 DEF FileType
  <2>4. \A k \in {a, b} : e[k].partial = IF Named(d[k], name, TRUE) THEN FALSE ELSE d[k].partial
    BY <1>0, <2>2 DEF FileType
  <2>5. CASE Named(d[a], name, TRUE)
    <3>1. Named(d[b], name, TRUE)
      BY <2>1, <2>2, <2>3, <2>4, <2>5 DEF Named
    <3>2. QED
      BY <2>5, <3>1 DEF Named, IsDirectory, OneOfAName
  <2>6. CASE ~Named(d[a], name, TRUE)
    <3>1. ~Named(d[b], name, TRUE)
      BY <2>1, <2>2, <2>3, <2>4, <2>6 DEF Named
    <3>2. QED
      BY <2>1, <2>3, <2>4, <2>6, <3>1 DEF IsDirectory, OneOfAName
  <2>7. QED
    BY <2>5, <2>6
<1>6. ASSUME NEW f \in Range(e)
      PROVE  \/ f \in Range(d) /\ ~Named(f, name, TRUE)
             \/ \E g \in Range(d) : Named(g, name, TRUE) /\ f = [g EXCEPT !.partial = FALSE]
  <2>1. PICK i \in DOMAIN d : f = e[i]
    BY <1>4 DEF Range
  <2>2. d[i] \in Range(d)
    BY DEF Range
  <2>3. QED
    BY <1>0, <2>1, <2>2
<1>7. QED
  BY <1>4, <1>5, <1>6 DEF IsDirectory, e

-----------------------------------------------------------------------------
\* Items being written are in hand; what else there is has been counted.
Items == Range(files)
CachePcs == {"idle", "create", "fill", "rename", "list", "evict"}
Writing(k) == job[k].pc \in {"fill", "rename"}
InHand(f) == \E k \in Jobs : \/ Writing(k) /\ Named(f, Name(k), TRUE)
                             \/ job[k].pc = "list" /\ Named(f, Name(k), FALSE)
SettledFiles == {f \in Items : ~InHand(f)}

\* What an eviction has yet to look at is all that is there besides its own
\* entry, and its total is no less.
Own(k) == {f \in SettledFiles : Named(f, Name(k), FALSE)}
Counts(k) ==
    /\ job[k].pc = "evict"
    /\ SettledFiles \subseteq Range(job[k].listing) \cup Own(k)
    /\ Size(Range(job[k].listing) \cup Own(k)) <= job[k].total

Fits == Size(SettledFiles) <= Budget \/ \A f, g \in SettledFiles : f = g

\* After an eviction, and during one, the settled files fit, or the last to
\* have listed them will see to it.
Budgeted ==
    (swept \/ \E k \in Jobs : job[k].pc = "evict") => (Fits \/ \E k \in Jobs : Counts(k))

CacheShapes ==
    /\ IsDirectory(files)
    /\ job \in [Jobs -> [pc : CachePcs, next : Nat, listing : Seq(FileType), total : Nat]]
    /\ \A k \in Jobs : job[k].next \in DOMAIN EntriesOf[k] /\ IsDirectory(job[k].listing)

\* What is under its own name is whole, and so is what is about to be.
Whole ==
    /\ \A f \in Items : ~f.partial => f.whole
    /\ \A k \in Jobs : job[k].pc = "rename" => \A f \in Items : Named(f, Name(k), TRUE) => f.whole

CacheInv == CacheShapes /\ Whole /\ Budgeted

LEMMA NamesAreNames ==
    ASSUME CacheShapes, NEW j \in Jobs
    PROVE  /\ Name(j) \in CacheNames /\ SizeOf[Name(j)] \in Nat
           /\ \A k \in Jobs : Name(k) = Name(j) => k = j
<1>1. \A k \in Jobs : Name(k) \in Range(EntriesOf[k])
  BY DEF CacheShapes, Name, Range
<1>2. \A k \in Jobs : EntriesOf[j][job[j].next] \in Range(EntriesOf[k]) => j = k
  BY CacheAssumption DEF CacheShapes
<1>3. SizeOf[Name(j)] \in Nat
  BY CacheAssumption DEF CacheShapes, Name
<1>4. QED
  BY <1>1, <1>2, <1>3 DEF CacheNames, Name

LEMMA SettledAreFiles ==
    ASSUME CacheShapes
    PROVE  /\ IsFiniteSet(Items) /\ Items \in SUBSET FileType
           /\ SettledFiles \in SUBSET Items /\ IsFiniteSet(SettledFiles)
           /\ \A k \in Jobs : /\ IsFiniteSet(Range(job[k].listing) \cup Own(k))
                              /\ Range(job[k].listing) \cup Own(k) \in SUBSET FileType
<1>1. IsFiniteSet(Items) /\ Items \in SUBSET FileType
  BY FilesAreFinite DEF CacheShapes, IsDirectory, Items
<1>2. SettledFiles \in SUBSET Items
  BY DEF SettledFiles
<1>3. IsFiniteSet(SettledFiles)
  BY <1>1, <1>2, FS_Subset
<1>4. ASSUME NEW k \in Jobs
      PROVE  /\ IsFiniteSet(Range(job[k].listing) \cup Own(k))
             /\ Range(job[k].listing) \cup Own(k) \in SUBSET FileType
  <2>1. IsFiniteSet(Range(job[k].listing)) /\ Range(job[k].listing) \in SUBSET FileType
    BY FilesAreFinite DEF CacheShapes
  <2>2. Own(k) \in SUBSET SettledFiles
    BY DEF Own
  <2>3. IsFiniteSet(Own(k))
    BY <2>2, <1>3, FS_Subset
  <2>4. QED
    BY <2>1, <2>2, <2>3, <1>1, <1>2, FS_Union
<1>5. QED
  BY <1>1, <1>2, <1>3, <1>4

\* Where nothing becomes settled, what fitted fits, and who counts goes on
\* counting.
LEMMA NothingSettles ==
    ASSUME CacheShapes, CacheShapes', SettledFiles' \subseteq SettledFiles
    PROVE  /\ Fits => Fits'
           /\ \A k \in Jobs : Counts(k) /\ job'[k] = job[k] => Counts(k)'
<1>1. /\ SettledFiles \in SUBSET FileType /\ IsFiniteSet(SettledFiles)
      /\ SettledFiles' \in SUBSET SettledFiles
  BY SettledAreFiles
<1>2. Size(SettledFiles') <= Size(SettledFiles) /\ Size(SettledFiles') \in Nat /\ Size(SettledFiles) \in Nat
  BY <1>1, SizeOfFewer
<1>3. Fits => Fits'
  BY <1>2, CacheAssumption DEF Fits
<1>4. ASSUME NEW k \in Jobs, Counts(k), job'[k] = job[k] PROVE Counts(k)'
  <2>1. Name(k)' = Name(k)
    BY <1>4 DEF Name
  <2>2. Own(k)' = {f \in Own(k) : f \in SettledFiles'}
    BY <2>1 DEF Own
  <2> DEFINE R == Range(job[k].listing)
  <2>3. R \cup Own(k)' \in SUBSET (R \cup Own(k))
    BY <2>2
  <2>4. IsFiniteSet(R \cup Own(k)) /\ R \cup Own(k) \in SUBSET FileType
    BY SettledAreFiles
  <2>5. Size(R \cup Own(k)') <= Size(R \cup Own(k)) /\ Size(R \cup Own(k)') \in Nat
        /\ Size(R \cup Own(k)) \in Nat
    BY <2>3, <2>4, SizeOfFewer
  <2>6. job[k].total \in Nat
    BY DEF CacheShapes
  <2>7. Size(R \cup Own(k)') <= job[k].total
    BY <2>5, <2>6, <1>4 DEF Counts
  <2>8. SettledFiles' \subseteq R \cup Own(k)'
    <3>1. \A f \in SettledFiles' : f \in R \/ f \in Own(k)
      BY <1>4 DEF Counts
    <3>2. QED
      BY <3>1, <2>2
  <2>9. QED
    BY <2>7, <2>8, <1>4 DEF Counts
<1>5. QED
  BY <1>3, <1>4

LEMMA NamesDiffer ==
    ASSUME NEW j \in Jobs, NEW k \in Jobs, NEW i \in DOMAIN EntriesOf[j], NEW l \in DOMAIN EntriesOf[k],
           EntriesOf[j][i] = EntriesOf[k][l]
    PROVE  j = k
BY CacheAssumption DEF Range

LEMMA OneIsAnEntry ==
    ASSUME NEW j \in Jobs
    PROVE  /\ DOMAIN EntriesOf[j] = 1..Len(EntriesOf[j]) /\ Len(EntriesOf[j]) \in Nat
           /\ 1 \in DOMAIN EntriesOf[j] /\ Len(EntriesOf[j]) \in DOMAIN EntriesOf[j]
<1> DEFINE s == EntriesOf[j]
           S == Range(EntriesOf[j])
<1>1. s \in Seq(S) /\ s # <<>>
  BY CacheAssumption
<1> HIDE DEF s, S
<1>2. Len(s) \in Nat /\ Len(s) # 0 /\ DOMAIN s = 1..Len(s)
  BY <1>1
<1>3. 1 \in DOMAIN s /\ Len(s) \in DOMAIN s
  BY <1>2
<1>4. QED
  BY <1>2, <1>3 DEF s

WriterType == [pc : CachePcs, next : Nat, listing : Seq(FileType), total : Nat]

\* One writer goes on.
LEMMA ShapesStay ==
    ASSUME CacheShapes, IsDirectory(files'), NEW j \in Jobs, NEW r \in WriterType,
           job' = [job EXCEPT ![j] = r], r.next \in DOMAIN EntriesOf[j], IsDirectory(r.listing)
    PROVE  /\ CacheShapes' /\ job'[j] = r /\ \A k \in Jobs \ {j} : job'[k] = job[k]
           /\ r.next = job[j].next => \A k \in Jobs : Name(k)' = Name(k)
<1>1. job \in [Jobs -> WriterType]
  BY DEF CacheShapes, WriterType
<1>2. job' \in [Jobs -> WriterType] /\ job'[j] = r /\ \A k \in Jobs \ {j} : job'[k] = job[k]
  BY <1>1
<1>3. \A k \in Jobs : job'[k].next \in DOMAIN EntriesOf[k] /\ IsDirectory(job'[k].listing)
  BY <1>2 DEF CacheShapes
<1>4. CacheShapes'
  BY <1>2, <1>3 DEF CacheShapes, WriterType
<1>5. r.next = job[j].next => \A k \in Jobs : Name(k)' = Name(k)
  BY <1>2 DEF Name
<1>6. QED
  BY <1>2, <1>4, <1>5

LEMMA WritersAre ==
    ASSUME CacheShapes, NEW j \in Jobs
    PROVE  job[j] \in WriterType /\ job[j].next \in DOMAIN EntriesOf[j] /\ IsDirectory(job[j].listing)
BY DEF CacheShapes, WriterType

LEMMA IdleIs ==
    ASSUME NEW j \in Jobs
    PROVE  /\ Idle \in WriterType /\ Idle.next \in DOMAIN EntriesOf[j] /\ IsDirectory(Idle.listing)
           /\ Idle.pc = "idle"
<1>1. <<>> \in Seq(FileType) /\ IsDirectory(<<>>)
  BY DEF IsDirectory, OneOfAName
<1>2. Idle \in WriterType /\ Idle.next = 1 /\ Idle.listing = <<>> /\ Idle.pc = "idle"
  BY <1>1 DEF Idle, WriterType, CachePcs
<1>3. QED
  BY <1>1, <1>2, OneIsAnEntry

\* A step that leaves every eviction where it was and settles nothing.
LEMMA StaysBudgeted ==
    ASSUME CacheShapes, CacheShapes', Budgeted, SettledFiles' \subseteq SettledFiles,
           swept' => swept,
           \A k \in Jobs : job[k].pc = "evict" \/ job'[k].pc = "evict" => job'[k] = job[k]
    PROVE  Budgeted'
<1>1. SUFFICES ASSUME swept' \/ \E k \in Jobs : job'[k].pc = "evict"
               PROVE  Fits' \/ \E k \in Jobs : Counts(k)'
  BY DEF Budgeted
<1>2. Fits \/ \E k \in Jobs : Counts(k)
  BY <1>1 DEF Budgeted
<1>3. \A k \in Jobs : Counts(k) => job'[k] = job[k]
  BY DEF Counts
<1>4. QED
  BY <1>2, <1>3, NothingSettles

LEMMA SettlesNothing ==
    ASSUME \A f \in Items' : f \in Items \/ InHand(f)',
           \A f \in Items' : InHand(f) => InHand(f)'
    PROVE  SettledFiles' \subseteq SettledFiles
BY DEF SettledFiles

\* Every other writer has in hand what it had.
LEMMA OthersHold ==
    ASSUME NEW j \in Jobs, \A k \in Jobs \ {j} : job'[k] = job[k], NEW f, NEW k \in Jobs \ {j},
           \/ Writing(k) /\ Named(f, Name(k), TRUE)
           \/ job[k].pc = "list" /\ Named(f, Name(k), FALSE)
    PROVE  InHand(f)'
<1>1. job'[k] = job[k]
  OBVIOUS
<1>2. \/ job'[k].pc \in {"fill", "rename"} /\ Named(f, EntriesOf[k][job'[k].next], TRUE)
      \/ job'[k].pc = "list" /\ Named(f, EntriesOf[k][job'[k].next], FALSE)
  BY <1>1 DEF Writing, Name
<1>3. QED
  BY <1>2 DEF InHand, Writing, Name, Named

LEMMA EntryIsThere ==
    ASSUME NEW name, OnDisk(name, FALSE)
    PROVE  Entry(name) \in Items /\ Named(Entry(name), name, FALSE)
<1>1. \E f \in Range(files) : Named(f, name, FALSE)
  BY DEF OnDisk, Range
<1>2. QED
  BY <1>1 DEF Entry, Items

LEMMA BeginsIsSound ==
    ASSUME CacheInv, NEW j \in Jobs, Begins(j)
    PROVE  CacheInv'
<1> USE DEF CacheInv
<1>1. job'[j].pc \in {"idle", "create"} /\ job[j].pc = "idle"
      /\ \A k \in Jobs \ {j} : job'[k] = job[k]
  BY DEF Begins, CacheShapes
<1>2. IsDirectory(files') /\ Items' = Items
  <2> DEFINE last == EntriesOf[j][Len(EntriesOf[j])]
             f == Entry(last)
  <2>1. CASE OnDisk(last, FALSE)
    <3>1. files' = Used(files, f) /\ f \in Items /\ Named(f, last, FALSE)
      BY <2>1, EntryIsThere DEF Begins, Touched
    <3> HIDE DEF f, last
    <3>2. f \in FileType
      BY <3>1, SettledAreFiles
    <3>3. IsDirectory(files') /\ Items' = {g \in Items : ~Named(g, f.name, f.partial)} \cup {f}
      BY <3>1, <3>2, UsedIs DEF CacheShapes, Items
    <3>4. \A g \in Items : Named(g, f.name, f.partial) => g = f
      BY <3>1 DEF CacheShapes, IsDirectory, OneOfAName, Named, Items, Range
    <3>5. QED
      BY <3>1, <3>3, <3>4
  <2>2. CASE ~OnDisk(last, FALSE)
    BY <2>2 DEF Begins, Touched, CacheShapes, Items
  <2>3. QED
    BY <2>1, <2>2
<1>3. CacheShapes'
  <2> DEFINE r == [job[j] EXCEPT !.pc = IF Needed(j) THEN "create" ELSE @, !.next = 1]
  <2>1. job' = [job EXCEPT ![j] = r]
    BY DEF Begins, CacheShapes
  <2>2. r \in WriterType /\ r.next = 1 /\ r.listing = job[j].listing
    BY WritersAre DEF WriterType, CachePcs
  <2> HIDE DEF r
  <2>3. r.next \in DOMAIN EntriesOf[j] /\ IsDirectory(r.listing)
    BY <2>2, OneIsAnEntry, WritersAre
  <2>4. QED
    BY <1>2, <2>1, <2>2, <2>3, ShapesStay
<1>4. \A f \in Items' : InHand(f) => InHand(f)'
  <2>1. SUFFICES ASSUME NEW f \in Items', InHand(f) PROVE InHand(f)'
    OBVIOUS
  <2>2. PICK k \in Jobs : \/ Writing(k) /\ Named(f, Name(k), TRUE)
                          \/ job[k].pc = "list" /\ Named(f, Name(k), FALSE)
    BY <2>1 DEF InHand
  <2>3. k # j
    BY <2>2, <1>1 DEF Writing
  <2>4. QED
    BY <1>1, <2>2, <2>3, OthersHold
<1>5. SettledFiles' \subseteq SettledFiles
  BY <1>2, <1>4, SettlesNothing
<1>6. Budgeted'
  BY <1>1, <1>3, <1>5, StaysBudgeted DEF Begins
<1>7. Whole'
  BY <1>1, <1>2 DEF Whole, Name
<1>8. QED
  BY <1>3, <1>6, <1>7

\* Creates and FillsIn
LEMMA WritingIsSound ==
    ASSUME CacheInv, NEW j \in Jobs, NEW f \in FileType, Named(f, Name(j), TRUE),
           job[j].pc \in {"create", "fill"}, job'[j].pc \in {"fill", "rename"},
           job' = [job EXCEPT ![j].pc = job'[j].pc], swept' => swept,
           \/ files' = Used(files, f) /\ (job'[j].pc = "rename" => f.whole)
           \/ files' = files /\ ~OnDisk(Name(j), TRUE)
    PROVE  CacheInv'
<1> USE DEF CacheInv
<1> DEFINE r == [job[j] EXCEPT !.pc = job'[j].pc]
<1>0. /\ r \in WriterType /\ r.next = job[j].next /\ r.listing = job[j].listing
      /\ job' = [job EXCEPT ![j] = r]
  BY WritersAre DEF WriterType, CachePcs
<1> HIDE DEF r
<1>3. /\ IsDirectory(files')
      /\ \A g \in Items' : g \in Items \/ (g = f /\ (job'[j].pc = "rename" => f.whole))
      /\ \A g \in Items' : Named(g, Name(j), TRUE) => g = f /\ (job'[j].pc = "rename" => f.whole)
  <2>1. CASE files' = Used(files, f) /\ (job'[j].pc = "rename" => f.whole)
    <3>1. IsDirectory(files') /\ Items' = {g \in Items : ~Named(g, f.name, f.partial)} \cup {f}
      BY <2>1, UsedIs DEF CacheShapes, Items
    <3>2. QED
      BY <2>1, <3>1 DEF Named
  <2>2. CASE files' = files /\ ~OnDisk(Name(j), TRUE)
    <3>1. Items' = Items /\ \A g \in Items : ~Named(g, Name(j), TRUE)
      BY <2>2 DEF OnDisk, Items, Range
    <3>2. QED
      BY <2>2, <3>1 DEF CacheShapes
  <2>3. QED
    BY <2>1, <2>2
<1>4. CacheShapes' /\ \A k \in Jobs : Name(k)' = Name(k)
  BY <1>0, <1>3, WritersAre, ShapesStay
<1>1. \A k \in Jobs \ {j} : job'[k] = job[k]
  BY <1>0, <1>3, WritersAre, ShapesStay
<1>5. InHand(f)' /\ \A g : Named(g, Name(j), TRUE) => InHand(g)'
  BY <1>4 DEF InHand, Writing, Named
<1>6. \A g \in Items' : InHand(g) => InHand(g)'
  BY <1>1, <1>5, OthersHold DEF InHand
<1>7. SettledFiles' \subseteq SettledFiles
  BY <1>3, <1>5, <1>6, SettlesNothing
<1>8. Budgeted'
  BY <1>1, <1>4, <1>7, StaysBudgeted
<1>9. \A g \in Items' : ~g.partial => g.whole
  BY <1>3 DEF Whole, Named
<1>10. ASSUME NEW k \in Jobs, job'[k].pc = "rename", NEW g \in Items', Named(g, Name(k), TRUE)
       PROVE  g.whole
  <2>1. CASE k = j
    BY <1>10, <1>3, <2>1
  <2>2. CASE k # j
    <3>1. g # f
      BY <2>2, <1>10, NamesAreNames DEF Named
    <3>2. QED
      BY <1>1, <1>3, <1>10, <2>2, <3>1 DEF Whole
  <2>3. QED
    BY <2>1, <2>2
<1>11. Whole'
  <2>1. ASSUME NEW k \in Jobs, job'[k].pc = "rename", NEW g \in Items', Named(g, Name(k), TRUE)'
        PROVE  g.whole
    BY <2>1, <1>4, <1>10 DEF Named
  <2>2. QED
    BY <2>1, <1>9 DEF Whole
<1>12. QED
  BY <1>4, <1>8, <1>11

LEMMA CreatesIsSound ==
    ASSUME CacheInv, NEW j \in Jobs, Creates(j)
    PROVE  CacheInv'
<1> DEFINE f == File(Name(j), TRUE, 0, FALSE)
<1>1. f \in FileType /\ Named(f, Name(j), TRUE)
  BY NamesAreNames DEF CacheInv, File, FileType, Named
<1>2. job'[j].pc = "fill" /\ job' = [job EXCEPT ![j].pc = job'[j].pc]
  BY DEF CacheInv, CacheShapes, Creates
<1>3. files' = Used(files, f)
  BY DEF Creates
<1>5. swept' = FALSE /\ job[j].pc = "create"
  BY DEF Creates
<1> HIDE DEF f
<1>4. QED
  BY <1>1, <1>2, <1>3, <1>5, WritingIsSound

LEMMA FillsInIsSound ==
    ASSUME CacheInv, NEW j \in Jobs, FillsIn(j)
    PROVE  CacheInv'
<1> DEFINE f == File(Name(j), TRUE, SizeOf[Name(j)], TRUE)
<1>1. f \in FileType /\ Named(f, Name(j), TRUE) /\ f.whole
  BY NamesAreNames DEF CacheInv, File, FileType, Named
<1>2. job'[j].pc = "rename" /\ job' = [job EXCEPT ![j].pc = job'[j].pc]
  BY DEF CacheInv, CacheShapes, FillsIn
<1>3. files' = IF OnDisk(Name(j), TRUE) THEN Used(files, f) ELSE files
  BY DEF FillsIn
<1>5. swept' = swept /\ job[j].pc = "fill"
  BY DEF FillsIn
<1> HIDE DEF f
<1>4. QED
  BY <1>1, <1>2, <1>3, <1>5, WritingIsSound

LEMMA RenamesIsSound ==
    ASSUME CacheInv, NEW j \in Jobs, Renames(j)
    PROVE  CacheInv'
<1> USE DEF CacheInv
<1>1. /\ \A k \in Jobs \ {j} : job'[k] = job[k]
      /\ job[j].pc = "rename" /\ swept' = swept
  BY DEF CacheShapes, Renames
<1>2. CASE OnDisk(Name(j), TRUE)
  <2> DEFINE others == Without(files, Name(j), FALSE)
  <2>1. /\ job'[j] = [job[j] EXCEPT !.pc = "list"] /\ job' = [job EXCEPT ![j] = job'[j]]
        /\ files' = [i \in DOMAIN others |-> IF Named(others[i], Name(j), TRUE)
                                            THEN [others[i] EXCEPT !.partial = FALSE] ELSE others[i]]
    BY <1>2 DEF CacheShapes, Renames
  <2>2. IsDirectory(others) /\ Range(others) = {g \in Items : ~Named(g, Name(j), FALSE)}
    <3>1. IsDirectory(files)
      BY DEF CacheShapes
    <3>2. QED
      BY <3>1, WithoutIs DEF Items
  <2> HIDE DEF others
  <2>3. /\ IsDirectory(files')
        /\ \A f \in Items' : \/ f \in Range(others) /\ ~Named(f, Name(j), TRUE)
                             \/ \E g \in Range(others) : Named(g, Name(j), TRUE)
                                                         /\ f = [g EXCEPT !.partial = FALSE]
    <3>1. \A f \in Range(others) : ~Named(f, Name(j), FALSE)
      BY <2>2
    <3>2. Name(j) \in CacheNames
      BY NamesAreNames
    <3>3. files' = Renamed(others, Name(j))
      BY <2>1 DEF Renamed
    <3>4. /\ IsDirectory(Renamed(others, Name(j)))
          /\ \A f \in Range(Renamed(others, Name(j))) :
                \/ f \in Range(others) /\ ~Named(f, Name(j), TRUE)
                \/ \E g \in Range(others) : Named(g, Name(j), TRUE) /\ f = [g EXCEPT !.partial = FALSE]
      BY <2>2, <3>1, <3>2, RenamedIs
    <3>5. QED
      BY <3>3, <3>4 DEF Items
  <2>4. \A f \in Items' : \/ f \in Items /\ ~Named(f, Name(j), TRUE)
                          \/ Named(f, Name(j), FALSE) /\ f.whole
    <3>1. ASSUME NEW g \in Items, Named(g, Name(j), TRUE)
          PROVE  /\ Named([g EXCEPT !.partial = FALSE], Name(j), FALSE)
                 /\ [g EXCEPT !.partial = FALSE].whole
      <4>1. g \in FileType
        BY SettledAreFiles
      <4>2. g.whole
        BY <1>1, <3>1 DEF Whole
      <4>3. QED
        BY <3>1, <4>1, <4>2 DEF FileType, Named
    <3>2. QED
      BY <2>2, <2>3, <3>1
  <2> DEFINE r == [job[j] EXCEPT !.pc = "list"]
  <2>15. /\ r \in WriterType /\ r.next = job[j].next /\ r.listing = job[j].listing
         /\ job' = [job EXCEPT ![j] = r]
    BY <2>1, WritersAre DEF WriterType, CachePcs
  <2> HIDE DEF r
  <2>5. CacheShapes' /\ \A k \in Jobs : Name(k)' = Name(k)
    BY <2>15, <2>3, WritersAre, ShapesStay
  <2>6. \A k \in Jobs : Name(k)' = Name(k)
    BY <2>5
  <2>7. \A f : Named(f, Name(j), FALSE) => InHand(f)'
    BY <2>1, <2>6 DEF CacheShapes, InHand, Named
  <2>8. \A f \in Items' : ~Named(f, Name(j), TRUE)
    BY <2>4 DEF Named
  <2>9. \A f \in Items' : InHand(f) => InHand(f)'
    <3>1. SUFFICES ASSUME NEW f \in Items', InHand(f) PROVE InHand(f)'
      OBVIOUS
    <3>2. PICK k \in Jobs : \/ Writing(k) /\ Named(f, Name(k), TRUE)
                            \/ job[k].pc = "list" /\ Named(f, Name(k), FALSE)
      BY <3>1 DEF InHand
    <3>3. k # j
      BY <3>2, <2>8, <1>1
    <3>4. QED
      BY <1>1, <3>2, <3>3, OthersHold
  <2>10. SettledFiles' \subseteq SettledFiles
    BY <2>4, <2>7, <2>9, SettlesNothing
  <2>11. Budgeted'
    <3>1. job[j].pc # "evict" /\ job'[j].pc # "evict"
      BY <1>1, <2>1 DEF CacheShapes
    <3>2. QED
      BY <1>1, <2>5, <2>10, <3>1, StaysBudgeted
  <2>12. \A f \in Items' : ~f.partial => f.whole
    BY <2>4 DEF Whole
  <2>13. ASSUME NEW k \in Jobs, job'[k].pc = "rename", NEW f \in Items', Named(f, Name(k), TRUE)'
         PROVE  f.whole
    <3>1. k # j
      BY <2>1, <2>13 DEF CacheShapes
    <3>2. Named(f, Name(k), TRUE) /\ job[k].pc = "rename"
      BY <2>6, <2>13, <3>1, <1>1 DEF Named
    <3>3. QED
      BY <2>4, <3>2 DEF Whole
  <2>14. QED
    BY <2>5, <2>11, <2>12, <2>13 DEF Whole
<1>3. CASE ~OnDisk(Name(j), TRUE)
  <2>1. files' = files /\ job'[j] = Idle /\ job' = [job EXCEPT ![j] = job'[j]]
    BY <1>3 DEF CacheShapes, Renames
  <2>2. Items' = Items /\ \A f \in Items : ~Named(f, Name(j), TRUE)
    BY <2>1, <1>3 DEF OnDisk, Items, Range
  <2>3. CacheShapes'
    <3>1. IsDirectory(files') /\ job' = [job EXCEPT ![j] = Idle]
      BY <2>1 DEF CacheShapes
    <3>2. QED
      BY <3>1, IdleIs, ShapesStay
  <2>4. \A f \in Items' : InHand(f) => InHand(f)'
    <3>1. SUFFICES ASSUME NEW f \in Items', InHand(f) PROVE InHand(f)'
      OBVIOUS
    <3>2. PICK k \in Jobs : \/ Writing(k) /\ Named(f, Name(k), TRUE)
                            \/ job[k].pc = "list" /\ Named(f, Name(k), FALSE)
      BY <3>1 DEF InHand
    <3>3. k # j
      BY <3>2, <2>2, <1>1
    <3>4. QED
      BY <1>1, <3>2, <3>3, OthersHold
  <2>5. SettledFiles' \subseteq SettledFiles
    BY <2>2, <2>4, SettlesNothing
  <2>6. Budgeted'
    <3>1. job[j].pc # "evict" /\ job'[j].pc # "evict"
      BY <1>1, <2>1 DEF Idle
    <3>2. QED
      BY <1>1, <2>3, <2>5, <3>1, StaysBudgeted
  <2>7. ASSUME NEW k \in Jobs, job'[k].pc = "rename" PROVE job'[k] = job[k] /\ Name(k)' = Name(k)
    BY <2>7, <2>1, <1>1 DEF Idle, Name
  <2>8. Whole'
    BY <2>2, <2>7 DEF Whole, Named
  <2>9. QED
    BY <2>3, <2>6, <2>8
<1>4. QED
  BY <1>2, <1>3

\* Steps that leave the directory alone and take one writer on, which had
\* nothing in hand.
LEMMA OneGoesOn ==
    ASSUME CacheInv, NEW j \in Jobs, NEW r \in WriterType,
           job' = [job EXCEPT ![j] = r], r.next \in DOMAIN EntriesOf[j], IsDirectory(r.listing),
           r.pc # "rename", files' = files, job[j].pc \notin {"fill", "rename", "list"}
    PROVE  /\ CacheShapes' /\ Whole' /\ SettledFiles' \subseteq SettledFiles
           /\ job'[j] = r /\ \A k \in Jobs \ {j} : job'[k] = job[k]
<1> USE DEF CacheInv
<1>1. IsDirectory(files')
  BY DEF CacheShapes
<1>2. CacheShapes' /\ job'[j] = r /\ \A k \in Jobs \ {j} : job'[k] = job[k]
  BY <1>1, ShapesStay
<1>3. \A f \in Items' : InHand(f) => InHand(f)'
  <2>1. SUFFICES ASSUME NEW f \in Items', InHand(f) PROVE InHand(f)'
    OBVIOUS
  <2>2. PICK k \in Jobs : \/ Writing(k) /\ Named(f, Name(k), TRUE)
                          \/ job[k].pc = "list" /\ Named(f, Name(k), FALSE)
    BY <2>1 DEF InHand
  <2>3. k # j
    BY <2>2 DEF Writing
  <2>4. QED
    BY <1>2, <2>2, <2>3, OthersHold
<1>4. Items' = Items
  BY DEF Items
<1>5. SettledFiles' \subseteq SettledFiles
  BY <1>3, <1>4, SettlesNothing
<1>6. ASSUME NEW k \in Jobs, job'[k].pc = "rename" PROVE job'[k] = job[k] /\ Name(k)' = Name(k)
  BY <1>2, <1>6 DEF Name
<1>7. Whole'
  BY <1>4, <1>6 DEF Whole, Named
<1>8. QED
  BY <1>2, <1>5, <1>7

LEMMA GivesUpIsSound ==
    ASSUME CacheInv, NEW j \in Jobs, GivesUp(j)
    PROVE  CacheInv'
<1>1. job' = [job EXCEPT ![j] = Idle] /\ files' = files /\ swept' = swept /\ job[j].pc = "create"
  BY DEF GivesUp
<1>2. /\ CacheShapes' /\ Whole' /\ SettledFiles' \subseteq SettledFiles
      /\ job'[j] = Idle /\ \A k \in Jobs \ {j} : job'[k] = job[k]
  BY <1>1, IdleIs, OneGoesOn
<1>3. Idle.pc # "evict"
  BY IdleIs
<1>4. Budgeted'
  BY <1>1, <1>2, <1>3, StaysBudgeted DEF CacheInv
<1>5. QED
  BY <1>2, <1>4 DEF CacheInv

\* The listing is of all there is, and what the writer had in hand is its own.
LEMMA ListsIsSound ==
    ASSUME CacheInv, NEW j \in Jobs, Lists(j)
    PROVE  CacheInv'
<1> USE DEF CacheInv
<1> DEFINE r == [job[j] EXCEPT !.pc = "evict", !.listing = files, !.total = Total(files)]
<1>1. IsDirectory(files) /\ files \in Seq(FileType) /\ Total(files) \in Nat /\ Total(files) = Size(Items)
  BY TotalIsSize DEF CacheShapes, IsDirectory, Items
<1>2. /\ r \in WriterType /\ r.next = job[j].next /\ r.listing = files /\ r.pc = "evict"
      /\ r.total = Total(files)
  BY <1>1, WritersAre DEF WriterType, CachePcs
<1>3. job' = [job EXCEPT ![j] = r] /\ files' = files
  BY DEF Lists, CacheShapes
<1> HIDE DEF r
<1>4. /\ CacheShapes' /\ job'[j] = r /\ \A k \in Jobs \ {j} : job'[k] = job[k]
      /\ \A k \in Jobs : Name(k)' = Name(k)
  BY <1>1, <1>2, <1>3, WritersAre, ShapesStay
<1>5. Items' = Items /\ SettledFiles' \subseteq Items /\ Own(j)' \subseteq Items
  BY <1>3 DEF Items, SettledFiles, Own
<1>6. Range(job'[j].listing) = Items
  BY <1>2, <1>4 DEF Items
<1>7. Range(job'[j].listing) \cup Own(j)' = Items
  BY <1>5, <1>6
<1>8. Size(Items) <= job'[j].total
  BY <1>1, <1>2, <1>4
<1>9. Counts(j)'
  <2>1. job'[j].pc = "evict" /\ SettledFiles' \subseteq Range(job'[j].listing) \cup Own(j)'
    BY <1>2, <1>4, <1>5, <1>7
  <2>2. Size(Range(job'[j].listing) \cup Own(j)') <= job'[j].total
    BY <1>7, <1>8
  <2>3. QED
    BY <2>1, <2>2 DEF Counts
<1>10. Budgeted'
  BY <1>9 DEF Budgeted
<1>11. ASSUME NEW k \in Jobs, job'[k].pc = "rename" PROVE job[k].pc = "rename"
  BY <1>2, <1>4, <1>11
<1>12. Whole'
  BY <1>4, <1>5, <1>11 DEF Whole, Named
<1>13. QED
  BY <1>4, <1>10, <1>12

LEMMA RestIsTheRest ==
    ASSUME NEW d, IsDirectory(d), d # <<>>
    PROVE  /\ Head(d) \in FileType /\ Head(d) \in Range(d)
           /\ IsDirectory(Tail(d)) /\ Range(Tail(d)) = Range(d) \ {Head(d)}
<1>1. d \in Seq(FileType) /\ Len(d) \in Nat \ {0} /\ DOMAIN d = 1..Len(d)
  BY DEF IsDirectory
<1>2. 1 \in DOMAIN d /\ Head(d) = d[1] /\ d[1] \in FileType
  BY <1>1
<1>3. RemoveAt(d, 1) = Tail(d)
  <2>1. SubSeq(d, 1, 1 - 1) = <<>>
    BY <1>1
  <2>2. SubSeq(d, 1 + 1, Len(d)) = Tail(d)
    BY <1>1
  <2>3. Tail(d) \in Seq(FileType)
    BY <1>1
  <2>4. <<>> \o Tail(d) = Tail(d)
    BY <2>3, ConcatEmptySeq
  <2>5. QED
    BY <2>1, <2>2, <2>4 DEF RemoveAt
<1>4. IsDirectory(RemoveAt(d, 1)) /\ Range(RemoveAt(d, 1)) = Range(d) \ {d[1]}
  BY <1>2, AllButOne
<1>5. QED
  BY <1>2, <1>3, <1>4 DEF Range

LEMMA EvictsIsSound ==
    ASSUME CacheInv, NEW j \in Jobs, Evicts(j)
    PROVE  CacheInv'
<1> USE DEF CacheInv
<1> DEFINE f    == Head(job[j].listing)
           goes == ~Named(f, Name(j), FALSE) /\ OnDisk(f.name, f.partial)
           rest == IF goes THEN (IF f.size > job[j].total THEN 0 ELSE job[j].total - f.size)
                   ELSE job[j].total
           r    == [job[j] EXCEPT !.listing = Tail(@), !.total = rest]
           R    == Range(job[j].listing)
           T    == Range(Tail(job[j].listing))
<1>1. /\ job' = [job EXCEPT ![j] = r] /\ swept' = swept /\ job[j].pc = "evict" /\ job[j].listing # <<>>
      /\ files' = IF goes THEN Without(files, f.name, f.partial) ELSE files
  BY DEF Evicts, CacheShapes
<1>2. /\ f \in FileType /\ f \in R /\ IsDirectory(Tail(job[j].listing)) /\ T = R \ {f}
      /\ Tail(job[j].listing) \in Seq(FileType)
  BY <1>1, RestIsTheRest DEF CacheShapes, IsDirectory
<1>3. /\ IsDirectory(files')
      /\ Items' = IF goes THEN {g \in Items : ~Named(g, f.name, f.partial)} ELSE Items
  <2>1. IsDirectory(files)
    BY DEF CacheShapes
  <2> HIDE DEF goes, f
  <2>2. QED
    BY <2>1, <1>1, WithoutIs DEF Items
<1>4. rest \in Nat
  <2>1. f.size \in Nat /\ job[j].total \in Nat
    BY <1>2, WritersAre DEF FileType, WriterType
  <2> HIDE DEF goes, f
  <2>2. QED
    BY <2>1
<1> HIDE DEF rest
<1>5. /\ r \in WriterType /\ r.next = job[j].next /\ r.pc = "evict"
      /\ r.listing = Tail(job[j].listing) /\ r.total = rest
  BY <1>1, <1>2, <1>4, WritersAre DEF WriterType
<1> HIDE DEF r
<1>6. /\ CacheShapes' /\ job'[j] = r /\ \A k \in Jobs \ {j} : job'[k] = job[k]
      /\ \A k \in Jobs : Name(k)' = Name(k)
  <2>1. IsDirectory(r.listing) /\ r.next \in DOMAIN EntriesOf[j]
    BY <1>2, <1>5, WritersAre
  <2>2. job' = [job EXCEPT ![j] = r]
    BY <1>1
  <2> HIDE DEF goes, f, R, T
  <2>3. QED
    BY <1>3, <1>5, <2>1, <2>2, ShapesStay
<1>7. \A k \in Jobs : job'[k].pc = job[k].pc
  BY <1>1, <1>5, <1>6
<1>8. \A g : InHand(g)' <=> InHand(g)
  BY <1>6, <1>7 DEF InHand, Writing, Named
<1>9. Items' \subseteq Items /\ SettledFiles' = {g \in SettledFiles : g \in Items'}
  <2>1. Items' \subseteq Items
    BY <1>3
  <2>2. QED
    BY <2>1, <1>8 DEF SettledFiles
<1>10. SettledFiles' \subseteq SettledFiles
  BY <1>9
<1>11. Counts(j) => Counts(j)'
  <2> HIDE DEF goes, f, R, T
  <2>1. SUFFICES ASSUME Counts(j) PROVE Counts(j)'
    OBVIOUS
  <2>2. Own(j)' = {g \in SettledFiles' : Named(g, Name(j), FALSE)} /\ Own(j)' \subseteq Own(j)
    BY <1>6, <1>10 DEF Own, Named
  <2>3. SettledFiles \subseteq R \cup Own(j) /\ Size(R \cup Own(j)) <= job[j].total
    BY <2>1 DEF Counts, R
  <2>4. Range(job'[j].listing) = T /\ job'[j].total = rest /\ job'[j].pc = "evict"
    BY <1>5, <1>6 DEF T
  <2>5. IsFiniteSet(R \cup Own(j)) /\ R \cup Own(j) \in SUBSET FileType
    BY SettledAreFiles DEF R
  <2>6. job[j].total \in Nat /\ f.size \in Nat
    BY <1>2, WritersAre DEF FileType, WriterType
  <2>7. T \cup Own(j)' \in SUBSET (R \cup Own(j))
    BY <1>2, <2>2
  <2>8. SettledFiles' \subseteq T \cup Own(j)'
    <3>1. SUFFICES ASSUME NEW g \in SettledFiles', g \notin Own(j)' PROVE g \in T
      OBVIOUS
    <3>2. ~Named(g, Name(j), FALSE) /\ g \in Items' /\ g \in SettledFiles /\ g \in Items
      BY <3>1, <2>2, <1>9
    <3>3. g \in R
      BY <3>2, <2>3 DEF Own
    <3>4. g # f
      <4>1. CASE goes
        <5>1. ~Named(g, f.name, f.partial)
          BY <4>1, <1>3, <3>2
        <5>2. QED
          BY <5>1 DEF Named
      <4>2. CASE ~goes
        <5>1. Named(f, Name(j), FALSE) \/ ~OnDisk(f.name, f.partial)
          BY <4>2 DEF goes
        <5>2. ~OnDisk(f.name, f.partial) => f \notin Items
          BY DEF OnDisk, Items, Range, Named
        <5>3. QED
          BY <5>1, <5>2, <3>2
      <4>3. QED
        BY <4>1, <4>2
    <3>5. QED
      BY <3>3, <3>4, <1>2
  <2>9. Size(T \cup Own(j)') <= rest
    <3>1. CASE goes
      <4>1. ~Named(f, Name(j), FALSE)
        BY <3>1 DEF goes
      <4>2. T \cup Own(j)' \in SUBSET ((R \cup Own(j)) \ {f})
        BY <4>1, <2>2, <2>7, <1>2
      <4> DEFINE X == R \cup Own(j)
                 Y == T \cup Own(j)'
      <4>3. X \in SUBSET FileType /\ IsFiniteSet(X) /\ f \in X /\ Y \in SUBSET (X \ {f})
            /\ Size(X) <= job[j].total
        BY <2>3, <2>5, <4>2, <1>2
      <4> HIDE DEF X, Y
      <4>4. Size(X) = f.size + Size(X \ {f})
        BY <4>3, SizeOfOneMore
      <4>5. IsFiniteSet(X \ {f}) /\ X \ {f} \in SUBSET FileType
        BY <4>3, FS_Subset
      <4>6. Size(Y) <= Size(X \ {f}) /\ Size(Y) \in Nat /\ Size(X \ {f}) \in Nat
        BY <4>3, <4>5, SizeOfFewer
      <4>7. rest = job[j].total - f.size
        BY <3>1, <4>3, <4>4, <4>6, <2>6 DEF rest
      <4>8. Size(Y) <= rest
        BY <4>3, <4>4, <4>6, <4>7, <2>6
      <4>9. QED
        BY <4>8 DEF Y
    <3>2. CASE ~goes
      <4>1. rest = job[j].total
        BY <3>2 DEF rest
      <4>2. /\ Size(T \cup Own(j)') <= Size(R \cup Own(j)) /\ Size(T \cup Own(j)') \in Nat
            /\ Size(R \cup Own(j)) \in Nat
        BY <2>5, <2>7, SizeOfFewer
      <4>3. QED
        BY <4>1, <4>2, <2>3, <2>6
    <3>3. QED
      BY <3>1, <3>2
  <2>10. QED
    BY <2>4, <2>8, <2>9 DEF Counts
<1>12. Budgeted'
  <2>1. Fits \/ \E k \in Jobs : Counts(k)
    BY <1>1 DEF Budgeted
  <2>2. Fits => Fits'
    BY <1>6, <1>10, NothingSettles
  <2>3. \A k \in Jobs \ {j} : Counts(k) => Counts(k)'
    BY <1>6, <1>10, NothingSettles
  <2>4. QED
    BY <2>1, <2>2, <2>3, <1>11 DEF Budgeted
<1>13. Whole'
  BY <1>6, <1>7, <1>9 DEF Whole, Named
<1>14. QED
  BY <1>6, <1>12, <1>13

\* It ends when what it has yet to look at fits, or there is nothing left but
\* the entry just written.
LEMMA EvictedIsSound ==
    ASSUME CacheInv, NEW j \in Jobs, Evicted(j)
    PROVE  CacheInv'
<1> USE DEF CacheInv
<1> DEFINE r == Onward(j)
<1>1. /\ job' = [job EXCEPT ![j] = r] /\ files' = files /\ job[j].pc = "evict"
      /\ job[j].listing = <<>> \/ job[j].total <= Budget
  BY DEF Evicted, Within
<1>2. /\ r \in WriterType /\ r.next \in DOMAIN EntriesOf[j] /\ r.listing = <<>>
      /\ r.pc \in {"idle", "create"}
  <2>1. CASE job[j].next < Len(EntriesOf[j])
    <3>1. r = [Idle EXCEPT !.pc = "create", !.next = job[j].next + 1]
      BY <2>1 DEF Onward
    <3>2. job[j].next \in 1..Len(EntriesOf[j]) /\ Len(EntriesOf[j]) \in Nat
      BY WritersAre, OneIsAnEntry
    <3>3. job[j].next + 1 \in DOMAIN EntriesOf[j] /\ job[j].next + 1 \in Nat
      BY <2>1, <3>2, OneIsAnEntry
    <3>4. Idle \in WriterType /\ Idle.listing = <<>>
      BY IdleIs DEF Idle
    <3>5. r \in WriterType /\ r.next = job[j].next + 1 /\ r.listing = <<>> /\ r.pc = "create"
      BY <3>1, <3>3, <3>4 DEF WriterType, CachePcs
    <3>6. QED
      BY <3>3, <3>5
  <2>2. CASE ~(job[j].next < Len(EntriesOf[j]))
    BY <2>2, IdleIs DEF Onward, Idle
  <2>3. QED
    BY <2>1, <2>2
<1> HIDE DEF r
<1>3. IsDirectory(r.listing)
  BY <1>2 DEF IsDirectory, OneOfAName
<1>4. /\ CacheShapes' /\ Whole' /\ SettledFiles' \subseteq SettledFiles
      /\ job'[j] = r /\ \A k \in Jobs \ {j} : job'[k] = job[k]
  BY <1>1, <1>2, <1>3, OneGoesOn
<1>5. Counts(j) => Fits
  <2>1. SUFFICES ASSUME Counts(j) PROVE Fits
    OBVIOUS
  <2> DEFINE R == Range(job[j].listing)
  <2>2. SettledFiles \subseteq R \cup Own(j) /\ Size(R \cup Own(j)) <= job[j].total
    BY <2>1 DEF Counts
  <2>3. CASE job[j].listing = <<>>
    <3>1. R = {}
      BY <2>3 DEF Range
    <3>2. \A f \in SettledFiles : Named(f, Name(j), FALSE)
      BY <2>2, <3>1 DEF Own
    <3>3. ASSUME NEW f \in SettledFiles, NEW g \in SettledFiles PROVE f = g
      <4>1. f \in Range(files) /\ g \in Range(files)
        BY DEF SettledFiles, Items
      <4>2. PICK a \in DOMAIN files : f = files[a]
        BY <4>1 DEF Range
      <4>3. PICK b \in DOMAIN files : g = files[b]
        BY <4>1 DEF Range
      <4>4. a = b
        BY <3>2, <4>2, <4>3 DEF CacheShapes, IsDirectory, OneOfAName, Named
      <4>5. QED
        BY <4>2, <4>3, <4>4
    <3>4. QED
      BY <3>3 DEF Fits
  <2>4. CASE job[j].total <= Budget
    <3>1. IsFiniteSet(R \cup Own(j)) /\ R \cup Own(j) \in SUBSET FileType
      BY SettledAreFiles
    <3> HIDE DEF R
    <3>2. /\ Size(SettledFiles) <= Size(R \cup Own(j)) /\ Size(SettledFiles) \in Nat
          /\ Size(R \cup Own(j)) \in Nat
      BY <2>2, <3>1, SizeOfFewer
    <3>3. job[j].total \in Nat
      BY WritersAre DEF WriterType
    <3>4. QED
      BY <2>2, <2>4, <3>2, <3>3, CacheAssumption DEF Fits
  <2>5. QED
    BY <1>1, <2>3, <2>4
<1>6. Budgeted'
  <2>1. Fits \/ \E k \in Jobs \ {j} : Counts(k)
    BY <1>1, <1>5 DEF Budgeted
  <2>2. /\ Fits => Fits'
        /\ \A k \in Jobs \ {j} : Counts(k) => Counts(k)'
    BY <1>4, NothingSettles
  <2>3. QED
    BY <2>1, <2>2 DEF Budgeted
<1>7. QED
  BY <1>4, <1>6

LEMMA DiesIsSound ==
    ASSUME CacheInv, Dies
    PROVE  CacheInv'
<1> USE DEF CacheInv
<1>1. files' = files /\ job' = [j \in Jobs |-> Idle] /\ swept' = FALSE
  BY DEF Dies
<1>2. CacheShapes'
  BY <1>1, IdleIs DEF CacheShapes, WriterType
<1>3. \A k \in Jobs : job'[k].pc = "idle"
  BY <1>1, IdleIs
<1>4. Whole'
  BY <1>1, <1>3 DEF Whole, Items
<1>5. Budgeted'
  BY <1>1, <1>3 DEF Budgeted
<1>6. QED
  BY <1>2, <1>4, <1>5

\* Every step of a writer, and dying, keeps whole what is whole and the budget
\* in sight.
LEMMA CacheInvHolds == CacheSpec => []CacheInv
<1>1. CacheInit => CacheInv
  <2>1. SUFFICES ASSUME CacheInit PROVE CacheInv
    OBVIOUS
  <2>2. files = <<>> /\ job = [j \in Jobs |-> Idle]
    BY <2>1 DEF CacheInit
  <2>3. Items = {}
    BY <2>2 DEF Items, Range
  <2>4. IsDirectory(files)
    BY <2>2 DEF IsDirectory, OneOfAName
  <2>5. CacheShapes
    BY <2>2, <2>4, IdleIs DEF CacheShapes, WriterType
  <2>6. Whole /\ Fits
    BY <2>3 DEF Whole, Fits, SettledFiles
  <2>7. QED
    BY <2>5, <2>6 DEF CacheInv, Budgeted
<1>2. CacheInv /\ [CacheNext]_cacheVars => CacheInv'
  <2>1. SUFFICES ASSUME CacheInv, [CacheNext]_cacheVars PROVE CacheInv'
    OBVIOUS
  <2>2. CASE CacheNext
    BY <2>1, <2>2, BeginsIsSound, CreatesIsSound, FillsInIsSound, RenamesIsSound, ListsIsSound,
       EvictsIsSound, EvictedIsSound, GivesUpIsSound, DiesIsSound DEF CacheNext
  <2>3. CASE UNCHANGED cacheVars
    <3>1. files' = files /\ job' = job /\ swept' = swept
      BY <2>3 DEF cacheVars
    <3>2. CacheShapes' /\ Items' = Items
      BY <2>1, <3>1 DEF CacheInv, CacheShapes, Items
    <3>3. \A k \in Jobs : Name(k)' = Name(k)
      BY <3>1 DEF Name
    <3>4. Whole'
      BY <2>1, <3>1, <3>2, <3>3 DEF CacheInv, Whole, Named
    <3>5. \A f : InHand(f) => InHand(f)'
      BY <3>1, <3>3 DEF InHand, Writing, Named
    <3>6. SettledFiles' \subseteq SettledFiles
      BY <3>2, <3>5, SettlesNothing
    <3>7. QED
      BY <2>1, <3>1, <3>2, <3>4, <3>6, StaysBudgeted DEF CacheInv
  <2>4. QED
    BY <2>1, <2>2, <2>3
<1>3. QED
  BY <1>1, <1>2, PTL DEF CacheSpec

\* What a file in the cache holds under its own name is all of it, and once
\* every writer is done the directory fits its budget or is one entry (write,
\* evict of cache.rs).
THEOREM CacheIsWholeWithinBudget == CacheSpec => []WholeWithinBudget
<1>1. CacheInv => WholeWithinBudget
  <2>1. SUFFICES ASSUME CacheInv PROVE WholeWithinBudget
    OBVIOUS
  <2>2. CacheShapes /\ Whole /\ Budgeted
    BY <2>1 DEF CacheInv
  <2>3. \A i \in DOMAIN files : ~files[i].partial => files[i].whole
    BY <2>2 DEF Whole, Items, Range
  <2>4. ASSUME swept, \A k \in Jobs : job[k].pc = "idle"
        PROVE  Total(files) <= Budget \/ Len(files) = 1
    <3>1. \A f : ~InHand(f)
      BY <2>4 DEF InHand, Writing
    <3>2. SettledFiles = Items
      BY <3>1 DEF SettledFiles
    <3>3. Fits
      BY <2>2, <2>4 DEF Budgeted, Counts
    <3>4. IsDirectory(files) /\ Total(files) = Size(Items)
      BY <2>2, TotalIsSize DEF CacheShapes, Items
    <3>5. CASE Size(SettledFiles) <= Budget
      BY <3>2, <3>4, <3>5
    <3>6. CASE \A f, g \in SettledFiles : f = g
      <4>1. files \in Seq(FileType) /\ Len(files) \in Nat /\ DOMAIN files = 1..Len(files)
        BY <3>4 DEF IsDirectory
      <4>2. ASSUME NEW a \in DOMAIN files, NEW b \in DOMAIN files PROVE a = b
        <5>1. files[a] \in SettledFiles /\ files[b] \in SettledFiles
          BY <3>2 DEF Items, Range
        <5>2. files[a] = files[b]
          BY <5>1, <3>6
        <5>3. QED
          BY <5>2, <3>4 DEF IsDirectory, OneOfAName
      <4>3. CASE Len(files) = 0
        <5>1. Items = {}
          BY <4>1, <4>3 DEF Items, Range
        <5>2. IsSum(SumsOf(Items, [f \in Items |-> f.size]), Items, [f \in Items |-> f.size])
          BY <2>2, SettledAreFiles, SizeIsASum
        <5>3. Size(Items) = 0
          BY <5>1, <5>2 DEF IsSum, Size, SumOf
        <5>4. QED
          BY <5>3, <3>4, CacheAssumption
      <4>4. CASE Len(files) >= 2
        <5>1. 1 \in DOMAIN files /\ 2 \in DOMAIN files
          BY <4>1, <4>4
        <5>2. QED
          BY <5>1, <4>2
      <4>5. QED
        BY <4>1, <4>3, <4>4
    <3>7. QED
      BY <3>3, <3>5, <3>6 DEF Fits
  <2>5. QED
    BY <2>3, <2>4 DEF WholeWithinBudget
<1>2. QED
  BY <1>1, CacheInvHolds, PTL
==================================================================================
