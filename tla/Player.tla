-------------------------------- MODULE Player --------------------------------
(***************************************************************************)
(* The player of one plan: playback/mod.rs, its clock, its lanes, its      *)
(* scrub worker and the walk of its audio feeder.                          *)
(*                                                                         *)
(* Five threads meet here.  A command (the user's, or the monitor's)       *)
(* takes the lock `control` and runs to its end, one step of `todo` at a   *)
(* time; the presenter, the scrub worker, the feeder and the device run    *)
(* beside it.  Positions are counted in sequence frames.                   *)
(***************************************************************************)
EXTENDS PlaybackPlan

CONSTANTS
    Plans,          \* the plans edits can make; the player starts with FirstPlan
    FirstPlan,
    LoopRanges,     \* the ranges the user may loop, as <<start, end>>
    SeekTo,         \* the positions the user may seek to
    ScrubTo,        \* the positions the playhead may be dragged to
    MaxCommands,    \* bound: commands of the user, a close and the monitor's changes of device among them
    MaxGeneration,  \* bound: a feeder at it does not wrap
    Lead,           \* frames of sound the feeder keeps ahead
    Prefetch,       \* frames before a boundary at which the next lane starts
    RingHolds,      \* pictures a lane's ring holds
    CacheHolds,     \* pictures the scrub cache holds
    WindowMax,      \* pictures a scrub window decodes
    StillComing,    \* a newer scrub position this near is left to the window
    ResyncAfter, ResyncLead

\* What a plan made from a timeline is besides: its segments begin one after
\* the other, and where a picture of one begins, it is what that one shows.
InTime(p) ==
    /\ \A i, j \in DOMAIN p : i < j => p[i].start < p[j].start
    /\ \A i \in DOMAIN p :
        LET s == p[i]
            Begins(f) == ProgramAt(s, f)
        IN Moves(s) => \A f \in (FramesOf[s.source] \cup {s.from}) \cap s.from..(s.to - 1) :
               /\ IndexAt(p, Begins(f)) = i
               /\ AtOrBefore(s.source, SourceAt(s, Begins(f))) = AtOrBefore(s.source, f)

ASSUME PlayerAssumption ==
    /\ FirstPlan \in Plans /\ \A p \in Plans : IsPlan(p)
    /\ \A r \in LoopRanges : r \in Nat \X Nat /\ r[1] < r[2]
    /\ SeekTo \cup ScrubTo \subseteq Int
    /\ MaxCommands \in Nat
    /\ {Lead, RingHolds, CacheHolds, WindowMax, MaxGeneration, ResyncAfter} \subseteq Nat \ {0}
    /\ {Prefetch, StillComing, ResyncLead} \subseteq Nat

ASSUME PlansInTime == \A p \in Plans : InTime(p)

Free == "free"
NoLoop == <<>>
NoFeeder == [pc |-> "none"]
Nothing == [gen |-> 0, t |-> 0]
Unshown == [picture |-> <<"none">>, position |-> 0]
Black == <<"black">>
None == -1
VARIABLES
    \* under the lock `control`, and the lock itself
    control,     \* who holds it: Free, "user" or "monitor"
    todo,        \* what the holder has left to do
    local,       \* the generation and position the holder read last
    state,       \* "paused", "playing" or "ended"
    feeder,      \* the feeder's thread
    \* shared, each under a lock of its own
    plan, clock, generations, loop, loopLock, lanes, shown, pending, ended,
    buffer,      \* [queued, consumed, timed], in frames since it was last cleared
    \* scrubbing
    scrubbing, slot, cache, cacheLock, worker,
    \* the presenter, the monitor and closing
    presenter, monitor, sink, closer,
    \* the bounds
    asked,
    disturbed    \* history: "dragged" once the playhead ever was; else "moved" if since the last
                 \* seek an edit moved a segment, playing came to rest, a step went back within
                 \* a ring, or a lane for a loop's next round was made for the seek's; else "no"

commandVars == <<control, todo, local, state>>
soundVars == <<feeder, clock, generations, ended, buffer>>
loopVars == <<loop, loopLock>>
screenVars == <<lanes, shown, pending>>
scrubVars == <<scrubbing, slot, cache, cacheLock, worker>>
endVars == <<presenter, monitor, sink, closer, asked, disturbed>>
vars == <<commandVars, plan, soundVars, loopVars, screenVars, scrubVars, endVars>>

-----------------------------------------------------------------------------
(* The clock                                                                 *)

\* OutputBuffer::heard: nothing since a clear until the device takes a frame;
\* then what was consumed, less what the device has not played yet.
Heard == IF buffer.timed THEN {buffer.consumed, Max({0, buffer.consumed - 1})} ELSE {0}

PausedAt(t, gen) ==
    [mode |-> "paused", at |-> t, gen |-> gen, anchors |-> <<>>, last |-> <<gen, t>>]

\* PlaybackClock::run and anchor
RunningFrom(anchor) ==
    [mode |-> "running", at |-> 0, gen |-> 0, anchors |-> <<anchor>>,
     last |-> <<anchor.gen, anchor.at>>]

\* The anchors left once `heard` frames were heard: the newest one reached
\* and those after it.
Unspent(anchors, heard) ==
    LET reached == {i \in DOMAIN anchors : i = 1 \/ anchors[i].frame <= heard}
        stop == {i \in DOMAIN anchors : i > 1 /\ anchors[i].frame > heard}
        first == IF stop = {} THEN Max(reached) ELSE Min(stop) - 1
    IN SubSeq(anchors, first, Len(anchors))

\* Mutant: the position is what was heard, even if less than before.
ReadAnew(c, heard) ==
    LET left == Unspent(c.anchors, heard)
        at == left[1].at + Max({0, heard - left[1].frame})
    IN IF c.mode = "paused" THEN c ELSE [c EXCEPT !.anchors = left, !.last = <<left[1].gen, at>>]

\* PlaybackClock::position, as the clock after it: what it returned is `last`
Read(c, heard) ==
    LET left == Unspent(c.anchors, heard)
        gen == left[1].gen
        at == left[1].at + Max({0, heard - left[1].frame})
    IN IF c.mode = "paused" THEN c
       ELSE [c EXCEPT !.anchors = left,
                      !.last = <<gen, IF c.last[1] = gen THEN Max({at, c.last[2]}) ELSE at>>]

-----------------------------------------------------------------------------
(* Lanes.  A lane decodes the segment `of`; its ring holds the ticks from    *)
(* `base` up to `head`, the next it decodes.                                 *)

LaneOf(s, i, gen, tick) ==
    LET first == AtOrBefore(s.source, tick)
        from == IF first = Nowhere THEN After(s.source, tick) ELSE first
    IN [segment |-> i, gen |-> gen, of |-> s, base |-> from, head |-> from, shown |-> None]

Serving(some, i, gen) == {l \in some : l.segment = i /\ l.gen = gen}

\* Lanes::lane
WithLane(some, p, i, gen, tick) ==
    IF Serving(some, i, gen) # {} \/ i \notin DOMAIN p \/ ~HasPictures(p[i]) THEN some
    ELSE some \cup {LaneOf(p[i], i, gen, tick)}

\* Mutant: the newest picture decoded is taken.
DueNewest(lane, tick) == IF lane.base <= tick /\ lane.base < lane.head
                         THEN lane.head - 1 ELSE None

\* Lane::take_due: the tick taken, None if none is due
Due(lane, tick) == IF lane.base <= tick /\ lane.base < lane.head
                   THEN Min({tick, lane.head - 1}) ELSE None

\* Lanes::retain
Retained(some, gen, i) == {l \in some : l.gen > gen \/ (l.gen = gen /\ l.segment >= i)}

\* Those of a generation whose segment is in the new plan
Carried(some, old, new, gen) ==
    {l \in some : l.gen = gen /\ l.segment \in DOMAIN old
                  /\ \E j \in DOMAIN new : SameSegment(old[l.segment], new[j])}

\* Lanes::remap
Remapped(some, old, new, gen) ==
    {[l EXCEPT !.segment = Min({j \in DOMAIN new : SameSegment(old[l.segment], new[j])})] :
        l \in Carried(some, old, new, gen)}

\* The decoder of a lane delivers its next picture.
Decodes ==
    \E l \in lanes :
        /\ l.head - l.base < RingHolds
        /\ l.head \in FramesOf[l.of.source]
        /\ l.of.motion = "hold" => l.head = l.base /\ l.shown = None
        /\ lanes' = (lanes \ {l}) \cup {[l EXCEPT !.head = @ + 1]}
        /\ UNCHANGED <<commandVars, plan, soundVars, loopVars, shown, pending, scrubVars, endVars>>

\* Lanes::keep_up: a lane too far behind starts again ahead of the clock.
\* Whether the last restart was recent enough to forbid it is left open.
KeptUp(some, s, i, gen, tick) ==
    LET late == {l \in Serving(some, i, gen) :
                    l.head \in FramesOf[s.source] /\ tick - (l.head - 1) >= ResyncAfter}
        ahead == After(s.source, tick + ResyncLead - 1)
    IN IF late = {} \/ ~Moves(s) \/ ahead = Nowhere THEN {some}
       ELSE {some, (some \ late) \cup {[l EXCEPT !.base = ahead, !.head = ahead] : l \in late}}

-----------------------------------------------------------------------------
(* Commands: what each does, as the steps left to the holder of `control`.   *)

Step(kind) == [do |-> kind, t |-> 0, plan |-> <<>>]
StepAt(kind, t) == [do |-> kind, t |-> t, plan |-> <<>>]

End(p) == Duration(p)
Clamp(t) == Min({Max({t, 0}), Max({0, End(plan) - 1})})

\* start_position
Start == IF loop # NoLoop THEN loop[1] ELSE IF plan = <<>> THEN 0 ELSE plan[1].start

\* Inner::seek
Seeking(t) ==
    <<StepAt("pend", t)>>
    \o (IF state = "playing" THEN <<Step("stop"), Step("join")>> ELSE <<>>)
    \o <<StepAt("jump", t), Step("clear"), Step("prepare")>>
    \o (IF state = "playing" THEN <<Step("start")>> ELSE <<>>)

\* Inner::pause
Pausing == IF state = "playing"
           THEN <<Step("read"), Step("stop"), Step("join"), Step("rest")>>
           ELSE <<>>

\* The feeder again from where it is, in the same generation.
Restarting == IF state = "playing"
              THEN <<Step("read"), Step("stop"), Step("join"), Step("hold"), Step("start")>>
              ELSE <<>>

\* Inner::play
Playing == IF state = "playing" THEN <<>> ELSE <<Step("read"), Step("rewind")>>

\* Inner::command: where it begins, and what it does then
Script(command) ==
    CASE command[1] = "play"   -> <<StepAt("endscrub", 1)>> \o Playing
      [] command[1] = "pause"  -> <<StepAt("endscrub", 1)>> \o Pausing
      [] command[1] = "toggle" -> <<StepAt("endscrub", 1)>> \o (IF state = "playing" THEN Pausing ELSE Playing)
      [] command[1] = "stop"   -> <<Step("endscrub")>> \o Pausing \o <<Step("tostart")>>
      [] command[1] = "seek"   -> <<Step("endscrub")>> \o Seeking(Clamp(command[2]))
      [] command[1] = "start"  -> <<Step("endscrub"), Step("tostart")>>
      [] command[1] = "end"    -> <<Step("endscrub")>> \o Seeking(Clamp(LastFramePosition(plan)))
      [] command[1] = "step"   -> <<Step("endscrub")>> \o Pausing \o <<Step("read"), StepAt("step", command[2])>>
      [] command[1] = "scrub"  -> Pausing \o <<StepAt("scrub", command[2])>>
      [] command[1] = "speed"  -> Restarting
      [] command[1] = "loop"   -> <<[Step("loop") EXCEPT !.plan = command[2]]>>
      [] command[1] = "plan"   -> <<Step("read"), [Step("replan") EXCEPT !.plan = command[2]]>>

Commands ==
    {<<"play">>, <<"pause">>, <<"toggle">>, <<"stop">>, <<"start">>, <<"end">>, <<"speed">>}
    \cup {<<"seek", t>> : t \in SeekTo} \cup {<<"scrub", t>> : t \in ScrubTo}
    \cup {<<"step", by>> : by \in {-1, 1}}
    \cup {<<"loop", r>> : r \in LoopRanges \cup (IF LoopRanges = {} THEN {} ELSE {NoLoop})}
    \cup {<<"plan", p>> : p \in Plans}

Moving == IF disturbed = "no" THEN "moved" ELSE disturbed

\* Player::command and set_plan take the lock.
Command ==
    /\ control = Free /\ asked < MaxCommands /\ closer = "open"
    /\ \E command \in Commands :
        /\ todo' = Script(command)
        /\ disturbed' = CASE command[1] = "scrub" -> "dragged"
                          [] command[1] = "plan" /\ ~OnlyChainsOrCropsDiffer(plan, command[2]) -> Moving
                          [] OTHER -> disturbed
    /\ control' = "user" /\ asked' = asked + 1
    /\ UNCHANGED <<local, state, plan, soundVars, loopVars, screenVars, scrubVars, presenter, monitor, sink, closer>>

\* The command is over; the status it answers with is only read.
Answer ==
    /\ control # Free /\ todo = <<>>
    /\ control' = Free /\ local' = Nothing
    /\ monitor' = IF control = "monitor" THEN "watching" ELSE monitor
    /\ UNCHANGED <<todo, state, plan, soundVars, loopVars, screenVars, scrubVars, presenter, sink, closer, asked, disturbed>>

Doing(kind) == control # Free /\ todo # <<>> /\ Head(todo).do = kind
Then(steps) == todo' = steps \o Tail(todo)

\* Steps that only decide what comes next, from where the holder stands or
\* what the loop is by then
Decide ==
    /\ \/ Doing("here") /\ Then(Seeking(Clamp(local.t)))
       \/ Doing("tostart") /\ loopLock = Free /\ Then(Seeking(Clamp(Start)))
       \/ /\ Doing("rewind") /\ loopLock = Free
          /\ LET over == state = "ended" \/ local.t >= (IF loop # NoLoop THEN loop[2] ELSE End(plan))
             IN Then((IF over THEN Seeking(Clamp(Start)) \o <<Step("read")>> ELSE <<>>)
                     \o <<Step("prepare"), Step("start")>>)
    /\ UNCHANGED <<control, local, state, plan, soundVars, loopVars, screenVars, scrubVars, endVars>>

\* self.position()
ReadClock ==
    /\ Doing("read")
    /\ \E heard \in Heard :
        /\ clock' = Read(clock, heard)
        /\ local' = [gen |-> clock'.last[1], t |-> clock'.last[2]]
    /\ Then(<<>>)
    /\ UNCHANGED <<control, state, plan, feeder, generations, ended, buffer, loopVars, screenVars, scrubVars, endVars>>

\* end_scrub: leaving a scrub for the clock's place is a seek there.
EndScrub ==
    /\ Doing("endscrub")
    /\ scrubbing' = FALSE
    /\ Then(IF scrubbing /\ Head(todo).t = 1 THEN <<Step("read"), Step("here")>> ELSE <<>>)
    /\ UNCHANGED <<control, local, state, plan, soundVars, loopVars, screenVars, slot, cache, cacheLock, worker, endVars>>

\* Feeder::stop: the flag, then the join
StopFeeder ==
    /\ Doing("stop")
    /\ feeder' = IF feeder = NoFeeder THEN NoFeeder ELSE [feeder EXCEPT !.stop = TRUE]
    /\ Then(<<>>)
    /\ UNCHANGED <<control, local, state, plan, clock, generations, ended, buffer, loopVars, screenVars, scrubVars, endVars>>

Cleared == [queued |-> 0, consumed |-> 0, timed |-> FALSE]

\* stop_feeder clears the buffer after the join; the monitor's end does not.
JoinFeeder ==
    /\ Doing("join") \/ Doing("joinonly")
    /\ feeder = NoFeeder \/ feeder.pc = "done"
    /\ feeder' = NoFeeder
    /\ buffer' = IF Head(todo).do = "join" THEN Cleared ELSE buffer
    /\ Then(<<>>)
    /\ UNCHANGED <<control, local, state, plan, clock, generations, ended, loopVars, screenVars, scrubVars, endVars>>

\* Mutant: the clock is left running.
Unheld == /\ \E step \in {"hold", "rest", "holdend", "jump"} : Doing(step)
          /\ state' = CASE Doing("rest") -> "paused" [] Doing("holdend") -> "ended" [] OTHER -> state
          /\ Then(<<>>)
          /\ UNCHANGED <<control, local, plan, soundVars, loopVars, screenVars, scrubVars, endVars>>

\* clock.pause: at the place read (to play on, or to rest there), at the end,
\* or where a seek goes in a new generation
HoldClock ==
    /\ \/ /\ Doing("hold") \/ Doing("rest")
          /\ clock' = PausedAt(local.t, local.gen)
          /\ state' = IF Doing("rest") THEN "paused" ELSE state
          /\ disturbed' = IF Doing("rest") THEN Moving ELSE disturbed
          /\ UNCHANGED <<local, generations>>
       \/ /\ Doing("holdend")
          /\ clock' = PausedAt(End(plan), local.gen) /\ state' = "ended"
          /\ disturbed' = Moving
          /\ UNCHANGED <<local, generations>>
       \/ /\ Doing("jump")
          /\ generations' = generations + 1
          /\ clock' = PausedAt(Head(todo).t, generations + 1)
          /\ local' = [gen |-> generations + 1, t |-> Head(todo).t]
          /\ disturbed' = IF disturbed = "dragged" THEN "dragged" ELSE "no"
          /\ UNCHANGED state
    /\ Then(<<>>)
    /\ UNCHANGED <<control, plan, feeder, ended, buffer, loopVars, screenVars, scrubVars,
                   presenter, monitor, sink, closer, asked>>

Pend ==
    /\ Doing("pend")
    /\ pending' = Head(todo).t
    /\ Then(<<>>)
    /\ UNCHANGED <<control, local, state, plan, soundVars, loopVars, lanes, shown, scrubVars, endVars>>

\* lanes.clear, and prepare: the lane that will show where the holder stands
\* (wait_for_video starts the same lane, and waits at most three seconds)
ChangeLanes ==
    /\ \/ Doing("clear") /\ lanes' = {} /\ UNCHANGED state
       \/ /\ Doing("prepare")
          /\ state' = IF state = "ended" THEN "paused" ELSE state
          /\ LET i == IndexAt(plan, local.t)
             IN lanes' = IF i = 0 THEN lanes
                         ELSE WithLane(lanes, plan, i, local.gen, SourceAt(plan[i], local.t))
    /\ Then(<<>>)
    /\ UNCHANGED <<control, local, plan, soundVars, loopVars, shown, pending, scrubVars, endVars>>

\* start_feeder; what starts it is playing by then
StartFeeder ==
    /\ Doing("start")
    /\ state' = "playing"
    /\ buffer' = Cleared /\ ended' = FALSE
    /\ feeder' = [pc |-> "preroll", stop |-> FALSE, plan |-> plan, chains |-> plan, retune |-> <<>>,
                  at |-> local.t, gen |-> local.gen, written |-> 0]
    /\ Then(<<>>)
    /\ UNCHANGED <<control, local, plan, clock, generations, loopVars, screenVars, scrubVars, endVars>>

\* Inner::step, paused: to the picture `by` steps from the clock's.  One the
\* lane already holds only moves the clock.
StepFrames ==
    /\ Doing("step")
    /\ state' = IF state = "ended" THEN "paused" ELSE state
    /\ LET at == PlaceAt(plan, local.t)
           to == Stepped(plan, at, Head(todo).t)
           target == TargetOf(plan, to)
           some == IF Moves(plan[to[1]]) THEN WithLane(lanes, plan, to[1], local.gen, to[2]) ELSE lanes
           held == \E l \in Serving(some, to[1], local.gen) :
                       Moves(plan[to[1]]) /\ l.base <= to[2] /\ to[2] < l.head
       IN \/ at = NoPlace /\ Then(<<>>) /\ UNCHANGED <<local, lanes, disturbed>>
          \/ /\ at # NoPlace /\ held
             /\ lanes' = some /\ local' = [local EXCEPT !.t = target]
             /\ disturbed' = IF target < local.t THEN Moving ELSE disturbed
             /\ Then(<<StepAt("pend", target), Step("hold")>>)
          \/ /\ at # NoPlace /\ ~held
             /\ lanes' = some /\ UNCHANGED <<local, disturbed>>
             /\ Then(Seeking(Clamp(target)))
    /\ UNCHANGED <<control, plan, soundVars, loopVars, shown, pending, scrubVars,
                   presenter, monitor, sink, closer, asked>>

Sign(n) == CASE n < 0 -> -1 [] n = 0 -> 0 [] n > 0 -> 1

\* TransportCommand::Scrub, after its pause
Scrub ==
    /\ Doing("scrub")
    /\ state' = IF state = "ended" THEN "paused" ELSE state
    /\ scrubbing' = TRUE
    /\ \E heard \in Heard :
        clock' = PausedAt(Clamp(Head(todo).t), Read(clock, heard).last[1])
    /\ pending' = Clamp(Head(todo).t)
    /\ slot' = [slot EXCEPT !.target = Clamp(Head(todo).t),
                            !.direction = IF slot.target = None THEN @
                                          ELSE Sign(Clamp(Head(todo).t) - slot.target)]
    /\ Then(<<>>)
    /\ UNCHANGED <<control, local, plan, feeder, generations, ended, buffer, loopVars, lanes, shown, cache, cacheLock, worker, endVars>>

\* A loop range as far as the plan goes, or none
LoopIn(range, p) ==
    LET within == <<Min({range[1], End(p)}), Min({range[2], End(p)})>>
    IN IF range = NoLoop THEN NoLoop ELSE IF within[1] < within[2] THEN within ELSE NoLoop

SetLoop ==
    /\ Doing("loop") /\ loopLock = Free
    /\ loop' = LoopIn(Head(todo).plan, plan)
    /\ Then(<<>>)
    /\ UNCHANGED <<control, local, state, plan, soundVars, loopLock, screenVars, scrubVars, endVars>>

-----------------------------------------------------------------------------
(* A new plan                                                                *)

SameHere(old, new, t) ==
    LET i == IndexAt(old, t)
        j == IndexAt(new, t)
    IN IF i = 0 \/ j = 0 THEN i = j ELSE SameSegment(old[i], new[j])

\* Mutant: a change that leaves the picture alone leaves the feeder as it is.
OnlyPicture(new) ==
    IF ~SameHere(plan, new, local.t) \/ local.t >= End(new) THEN <<Step("here")>> ELSE <<>>

\* What is left to do once the new plan is in place
AfterPlan(new) ==
    CASE OnlyChainsOrCropsDiffer(plan, new) /\ state = "playing" /\ feeder # NoFeeder ->
            <<Step("retune")>>
      [] ~SameHere(plan, new, local.t) \/ local.t >= End(new) -> <<Step("here")>>
      [] OTHER -> IF state = "playing"
                  THEN <<Step("stop"), Step("join"), Step("hold"), Step("start")>> ELSE <<>>

\* Inner::set_plan, up to the lanes, which follow their segments
Replan ==
    /\ Doing("replan")
    /\ lanes' = Remapped(lanes, plan, Head(todo).plan, local.gen)
    /\ Then(<<Step("uncache"), [Step("swap") EXCEPT !.plan = Head(todo).plan], Step("clamp")>>
            \o AfterPlan(Head(todo).plan))
    /\ UNCHANGED <<control, local, state, plan, soundVars, loopVars, shown, pending, scrubVars, endVars>>

\* ... the scrub cache, which is another thread's to hold, ...
Uncache ==
    /\ Doing("uncache") /\ cacheLock = Free
    /\ cache' = <<>>
    /\ Then(<<>>)
    /\ UNCHANGED <<control, local, state, plan, soundVars, loopVars, screenVars, scrubbing, slot, cacheLock, worker, endVars>>

SwapPlan ==
    /\ Doing("swap")
    /\ plan' = Head(todo).plan
    /\ Then(<<>>)
    /\ UNCHANGED <<control, local, state, soundVars, loopVars, screenVars, scrubVars, endVars>>

\* ... and the loop.  `if let Some(..) = *lock(&self.loop_range)` keeps its
\* guard until the body ends, and the body takes the same lock again, which
\* never returns: no step follows "relock".
ClampLoop ==
    /\ Doing("clamp") /\ loopLock = Free
    /\ IF loop = NoLoop THEN Then(<<>>) /\ UNCHANGED loopLock
       ELSE Then(<<Step("relock")>>) /\ loopLock' = control
    /\ UNCHANGED <<control, local, state, plan, soundVars, loop, screenVars, scrubVars, endVars>>

\* Feeder::retune
Retune ==
    /\ Doing("retune")
    /\ feeder' = [feeder EXCEPT !.retune = plan]
    /\ Then(<<>>)
    /\ UNCHANGED <<control, local, state, plan, clock, generations, ended, buffer, loopVars, screenVars, scrubVars, endVars>>

Transport ==
    \/ Answer \/ Decide \/ ReadClock \/ EndScrub \/ StopFeeder \/ JoinFeeder \/ HoldClock \/ Pend
    \/ ChangeLanes \/ StartFeeder \/ StepFrames \/ Scrub \/ SetLoop \/ Replan \/ Uncache
    \/ SwapPlan \/ ClampLoop \/ Retune

-----------------------------------------------------------------------------
(* The feeder (its walk; what it decodes is sound), and the device           *)

FeederEnd == IF loop # NoLoop THEN loop[2] ELSE End(feeder.plan)
Walked == feeder.at + feeder.written
Written == buffer.consumed + buffer.queued

\* preroll: the first samples are there, or a second has passed.
Preroll ==
    /\ feeder.pc = "preroll"
    /\ clock' = RunningFrom([frame |-> Written, at |-> feeder.at, gen |-> feeder.gen])
    /\ feeder' = [feeder EXCEPT !.pc = "walking"]
    /\ UNCHANGED <<commandVars, plan, generations, ended, buffer, loopVars, screenVars, scrubVars, endVars>>

\* A turn of run's loop: to the end, round the loop, or a chunk further,
\* with the chains handed over by retune.
Walk ==
    /\ feeder.pc = "walking" /\ ~feeder.stop /\ loopLock = Free
    /\ \/ /\ Walked >= FeederEnd /\ loop = NoLoop
          /\ feeder' = [feeder EXCEPT !.pc = "hearing"]
          /\ UNCHANGED <<clock, generations, buffer>>
       \/ /\ Walked >= FeederEnd /\ loop # NoLoop /\ generations < MaxGeneration
          /\ generations' = generations + 1
          /\ feeder' = [feeder EXCEPT !.gen = generations + 1, !.at = loop[1], !.written = 0]
          /\ clock' = [clock EXCEPT !.anchors = Append(@,
                          [frame |-> Written, at |-> loop[1], gen |-> generations + 1])]
          /\ UNCHANGED buffer
       \/ /\ Walked < FeederEnd /\ buffer.queued < Lead
          /\ feeder' = [feeder EXCEPT !.written = @ + 1, !.retune = <<>>,
                            !.chains = IF feeder.retune # <<>> THEN feeder.retune ELSE @]
          /\ buffer' = [buffer EXCEPT !.queued = @ + 1]
          /\ UNCHANGED <<clock, generations>>
    /\ UNCHANGED <<commandVars, plan, ended, loopVars, screenVars, scrubVars, endVars>>

\* A walk that is over: where it got to is not asked again.
Over(f) == [f EXCEPT !.pc = "done", !.at = 0, !.gen = 0, !.written = 0]

\* wait_until_heard
HearOut ==
    /\ feeder.pc = "hearing" /\ ~feeder.stop
    /\ Written \in Heard
    /\ ended' = TRUE
    /\ feeder' = Over(feeder)
    /\ UNCHANGED <<commandVars, plan, clock, generations, buffer, loopVars, screenVars, scrubVars, endVars>>

FeederStops ==
    /\ feeder.pc \in {"walking", "hearing"} /\ feeder.stop
    /\ feeder' = Over(feeder)
    /\ UNCHANGED <<commandVars, plan, clock, generations, ended, buffer, loopVars, screenVars, scrubVars, endVars>>

\* OutputBuffer::pull, by a sink that is open
Pull ==
    /\ sink = "open" /\ buffer.queued > 0
    /\ buffer' = [queued |-> buffer.queued - 1, consumed |-> buffer.consumed + 1, timed |-> TRUE]
    /\ UNCHANGED <<commandVars, plan, feeder, clock, generations, ended, loopVars, screenVars, scrubVars, endVars>>

-----------------------------------------------------------------------------
(* The presenter: next_frame and present                                     *)

IdlePresenter == [pc |-> "idle", gen |-> 0, t |-> 0, plan |-> <<>>, i |-> 0, tick |-> 0, source |-> ""]

Look ==
    /\ presenter.pc = "idle" /\ closer = "open"
    /\ \E heard \in Heard :
        /\ clock' = Read(clock, heard)
        /\ presenter' = [IdlePresenter EXCEPT !.pc = "due", !.gen = clock'.last[1], !.t = clock'.last[2]]
    /\ UNCHANGED <<commandVars, plan, feeder, generations, ended, buffer, loopVars, screenVars, scrubVars,
                   monitor, sink, closer, asked, disturbed>>

\* show_black
ShowBlack(t) == IF shown.picture = Black THEN UNCHANGED shown
                ELSE shown' = [picture |-> Black, position |-> t]

\* What is due at the position read: nothing to do while scrubbing and past
\* the end, black in a gap, else a picture of a lane.
FindDue ==
    /\ presenter.pc = "due"
    /\ LET i == IndexAt(plan, presenter.t)
       IN IF scrubbing \/ presenter.t >= End(plan) THEN presenter' = IdlePresenter /\ UNCHANGED shown
          ELSE IF i = 0 \/ ~HasPictures(plan[i])
               THEN ShowBlack(presenter.t) /\ presenter' = IdlePresenter
          ELSE /\ presenter' = [presenter EXCEPT !.pc = "take", !.plan = plan, !.i = i]
               /\ UNCHANGED shown
    /\ UNCHANGED <<commandVars, plan, soundVars, loopVars, lanes, pending, scrubVars,
                   monitor, sink, closer, asked, disturbed>>

\* The lanes started for what plays next
Prefetched(some, p, i, gen, t) ==
    LET near == TimelineEnd(p[i]) - t < Prefetch
        k == IF near THEN IndexAt(p, TimelineEnd(p[i])) ELSE 0
        then == IF k = 0 THEN some ELSE WithLane(some, p, k, gen, SourceAt(p[k], p[k].start))
        round == loop # NoLoop /\ loop[2] - t < Prefetch /\ t < loop[2]
        j == IF round THEN IndexAt(p, loop[1]) ELSE 0
    IN IF j = 0 THEN then ELSE WithLane(then, p, j, gen + 1, SourceAt(p[j], loop[1]))

\* The lanes after a picture was due: the next ones started, those behind
\* the clock retired.
Advanced(some, p, i, gen, t) == Retained(Prefetched(some, p, i, gen, t), gen, i)

\* With the lanes locked: take the picture due.  A held segment's is shown
\* again at each sequence frame.
Take ==
    /\ presenter.pc = "take" /\ loopLock = Free
    /\ LET p == presenter.plan
           i == presenter.i
           gen == presenter.gen
           tick == Min({SourceAt(p[i], presenter.t), p[i].to - 1})
       IN \E kept \in KeptUp(lanes, p[i], i, gen, tick) :
          LET have == WithLane(kept, p, i, gen, tick)
              lane == CHOOSE l \in Serving(have, i, gen) : TRUE
              due == Due(lane, tick)
              took == IF due = None THEN lane ELSE [lane EXCEPT !.base = due + 1, !.shown = due]
              again == ~Moves(p[i]) /\ took.shown # None
                       /\ shown.position # ShownAt(p[i], presenter.t, took.shown)
          IN /\ lanes' = Advanced((have \ {lane}) \cup {took}, p, i, gen, presenter.t)
             /\ presenter' = IF due # None \/ again
                  THEN [presenter EXCEPT !.pc = IF due # None THEN "put" ELSE "putagain",
                                         !.tick = took.shown,
                                         !.source = took.of.source]
                  ELSE IdlePresenter
             /\ disturbed' = IF gen # clock.gen /\ \E l \in lanes' \ lanes : l.gen = clock.gen
                             THEN Moving ELSE disturbed
    /\ UNCHANGED <<commandVars, plan, soundVars, loopVars, shown, pending, scrubVars,
                   monitor, sink, closer, asked>>

\* show_picture, which looks the segment up in the plan there is by then
ShowPicture(i, source, tick, t) ==
    IF i \in DOMAIN plan
    THEN shown' = [picture |-> <<source, tick>>, position |-> ShownAt(plan[i], t, tick)]
    ELSE UNCHANGED shown

\* The picture is shown, and resolve(None) answers whatever was pending.
Put ==
    /\ presenter.pc \in {"put", "putagain"}
    /\ ShowPicture(presenter.i, presenter.source, presenter.tick, presenter.t)
    /\ pending' = IF presenter.pc = "put" THEN None ELSE pending
    /\ presenter' = IF pending' # pending THEN [IdlePresenter EXCEPT !.pc = "telling"] ELSE IdlePresenter
    /\ UNCHANGED <<commandVars, plan, soundVars, loopVars, lanes, scrubVars,
                   monitor, sink, closer, asked, disturbed>>

\* The status told when a seek is answered takes `control`.
Tell ==
    /\ presenter.pc = "telling" /\ control = Free /\ loopLock = Free
    /\ presenter' = IdlePresenter
    /\ UNCHANGED <<commandVars, plan, soundVars, loopVars, screenVars, scrubVars,
                   monitor, sink, closer, asked, disturbed>>

Presents == Look \/ FindDue \/ Take \/ Put \/ Tell

-----------------------------------------------------------------------------
(* The scrub worker: scrub.rs and what Inner shows for it                    *)

IdleWorker == [pc |-> "idle", t |-> None, i |-> 0, of |-> <<>>, tick |-> None, next |-> None,
               left |-> 0, picture |-> Black, back |-> "idle", up |-> FALSE, toward |-> 0]

Rested(w) == [IdleWorker EXCEPT !.t = w.t]

Showing(w, i, picture, back) == [w EXCEPT !.pc = "show", !.i = i, !.picture = picture, !.back = back]

\* ScrubSlot::next, a position other than the one served last, and the
\* picture due there in the plan there is now
NextScrub ==
    /\ worker.pc = "idle" /\ ~slot.stopped /\ slot.target # None /\ slot.target # worker.t
    /\ LET i == IndexAt(plan, slot.target)
           tick == Min({SourceAt(plan[i], slot.target), plan[i].to - 1})
           at == AtOrBefore(plan[i].source, tick)
           toward == IF i # 0 /\ plan[i].motion = "reverse" THEN -slot.direction ELSE slot.direction
           serving == [IdleWorker EXCEPT !.t = slot.target, !.toward = toward]
       IN worker' = IF i = 0 \/ ~HasPictures(plan[i]) THEN Showing(serving, 0, Black, "idle")
                    ELSE [serving EXCEPT !.pc = "cache", !.i = i, !.of = plan[i],
                             !.tick = IF at # Nowhere THEN at ELSE After(plan[i].source, tick)]
    /\ UNCHANGED <<commandVars, plan, soundVars, loopVars, screenVars, scrubbing, slot, cache, cacheLock,
                   endVars>>

WorkerGone ==
    /\ worker.pc = "idle" /\ slot.stopped
    /\ worker' = [worker EXCEPT !.pc = "gone"]
    /\ UNCHANGED <<commandVars, plan, soundVars, loopVars, screenVars, scrubbing, slot, cache, cacheLock,
                   endVars>>

Cached(i, tick) == {k \in DOMAIN cache : cache[k].segment = i /\ cache[k].tick = tick}

\* The first picture of the window: most of it lies the way the pointer moves.
Fit == IF worker.of.motion = "hold" THEN 1 ELSE WindowMax
Behind == Min({Fit - 1, IF worker.toward < 0 THEN Fit - (Fit \div 4) ELSE Fit \div 4})
WindowFrom ==
    LET s == worker.of
        inside == {f \in FramesOf[s.source] : f <= worker.tick /\ (f = worker.tick \/ ProgramAt(s, f) >= s.start)}
        far == {f \in inside : Cardinality({g \in inside : f <= g /\ g < worker.tick}) <= Behind}
    IN Min(far)

\* A hit is shown with the cache still locked: `if let Some(..) =
\* lock(&self.cache).get(..)` keeps its guard until the body ends.
LookInCache ==
    /\ worker.pc = "cache" /\ cacheLock = Free
    /\ LET hit == Cached(worker.i, worker.tick)
       IN IF hit # {}
          THEN /\ worker' = Showing(worker, worker.i, <<cache[Min(hit)].source, worker.tick>>, "idle")
               /\ cacheLock' = "worker"
          ELSE /\ worker' = [worker EXCEPT !.pc = "window", !.next = WindowFrom, !.left = Fit]
               /\ UNCHANGED cacheLock
    /\ UNCHANGED <<commandVars, plan, soundVars, loopVars, screenVars, scrubbing, slot, cache,
                   endVars>>

\* FrameCache::insert
Inserted(entry) ==
    LET at == Cached(entry.segment, entry.tick)
        all == IF at = {} THEN Append(cache, entry) ELSE [cache EXCEPT ![Min(at)] = entry]
    IN IF Len(all) > CacheHolds THEN Tail(all) ELSE all

\* A picture of the window arrives.
WindowPicture ==
    /\ worker.pc = "window" /\ cacheLock = Free
    /\ worker.left > 0 /\ worker.next \in FramesOf[worker.of.source]
    /\ cache' = Inserted([segment |-> worker.i, tick |-> worker.next, source |-> worker.of.source])
    /\ LET on == [worker EXCEPT !.next = @ + 1, !.left = @ - 1]
       IN worker' = IF worker.next = worker.tick
                    THEN [Showing(on, worker.i, <<worker.of.source, worker.tick>>, "window") EXCEPT !.up = TRUE]
                    ELSE on
    /\ UNCHANGED <<commandVars, plan, soundVars, loopVars, screenVars, scrubbing, slot, cacheLock,
                   endVars>>

\* The window ends: it was all delivered, its decoder failed, or a newer
\* position it will not reach soon is worth more.  Unshown, black is shown.
WindowEnds ==
    /\ worker.pc = "window"
    /\ worker' = IF worker.up THEN Rested(worker) ELSE Showing(worker, 0, Black, "idle")
    /\ LET newer == slot.target
           coming == worker.toward >= 0 /\ newer > worker.t /\ newer - worker.t < StillComing
       IN \/ worker.left = 0 \/ worker.next \notin FramesOf[worker.of.source]
          \/ worker.up /\ newer # worker.t /\ ~coming
    /\ UNCHANGED <<commandVars, plan, soundVars, loopVars, screenVars, scrubbing, slot, cache, cacheLock,
                   endVars>>

\* Back to what it did, letting go of the cache
Returned(w) == IF w.back = "idle" THEN Rested(w) ELSE [w EXCEPT !.pc = w.back, !.picture = Black]
LetGo == cacheLock' = IF cacheLock = "worker" THEN Free ELSE cacheLock

\* The worker's show: not once scrubbing is over, as it looked just before
CheckScrubbing ==
    /\ worker.pc = "show"
    /\ IF scrubbing THEN worker' = [worker EXCEPT !.pc = "put"] /\ UNCHANGED cacheLock
       ELSE worker' = Returned(worker) /\ LetGo
    /\ UNCHANGED <<commandVars, plan, soundVars, loopVars, screenVars, scrubbing, slot, cache,
                   endVars>>

\* ... and then shown; the seek it answers is over if nothing newer waits.
PutScrubbed ==
    /\ worker.pc = "put"
    /\ IF worker.picture = Black THEN ShowBlack(worker.t)
       ELSE ShowPicture(worker.i, worker.picture[1], worker.picture[2], worker.t)
    /\ LET answered == slot.target = worker.t /\ pending = worker.t
       IN /\ pending' = IF answered THEN None ELSE pending
          /\ IF answered THEN worker' = [worker EXCEPT !.pc = "telling"] /\ UNCHANGED cacheLock
             ELSE worker' = Returned(worker) /\ LetGo
    /\ UNCHANGED <<commandVars, plan, soundVars, loopVars, lanes, scrubbing, slot, cache,
                   endVars>>

TellScrub ==
    /\ worker.pc = "telling" /\ control = Free /\ loopLock = Free
    /\ worker' = Returned(worker) /\ LetGo
    /\ UNCHANGED <<commandVars, plan, soundVars, loopVars, screenVars, scrubbing, slot, cache,
                   endVars>>

Scrubbing ==
    NextScrub \/ WorkerGone \/ LookInCache \/ WindowPicture \/ WindowEnds \/ CheckScrubbing
    \/ PutScrubbed \/ TellScrub

-----------------------------------------------------------------------------
(* The monitor: watch; and close                                             *)

\* The flag is swapped before the lock is taken.
NoticeEnd ==
    /\ monitor = "watching" /\ closer = "open" /\ ended
    /\ ended' = FALSE /\ monitor' = "ended"
    /\ UNCHANGED <<commandVars, plan, feeder, clock, generations, buffer, loopVars, screenVars, scrubVars,
                   presenter, sink, closer, asked, disturbed>>

TakeEnd ==
    /\ monitor = "ended" /\ control = Free
    /\ IF state = "playing"
       THEN /\ control' = "monitor"
            /\ todo' = <<Step("read"), Step("stop"), Step("joinonly"), Step("holdend")>>
            /\ UNCHANGED monitor
       ELSE monitor' = "watching" /\ UNCHANGED <<control, todo>>
    /\ UNCHANGED <<local, state, plan, soundVars, loopVars, screenVars, scrubVars,
                   presenter, sink, closer, asked, disturbed>>

\* The device failed, or another became the default: switch_audio.  The new
\* output may have a buffer of its own.
NoticeDevice ==
    /\ monitor = "watching" /\ closer = "open" /\ asked < MaxCommands
    /\ monitor' = "device" /\ asked' = asked + 1
    /\ UNCHANGED <<commandVars, plan, soundVars, loopVars, screenVars, scrubVars, presenter, sink, closer, disturbed>>

TakeDevice ==
    /\ monitor = "device" /\ control = Free
    /\ control' = "monitor"
    /\ todo' = IF state = "playing"
               THEN <<Step("read"), Step("stop"), Step("join"), Step("hold"), Step("shut"), Step("open"),
                      Step("start")>>
               ELSE <<Step("read"), Step("shut"), Step("open")>>
    /\ UNCHANGED <<local, state, plan, soundVars, loopVars, screenVars, scrubVars,
                   presenter, monitor, sink, closer, asked, disturbed>>

SwitchSink ==
    /\ \/ Doing("shut") /\ sink' = "closed" /\ UNCHANGED buffer
       \/ Doing("open") /\ sink' = "open" /\ buffer' \in {buffer, Cleared}
    /\ Then(<<>>)
    /\ UNCHANGED <<control, local, state, plan, feeder, clock, generations, ended, loopVars, screenVars,
                   scrubVars, presenter, monitor, closer, asked, disturbed>>

MonitorGone ==
    /\ monitor = "watching" /\ closer # "open"
    /\ monitor' = "gone"
    /\ UNCHANGED <<commandVars, plan, soundVars, loopVars, screenVars, scrubVars, presenter, sink, closer,
                   asked, disturbed>>

Monitors == NoticeEnd \/ TakeEnd \/ NoticeDevice \/ TakeDevice \/ SwitchSink \/ MonitorGone

\* Player::close: the flag; the feeder, under the lock; the scrub worker; the
\* lanes; the output; the monitor.
BeginClose ==
    /\ closer = "open" /\ control # "user" /\ asked < MaxCommands
    /\ closer' = "feeder" /\ asked' = asked + 1
    /\ UNCHANGED <<commandVars, plan, soundVars, loopVars, screenVars, scrubVars, presenter, monitor, sink,
                   disturbed>>

CloseFeeder ==
    /\ closer = "feeder" /\ control = Free
    /\ control' = "close" /\ todo' = <<Step("stop"), Step("joinonly")>>
    /\ closer' = "scrub"
    /\ UNCHANGED <<local, state, plan, soundVars, loopVars, screenVars, scrubVars, presenter, monitor, sink,
                   asked, disturbed>>

CloseScrub ==
    /\ closer = "scrub" /\ control # "close"
    /\ slot' = [slot EXCEPT !.stopped = TRUE]
    /\ closer' = "worker"
    /\ UNCHANGED <<commandVars, plan, soundVars, loopVars, screenVars, scrubbing, cache, cacheLock, worker,
                   presenter, monitor, sink, asked, disturbed>>

CloseLanes ==
    /\ closer = "worker" /\ worker.pc = "gone"
    /\ lanes' = {} /\ closer' = "sink"
    /\ UNCHANGED <<commandVars, plan, soundVars, loopVars, shown, pending, scrubVars, presenter, monitor, sink,
                   asked, disturbed>>

CloseSink ==
    /\ closer = "sink"
    /\ sink' = "closed" /\ closer' = "monitor"
    /\ UNCHANGED <<commandVars, plan, soundVars, loopVars, screenVars, scrubVars, presenter, monitor,
                   asked, disturbed>>

CloseMonitor ==
    /\ closer = "monitor" /\ monitor = "gone"
    /\ closer' = "closed"
    /\ UNCHANGED <<commandVars, plan, soundVars, loopVars, screenVars, scrubVars, presenter, monitor, sink,
                   asked, disturbed>>

Closes == BeginClose \/ CloseFeeder \/ CloseScrub \/ CloseLanes \/ CloseSink \/ CloseMonitor

-----------------------------------------------------------------------------

\* Player::new: paused at the first segment, its lane started
Init ==
    /\ control = Free /\ todo = <<>> /\ state = "paused" /\ local = Nothing
    /\ plan = FirstPlan
    /\ feeder = NoFeeder /\ generations = 1 /\ ended = FALSE /\ buffer = Cleared
    /\ LET start == IF FirstPlan = <<>> THEN 0 ELSE FirstPlan[1].start
       IN /\ clock = PausedAt(start, 1)
          /\ lanes = IF IndexAt(FirstPlan, start) = 0 THEN {}
                     ELSE WithLane({}, FirstPlan, 1, 1, SourceAt(FirstPlan[1], start))
    /\ loop = NoLoop /\ loopLock = Free
    /\ shown = Unshown /\ pending = None
    /\ scrubbing = FALSE /\ slot = [target |-> None, direction |-> 0, stopped |-> FALSE]
    /\ cache = <<>> /\ cacheLock = Free /\ worker = IdleWorker 
    /\ presenter = IdlePresenter /\ monitor = "watching" /\ sink = "open" /\ closer = "open"
    /\ asked = 0 /\ disturbed = "no"

Feeds == Preroll \/ Walk \/ HearOut \/ FeederStops

Next == Command \/ Transport \/ Feeds \/ Pull \/ Decodes \/ Presents \/ Scrubbing \/ Monitors \/ Closes

Spec == Init /\ [][Next]_vars

-----------------------------------------------------------------------------
(* What it promises                                                          *)

TypeOK ==
    /\ control \in {Free, "user", "monitor", "close"} /\ state \in {"paused", "playing", "ended"}
    /\ plan \in Plans /\ generations \in Nat
    /\ feeder.pc \in {"none", "preroll", "walking", "hearing", "done"}
    /\ loop \in Seq(Nat) /\ pending \in Int
    /\ \A l \in lanes : l.base <= l.head /\ l.head - l.base <= RingHolds
    /\ Len(cache) <= CacheHolds
    /\ presenter.pc \in {"idle", "due", "take", "put", "putagain", "telling"}
    /\ worker.pc \in {"idle", "cache", "window", "show", "put", "telling", "gone"}

\* With no command under way, the clock runs only while playing, and only
\* then is there a feeder to move it; rings and cache keep within their bounds.
PausedMeansStill ==
    /\ TypeOK
    /\ control = Free /\ state # "playing" => clock.mode = "paused" /\ feeder = NoFeeder

\* With no command under way, what is heard is the plan there is: the feeder
\* plays it, or has been handed it.
SoundFollowsThePlan ==
    control = Free /\ feeder # NoFeeder =>
        /\ OnlyChainsOrCropsDiffer(feeder.plan, plan)
        /\ IF feeder.retune # <<>> THEN feeder.retune = plan ELSE feeder.chains = plan

\* Within a generation the clock never goes back while it runs.
ClockForward ==
    [][clock.mode = "running" /\ clock'.mode = "running" /\ clock'.last[1] = clock.last[1]
        => clock'.last[2] >= clock.last[2]]_vars

DuePicture(i) == LET s == plan[i]
                 IN <<s.source, AtOrBefore(s.source, Min({SourceAt(s, clock.at), s.to - 1}))>>

\* Since a seek the clock has not run from, what the presenter took for the
\* place where it stands is what is on screen: no picture of before the seek
\* covers it, whatever the presenter had in hand.  (After a drag, an edit that
\* moves segments, a pause, a step back within the ring, or where a lane for a
\* loop's next round was made for the seek's, it may: see README.md.)
TakenIsShown ==
    LET i == IndexAt(plan, clock.at)
    IN /\ control = Free /\ state = "paused" /\ disturbed = "no" /\ closer = "open"
       /\ presenter.pc = "idle" /\ i # 0
       /\ \E l \in lanes : /\ l.segment = i /\ l.gen = clock.gen /\ l.shown # None
                          /\ Due(l, SourceAt(plan[i], clock.at)) = None
       => shown.picture = DuePicture(i)

\* Who waits for whom: a command for the loop's lock or the scrub cache's,
\* the worker and the presenter, to tell the status, for `control`.
Waits ==
    LET next == IF control # Free /\ todo # <<>> THEN Head(todo).do ELSE "nothing"
    IN (IF next \in {"tostart", "rewind", "loop", "clamp", "relock"} THEN {<<control, loopLock>>} ELSE {})
       \cup (IF next = "uncache" THEN {<<control, cacheLock>>} ELSE {})
       \cup (IF worker.pc = "telling" THEN {<<"worker", control>>} ELSE {})

\* Nobody waits for a lock he holds himself, or whose holder waits for him: a
\* command comes back, and playback carries on.
CommandsComeBack ==
    \A a, b \in {"user", "monitor", "close", "worker"} :
        <<a, b>> \in Waits => a # b /\ <<b, a>> \notin Waits
=============================================================================
