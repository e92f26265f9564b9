----------------------------- MODULE WaveformSlots -----------------------------
(***************************************************************************)
(* One waveform, from the engine that makes it to the views that draw it:  *)
(* generate_waveform, settle_waveform and waveform_peaks of media.rs, the  *)
(* job of waveform/mod.rs, and peaks, chunk and waveformUpdate of          *)
(* timelineMedia.ts, of which the timeline and the library have one each.  *)
(*                                                                         *)
(* A command's answer and the events travel apart: events arrive in the    *)
(* order each thread sent them, an answer whenever it likes.               *)
(***************************************************************************)
EXTENDS Integers, Sequences, FiniteSets

CONSTANTS
    Views,           \* TimelineMedia of the timeline and of the library
    MaxAttempts,     \* times a waveform is begun
    MaxProgress      \* events of progress of one attempt

\* An attempt says which view it prepares for, or what it does since.
ASSUME WaveformAssumption ==
    /\ MaxAttempts \in Nat /\ MaxProgress \in Nat
    /\ Views \cap {"runs", "tells", "over"} = {}

VARIABLES
    slot,       \* waveforms: none, pending or ready
    attempts,   \* what each attempt is at; the first to be begun first
    sent,       \* events on their way, in order
    view,       \* what each view was told
    asked,      \* a view's question on its way: none, in the engine, or its answer
    drawn       \* a view's request for peaks, and what came of it
waveVars == <<slot, attempts, sent, view, asked, drawn>>

-----------------------------------------------------------------------------
(* The engine                                                                *)

NewAttempt == [pc |-> "prepares", progress |-> 0, well |-> FALSE]
Emits(status) == sent' = Append(sent, status)

\* generate_waveform: what stands there already is the answer.
Generates(v) ==
    /\ asked[v] = "asks"
    /\ IF slot # "none"
       THEN asked' = [asked EXCEPT ![v] = slot] /\ UNCHANGED <<slot, attempts>>
       ELSE /\ Len(attempts) < MaxAttempts
            /\ slot' = "pending"
            /\ attempts' = Append(attempts, [NewAttempt EXCEPT !.pc = v])
            /\ asked' = [asked EXCEPT ![v] = "prepares"]
    /\ UNCHANGED <<sent, view, drawn>>

\* Mutant: a failed waveform keeps its slot.
KeepsFailed(well) == IF well THEN "ready" ELSE slot

\* settle_waveform: a failure is forgotten, so that the next ask retries.
Settled(well) == IF well THEN "ready" ELSE "none"

\* What everyone waiting hears when preparing failed.
TellsFailure == Emits("failed")

\* The probe is answered or fails; then the thread is begun and the command
\* answers, or the slot is settled, then the event sent, then the command fails.
Prepares(v) ==
    /\ asked[v] = "prepares"
    /\ \E i \in {j \in DOMAIN attempts : attempts[j].pc = v} :
        \/ /\ attempts' = [attempts EXCEPT ![i].pc = "runs"]
           /\ asked' = [asked EXCEPT ![v] = "pending"]
           /\ UNCHANGED <<slot, sent>>
        \/ /\ slot' = Settled(FALSE)
           /\ attempts' = [attempts EXCEPT ![i].pc = "over"]
           /\ asked' = [asked EXCEPT ![v] = "refuses"]
           /\ UNCHANGED sent
    /\ UNCHANGED <<view, drawn>>
Refuses(v) ==
    /\ asked[v] = "refuses"
    /\ TellsFailure
    /\ asked' = [asked EXCEPT ![v] = "failed"]
    /\ UNCHANGED <<slot, attempts, view, drawn>>

\* The job's reader reports how far it is.
Progresses(i) ==
    /\ attempts[i].pc = "runs" /\ attempts[i].progress < MaxProgress
    /\ slot' = "pending" /\ Emits("pending")
    /\ attempts' = [attempts EXCEPT ![i].progress = @ + 1]
    /\ UNCHANGED <<view, asked, drawn>>

\* The job ends, its reader joined: the slot is settled, then the event sent.
Settles(i) ==
    /\ attempts[i].pc = "runs"
    /\ \E well \in BOOLEAN :
        /\ slot' = Settled(well)
        /\ attempts' = [attempts EXCEPT ![i].pc = "tells", ![i].well = well]
    /\ UNCHANGED <<sent, view, asked, drawn>>
Tells(i) ==
    /\ attempts[i].pc = "tells"
    /\ Emits(IF attempts[i].well THEN "ready" ELSE "failed")
    /\ attempts' = [attempts EXCEPT ![i].pc = "over"]
    /\ UNCHANGED <<slot, view, asked, drawn>>

-----------------------------------------------------------------------------
(* The views                                                                 *)

\* peaks: the first draw asks, and holds it pending.
Asks(v) ==
    /\ view[v] = "unasked"
    /\ view' = [view EXCEPT ![v] = "pending"]
    /\ asked' = [asked EXCEPT ![v] = "asks"]
    /\ UNCHANGED <<slot, attempts, sent, drawn>>

\* Every event reaches every view.
Receives ==
    /\ sent # <<>>
    /\ view' = [v \in Views |-> Head(sent)] /\ sent' = Tail(sent)
    /\ UNCHANGED <<slot, attempts, asked, drawn>>

\* "`pending` is what was assumed on asking": an event may have overtaken it.
Applies(was, status) == IF status = "pending" THEN was ELSE status

Answered(v) ==
    /\ asked[v] \in {"pending", "ready", "failed"}
    /\ view' = [view EXCEPT ![v] = Applies(@, asked[v])]
    /\ asked' = [asked EXCEPT ![v] = "none"]
    /\ UNCHANGED <<slot, attempts, sent, drawn>>

\* chunk, waveform_peaks: peaks are asked for once the waveform is ready.
Draws(v) ==
    /\ view[v] = "ready" /\ drawn[v] = "nothing"
    /\ drawn' = [drawn EXCEPT ![v] = IF slot = "ready" THEN "peaks" ELSE "refused"]
    /\ UNCHANGED <<slot, attempts, sent, view, asked>>

\* The timeline is shown anew, with a TimelineMedia that was told nothing.
Remounts(v) ==
    /\ view[v] # "unasked" /\ asked[v] = "none"
    /\ view' = [view EXCEPT ![v] = "unasked"] /\ drawn' = [drawn EXCEPT ![v] = "nothing"]
    /\ UNCHANGED <<slot, attempts, sent, asked>>

-----------------------------------------------------------------------------

WaveInit ==
    /\ slot = "none" /\ attempts = <<>> /\ sent = <<>>
    /\ view = [v \in Views |-> "unasked"] /\ asked = [v \in Views |-> "none"]
    /\ drawn = [v \in Views |-> "nothing"]

WaveNext ==
    \/ \E v \in Views : \/ Generates(v) \/ Prepares(v) \/ Refuses(v) \/ Asks(v) \/ Answered(v)
                        \/ Draws(v) \/ Remounts(v)
    \/ \E i \in DOMAIN attempts : Progresses(i) \/ Settles(i) \/ Tells(i)
    \/ Receives

WaveSpec == WaveInit /\ [][WaveNext]_waveVars

-----------------------------------------------------------------------------
(* Properties                                                                *)

AtRest ==
    /\ sent = <<>> /\ \A v \in Views : asked[v] = "none"
    /\ \A i \in DOMAIN attempts : attempts[i].pc = "over"

\* "Nothing that was told `pending` waits forever": when nothing is under way
\* and nothing on its way, each view that asked was told ready or failed,
\* whichever began the waveform, however its answer and the events
\* overtook each other, and wherever it failed; the slot is then ready or
\* free to be tried again, and peaks a ready view asks for are not refused
\* (generate_waveform, settle_waveform, waveformUpdate).
NothingWaits ==
    /\ AtRest => slot # "pending" /\ \A v \in Views : view[v] # "pending"
    /\ \A v \in Views : drawn[v] # "refused"
===============================================================================
