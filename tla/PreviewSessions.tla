---------------------------- MODULE PreviewSessions ----------------------------
(***************************************************************************)
(* The preview of the renderer and the sessions of the engine:             *)
(* preview.store.ts and framePump.ts, and the commands of media.rs that    *)
(* open, close and drive a session and serve its frames.                   *)
(*                                                                         *)
(* The renderer is one thread; what it awaits leaves it free for the next  *)
(* click, so that several opens may be under way.  Sessions are numbers.   *)
(***************************************************************************)
EXTENDS Integers, FiniteSets

CONSTANTS
    Opens,           \* clicks that open a preview, each once
    Requests         \* transport commands and readings under way at once

VARIABLES
    generation,
    store,      \* what the store says: status, session, and whose playback it shows
    opening,       \* what each `start` is at
    sessions,   \* previews: the sessions open in the engine
    created,    \* next_preview
    request,    \* commands to a session on their way back
    pump        \* the session whose frames are pulled
previewVars == <<generation, store, opening, sessions, created, request, pump>>

-----------------------------------------------------------------------------

NoPreview == 0
Empty == [status |-> "empty", session |-> NoPreview, playback |-> NoPreview]
Begun(at, mine, old) == [pc |-> at, mine |-> mine, closes |-> old, got |-> NoPreview]
NotBegun == Begun("idle", 0, NoPreview)

\* The frames of the session in the store are pulled; the pump of another is
\* stopped as the canvas is drawn anew.
Pulls == pump' = store'.session

\* close, up to its await: the store is emptied, and what was open is closed.
Emptied == store' = Empty /\ generation' = generation + 1

\* start, up to the end of its close: `generation` is its own again when the
\* session it closes has gone, at once when there is none.
Clicks(o) ==
    /\ opening[o].pc = "idle"
    /\ LET mine == generation + 1
           old  == store.session
       IN IF old = NoPreview
          THEN /\ generation' = mine /\ store' = [Empty EXCEPT !.status = "opening"]
               /\ opening' = [opening EXCEPT ![o] = Begun("asks", mine, NoPreview)]
          ELSE /\ generation' = mine + 1 /\ store' = Empty
               /\ opening' = [opening EXCEPT ![o] = Begun("closes", mine, old)]
    /\ Pulls /\ UNCHANGED <<sessions, created, request>>

\* Its session's decoders have exited.
SessionCloses(o) ==
    /\ opening[o].pc = "closes"
    /\ sessions' = sessions \ {opening[o].closes}
    /\ generation' = opening[o].mine
    /\ store' = [store EXCEPT !.status = "opening"]
    /\ opening' = [opening EXCEPT ![o].pc = "asks", ![o].closes = NoPreview]
    /\ Pulls /\ UNCHANGED <<created, request>>

\* open_preview, open_project_preview: a session, or none of it can be played.
EngineOpens(o) ==
    /\ opening[o].pc = "asks"
    /\ \/ /\ created' = created + 1 /\ sessions' = sessions \cup {created'}
          /\ opening' = [opening EXCEPT ![o].pc = "opened", ![o].got = created']
       \/ opening' = [opening EXCEPT ![o].pc = "refused"] /\ UNCHANGED <<created, sessions>>
    /\ UNCHANGED <<generation, store, request, pump>>

\* What it answered: installed, or closed again when another came between.
Installs(o) ==
    /\ opening[o].pc = "opened"
    /\ IF opening[o].mine = generation
       THEN /\ store' = [status |-> "open", session |-> opening[o].got, playback |-> opening[o].got]
            /\ UNCHANGED sessions
       ELSE UNCHANGED store /\ sessions' = sessions \ {opening[o].got}
    /\ opening' = [opening EXCEPT ![o].pc = "over"]
    /\ Pulls /\ UNCHANGED <<generation, created, request>>
Refused(o) ==
    /\ opening[o].pc = "refused"
    /\ store' = IF opening[o].mine = generation
                THEN [store EXCEPT !.status = "failed", !.session = NoPreview] ELSE store
    /\ opening' = [opening EXCEPT ![o].pc = "over"]
    /\ Pulls /\ UNCHANGED <<generation, sessions, created, request>>

ClosePreview ==
    /\ store.status # "empty"
    /\ Emptied /\ sessions' = sessions \ {store.session}
    /\ Pulls /\ UNCHANGED <<opening, created, request>>

-----------------------------------------------------------------------------
(* What comes back                                                           *)

\* transport, monitor, refreshStats, refreshLevels.
Sends(r) ==
    /\ request[r] = NoPreview /\ store.session # NoPreview
    /\ request' = [request EXCEPT ![r] = store.session]
    /\ UNCHANGED <<generation, store, opening, sessions, created, pump>>

\* Mutant: the answer is taken for the session there is.
ForAny(session) == store.session # NoPreview

\* get().session === session
ForThis(session) == session = store.session

\* "no preview session" is an error of the store and shows nothing.
Returns(r) ==
    /\ request[r] # NoPreview
    /\ store' = IF ForThis(request[r]) /\ request[r] \in sessions
                THEN [store EXCEPT !.playback = request[r]] ELSE store
    /\ request' = [request EXCEPT ![r] = NoPreview]
    /\ UNCHANGED <<generation, opening, sessions, created, pump>>

\* applyUpdate: the engine's listener of any open session.
Updates(s) ==
    /\ s \in sessions
    /\ store' = IF ForThis(s) THEN [store EXCEPT !.playback = s] ELSE store
    /\ UNCHANGED <<generation, opening, sessions, created, request, pump>>

\* serve_frame answers 404 for a session that is not open: the pump ends.
FrameGone ==
    /\ pump # NoPreview /\ pump \notin sessions
    /\ store' = [store EXCEPT !.status = "failed"] /\ pump' = NoPreview
    /\ UNCHANGED <<generation, opening, sessions, created, request>>

\* close_all_previews, as a project is closed.
EngineClosesAll ==
    /\ sessions # {}
    /\ sessions' = {}
    /\ UNCHANGED <<generation, store, opening, created, request, pump>>

-----------------------------------------------------------------------------

PreviewInit ==
    /\ generation = 0 /\ store = Empty /\ opening = [o \in Opens |-> NotBegun]
    /\ sessions = {} /\ created = 0 /\ request = [r \in Requests |-> NoPreview] /\ pump = NoPreview

PreviewNext ==
    \/ \E o \in Opens : Clicks(o) \/ SessionCloses(o) \/ EngineOpens(o) \/ Installs(o) \/ Refused(o)
    \/ ClosePreview
    \/ \E r \in Requests : Sends(r) \/ Returns(r)
    \/ \E s \in sessions : Updates(s)
    \/ FrameGone \/ EngineClosesAll

PreviewSpec == PreviewInit /\ [][PreviewNext]_previewVars

-----------------------------------------------------------------------------
(* Properties                                                                *)

\* However opens, closes, answers and events overtake each other, what the
\* store shows is of the session it holds: its playback and the frames pulled
\* are that session's, a session is held whenever one is said to be open, and
\* no answer brings back one that is being closed (start, transport,
\* applyUpdate).
ShowsItsSession ==
    /\ store.session # NoPreview => store.playback = store.session
    /\ store.status = "open" => store.session # NoPreview
    /\ \A o \in Opens : opening[o].pc = "closes" => opening[o].closes # store.session
    /\ pump # NoPreview => pump = store.session
===============================================================================
