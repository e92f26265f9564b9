-------------------------------- MODULE Session --------------------------------
(***************************************************************************)
(* The open project's life: project/session.rs and project/recent.rs of    *)
(* the engine, with the commands of the shell (lifecycle.rs) and what the  *)
(* renderer lets the user do (project.store.ts, ProjectLifecycle.tsx).     *)
(*                                                                         *)
(* Every command holds the lock of the open project, so one command is one *)
(* step; a save is two, for the process may die between the rename of the  *)
(* project file and the removal of the recovery file.  discard_recovery    *)
(* takes no lock.  A project's text is a member of Texts; which of two     *)
(* files is newer is kept in `newer` instead of their times.  A recovery   *)
(* file is named by the path it lies beside, or by the id of the untitled  *)
(* project it belongs to.                                                  *)
(***************************************************************************)
EXTENDS Naturals, Sequences, FiniteSets

CONSTANTS
    Paths,       \* project files
    Untitled,    \* ids of untitled projects (now_nanos), unused or used up
    Texts,       \* what a project may say
    None,        \* no path, no text, no session
    RecentLimit, \* RECENT_LIMIT
    MaxLaunches, \* bound: times the application is started
    LaunchFiles  \* project files a launch may be asked to open

Recoveries == Paths \cup Untitled

ASSUME SessionAssumption ==
    /\ Paths \cap Untitled = {} /\ None \notin Recoveries \cup Texts
    /\ Texts # {} /\ RecentLimit \in Nat \ {0} /\ MaxLaunches \in Nat
    /\ LaunchFiles \subseteq Paths

NoSession == [path |-> None]

VARIABLES
    up,       \* "no", "starting", "yes", or "quitting"
    launches, \* times the application was started
    open,     \* the open session, if any
    saving,   \* the path a save renamed its text to, not yet done
    project,  \* the text of each project file
    recov,    \* the text of each recovery file
    newer,    \* recovery files written after their project file
    recent,   \* the recent projects
    offers,   \* recoveries the renderer offers
    waiting,  \* the offer whose restoring the renderer waits for
    dropped,  \* recoveries the user said not to keep, not written since
              \* while the application was in use (history)
    left      \* recoveries of unsaved work a process died with, not offered
              \* since (history)

disk == <<project, recov, newer, recent>>
ui == <<offers, waiting>>
history == <<dropped, left>>
vars == <<up, launches, open, saving, disk, ui, history>>

-----------------------------------------------------------------------------

IsOpen == open # NoSession
Dirty == open.text # open.saved

Recent == {recent[i] : i \in DOMAIN recent}

\* RecentProjects::touch: a project is in the list once, and goes to its front.
Touch(p) ==
    LET was  == IF p \in Recent THEN CHOOSE i \in DOMAIN recent : recent[i] = p
                                ELSE Len(recent) + 1
        list == <<p>> \o SubSeq(recent, 1, was - 1) \o SubSeq(recent, was + 1, Len(recent))
    IN SubSeq(list, 1, IF Len(list) < RecentLimit THEN Len(list)
                                                  ELSE RecentLimit)

\* scan: beside each recent project, if newer than it or it is gone, and
\* every one of a project never saved
Offers ==
    {r \in Recent : recov[r] # None /\ (r \in newer \/ project[r] = None)}
    \cup {r \in Untitled : recov[r] # None}

\* The dialogs are modal: while something is offered nothing else is done.
Free == up = "yes" /\ saving = None /\ offers = {} /\ waiting = None

Gone(r) == [recov EXCEPT ![r] = None]

-----------------------------------------------------------------------------
(* Launch *)

Launch ==
    /\ up = "no" /\ launches < MaxLaunches
    /\ up' = "starting" /\ launches' = launches + 1
    /\ UNCHANGED <<open, saving, disk, ui, history>>

Opened(p) == [path |-> p, text |-> project[p], saved |-> project[p],
              autosaved |-> None, recovery |-> p]

\* start, with a project file: it is opened and nothing is offered.
LaunchOpens(p) ==
    /\ up = "starting" /\ p \in LaunchFiles /\ project[p] # None
    /\ up' = "yes"
    /\ open' = Opened(p) /\ recent' = Touch(p) /\ dropped' = dropped \ {p}
    /\ UNCHANGED <<launches, saving, project, recov, newer, ui, left>>

\* start, without one: unsaved work is offered; if there is none the
\* renderer goes on to New.
LaunchOffers ==
    /\ up = "starting"
    /\ up' = "yes" /\ offers' = Offers /\ left' = left \ Offers
    /\ UNCHANGED <<launches, open, saving, disk, waiting, dropped>>

\* restore_recovery: the session of the recovery, dirty until saved
RestoredText(r) ==
    [path |-> IF r \in Paths THEN r ELSE None,
     text |-> recov[r],
     saved |-> IF r \in Paths THEN project[r] ELSE None,
     autosaved |-> recov[r], recovery |-> r]

Restore(r) ==
    /\ up = "yes" /\ r \in offers /\ saving = None /\ waiting = None
    /\ recov[r] # None
    /\ open' = RestoredText(r)
    /\ waiting' = r /\ dropped' = dropped \ {r}
    /\ UNCHANGED <<up, launches, saving, disk, offers, left>>

\* The answer arrives, and the offer is taken off the list.
Restored ==
    /\ up \in {"yes", "quitting"} /\ waiting # None
    /\ offers' = offers \ {waiting} /\ waiting' = None
    /\ UNCHANGED <<up, launches, open, saving, disk, history>>

\* discard_recovery; the dialog's buttons work while Restore is under way.
DiscardOffer(r) ==
    /\ up = "yes" /\ r \in offers
    /\ recov' = Gone(r) /\ newer' = newer \ {r}
    /\ offers' = offers \ {r} /\ dropped' = dropped \cup {r}
    /\ UNCHANGED <<up, launches, open, saving, project, recent, waiting,
                   left>>

-----------------------------------------------------------------------------
(* Commands on the project; install drops the session that was open *)

New(u, t) ==
    /\ Free /\ recov[u] = None /\ (IsOpen => open.recovery # u)
    /\ open' = [path |-> None, text |-> t, saved |-> t, autosaved |-> None,
                recovery |-> u]
    /\ dropped' = dropped \ {u}
    /\ UNCHANGED <<up, launches, saving, disk, ui, left>>

Open(p) ==
    /\ Free /\ project[p] # None
    /\ open' = Opened(p) /\ recent' = Touch(p) /\ dropped' = dropped \ {p}
    /\ UNCHANGED <<up, launches, saving, project, recov, newer, ui, left>>

\* autosave: of a clean project, the recovery file goes.
CleanRemoves(s) ==
    /\ open' = [s EXCEPT !.autosaved = None]
    /\ recov' = Gone(s.recovery) /\ newer' = newer \ {s.recovery}

\* Session::autosave of session `s`: remove, skip, fail, or write
Autosaves(s) ==
    \/ s.text = s.saved /\ CleanRemoves(s)
    \/ /\ s.text # s.saved /\ open' = s
       /\ UNCHANGED <<recov, newer>>
    \/ /\ s.text # s.saved /\ s.text # s.autosaved
       /\ open' = [s EXCEPT !.autosaved = s.text]
       /\ recov' = [recov EXCEPT ![s.recovery] = s.text]
       /\ newer' = newer \cup {s.recovery}

\* Work autosaved for a user who is still at it is not refused.
Renewed == IF up = "yes" /\ recov'[open.recovery] # None
           THEN dropped \ {open.recovery} ELSE dropped

\* The autosave tick
Autosave ==
    /\ up \in {"yes", "quitting"} /\ saving = None /\ IsOpen
    /\ Autosaves(open)
    /\ dropped' = Renewed
    /\ UNCHANGED <<up, launches, saving, project, recent, ui, left>>

\* edit_project, undo_edit, redo_edit; a significant edit is autosaved at once
Edit(t) ==
    /\ Free /\ IsOpen
    /\ open' = [open EXCEPT !.text = t]
    /\ UNCHANGED <<up, launches, saving, disk, ui, history>>
EditSignificant(t) ==
    /\ Free /\ IsOpen
    /\ Autosaves([open EXCEPT !.text = t])
    /\ dropped' = Renewed
    /\ UNCHANGED <<up, launches, saving, project, recent, ui, left>>

\* save_to: the text is renamed over the project file.
Written(s, p) ==
    /\ project' = [project EXCEPT ![p] = s.text]
    /\ newer' = newer \ {p}
    /\ UNCHANGED recov

\* save, where the session has a path, and save_as
Save(p) ==
    /\ Free /\ IsOpen
    /\ Written(open, p)
    /\ saving' = p
    /\ UNCHANGED <<up, launches, open, recent, ui, history>>

\* relink_source: an edit, saved at once where there is a path
Relink(t) ==
    /\ Free /\ IsOpen /\ open.path # None
    /\ open' = [open EXCEPT !.text = t]
    /\ Written(open', open.path)
    /\ saving' = open.path
    /\ UNCHANGED <<up, launches, recent, ui, history>>

SavedAs(s, p) == [s EXCEPT !.path = p, !.saved = s.text, !.autosaved = None,
                           !.recovery = p]

\* save_to and save_as, to the end; the shell remembers the path.
SaveEnds ==
    /\ saving # None
    /\ open' = SavedAs(open, saving)
    /\ recov' = Gone(open.recovery) /\ newer' = newer \ {open.recovery}
    /\ recent' = Touch(saving) /\ dropped' = dropped \ {saving}
    /\ saving' = None
    /\ UNCHANGED <<up, launches, project, ui, left>>

\* close_project, and quit_app: of a clean project as it is, of a dirty one
\* once the user said not to save.
Leave ==
    IF Dirty THEN /\ recov' = Gone(open.recovery)
                  /\ newer' = newer \ {open.recovery}
                  /\ dropped' = dropped \cup {open.recovery}
    ELSE UNCHANGED <<recov, newer, dropped>>

Close ==
    /\ Free /\ IsOpen
    /\ Leave
    /\ open' = NoSession
    /\ UNCHANGED <<up, launches, saving, project, recent, ui, left>>

\* Mutant: quit_app leaves the session where it is.
StillThere == UNCHANGED open

\* quit_app takes the session it discards: nothing writes for it any more.
Taken == open' = NoSession

Quit ==
    /\ up = "yes" /\ saving = None
    /\ up' = "quitting"
    /\ IF IsOpen /\ Dirty THEN Leave /\ Taken
                         ELSE UNCHANGED <<open, recov, newer, dropped>>
    /\ UNCHANGED <<launches, saving, project, recent, ui, left>>

ProcessEnds ==
    /\ up' = "no" /\ open' = NoSession /\ saving' = None
    /\ offers' = {} /\ waiting' = None
    /\ UNCHANGED <<launches, disk, dropped>>

\* Between two launches the user may delete a project file.
Deleted(p) ==
    /\ up = "no" /\ project[p] # None
    /\ project' = [project EXCEPT ![p] = None]
    /\ UNCHANGED <<up, launches, open, saving, recov, newer, recent, ui,
                   history>>

Exit == up = "quitting" /\ ProcessEnds /\ UNCHANGED left

Crash ==
    /\ up # "no" /\ ProcessEnds
    /\ left' = IF IsOpen /\ Dirty THEN left \cup (newer \cap {open.recovery})
                               ELSE left

Init ==
    /\ up = "no" /\ launches = 0 /\ open = NoSession /\ saving = None
    /\ project \in [Paths -> Texts \cup {None}]
    /\ recov = [r \in Recoveries |-> None] /\ newer = {} /\ recent = <<>>
    /\ offers = {} /\ waiting = None /\ dropped = {} /\ left = {}

Next ==
    \/ Launch
    \/ \E p \in Paths : LaunchOpens(p)
    \/ LaunchOffers
    \/ \E r \in Recoveries : Restore(r)
    \/ Restored
    \/ \E r \in Recoveries : DiscardOffer(r)
    \/ \E u \in Untitled, t \in Texts : New(u, t)
    \/ \E p \in Paths : Open(p)
    \/ Autosave
    \/ \E t \in Texts : Edit(t)
    \/ \E t \in Texts : EditSignificant(t)
    \/ \E p \in Paths : Save(p)
    \/ \E t \in Texts : Relink(t)
    \/ SaveEnds
    \/ Close
    \/ Quit
    \/ \E p \in Paths : Deleted(p)
    \/ Exit
    \/ Crash

Spec == Init /\ [][Next]_vars

-----------------------------------------------------------------------------

\* Were the process to die now, the work last autosaved would be offered at
\* the next launch: it is in its recovery file, one the launch looks for and
\* finds newer; or a save has just made it safe, or the user was asked about
\* this very work and discarded it.  And what would be offered beside a project
\* differs from what it says: work that was saved is never offered.
UnsavedWorkIsOffered ==
    /\ (IsOpen /\ open.autosaved # None /\ open.recovery \notin dropped) =>
          \/ /\ open.recovery \in Offers
             /\ recov[open.recovery] = open.autosaved
          \/ saving # None /\ project[saving] = open.text
    /\ \A p \in Offers \cap Paths : recov[p] # project[p]

\* "Don't save", and Discard, are final: that work is not offered again.
DiscardIsFinal == dropped \cap Offers = {}

\* What a launch offers is the work that would be lost, and no other.
OffersAreRight == UnsavedWorkIsOffered /\ DiscardIsFinal

\* "Losing an edit to a crash is the most damaging thing an editor can do":
\* the recovery of work a process died with goes, or is written over, only
\* once it was offered.
RecoveryIsAsked == [][\A r \in left : recov'[r] = recov[r]]_vars
=============================================================================
