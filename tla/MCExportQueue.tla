----------------------------- MODULE MCExportQueue -----------------------------
(* Instances of ExportQueue for TLC; the .cfg files choose among them. *)
EXTENDS ExportQueueRefinement

CONSTANTS t1, nan

\* Progress matters to the store run, which has ManyFractions, and is
\* reported once or not at all elsewhere
NoProgress == {}
OneFraction == {0}
\* Below, within and above the range a fraction is clamped to, and no number
ManyFractions == {-1, 0, 1, 2, 3, nan}

FirstLaunch == {EmptyStore}

Kept(place, state, spec) ==
    [NoEntry EXCEPT !.place = place, !.target = t1, !.state = state,
                    !.spec = spec]

\* A crash mid-export with a full history behind it
Crashed ==
    [readable |-> TRUE, next |-> 3, pushes |-> 2,
     jobs |-> [i \in Ids |->
                  IF i = 1 THEN Kept(1, "completed", FALSE)
                  ELSE IF i = 2 THEN Kept(2, "running", TRUE)
                  ELSE NoEntry]]

\* A store edited by hand: a queued job without its project
Edited ==
    [readable |-> TRUE, next |-> 2, pushes |-> 1,
     jobs |-> [i \in Ids |->
                  IF i = 1 THEN Kept(1, "queued", FALSE) ELSE NoEntry]]

Unreadable == [EmptyStore EXCEPT !.readable = FALSE]

AnyStore == {EmptyStore, Crashed, Edited, Unreadable}
=============================================================================
