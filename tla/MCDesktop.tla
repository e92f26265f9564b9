------------------------------- MODULE MCDesktop -------------------------------
(* What the application keeps beside the pipelines: the open project, its edits *)
(* and its recovery, the index of a file, its proxy, the cache of what is derived from  *)
(* it, its waveform, and the preview's sessions.  They share nothing, and run   *)
(* in one model; each behaviour is one of one of them.                          *)
EXTENDS Session, KeyframeIndex, ArtefactCache, ProxyFolder, WaveformSlots, PreviewSessions,
        SequenceGraph

VARIABLE part

desktopVars == <<vars, indexVars, cacheVars, proxyVars, waveVars, previewVars, graphVars, part>>

Packet(pts, picture) ==
    [pts |-> pts, key |-> picture # "p", shown |-> pts >= 0, picture |-> picture]
LowMC == -3
FilesMC ==
    {[packets |-> <<Packet(-1, "idr"), Packet(1, "p"), Packet(0, "p"), Packet(4, "cra"), Packet(2, "p"),
                    Packet(3, "p"), Packet(6, "p"), Packet(5, "p"), Packet(9, "idr"), Packet(10, "p"),
                    Packet(12, "cra"), Packet(11, "p")>>, length |-> 13],
     [packets |-> <<Packet(0, "idr"), Packet(2, "p"), Packet(4, "cra"), Packet(3, "p"), Packet(6, "p"),
                    Packet(8, "unread"), Packet(7, "p"), Packet(10, "p"), Packet(12, "p")>>, length |-> Unread]}

EntriesMC == [strip |-> <<"s0", "s1", "manifest">>, peaks |-> <<"peaks">>]
SizesMC == [s0 |-> 2, s1 |-> 2, manifest |-> 1, peaks |-> 2]

\* Frames of 2 ticks.  The first source fills the sequence; the second is tall,
\* turned, and its pixels are no squares.
Shape(width, height, chroma, turned, pixel) ==
    [width |-> width, height |-> height, rate |-> 4, pixel |-> pixel, chroma |-> chroma,
     turned |-> turned]
Rect(x, y, width, height) == [x |-> x, y |-> y, width |-> width, height |-> height]
ShapesMC == <<Shape(12, 8, "420", FALSE, <<1, 1>>), Shape(6, 10, "422", TRUE, <<4, 3>>)>>
ExtentMC == <<0, 15>>
RatiosMC == {<<1, 1>>, <<3, 2>>, <<2, 3>>}
SettingsMC == {Matching(ShapesMC[1]), [Matching(ShapesMC[1]) EXCEPT !.rate = 3]}

NewClip(id, source, start, ops, detached, link) ==
    [id |-> id, source |-> source, start |-> start, ops |-> ops, detached |-> detached,
     link |-> link]
NewTrack(id, kind, clips) ==
    [id |-> id, kind |-> kind, muted |-> FALSE, solo |-> FALSE, locked |-> FALSE, clips |-> clips]
NewProject(sources, matching, tracks) ==
    [settings |-> Matching(ShapesMC[1]), matching |-> matching, loudness |-> 0,
     sources |-> sources, tracks |-> tracks]
\* A clip over two others, one with its sound detached
Full == NewProject({1, 2}, FALSE,
    <<NewTrack(1, "video", {NewClip(1, 2, 2, <<TrimTo(2, 8), CropBy(Rect(2, 2, 4, 8))>>, FALSE, 0)}),
      NewTrack(2, "video", {NewClip(2, 1, 0, <<TrimTo(1, 13)>>, TRUE, 1),
                            NewClip(3, 1, 6, <<TrimTo(4, 10), PlayAt(<<2, 1>>), Sound("normalise", 1)>>, FALSE, 0)}),
      NewTrack(3, "audio", {NewClip(4, 1, 0, <<TrimTo(1, 13)>>, FALSE, 1)})>>)
Bare == NewProject({1}, TRUE, <<NewTrack(1, "video", {})>>)
ProjectsMC == {Full, Bare}

MovesMC == {-2, 1}
SpeedsMC == {<<1, 1>>, <<2, 1>>, <<2, 3>>}
RectsMC == {Rect(2, 0, 4, 4), Rect(2, 2, 4, 6), Rect(2, 0, 6, 4)}
SidesMC == {<<"x", 4>>, <<"width", 6>>, <<"height", 4>>}
StepsMC == {Sound("gain", 1), Sound("normalise", 1), Sound("denoise", 0)}
TrimsMC == {<<0, 13>>, <<3, 8>>}

\* A machine that is not the part stands in one initial state.
NoSessionYet ==
    /\ up = "no" /\ launches = MaxLaunches /\ open = NoSession /\ saving = None
    /\ project = [p \in Paths |-> None]
    /\ recov = [r \in Recoveries |-> None] /\ newer = {} /\ recent = <<>>
    /\ offers = {} /\ waiting = None /\ dropped = {} /\ left = {}
NoFileYet ==
    /\ file = (CHOOSE f \in FilesMC : TRUE) /\ index = EmptyIndex /\ ask = [a \in Askers |-> Quiet]
    /\ completer = [pc |-> "idle", from |-> 0, region |-> NoRegion]
    /\ stopped = FALSE /\ kept = Unread /\ launch = 1
NoGraphYet == graph = Bare /\ known = {} /\ steps = 0 /\ edited = Quieter

DesktopInit ==
    /\ \/ part = "session" /\ Init /\ NoFileYet /\ NoGraphYet
       \/ part = "index" /\ IndexInit /\ NoSessionYet /\ NoGraphYet
       \/ part = "graph" /\ GraphInit /\ NoSessionYet /\ NoFileYet
       \/ /\ part \in {"cache", "proxy", "waveform", "preview"}
          /\ NoSessionYet /\ NoFileYet /\ NoGraphYet
    /\ CacheInit /\ ProxyInit /\ WaveInit /\ PreviewInit

DesktopNext ==
    /\ \/ /\ part = "session" /\ Next
          /\ UNCHANGED <<indexVars, cacheVars, proxyVars, waveVars, previewVars, graphVars>>
       \/ /\ part = "index" /\ IndexNext
          /\ UNCHANGED <<vars, cacheVars, proxyVars, waveVars, previewVars, graphVars>>
       \/ /\ part = "cache" /\ CacheNext
          /\ UNCHANGED <<vars, indexVars, proxyVars, waveVars, previewVars, graphVars>>
       \/ /\ part = "proxy" /\ ProxyNext
          /\ UNCHANGED <<vars, indexVars, cacheVars, waveVars, previewVars, graphVars>>
       \/ /\ part = "waveform" /\ WaveNext
          /\ UNCHANGED <<vars, indexVars, cacheVars, proxyVars, previewVars, graphVars>>
       \/ /\ part = "preview" /\ PreviewNext
          /\ UNCHANGED <<vars, indexVars, cacheVars, proxyVars, waveVars, graphVars>>
       \/ /\ part = "graph" /\ GraphNext
          /\ UNCHANGED <<vars, indexVars, cacheVars, proxyVars, waveVars, previewVars>>
    /\ UNCHANGED part

DesktopSpec == DesktopInit /\ [][DesktopNext]_desktopVars
===============================================================================
