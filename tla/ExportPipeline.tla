----------------------------- MODULE ExportPipeline -----------------------------
(***************************************************************************)
(* One export carried out: export/execute.rs of the engine crate.          *)
(*                                                                         *)
(* A router thread for each output stream opens the process that makes a   *)
(* segment's packets, segment after segment, and sends them to a bounded   *)
(* queue.  The export's own thread collects the streams' headers, starts   *)
(* the muxer, interleaves the queues by time into the muxer's input, joins *)
(* everyone and settles what the export was.  Any process may fail at any  *)
(* moment, and the user may cancel at any moment.                          *)
(*                                                                         *)
(* A packet is its time on the output.  Which packets a segment's producer *)
(* makes, and where they go, is the subject of SmartCut.                   *)
(***************************************************************************)
EXTENDS Integers, Sequences, FiniteSets, FiniteSetsExt, Functions

CONSTANTS
    Plan,          \* by route, its segments in order
    PacketQueue,   \* PACKET_QUEUE
    MuxerQueue,    \* MUXER_QUEUE
    Overwrite      \* the user confirmed replacing an existing target

Routes == DOMAIN Plan
Kinds == {"copy", "smart", "encode", "render"}

\* A segment is made in pieces, at least one: packets of its own process, or of
\* a seam's encoder.  `feeds` is whether chunk decoders feed its encoder, which
\* then has no seams.
PieceType == [by : {"reader", "seam"}, pts : Seq(Nat)]
SegmentType == [kind : Kinds, feeds : BOOLEAN, pieces : Seq(PieceType)]
ASSUME PlanAssumption ==
    /\ IsFiniteSet(Routes) /\ Routes # {} /\ Routes \subseteq Nat
    /\ {PacketQueue, MuxerQueue} \subseteq Nat \ {0} /\ Overwrite \in BOOLEAN
    /\ Plan \in [Routes -> Seq(SegmentType)]
    /\ \A r \in Routes : \A i \in DOMAIN Plan[r] :
            /\ Plan[r][i].pieces # <<>>
            /\ Plan[r][i].feeds =>
                  \A p \in DOMAIN Plan[r][i].pieces : Plan[r][i].pieces[p].by = "reader"

VARIABLES
    cancel,     \* the export's CancelToken
    asked,      \* the user fired it
    router,     \* the routers' threads
    producer,   \* the process each has open, and the other beside it
    queue,      \* the packets on their way to the interleaver
    main,       \* the export's own thread
    heads,      \* the packet of each queue that is next
    out,        \* the packets written, <<route, time>>
    muxer,      \* the muxer's process, its input and what it has not read
    files       \* the partial file and the target

pipeVars == <<cancel, asked, router, producer, queue, main, heads, out, muxer, files>>

Waiting == -1      \* a head still to be received
Ended == -2        \* a queue whose router is through

Planned(r) == Plan[r]
CurrentSegment(r) == Plan[r][router[r].segment]
Pieces(r) == CurrentSegment(r).pieces
PieceOf(r) == Pieces(r)[router[r].piece]

\* Where a packet comes in its route: segment, piece and packet.
Places(r) ==
    UNION {UNION {{<<i, p, k>> : k \in DOMAIN Plan[r][i].pieces[p].pts} :
                    p \in DOMAIN Plan[r][i].pieces} : i \in DOMAIN Plan[r]}
Time(r, x) == Plan[r][x[1]].pieces[x[2]].pts[x[3]]
Earlier(x, y) ==
    \/ x[1] < y[1]
    \/ x[1] = y[1] /\ x[2] < y[2]
    \/ x[1] = y[1] /\ x[2] = y[2] /\ x[3] < y[3]
PacketsOf(r) == {Time(r, x) : x \in Places(r)}
Everything == UNION {{<<r, t>> : t \in PacketsOf(r)} : r \in Routes}

-----------------------------------------------------------------------------
(* Processes                                                                 *)

NoProducer == [own |-> "none", side |-> "none"]

\* A reader dropped takes its process with it at the next chunk.
Dropped(p) == [k \in {"own", "side"} |-> IF p[k] = "runs" THEN "dropped" ELSE p[k]]

\* What a process has still to write.
Unread(r, k) ==
    /\ router[r].pc \in {"opening", "reading", "sending"}
    /\ \/ k = "own" /\ \E p \in router[r].piece..Len(Pieces(r)) :
                Pieces(r)[p].by = "reader" /\ (p = router[r].piece => router[r].packet <= Len(PieceOf(r).pts))
       \/ k = "side" /\ PieceOf(r).by = "seam" /\ router[r].packet <= Len(PieceOf(r).pts)

\* An encoder whose frames stop coming ends early, as if they were all.
Starved(r) == CurrentSegment(r).feeds /\ producer[r].side \in {"failed", "cancelled"}

ProducerExits(r, k) ==
    /\ \/ producer[r][k] = "dropped"
       \/ /\ producer[r][k] = "runs"
          /\ \/ ~Unread(r, k) /\ router[r].pc # "opening"
             \/ k = "own" /\ router[r].pc # "over" /\ Starved(r)
    /\ producer' = [producer EXCEPT ![r][k] = "exited"]
    /\ UNCHANGED <<cancel, asked, router, queue, main, heads, out, muxer, files>>

ProducerFails(r, k) ==
    /\ producer[r][k] = "runs"
    /\ producer' = [producer EXCEPT ![r][k] = "failed"]
    /\ UNCHANGED <<cancel, asked, router, queue, main, heads, out, muxer, files>>

\* feed_reversed: the chunk decoders of a reversed clip, one after another,
\* until they are through, the switch is fired or the encoder stops reading.
Feeds(r) ==
    /\ producer[r].side = "feeds"
    /\ \/ producer' = [producer EXCEPT ![r].side = "exited"]
       \/ cancel /\ producer' = [producer EXCEPT ![r].side = "cancelled"]
       \/ producer' = [producer EXCEPT ![r].side = "failed"]
    /\ UNCHANGED <<cancel, asked, router, queue, main, heads, out, muxer, files>>

-----------------------------------------------------------------------------
(* Routers                                                                   *)

\* A route that begins with a rendered segment and copies later opens the
\* first copied one for its header.
ReferenceFirst(r) ==
    /\ Len(Plan[r]) > 0 /\ Plan[r][1].kind = "render"
    /\ \E i \in DOMAIN Plan[r] : Plan[r][i].kind \in {"copy", "smart"}

\* The thread goes on, perhaps at another place of the plan.
GoesOn(r, pc, segment, piece, packet) ==
    router' = [router EXCEPT ![r] = [pc |-> pc, segment |-> segment, piece |-> piece, packet |-> packet,
                                     header |-> router[r].header, result |-> router[r].result]]

\* The thread returns; what it had open is dropped, and an error goes where
\* its header was expected.
Over(r, result) ==
    /\ router' = [router EXCEPT ![r] =
          [pc |-> "over", segment |-> router[r].segment, piece |-> 1, packet |-> 1, result |-> result,
           header |-> IF result # "ok" /\ router[r].header = "none" THEN "error" ELSE router[r].header]]
    /\ producer' = [producer EXCEPT ![r] = Dropped(@)]

\* reference_first
Reference(r) ==
    /\ router[r].pc = "reference"
    /\ \/ /\ router' = [router EXCEPT ![r].pc = "next", ![r].header = "sent"]
          /\ UNCHANGED producer
       \/ Over(r, "failed")
    /\ UNCHANGED <<cancel, asked, queue, main, heads, out, muxer, files>>

\* route: the next segment's process is started, unless it is cancelled.
OpenSegment(r) ==
    /\ router[r].pc = "next"
    /\ \/ router[r].segment > Len(Planned(r)) /\ Over(r, "ok")
       \/ router[r].segment <= Len(Planned(r)) /\ cancel /\ Over(r, "cancelled")
       \/ /\ router[r].segment <= Len(Planned(r)) /\ ~cancel
          /\ GoesOn(r, "opening", router[r].segment, 1, 1)
          /\ producer' = [producer EXCEPT ![r] =
                [own |-> "runs", side |-> IF CurrentSegment(r).feeds THEN "feeds" ELSE "none"]]
    /\ UNCHANGED <<cancel, asked, queue, main, heads, out, muxer, files>>

\* Opened::start: the header of the process.  The first is the stream's, and
\* a rendered segment that cannot join it is refused.
ReadHeader(r) ==
    /\ router[r].pc = "opening"
    /\ \/ producer[r].own \in {"failed", "exited"} /\ Over(r, "failed")
       \/ /\ producer[r].own = "runs"
          /\ router' = [router EXCEPT ![r].pc = "reading", ![r].header = "sent"]
          /\ UNCHANGED producer
       \/ CurrentSegment(r).kind = "render" /\ producer[r].own = "runs" /\ Over(r, "failed")
    /\ UNCHANGED <<cancel, asked, queue, main, heads, out, muxer, files>>

Source(r) == IF PieceOf(r).by = "seam" THEN producer[r].side ELSE producer[r].own

\* recode_piece: a seam's encoder, beside the reader.  validate_join may
\* refuse what it makes.
OpenSeam(r) ==
    /\ router[r].pc = "reading" /\ PieceOf(r).by = "seam" /\ producer[r].side = "none"
    /\ \/ producer' = [producer EXCEPT ![r].side = "runs"] /\ UNCHANGED router
       \/ Over(r, "failed")
    /\ UNCHANGED <<cancel, asked, queue, main, heads, out, muxer, files>>

\* next_packet, and the look at the switch after it.
ReadPacket(r) ==
    /\ router[r].pc = "reading" /\ router[r].packet <= Len(PieceOf(r).pts)
    /\ Source(r) = "runs"
    /\ \/ cancel /\ Over(r, "cancelled")
       \/ /\ ~cancel /\ router' = [router EXCEPT ![r].pc = "sending"]
          /\ UNCHANGED producer
    /\ UNCHANGED <<cancel, asked, queue, main, heads, out, muxer, files>>

\* The packet is sent, which waits for room; a queue dropped takes none.
SendPacket(r) ==
    /\ router[r].pc = "sending"
    /\ \/ /\ main.queues /\ Len(queue[r]) < PacketQueue
          /\ queue' = [queue EXCEPT ![r] = Append(@, PieceOf(r).pts[router[r].packet])]
          /\ GoesOn(r, "reading", router[r].segment, router[r].piece, router[r].packet + 1)
          /\ UNCHANGED producer
       \/ ~main.queues /\ Over(r, "cancelled") /\ UNCHANGED queue
    /\ UNCHANGED <<cancel, asked, main, heads, out, muxer, files>>

\* A piece is through, or its process wrote nothing more.  A seam's process
\* is waited for; the segment's at the end of the segment.
EndPiece(r) ==
    LET through == router[r].packet > Len(PieceOf(r).pts)
        short == ~through /\ Source(r) \in {"failed", "exited"}
        more == through /\ router[r].piece < Len(Pieces(r))
    IN /\ router[r].pc = "reading" /\ (through \/ short)
       /\ \/ PieceOf(r).by = "seam" /\ producer[r].side = "failed" /\ Over(r, "failed")
          \/ /\ PieceOf(r).by = "seam" => producer[r].side = "exited" /\ ~short
             /\ IF more THEN GoesOn(r, "reading", router[r].segment, router[r].piece + 1, 1)
                ELSE GoesOn(r, "finishing", router[r].segment, router[r].piece, router[r].packet)
             /\ producer' = [producer EXCEPT ![r].side =
                    IF PieceOf(r).by = "seam" THEN "none" ELSE @]
       /\ UNCHANGED <<cancel, asked, queue, main, heads, out, muxer, files>>

\* Opened::finish, and the join of the decoders that fed it.
Finish(r) ==
    /\ router[r].pc = "finishing"
    /\ \/ producer[r].own = "failed" /\ Over(r, "failed")
       \/ /\ producer[r].own = "exited" /\ producer[r].side \in {"none", "exited"}
          /\ GoesOn(r, "next", router[r].segment + 1, 1, 1)
          /\ producer' = [producer EXCEPT ![r] = NoProducer]
       \/ /\ producer[r].own = "exited" /\ producer[r].side \in {"failed", "cancelled"}
          /\ Over(r, producer[r].side)
    /\ UNCHANGED <<cancel, asked, queue, main, heads, out, muxer, files>>

Router(r) ==
    \/ Reference(r) \/ OpenSegment(r) \/ ReadHeader(r) \/ OpenSeam(r)
    \/ ReadPacket(r) \/ SendPacket(r) \/ EndPiece(r) \/ Finish(r)

-----------------------------------------------------------------------------
(* The export's own thread                                                   *)

OverAll == \A r \in Routes : router[r].pc = "over"
\* The first error in the order of the routes, "ok" where there is none.
FirstError ==
    LET wrong == {r \in Routes : router[r].result # "ok"}
    IN IF wrong = {} THEN "ok" ELSE router[Min(wrong)].result

Ends(outcome) ==
    main' = [pc |-> "ended", queues |-> FALSE, written |-> main.written, outcome |-> outcome]

\* Mutant: a failed export leaves what it wrote beside the target.
LeavePartial(f) == f

\* export: whatever went wrong, the partial file is removed.
RemovePartial(f) == [f EXCEPT !.partial = "absent"]

\* collect_headers, and the muxer once they are all there.
CollectHeaders ==
    /\ main.pc = "headers"
    /\ \A r \in Routes : router[r].header = "sent"
    /\ main' = [main EXCEPT !.pc = "interleave"]
    /\ muxer' = [muxer EXCEPT !.process = "runs", !.input = TRUE]
    /\ files' = [files EXCEPT !.partial = "growing"]
    /\ UNCHANGED <<cancel, asked, router, producer, queue, heads, out>>

\* A stream without a header: everyone is stopped ...
GiveUp ==
    /\ main.pc = "headers"
    /\ \E r \in Routes : /\ router[r].header = "error"
                         /\ \A q \in Routes : q < r => router[q].header = "sent"
    /\ cancel' = TRUE
    /\ main' = [main EXCEPT !.pc = "first error", !.queues = FALSE]
    /\ UNCHANGED <<asked, router, producer, queue, heads, out, muxer, files>>

\* ... and the first of their errors is the export's.
TakeFirstError ==
    /\ main.pc = "first error" /\ OverAll
    /\ Ends(FirstError) /\ files' = RemovePartial(files)
    /\ UNCHANGED <<cancel, asked, router, producer, queue, heads, out, muxer>>

\* A head is received: a packet, or the end of its router.
Receive(r) ==
    /\ main.pc = "interleave" /\ heads[r] = Waiting
    /\ \A q \in Routes : q < r => heads[q] # Waiting
    /\ \/ /\ queue[r] # <<>>
          /\ heads' = [heads EXCEPT ![r] = Head(queue[r])]
          /\ queue' = [queue EXCEPT ![r] = Tail(@)]
       \/ /\ queue[r] = <<>> /\ router[r].pc = "over"
          /\ heads' = [heads EXCEPT ![r] = Ended] /\ UNCHANGED queue
    /\ UNCHANGED <<cancel, asked, router, producer, main, out, muxer, files>>

Open(r) == heads[r] \notin {Waiting, Ended}

\* Mutant: whatever has arrived is written; a stream that has not is not waited for.
TakesWhatIsThere(r) == Open(r) /\ \A q \in Routes : Open(q) => heads[r] <= heads[q]

\* The head that is next: every stream's is there, and none is earlier.
IsNext(r) ==
    /\ Open(r) /\ \A q \in Routes : heads[q] # Waiting
    /\ \A q \in Routes : Open(q) => heads[r] <= heads[q]

\* Mutant: interleave borrows the queues; on an error they stay where they are.
KeepQueues(m) == [m EXCEPT !.pc = "join"]

\* interleave returns: the queues go, and with the writer the muxer's input.
DropQueues(m) == [m EXCEPT !.pc = "join", !.queues = FALSE]

Stops(written) ==
    /\ main' = [DropQueues(main) EXCEPT !.written = written]
    /\ muxer' = [muxer EXCEPT !.input = FALSE, !.buffered = FALSE]
    /\ UNCHANGED <<cancel, asked, router, producer, queue, heads, out, files>>

InterleaveCancelled ==
    /\ main.pc = "interleave" /\ cancel /\ \A r \in Routes : heads[r] # Waiting
    /\ Stops("cancelled")

\* A packet is written: into the buffer, or with it to the muxer's input.
Write(r) ==
    /\ main.pc = "interleave" /\ ~cancel /\ IsNext(r)
    /\ \/ muxer' = [muxer EXCEPT !.buffered = TRUE]
       \/ /\ muxer.process = "runs" /\ muxer.unread < MuxerQueue
          /\ muxer' = [muxer EXCEPT !.unread = @ + 1, !.buffered = FALSE]
    /\ out' = Append(out, <<r, heads[r]>>)
    /\ heads' = [heads EXCEPT ![r] = Waiting]
    /\ UNCHANGED <<cancel, asked, router, producer, queue, main, files>>

\* The muxer has exited: the pipe is broken.
WriteBroken ==
    /\ main.pc = "interleave" /\ muxer.process # "runs"
    /\ \A r \in Routes : heads[r] # Waiting
    /\ muxer.buffered \/ \E r \in Routes : Open(r)
    /\ Stops("failed")

\* Every stream is through: what is buffered is written, and the input closed.
WriteEnd ==
    /\ main.pc = "interleave" /\ ~cancel /\ \A r \in Routes : heads[r] = Ended
    /\ muxer.buffered => muxer.process = "runs" /\ muxer.unread < MuxerQueue
    /\ main' = [DropQueues(main) EXCEPT !.written = "ok"]
    /\ muxer' = [muxer EXCEPT !.input = FALSE, !.buffered = FALSE,
                              !.unread = IF muxer.buffered THEN @ + 1 ELSE @]
    /\ UNCHANGED <<cancel, asked, router, producer, queue, heads, out, files>>

\* conclude: the switch, the routers' errors, the writing's, the muxer's.
Concluded ==
    IF cancel THEN "cancelled"
    ELSE IF FirstError # "ok" THEN FirstError
    ELSE IF main.written # "ok" THEN main.written
    ELSE IF muxer.process = "killed" THEN "cancelled"
    ELSE IF muxer.process = "failed" THEN "failed" ELSE "ok"

Conclude ==
    /\ main.pc = "join" /\ OverAll /\ muxer.process # "runs"
    /\ IF Concluded = "ok"
       THEN /\ main' = [main EXCEPT !.pc = "rename"]
            /\ files' = [files EXCEPT !.target = IF Overwrite THEN "absent" ELSE @]
       ELSE Ends(Concluded) /\ files' = RemovePartial(files)
    /\ UNCHANGED <<cancel, asked, router, producer, queue, heads, out, muxer>>

\* The rename, which may fail as any operation on files.
Rename ==
    /\ main.pc = "rename"
    /\ \/ Ends("ok") /\ files' = [partial |-> "absent", target |-> files.partial]
       \/ Ends("failed") /\ files' = RemovePartial(files)
    /\ UNCHANGED <<cancel, asked, router, producer, queue, heads, out, muxer>>

Main ==
    \/ CollectHeaders \/ GiveUp \/ TakeFirstError \/ \E r \in Routes : Receive(r)
    \/ InterleaveCancelled \/ \E r \in Routes : Write(r)
    \/ WriteBroken \/ WriteEnd \/ Conclude \/ Rename

-----------------------------------------------------------------------------
(* The muxer: a job of the orchestrator, with the export's switch            *)

MuxerReads ==
    /\ muxer.process = "runs"
    /\ \/ muxer.unread > 0 /\ muxer' = [muxer EXCEPT !.unread = @ - 1] /\ UNCHANGED files
       \/ /\ muxer.unread = 0 /\ ~muxer.input
          /\ muxer' = [muxer EXCEPT !.process = "exited"]
          /\ files' = [files EXCEPT !.partial =
                IF Range(out) = Everything THEN "whole" ELSE "short"]
    /\ UNCHANGED <<cancel, asked, router, producer, queue, main, heads, out>>

\* Killed by the switch, or failed: its file is removed.
MuxerStops(how) ==
    /\ muxer.process = "runs" /\ (how = "killed" => cancel)
    /\ muxer' = [muxer EXCEPT !.process = how, !.unread = 0]
    /\ files' = RemovePartial(files)
    /\ UNCHANGED <<cancel, asked, router, producer, queue, main, heads, out>>

Cancel ==
    /\ ~asked /\ main.pc # "ended"
    /\ asked' = TRUE /\ cancel' = TRUE
    /\ UNCHANGED <<router, producer, queue, main, heads, out, muxer, files>>

-----------------------------------------------------------------------------

PipeInit ==
    /\ cancel = FALSE /\ asked = FALSE
    /\ router = [r \in Routes |-> [pc |-> IF ReferenceFirst(r) THEN "reference" ELSE "next", segment |-> 1,
                                   piece |-> 1, packet |-> 1, header |-> "none", result |-> "none"]]
    /\ producer = [r \in Routes |-> NoProducer]
    /\ queue = [r \in Routes |-> <<>>]
    /\ main = [pc |-> "headers", queues |-> TRUE, written |-> "none", outcome |-> "none"]
    /\ heads = [r \in Routes |-> Waiting]
    /\ out = <<>>
    /\ muxer = [process |-> "none", input |-> FALSE, unread |-> 0, buffered |-> FALSE]
    /\ files = [partial |-> "absent", target |-> IF Overwrite THEN "old" ELSE "absent"]

PipeNext ==
    \/ \E r \in Routes : Router(r) \/ Feeds(r)
    \/ \E r \in Routes, k \in {"own", "side"} : ProducerExits(r, k) \/ ProducerFails(r, k)
    \/ Main \/ MuxerReads \/ MuxerStops("killed") \/ MuxerStops("failed") \/ Cancel

PipeSpec == PipeInit /\ [][PipeNext]_pipeVars

\* Threads run, and processes write, read and end; none has to fail.
PipeFairness ==
    /\ \A r \in Routes : WF_pipeVars(Router(r)) /\ WF_pipeVars(Feeds(r))
    /\ \A r \in Routes : WF_pipeVars(ProducerExits(r, "own")) /\ WF_pipeVars(ProducerExits(r, "side"))
    /\ WF_pipeVars(Main) /\ WF_pipeVars(MuxerReads) /\ WF_pipeVars(MuxerStops("killed"))

-----------------------------------------------------------------------------

\* A file moved to the target holds every packet of every stream: no process
\* that ended early, no router that gave up and no muxer that stopped is ever
\* taken for the end of a stream (conclude).
CompleteMeansAll ==
    /\ main.outcome = "ok" => files.target = "whole" /\ Range(out) = Everything
    /\ files.target \in {"old", "absent"} \/ main.outcome = "ok"

\* An export that returned has left no partial file, every router is through
\* and no muxer runs (export, thread::scope).
NothingLeft ==
    main.pc = "ended" =>
        files.partial = "absent" /\ OverAll /\ muxer.process # "runs"

\* Of a route, `s` comes before `t`.
ComesBefore(r, s, t) ==
    \E x, y \in Places(r) : Time(r, x) = s /\ Time(r, y) = t /\ Earlier(x, y)

\* A stream never runs ahead in the file: when a packet is written, every
\* packet of the other streams that is shown before it is written already,
\* unless its router failed before it, or it comes in its stream after one that
\* is shown no earlier, as a picture that is coded after one it refers to
\* (interleave).
InterleavedInTime ==
    [][\A r \in Routes : Write(r) =>
         \A q \in Routes \ {r} : \A t \in PacketsOf(q) :
            t < heads[r] /\ <<q, t>> \notin Range(out) =>
               \/ router[q].result \in {"failed", "cancelled"}
               \/ heads[q] >= heads[r] /\ ComesBefore(q, heads[q], t)]_pipeVars

\* Every export ends: whichever process, router or writer stops first, no one
\* is left waiting at a queue, a pipe or a join (run, interleave).
ExportEnds == <>(main.pc = "ended")

\* However an export ends, it has settled: a target that is the whole of it, the
\* one that was there before, or none where replacing that one failed, and no
\* trace of it beside (conclude, export).
ExportSettles == CompleteMeansAll /\ NothingLeft
===============================================================================
