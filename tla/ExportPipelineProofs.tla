-------------------------- MODULE ExportPipelineProofs --------------------------
(***************************************************************************)
(* Proofs about ExportPipeline, for any plan, any queues and whatever      *)
(* fails: an export that says it is done has moved a file to the target    *)
(* that holds every packet of every stream, one that ended leaves nothing  *)
(* beside the target, and no stream runs ahead of another in the file.     *)
(***************************************************************************)
EXTENDS ExportPipeline, Extremes

-----------------------------------------------------------------------------
(* The inductive invariant                                                   *)

Working == {"opening", "reading", "sending", "finishing"}
RouterType ==
    [pc : {"reference", "next", "over"} \cup Working,
     segment : Nat \ {0}, piece : Nat \ {0}, packet : Nat \ {0},
     header : {"none", "sent", "error"}, result : {"none", "ok", "failed", "cancelled"}]
ProcessState == {"none", "runs", "feeds", "dropped", "exited", "failed", "cancelled"}
ProducerType == [own : ProcessState, side : ProcessState]
MainType ==
    [pc : {"headers", "first error", "interleave", "join", "rename", "ended"}, queues : BOOLEAN,
     written : {"none", "ok", "failed", "cancelled"}, outcome : {"none", "ok", "failed", "cancelled"}]
MuxerType ==
    [process : {"none", "runs", "exited", "killed", "failed"}, input : BOOLEAN, unread : Nat,
     buffered : BOOLEAN]
Files ==
    [partial : {"absent", "growing", "whole", "short"},
     target : {"absent", "growing", "whole", "short", "old"}]

Shape ==
    /\ cancel \in BOOLEAN /\ asked \in BOOLEAN
    /\ router \in [Routes -> RouterType] /\ producer \in [Routes -> ProducerType]
    /\ queue \in [Routes -> Seq(Nat)] /\ heads \in [Routes -> Nat \cup {Waiting, Ended}]
    /\ main \in MainType /\ out \in Seq(Routes \X Nat)
    /\ muxer \in MuxerType /\ files \in Files

\* Where the router of a route is in its plan.
Cursor(r) == <<router[r].segment, router[r].piece, router[r].packet>>
InPlan(r) ==
    /\ router[r].pc \in {"reference", "next"} => router[r].piece = 1 /\ router[r].packet = 1
    /\ router[r].pc \in Working =>
          /\ router[r].segment \in DOMAIN Plan[r] /\ router[r].piece \in DOMAIN Pieces(r)
          /\ router[r].packet \in 1..Len(PieceOf(r).pts) + 1
          /\ router[r].pc = "sending" => router[r].packet <= Len(PieceOf(r).pts)

\* What was handed over, and what of it is not yet written.
Pending(r) == Range(queue[r]) \cup (IF Open(r) THEN {heads[r]} ELSE {})
Sent(r) == Pending(r) \cup {t \in PacketsOf(r) : <<r, t>> \in Range(out)}

\* Everything before the cursor was handed over.
SentSoFar(r) ==
    router[r].pc # "over" => \A x \in Places(r) : Earlier(x, Cursor(r)) => Time(r, x) \in Sent(r)

\* A process that exited well wrote all it had to, unless its frames stopped
\* coming; and a segment is only left early by a process that failed or starved.
OwnLeft(r) ==
    \E p \in router[r].piece..Len(Pieces(r)) :
        Pieces(r)[p].by = "reader" /\ (p = router[r].piece => router[r].packet <= Len(PieceOf(r).pts))
NothingLost(r) ==
    /\ router[r].pc \in {"reading", "sending"} => producer[r].own # "dropped"
    /\ router[r].pc \in {"reading", "sending"} /\ producer[r].own = "exited" => ~OwnLeft(r) \/ Starved(r)
    /\ router[r].pc = "finishing" =>
          \/ router[r].piece = Len(Pieces(r)) /\ router[r].packet > Len(PieceOf(r).pts)
          \/ producer[r].own = "failed"
          \/ Starved(r)

\* A router that is through and had no error handed everything over.
Resulted(r) ==
    /\ router[r].pc # "over" <=> router[r].result = "none"
    /\ router[r].header = "error" => router[r].result \in {"failed", "cancelled"}
    /\ router[r].result = "ok" => PacketsOf(r) \subseteq Sent(r)

\* A route's packets arrive in the order of the plan.
InOrder(r) ==
    /\ Pending(r) \subseteq PacketsOf(r)
    /\ \A i \in DOMAIN queue[r] : Open(r) => ComesBefore(r, heads[r], queue[r][i])
    /\ \A i, j \in DOMAIN queue[r] : i < j => ComesBefore(r, queue[r][i], queue[r][j])
    /\ router[r].pc # "over" =>
          \A x \in Places(r) : ~Earlier(x, Cursor(r)) =>
             \A s \in Pending(r) : ComesBefore(r, s, Time(r, x))
    /\ router[r].pc = "over" =>
          \A t \in PacketsOf(r) \ Sent(r) : \A s \in Pending(r) : ComesBefore(r, s, t)

RouteInv(r) == InPlan(r) /\ SentSoFar(r) /\ NothingLost(r) /\ Resulted(r) /\ InOrder(r)

\* The export's own thread, the muxer and the files.
MainInv ==
    /\ Range(out) \subseteq Everything
    /\ \A r \in Routes : heads[r] = Ended => queue[r] = <<>> /\ router[r].pc = "over"
    /\ main.pc \in {"headers", "first error"} => muxer.process = "none" /\ files.partial = "absent"
    /\ main.pc = "first error" => \E r \in Routes : router[r].header = "error"
    /\ main.pc \in {"interleave", "join", "rename"} => muxer.process # "none"
    /\ main.pc = "interleave" => muxer.input /\ muxer.process # "exited"
    /\ main.pc \in {"join", "rename"} => main.written # "none"
    /\ main.pc \in {"join", "rename"} /\ main.written = "ok" => \A r \in Routes : heads[r] = Ended
    /\ main.pc \in {"join", "rename"} /\ muxer.process = "exited" =>
          (files.partial = "whole" <=> Range(out) = Everything)
    /\ main.pc = "rename" =>
          /\ OverAll /\ \A r \in Routes : router[r].result = "ok"
          /\ main.written = "ok" /\ muxer.process = "exited"
    /\ main.pc # "ended" => main.outcome = "none"
    /\ main.outcome # "ok" => files.target \in {"old", "absent"}

IInv ==
    /\ Shape /\ MainInv /\ ExportSettles
    /\ \A r \in Routes : RouteInv(r)
-----------------------------------------------------------------------------
(* Lemmas about operators                                                    *)

LEMMA ErrorsShow ==
    ASSUME router \in [Routes -> RouterType], FirstError = "ok"
    PROVE  \A r \in Routes : router[r].result = "ok"
<1> DEFINE wrong == {r \in Routes : router[r].result # "ok"}
<1>1. SUFFICES ASSUME wrong # {} PROVE FALSE
  OBVIOUS
<1>2. Routes \subseteq Int /\ IsFiniteSet(wrong)
  BY PlanAssumption, FS_Subset
<1>3. Min(wrong) \in wrong
  BY <1>1, <1>2, MinIsIn
<1>4. QED
  BY <1>1, <1>3 DEF FirstError

\* A router returns.
LEMMA OverDoes ==
    ASSUME router \in [Routes -> RouterType], producer \in [Routes -> ProducerType],
           NEW r \in Routes, NEW result \in {"ok", "failed", "cancelled"}, Over(r, result)
    PROVE  /\ router' \in [Routes -> RouterType] /\ producer' \in [Routes -> ProducerType]
           /\ \A q \in Routes \ {r} : router'[q] = router[q] /\ producer'[q] = producer[q]
           /\ router'[r].pc = "over" /\ router'[r].result = result
           /\ router'[r].piece = 1 /\ router'[r].packet = 1
           /\ router'[r].header = "error" => router[r].header = "error" \/ result # "ok"
<1> DEFINE rec == [pc |-> "over", segment |-> router[r].segment, piece |-> 1, packet |-> 1, result |-> result,
           header |-> IF result # "ok" /\ router[r].header = "none" THEN "error" ELSE router[r].header]
<1>1. router' = [router EXCEPT ![r] = rec]
  BY DEF Over
<1>2. rec \in RouterType
  BY DEF RouterType
<1>3. producer' = [producer EXCEPT ![r] = Dropped(producer[r])] /\ Dropped(producer[r]) \in ProducerType
  BY DEF Over, Dropped, ProducerType, ProcessState
<1>4. QED
  BY <1>1, <1>2, <1>3
-----------------------------------------------------------------------------
(* The plan, and queues                                                      *)

LEMMA PlanFacts ==
    ASSUME NEW r \in Routes
    PROVE  /\ Plan[r] \in Seq(SegmentType)
           /\ Len(Plan[r]) \in Nat /\ DOMAIN Plan[r] = 1..Len(Plan[r])
           /\ \A i \in DOMAIN Plan[r] :
                 /\ Plan[r][i] \in SegmentType /\ Plan[r][i].pieces \in Seq(PieceType)
                 /\ Len(Plan[r][i].pieces) \in Nat \ {0}
                 /\ DOMAIN Plan[r][i].pieces = 1..Len(Plan[r][i].pieces)
                 /\ \A p \in DOMAIN Plan[r][i].pieces :
                       /\ Plan[r][i].pieces[p] \in PieceType
                       /\ Plan[r][i].pieces[p].pts \in Seq(Nat)
                       /\ Len(Plan[r][i].pieces[p].pts) \in Nat
                       /\ DOMAIN Plan[r][i].pieces[p].pts = 1..Len(Plan[r][i].pieces[p].pts)
                       /\ Plan[r][i].feeds => Plan[r][i].pieces[p].by = "reader"
<1>1. Plan[r] \in Seq(SegmentType)
  BY PlanAssumption
<1>2. \A i \in DOMAIN Plan[r] : Plan[r][i] \in SegmentType
  BY <1>1
<1>3. \A i \in DOMAIN Plan[r] : Plan[r][i].pieces \in Seq(PieceType)
  BY <1>2 DEF SegmentType
<1>4. \A i \in DOMAIN Plan[r] : Len(Plan[r][i].pieces) \in Nat \ {0}
  BY <1>3, PlanAssumption
<1>5. \A i \in DOMAIN Plan[r] : \A p \in DOMAIN Plan[r][i].pieces :
         /\ Plan[r][i].pieces[p] \in PieceType
         /\ Plan[r][i].feeds => Plan[r][i].pieces[p].by = "reader"
  BY <1>3, PlanAssumption
<1>6. \A i \in DOMAIN Plan[r] : \A p \in DOMAIN Plan[r][i].pieces :
         Plan[r][i].pieces[p].pts \in Seq(Nat)
  BY <1>5 DEF PieceType
<1>7. /\ Len(Plan[r]) \in Nat /\ DOMAIN Plan[r] = 1..Len(Plan[r])
      /\ \A i \in DOMAIN Plan[r] : DOMAIN Plan[r][i].pieces = 1..Len(Plan[r][i].pieces)
      /\ \A i \in DOMAIN Plan[r] : \A p \in DOMAIN Plan[r][i].pieces :
            /\ Len(Plan[r][i].pieces[p].pts) \in Nat
            /\ DOMAIN Plan[r][i].pieces[p].pts = 1..Len(Plan[r][i].pieces[p].pts)
  BY <1>1, <1>3, <1>6
<1>8. QED
  BY <1>1, <1>2, <1>3, <1>4, <1>5, <1>6, <1>7

\* A place is one of a packet, and its segment and piece are there.
LEMMA PlaceFacts ==
    ASSUME NEW r \in Routes, NEW x \in Places(r)
    PROVE  /\ x = <<x[1], x[2], x[3]>>
           /\ x[1] \in DOMAIN Plan[r] /\ x[2] \in DOMAIN Plan[r][x[1]].pieces
           /\ x[3] \in DOMAIN Plan[r][x[1]].pieces[x[2]].pts
           /\ x[1] \in Nat /\ x[2] \in Nat /\ x[3] \in Nat
           /\ x[1] >= 1 /\ x[2] >= 1 /\ x[3] >= 1
           /\ x[1] <= Len(Plan[r]) /\ x[2] <= Len(Plan[r][x[1]].pieces)
           /\ x[3] <= Len(Plan[r][x[1]].pieces[x[2]].pts)
           /\ Time(r, x) \in Nat /\ Time(r, x) \in PacketsOf(r)
<1>1a. PICK i \in DOMAIN Plan[r] : \E p \in DOMAIN Plan[r][i].pieces :
          \E k \in DOMAIN Plan[r][i].pieces[p].pts : x = <<i, p, k>>
  BY DEF Places
<1>1b. PICK p \in DOMAIN Plan[r][i].pieces : \E k \in DOMAIN Plan[r][i].pieces[p].pts : x = <<i, p, k>>
  BY <1>1a
<1>1. PICK k \in DOMAIN Plan[r][i].pieces[p].pts : x = <<i, p, k>>
  BY <1>1b
<1>2. x[1] = i /\ x[2] = p /\ x[3] = k
  BY <1>1
<1>3. i \in 1..Len(Plan[r]) /\ Len(Plan[r]) \in Nat
  BY PlanFacts
<1>4. p \in 1..Len(Plan[r][i].pieces) /\ Len(Plan[r][i].pieces) \in Nat
  BY PlanFacts
<1>5. /\ k \in 1..Len(Plan[r][i].pieces[p].pts) /\ Len(Plan[r][i].pieces[p].pts) \in Nat
      /\ Plan[r][i].pieces[p].pts[k] \in Nat
  <2>1. Plan[r][i].pieces[p].pts \in Seq(Nat)
    BY PlanFacts
  <2>2. QED
    BY <2>1
<1>6. Time(r, x) \in Nat
  BY <1>2, <1>5 DEF Time
<1>7. Time(r, x) \in PacketsOf(r)
  BY DEF PacketsOf
<1>8. QED
  BY <1>1, <1>2, <1>3, <1>4, <1>5, <1>6, <1>7

LEMMA PacketsAreTimes == \A r \in Routes : PacketsOf(r) \subseteq Nat
  BY PlaceFacts DEF PacketsOf

LEMMA RangeOfAppend ==
    ASSUME NEW S, NEW s \in Seq(S), NEW e \in S
    PROVE  /\ Append(s, e) \in Seq(S) /\ Range(Append(s, e)) = Range(s) \cup {e}
           /\ Len(Append(s, e)) = Len(s) + 1 /\ DOMAIN Append(s, e) = 1..Len(s) + 1
           /\ \A i \in 1..Len(s) : Append(s, e)[i] = s[i]
           /\ Append(s, e)[Len(s) + 1] = e
  BY DEF Range

LEMMA RangeOfTail ==
    ASSUME NEW S, NEW s \in Seq(S), s # <<>>
    PROVE  /\ Head(s) \in S /\ Tail(s) \in Seq(S) /\ Range(s) = {Head(s)} \cup Range(Tail(s))
           /\ Head(s) = s[1] /\ 1 \in DOMAIN s
           /\ \A i \in DOMAIN Tail(s) : i + 1 \in DOMAIN s /\ Tail(s)[i] = s[i + 1]
<1>1. /\ Head(s) \in S /\ Tail(s) \in Seq(S) /\ Head(s) = s[1] /\ 1 \in DOMAIN s
      /\ Len(Tail(s)) = Len(s) - 1 /\ Len(s) \in Nat /\ Len(s) >= 1
  OBVIOUS
<1>2. \A i \in DOMAIN Tail(s) : i + 1 \in DOMAIN s /\ Tail(s)[i] = s[i + 1]
  BY <1>1
<1>3. \A i \in DOMAIN s : i = 1 \/ (i - 1 \in DOMAIN Tail(s) /\ Tail(s)[i - 1] = s[i])
  BY <1>1
<1>4. Range(s) = {Head(s)} \cup Range(Tail(s))
  BY <1>1, <1>2, <1>3 DEF Range
<1>5. QED
  BY <1>1, <1>2, <1>4

-----------------------------------------------------------------------------
(* A step of one route                                                       *)

LEMMA GoesOnDoes ==
    ASSUME router \in [Routes -> RouterType], NEW r \in Routes,
           NEW pc \in {"next"} \cup Working, NEW segment \in Nat \ {0}, NEW piece \in Nat \ {0},
           NEW packet \in Nat \ {0}, GoesOn(r, pc, segment, piece, packet)
    PROVE  /\ router' \in [Routes -> RouterType]
           /\ \A q \in Routes \ {r} : router'[q] = router[q]
           /\ router'[r].pc = pc /\ router'[r].segment = segment
           /\ router'[r].piece = piece /\ router'[r].packet = packet
           /\ router'[r].result = router[r].result /\ router'[r].header \in {router[r].header, "sent"}
<1> DEFINE rec == [pc |-> pc, segment |-> segment, piece |-> piece, packet |-> packet,
                   header |-> router[r].header, result |-> router[r].result]
<1>1. router' = [router EXCEPT ![r] = rec]
  BY DEF GoesOn
<1>2. rec \in RouterType
  BY DEF RouterType
<1>3. QED
  BY <1>1, <1>2

\* What a route holds depends on its own part of the state.
LEMMA RouteFrame ==
    ASSUME NEW q \in Routes, RouteInv(q), router'[q] = router[q], producer'[q] = producer[q],
           queue'[q] = queue[q], heads'[q] = heads[q],
           \A t : <<q, t>> \in Range(out') <=> <<q, t>> \in Range(out)
    PROVE  RouteInv(q)'
<1>1. (Open(q)' <=> Open(q)) /\ Cursor(q)' = Cursor(q)
  BY DEF Open, Cursor
<1>2. Pending(q)' = Pending(q)
  BY <1>1 DEF Pending
<1>3. Sent(q)' = Sent(q)
  BY <1>2 DEF Sent
<1>4. CurrentSegment(q)' = CurrentSegment(q) /\ Pieces(q)' = Pieces(q) /\ PieceOf(q)' = PieceOf(q)
  BY DEF CurrentSegment, Pieces, PieceOf
<1>5. InPlan(q)'
  BY <1>4 DEF RouteInv, InPlan
<1>6. SentSoFar(q)'
  BY <1>1, <1>3 DEF RouteInv, SentSoFar
<1>7. NothingLost(q)'
  BY <1>4 DEF RouteInv, NothingLost, OwnLeft, Starved
<1>8. Resulted(q)'
  BY <1>3 DEF RouteInv, Resulted
<1>9. InOrder(q)'
  BY <1>1, <1>2, <1>3 DEF RouteInv, InOrder
<1>10. QED
  BY <1>5, <1>6, <1>7, <1>8, <1>9 DEF RouteInv

\* A step of the router that hands nothing over and passes no packet.
LEMMA FrontKeeps ==
    ASSUME NEW r \in Routes, RouteInv(r), router[r].pc # "over",
           queue'[r] = queue[r], heads'[r] = heads[r], out' = out,
           \/ router'[r].pc = "over"
           \/ \A x \in Places(r) : Earlier(x, Cursor(r)') <=> Earlier(x, Cursor(r))
    PROVE  SentSoFar(r)' /\ InOrder(r)' /\ Sent(r)' = Sent(r)
<1>1. Open(r)' <=> Open(r)
  BY DEF Open
<1>2. Pending(r)' = Pending(r)
  BY <1>1 DEF Pending
<1>3. Sent(r)' = Sent(r)
  BY <1>2 DEF Sent
<1>4. SentSoFar(r)'
  BY <1>3 DEF RouteInv, SentSoFar
<1>5. router'[r].pc = "over" =>
        \A t \in PacketsOf(r) \ Sent(r) : \A s \in Pending(r) : ComesBefore(r, s, t)
  <2>1. \A t \in PacketsOf(r) \ Sent(r) : \A s \in Pending(r) : ComesBefore(r, s, t)
    <3>1. SUFFICES ASSUME NEW t \in PacketsOf(r) \ Sent(r), NEW s \in Pending(r)
                   PROVE  ComesBefore(r, s, t)
      OBVIOUS
    <3>2. PICK x \in Places(r) : t = Time(r, x)
      BY DEF PacketsOf
    <3>3. ~Earlier(x, Cursor(r))
      BY <3>1, <3>2 DEF RouteInv, SentSoFar
    <3>4. QED
      BY <3>2, <3>3 DEF RouteInv, InOrder
  <2>2. QED
    BY <2>1
<1>6. router'[r].pc # "over" =>
        \A x \in Places(r) : ~Earlier(x, Cursor(r)') => \A s \in Pending(r) : ComesBefore(r, s, Time(r, x))
  BY DEF RouteInv, InOrder
<1>7. /\ \A i \in DOMAIN queue[r] : Open(r) => ComesBefore(r, heads[r], queue[r][i])
      /\ \A i, j \in DOMAIN queue[r] : i < j => ComesBefore(r, queue[r][i], queue[r][j])
      /\ Pending(r) \subseteq PacketsOf(r)
  BY DEF RouteInv, InOrder
<1>8. InOrder(r)'
  BY <1>1, <1>2, <1>3, <1>5, <1>6, <1>7 DEF InOrder
<1>9. QED
  BY <1>3, <1>4, <1>8

LEMMA OverKeeps ==
    ASSUME router \in [Routes -> RouterType], producer \in [Routes -> ProducerType],
           NEW r \in Routes, RouteInv(r), router[r].pc # "over",
           NEW result \in {"ok", "failed", "cancelled"}, Over(r, result),
           UNCHANGED <<queue, heads, out>>, result = "ok" => PacketsOf(r) \subseteq Sent(r)
    PROVE  RouteInv(r)'
<1>1. /\ router'[r].pc = "over" /\ router'[r].result = result
      /\ router'[r].piece = 1 /\ router'[r].packet = 1
      /\ router'[r].header = "error" => router[r].header = "error" \/ result # "ok"
  BY OverDoes
<1>2. SentSoFar(r)' /\ InOrder(r)' /\ Sent(r)' = Sent(r)
  BY <1>1, FrontKeeps
<1>3. InPlan(r)' /\ NothingLost(r)'
  BY <1>1 DEF InPlan, NothingLost, Working
<1>4. Resulted(r)'
  BY <1>1, <1>2 DEF RouteInv, Resulted
<1>5. QED
  BY <1>2, <1>3, <1>4 DEF RouteInv

\* A step of the router of `r`, or of a process of its.
Stepped(r) ==
    /\ router' \in [Routes -> RouterType] /\ producer' \in [Routes -> ProducerType]
    /\ queue' \in [Routes -> Seq(Nat)]
    /\ router[r].pc # "over" \/ (router' = router /\ queue' = queue)
    /\ \A q \in Routes \ {r} : router'[q] = router[q] /\ producer'[q] = producer[q] /\ queue'[q] = queue[q]
    /\ UNCHANGED <<cancel, asked, main, heads, out, muxer, files>>

LEMMA OverSteps ==
    ASSUME Shape, NEW r \in Routes, RouteInv(r), router[r].pc # "over",
           NEW result \in {"ok", "failed", "cancelled"}, Over(r, result),
           UNCHANGED <<cancel, asked, queue, main, heads, out, muxer, files>>,
           result = "ok" => PacketsOf(r) \subseteq Sent(r)
    PROVE  RouteInv(r)' /\ Stepped(r)
<1>1. RouteInv(r)'
  BY OverKeeps DEF Shape
<1>2. QED
  BY <1>1, OverDoes DEF Shape, Stepped

LEMMA ReferenceSteps ==
    ASSUME Shape, NEW r \in Routes, RouteInv(r), Reference(r)
    PROVE  RouteInv(r)' /\ Stepped(r)
<1>1. CASE Over(r, "failed")
  BY <1>1, OverSteps DEF Reference
<1>2. CASE /\ router' = [router EXCEPT ![r].pc = "next", ![r].header = "sent"]
           /\ UNCHANGED producer
  <2>1. /\ router[r] \in RouterType /\ router[r].pc = "reference"
        /\ UNCHANGED <<cancel, asked, queue, main, heads, out, muxer, files>>
    BY DEF Reference, Shape
  <2>2. /\ router' \in [Routes -> RouterType]
        /\ \A q \in Routes \ {r} : router'[q] = router[q]
        /\ router'[r].pc = "next" /\ router'[r].segment = router[r].segment
        /\ router'[r].piece = router[r].piece /\ router'[r].packet = router[r].packet
        /\ router'[r].result = router[r].result /\ router'[r].header \in {router[r].header, "sent"}
    BY <1>2, <2>1 DEF Shape, RouterType
  <2>3. Stepped(r)
    BY <1>2, <2>1, <2>2 DEF Shape, Stepped
  <2>4. Cursor(r)' = Cursor(r)
    BY <2>2 DEF Cursor
  <2>5. SentSoFar(r)' /\ InOrder(r)' /\ Sent(r)' = Sent(r)
    BY <2>1, <2>2, <2>4, FrontKeeps
  <2>6. InPlan(r)' /\ NothingLost(r)' /\ Resulted(r)'
    BY <2>1, <2>2, <2>5 DEF RouteInv, InPlan, NothingLost, Resulted, Working
  <2>7. QED
    BY <2>3, <2>5, <2>6 DEF RouteInv
<1>3. QED
  BY <1>1, <1>2 DEF Reference

\* Past the last segment, everything was handed over.
LEMMA OpenSegmentSteps ==
    ASSUME Shape, NEW r \in Routes, RouteInv(r), OpenSegment(r)
    PROVE  RouteInv(r)' /\ Stepped(r)
<1>1. /\ router[r] \in RouterType /\ router[r].pc = "next" /\ Planned(r) = Plan[r]
      /\ UNCHANGED <<cancel, asked, queue, main, heads, out, muxer, files>>
      /\ router[r].piece = 1 /\ router[r].packet = 1
  BY DEF OpenSegment, Planned, Shape, RouteInv, InPlan
<1>2. CASE router[r].segment > Len(Planned(r)) /\ Over(r, "ok")
  <2>1. \A x \in Places(r) : Earlier(x, Cursor(r))
    <3>1. SUFFICES ASSUME NEW x \in Places(r) PROVE Earlier(x, Cursor(r))
      OBVIOUS
    <3>2. x[1] \in Nat /\ x[1] <= Len(Plan[r])
      BY PlaceFacts
    <3>3. router[r].segment \in Nat /\ Len(Plan[r]) \in Nat
      BY <1>1, PlanFacts DEF RouterType
    <3>4. x[1] < router[r].segment
      BY <1>1, <1>2, <3>2, <3>3
    <3>5. QED
      BY <3>4 DEF Earlier, Cursor
  <2>2. PacketsOf(r) \subseteq Sent(r)
    BY <1>1, <2>1 DEF RouteInv, SentSoFar, PacketsOf
  <2>3. QED
    BY <1>1, <1>2, <2>2, OverSteps
<1>3. CASE Over(r, "cancelled")
  BY <1>1, <1>3, OverSteps
<1>4. CASE /\ router[r].segment <= Len(Planned(r))
           /\ GoesOn(r, "opening", router[r].segment, 1, 1)
           /\ producer' = [producer EXCEPT ![r] =
                [own |-> "runs", side |-> IF CurrentSegment(r).feeds THEN "feeds" ELSE "none"]]
  <2>1. /\ router' \in [Routes -> RouterType]
        /\ \A q \in Routes \ {r} : router'[q] = router[q]
        /\ router'[r].pc = "opening" /\ router'[r].segment = router[r].segment
        /\ router'[r].piece = 1 /\ router'[r].packet = 1
        /\ router'[r].result = router[r].result /\ router'[r].header \in {router[r].header, "sent"}
    <3>1. /\ "opening" \in {"next"} \cup Working /\ router[r].segment \in Nat \ {0}
          /\ 1 \in Nat \ {0} /\ router \in [Routes -> RouterType]
          /\ GoesOn(r, "opening", router[r].segment, 1, 1)
      BY <1>1, <1>4 DEF Shape, RouterType, Working
    <3>2. QED
      BY <3>1, GoesOnDoes, Zenon
  <2>2. /\ producer' \in [Routes -> ProducerType]
        /\ \A q \in Routes \ {r} : producer'[q] = producer[q]
    BY <1>4 DEF Shape, ProducerType, ProcessState
  <2>3. Stepped(r)
    BY <1>1, <2>1, <2>2 DEF Shape, Stepped
  <2>4. Cursor(r)' = Cursor(r)
    BY <1>1, <2>1 DEF Cursor
  <2>5. SentSoFar(r)' /\ InOrder(r)' /\ Sent(r)' = Sent(r)
    BY <1>1, <2>1, <2>4, FrontKeeps
  <2>6. InPlan(r)'
    <3>1. router[r].segment \in DOMAIN Plan[r]
      BY <1>1, <1>4, PlanFacts DEF RouterType
    <3>2. 1 \in DOMAIN Plan[r][router[r].segment].pieces
      BY <3>1, PlanFacts
    <3>3. Len(Plan[r][router[r].segment].pieces[1].pts) \in Nat
      BY <3>1, <3>2, PlanFacts
    <3>4. /\ Pieces(r)' = Plan[r][router[r].segment].pieces
          /\ PieceOf(r)' = Plan[r][router[r].segment].pieces[1]
      BY <2>1 DEF Pieces, PieceOf, CurrentSegment
    <3>5. 1 \in 1..Len(Plan[r][router[r].segment].pieces[1].pts) + 1
      <4>1. \A n \in Nat : 1 \in 1..n + 1
        OBVIOUS
      <4>2. QED
        BY <3>3, <4>1
    <3>6. QED
      BY <2>1, <3>1, <3>2, <3>4, <3>5 DEF InPlan, Working
  <2>7. NothingLost(r)' /\ Resulted(r)'
    BY <1>1, <2>1, <2>5 DEF RouteInv, NothingLost, Resulted
  <2>8. QED
    BY <2>3, <2>5, <2>6, <2>7 DEF RouteInv
<1>5. QED
  BY <1>2, <1>3, <1>4 DEF OpenSegment

\* A process that has a header is running, and nothing of it is lost yet.
LEMMA ReadHeaderSteps ==
    ASSUME Shape, NEW r \in Routes, RouteInv(r), ReadHeader(r)
    PROVE  RouteInv(r)' /\ Stepped(r)
<1>1. /\ router[r] \in RouterType /\ router[r].pc = "opening"
      /\ UNCHANGED <<cancel, asked, queue, main, heads, out, muxer, files>>
  BY DEF ReadHeader, Shape
<1>2. CASE Over(r, "failed")
  BY <1>1, <1>2, OverSteps
<1>3. CASE /\ producer[r].own = "runs" /\ UNCHANGED producer
           /\ router' = [router EXCEPT ![r].pc = "reading", ![r].header = "sent"]
  <2>1. /\ router' \in [Routes -> RouterType]
        /\ \A q \in Routes \ {r} : router'[q] = router[q]
        /\ router'[r].pc = "reading" /\ router'[r].segment = router[r].segment
        /\ router'[r].piece = router[r].piece /\ router'[r].packet = router[r].packet
        /\ router'[r].result = router[r].result /\ router'[r].header \in {router[r].header, "sent"}
    BY <1>1, <1>3 DEF Shape, RouterType, Working
  <2>2. Stepped(r)
    BY <1>1, <1>3, <2>1 DEF Shape, Stepped
  <2>3. Cursor(r)' = Cursor(r)
    BY <2>1 DEF Cursor
  <2>4. SentSoFar(r)' /\ InOrder(r)' /\ Sent(r)' = Sent(r)
    BY <1>1, <2>1, <2>3, FrontKeeps
  <2>5. InPlan(r)' /\ NothingLost(r)' /\ Resulted(r)'
    BY <1>1, <1>3, <2>1, <2>4
       DEF RouteInv, InPlan, NothingLost, Resulted, Working, Pieces, PieceOf, CurrentSegment
  <2>6. QED
    BY <2>2, <2>4, <2>5 DEF RouteInv
<1>4. QED
  BY <1>2, <1>3 DEF ReadHeader

\* Where a router works is a piece of the plan.
LEMMA AtWork ==
    ASSUME Shape, NEW r \in Routes, RouteInv(r), router[r].pc \in Working
    PROVE  /\ router[r].segment \in DOMAIN Plan[r] /\ router[r].piece \in DOMAIN Pieces(r)
           /\ Pieces(r) = Plan[r][router[r].segment].pieces
           /\ PieceOf(r) = Plan[r][router[r].segment].pieces[router[r].piece]
           /\ router[r].segment \in Nat \ {0} /\ router[r].piece \in Nat \ {0}
           /\ router[r].packet \in Nat \ {0}
           /\ Len(Pieces(r)) \in Nat \ {0} /\ DOMAIN Pieces(r) = 1..Len(Pieces(r))
           /\ Len(PieceOf(r).pts) \in Nat /\ PieceOf(r).pts \in Seq(Nat)
           /\ DOMAIN PieceOf(r).pts = 1..Len(PieceOf(r).pts)
           /\ PieceOf(r).by \in {"reader", "seam"}
           /\ router[r].packet <= Len(PieceOf(r).pts) + 1
           /\ CurrentSegment(r).feeds => PieceOf(r).by = "reader"
           /\ router[r].result = "none"
<1>1. /\ router[r].segment \in DOMAIN Plan[r] /\ router[r].piece \in DOMAIN Pieces(r)
      /\ router[r].packet \in 1..Len(PieceOf(r).pts) + 1
  BY DEF RouteInv, InPlan
<1>2. /\ CurrentSegment(r) = Plan[r][router[r].segment]
      /\ Pieces(r) = Plan[r][router[r].segment].pieces
      /\ PieceOf(r) = Plan[r][router[r].segment].pieces[router[r].piece]
  BY DEF CurrentSegment, Pieces, PieceOf
<1>3. router[r] \in RouterType
  BY DEF Shape
<1>4. /\ router[r].segment \in Nat \ {0} /\ router[r].piece \in Nat \ {0}
      /\ router[r].packet \in Nat \ {0}
  BY <1>3 DEF RouterType
<1> DEFINE pieces == Plan[r][router[r].segment].pieces
           piece == pieces[router[r].piece]
<1>5. /\ Len(Pieces(r)) \in Nat \ {0} /\ DOMAIN Pieces(r) = 1..Len(Pieces(r))
  <2>1. Len(pieces) \in Nat \ {0} /\ DOMAIN pieces = 1..Len(pieces)
    BY <1>1, PlanFacts
  <2>2. QED
    BY <1>2, <2>1
<1>6. /\ Len(PieceOf(r).pts) \in Nat /\ PieceOf(r).pts \in Seq(Nat) /\ PieceOf(r) \in PieceType
      /\ DOMAIN PieceOf(r).pts = 1..Len(PieceOf(r).pts)
      /\ CurrentSegment(r).feeds => PieceOf(r).by = "reader"
  <2>1. router[r].piece \in DOMAIN pieces
    BY <1>1, <1>2
  <2>2. /\ Len(piece.pts) \in Nat /\ piece.pts \in Seq(Nat) /\ piece \in PieceType
        /\ DOMAIN piece.pts = 1..Len(piece.pts)
        /\ Plan[r][router[r].segment].feeds => piece.by = "reader"
    BY <1>1, <2>1, PlanFacts
  <2>3. PieceOf(r) = piece
    BY <1>2
  <2> HIDE DEF piece
  <2>4. QED
    BY <1>2, <2>2, <2>3
<1>7. PieceOf(r).by \in {"reader", "seam"}
  BY <1>6 DEF PieceType
<1>8. router[r].packet <= Len(PieceOf(r).pts) + 1
  BY <1>1, <1>6
<1>9. router[r].result = "none"
  BY DEF RouteInv, Resulted, Working
<1>10. QED
  BY <1>1, <1>2, <1>4, <1>5, <1>6, <1>7, <1>8, <1>9

LEMMA OpenSeamSteps ==
    ASSUME Shape, NEW r \in Routes, RouteInv(r), OpenSeam(r)
    PROVE  RouteInv(r)' /\ Stepped(r)
<1>1. /\ router[r].pc = "reading" /\ PieceOf(r).by = "seam"
      /\ UNCHANGED <<cancel, asked, queue, main, heads, out, muxer, files>>
  BY DEF OpenSeam
<1>2. CASE Over(r, "failed")
  BY <1>1, <1>2, OverSteps
<1>3. CASE producer' = [producer EXCEPT ![r].side = "runs"] /\ UNCHANGED router
  <2>1. /\ producer' \in [Routes -> ProducerType] /\ producer'[r].own = producer[r].own
        /\ \A q \in Routes \ {r} : producer'[q] = producer[q]
    BY <1>3 DEF Shape, ProducerType, ProcessState
  <2>2. Stepped(r)
    BY <1>1, <1>3, <2>1 DEF Shape, Stepped
  <2>3. SentSoFar(r)' /\ InOrder(r)' /\ Sent(r)' = Sent(r)
    BY <1>1, <1>3, FrontKeeps DEF Cursor
  <2>4. InPlan(r)' /\ Resulted(r)'
    BY <1>3, <2>3 DEF RouteInv, InPlan, Resulted, Pieces, PieceOf, CurrentSegment
  <2>5. ~CurrentSegment(r).feeds
    BY <1>1, AtWork DEF Working
  <2>6. NothingLost(r)'
    BY <1>1, <1>3, <2>1, <2>5
       DEF RouteInv, NothingLost, OwnLeft, Starved, Pieces, PieceOf, CurrentSegment
  <2>7. QED
    BY <2>2, <2>3, <2>4, <2>6 DEF RouteInv
<1>4. QED
  BY <1>2, <1>3 DEF OpenSeam

LEMMA ReadPacketSteps ==
    ASSUME Shape, NEW r \in Routes, RouteInv(r), ReadPacket(r)
    PROVE  RouteInv(r)' /\ Stepped(r)
<1>1. /\ router[r] \in RouterType /\ router[r].pc = "reading"
      /\ router[r].packet <= Len(PieceOf(r).pts)
      /\ UNCHANGED <<cancel, asked, queue, main, heads, out, muxer, files>>
  BY DEF ReadPacket, Shape
<1>2. CASE Over(r, "cancelled")
  BY <1>1, <1>2, OverSteps
<1>3. CASE router' = [router EXCEPT ![r].pc = "sending"] /\ UNCHANGED producer
  <2>1. /\ router' \in [Routes -> RouterType]
        /\ \A q \in Routes \ {r} : router'[q] = router[q]
        /\ router'[r].pc = "sending" /\ router'[r].segment = router[r].segment
        /\ router'[r].piece = router[r].piece /\ router'[r].packet = router[r].packet
        /\ router'[r].result = router[r].result /\ router'[r].header \in {router[r].header, "sent"}
    BY <1>1, <1>3 DEF Shape, RouterType, Working
  <2>2. Stepped(r)
    BY <1>1, <1>3, <2>1 DEF Shape, Stepped
  <2>3. Cursor(r)' = Cursor(r)
    BY <2>1 DEF Cursor
  <2>4. SentSoFar(r)' /\ InOrder(r)' /\ Sent(r)' = Sent(r)
    BY <1>1, <2>1, <2>3, FrontKeeps
  <2>5. CurrentSegment(r)' = CurrentSegment(r) /\ Pieces(r)' = Pieces(r) /\ PieceOf(r)' = PieceOf(r)
    BY <2>1 DEF CurrentSegment, Pieces, PieceOf
  <2>6. InPlan(r)' /\ Resulted(r)'
    BY <1>1, <2>1, <2>4, <2>5 DEF RouteInv, InPlan, Resulted, Working
  <2>7. NothingLost(r)'
    BY <1>1, <1>3, <2>1, <2>5 DEF RouteInv, NothingLost, OwnLeft, Starved
  <2>8. QED
    BY <2>2, <2>4, <2>6, <2>7 DEF RouteInv
<1>4. QED
  BY <1>2, <1>3 DEF ReadPacket

LEMMA PlaceIsIn ==
    ASSUME NEW r \in Routes, NEW i \in DOMAIN Plan[r], NEW p \in DOMAIN Plan[r][i].pieces,
           NEW k \in DOMAIN Plan[r][i].pieces[p].pts
    PROVE  <<i, p, k>> \in Places(r)
<1> DEFINE A == {<<i, p, m>> : m \in DOMAIN Plan[r][i].pieces[p].pts}
           B(n) == {{<<n, o, m>> : m \in DOMAIN Plan[r][n].pieces[o].pts} :
                       o \in DOMAIN Plan[r][n].pieces}
<1>1. <<i, p, k>> \in A
  OBVIOUS
<1>2. A \in B(i)
  OBVIOUS
<1> HIDE DEF A
<1>3. <<i, p, k>> \in UNION B(i)
  BY <1>1, <1>2
<1>4. Places(r) = UNION {UNION B(n) : n \in DOMAIN Plan[r]}
  BY DEF Places
<1> HIDE DEF B
<1>5. QED
  BY <1>3, <1>4

\* A packet handed over is the one at the cursor, which moves past it.
LEMMA SendPacketSteps ==
    ASSUME Shape, NEW r \in Routes, RouteInv(r), SendPacket(r)
    PROVE  RouteInv(r)' /\ Stepped(r)
<1>1. /\ router[r] \in RouterType /\ router[r].pc = "sending"
      /\ UNCHANGED <<cancel, asked, main, heads, out, muxer, files>>
  BY DEF SendPacket, Shape
<1>2. CASE Over(r, "cancelled") /\ UNCHANGED queue
  BY <1>1, <1>2, OverSteps
<1> DEFINE x0 == Cursor(r)
           t0 == PieceOf(r).pts[router[r].packet]
<1>3. CASE /\ queue' = [queue EXCEPT ![r] = Append(queue[r], t0)]
           /\ GoesOn(r, "reading", router[r].segment, router[r].piece, router[r].packet + 1)
           /\ UNCHANGED producer
  <2>1. /\ router[r].segment \in DOMAIN Plan[r] /\ router[r].piece \in DOMAIN Pieces(r)
        /\ Pieces(r) = Plan[r][router[r].segment].pieces
        /\ PieceOf(r) = Plan[r][router[r].segment].pieces[router[r].piece]
        /\ router[r].segment \in Nat \ {0} /\ router[r].piece \in Nat \ {0}
        /\ router[r].packet \in Nat \ {0} /\ router[r].packet + 1 \in Nat \ {0}
        /\ Len(PieceOf(r).pts) \in Nat /\ PieceOf(r).pts \in Seq(Nat)
        /\ DOMAIN PieceOf(r).pts = 1..Len(PieceOf(r).pts)
    BY <1>1, AtWork DEF Working
  <2>2. router[r].packet <= Len(PieceOf(r).pts)
    BY <1>1 DEF RouteInv, InPlan, Working
  <2>3. router[r].packet \in DOMAIN PieceOf(r).pts /\ t0 \in Nat
    <3>1. \A n \in Nat : \A k \in Nat \ {0} : k <= n => k \in 1..n
      OBVIOUS
    <3>2. router[r].packet \in DOMAIN PieceOf(r).pts
      BY <2>1, <2>2, <3>1
    <3>3. \A q \in Seq(Nat) : \A k \in DOMAIN q : q[k] \in Nat
      OBVIOUS
    <3>4. QED
      BY <2>1, <3>2, <3>3
  <2>4. x0 \in Places(r) /\ Time(r, x0) = t0 /\ t0 \in PacketsOf(r)
    <3>1. x0 = <<router[r].segment, router[r].piece, router[r].packet>>
      BY DEF Cursor
    <3>2. \A i \in DOMAIN Plan[r] : \A p \in DOMAIN Plan[r][i].pieces :
             \A k \in DOMAIN Plan[r][i].pieces[p].pts : <<i, p, k>> \in Places(r)
      BY PlaceIsIn
    <3>3. x0 \in Places(r)
      BY <2>1, <2>3, <3>1, <3>2
    <3>4. Time(r, x0) = t0
      BY <2>1, <3>1 DEF Time
    <3>5. QED
      BY <3>3, <3>4 DEF PacketsOf
  <2>5. /\ router' \in [Routes -> RouterType]
        /\ \A q \in Routes \ {r} : router'[q] = router[q]
        /\ router'[r].pc = "reading" /\ router'[r].segment = router[r].segment
        /\ router'[r].piece = router[r].piece /\ router'[r].packet = router[r].packet + 1
        /\ router'[r].result = router[r].result /\ router'[r].header \in {router[r].header, "sent"}
    <3>1. "reading" \in {"next"} \cup Working /\ router \in [Routes -> RouterType]
      BY DEF Shape, Working
    <3>2. QED
      BY <1>3, <2>1, <3>1, GoesOnDoes, Zenon
  <2>6. /\ queue[r] \in Seq(Nat) /\ queue'[r] = Append(queue[r], t0) /\ queue'[r] \in Seq(Nat)
        /\ Range(queue'[r]) = Range(queue[r]) \cup {t0}
        /\ DOMAIN queue'[r] = 1..Len(queue[r]) + 1 /\ DOMAIN queue[r] = 1..Len(queue[r])
        /\ \A i \in 1..Len(queue[r]) : queue'[r][i] = queue[r][i]
        /\ queue'[r][Len(queue[r]) + 1] = t0 /\ Len(queue[r]) \in Nat
    <3>1. queue[r] \in Seq(Nat) /\ queue'[r] = Append(queue[r], t0)
      BY <1>3 DEF Shape
    <3>2. QED
      BY <2>3, <3>1, RangeOfAppend
  <2>7. Stepped(r)
    <3>1. queue' \in [Routes -> Seq(Nat)] /\ \A q \in Routes \ {r} : queue'[q] = queue[q]
      BY <1>3, <2>6 DEF Shape
    <3>2. QED
      BY <1>1, <1>3, <2>5, <3>1 DEF Shape, Stepped
  <2>8. (Open(r)' <=> Open(r)) /\ heads'[r] = heads[r]
    BY <1>1 DEF Open
  <2>9. Pending(r)' = Pending(r) \cup {t0}
    BY <2>6, <2>8 DEF Pending
  <2>10. Sent(r)' = Sent(r) \cup {t0}
    BY <1>1, <2>9 DEF Sent
  <2>11. \A x \in Places(r) : /\ Earlier(x, Cursor(r)') <=> (Earlier(x, x0) \/ x = x0)
                              /\ Earlier(x, Cursor(r)') \/ Earlier(x0, x)
    <3>1. SUFFICES ASSUME NEW x \in Places(r)
                   PROVE  /\ Earlier(x, Cursor(r)') <=> (Earlier(x, x0) \/ x = x0)
                          /\ Earlier(x, Cursor(r)') \/ Earlier(x0, x)
      OBVIOUS
    <3>2. x = <<x[1], x[2], x[3]>> /\ x[1] \in Nat /\ x[2] \in Nat /\ x[3] \in Nat
      BY PlaceFacts
    <3>3. /\ Cursor(r)' = <<router[r].segment, router[r].piece, router[r].packet + 1>>
          /\ x0 = <<router[r].segment, router[r].piece, router[r].packet>>
      BY <2>5 DEF Cursor
    <3>4. x = x0 <=> x[1] = router[r].segment /\ x[2] = router[r].piece /\ x[3] = router[r].packet
      BY <3>2, <3>3
    <3>5. QED
      BY <2>1, <3>2, <3>3, <3>4 DEF Earlier
  <2> HIDE DEF x0, t0
  <2>12. SentSoFar(r)'
    BY <1>1, <2>4, <2>10, <2>11 DEF RouteInv, SentSoFar, x0
  <2>13. \A s \in Pending(r) : ComesBefore(r, s, t0)
    <3>1. ~Earlier(x0, x0)
      BY <2>1 DEF Earlier, x0, Cursor
    <3>2. QED
      BY <1>1, <2>4, <3>1 DEF RouteInv, InOrder, x0
  <2>14. \A x \in Places(r) : ~Earlier(x, Cursor(r)') =>
            \A s \in Pending(r) \cup {t0} : ComesBefore(r, s, Time(r, x))
    <3>1. SUFFICES ASSUME NEW x \in Places(r), ~Earlier(x, Cursor(r)'), NEW s \in Pending(r) \cup {t0}
                   PROVE  ComesBefore(r, s, Time(r, x))
      OBVIOUS
    <3>2. ~Earlier(x, x0) /\ Earlier(x0, x)
      BY <2>11, <3>1
    <3>3. CASE s = t0
      BY <2>4, <3>2, <3>3 DEF ComesBefore
    <3>4. CASE s \in Pending(r)
      BY <1>1, <3>2, <3>4 DEF RouteInv, InOrder, x0
    <3>5. QED
      BY <3>1, <3>3, <3>4
  <2>15. \A i \in DOMAIN queue'[r] : Open(r) => ComesBefore(r, heads[r], queue'[r][i])
    <3>1. SUFFICES ASSUME NEW i \in DOMAIN queue'[r], Open(r)
                   PROVE  ComesBefore(r, heads[r], queue'[r][i])
      OBVIOUS
    <3>2. heads[r] \in Pending(r)
      BY <3>1 DEF Pending
    <3>3. CASE i \in 1..Len(queue[r])
      BY <2>6, <3>1, <3>3 DEF RouteInv, InOrder
    <3>4. CASE i = Len(queue[r]) + 1
      BY <2>6, <2>13, <3>2, <3>4
    <3>5. QED
      BY <2>6, <3>3, <3>4
  <2>16. \A i, j \in DOMAIN queue'[r] : i < j => ComesBefore(r, queue'[r][i], queue'[r][j])
    <3>1. SUFFICES ASSUME NEW i \in DOMAIN queue'[r], NEW j \in DOMAIN queue'[r], i < j
                   PROVE  ComesBefore(r, queue'[r][i], queue'[r][j])
      OBVIOUS
    <3>2. i \in 1..Len(queue[r]) /\ (j \in 1..Len(queue[r]) \/ j = Len(queue[r]) + 1)
      BY <2>6, <3>1
    <3>3. CASE j \in 1..Len(queue[r])
      BY <2>6, <3>1, <3>2, <3>3 DEF RouteInv, InOrder
    <3>4. CASE j = Len(queue[r]) + 1
      <4>1. queue[r][i] \in Pending(r)
        BY <2>6, <3>2 DEF Pending, Range
      <4>2. QED
        BY <2>6, <2>13, <3>2, <3>4, <4>1
    <3>5. QED
      BY <3>2, <3>3, <3>4
  <2>17. InOrder(r)'
    <3>1. Pending(r)' \subseteq PacketsOf(r)
      BY <2>4, <2>9 DEF RouteInv, InOrder
    <3>2. QED
      BY <2>5, <2>8, <2>9, <2>14, <2>15, <2>16, <3>1 DEF InOrder
  <2>18. CurrentSegment(r)' = CurrentSegment(r) /\ Pieces(r)' = Pieces(r) /\ PieceOf(r)' = PieceOf(r)
    BY <2>5 DEF CurrentSegment, Pieces, PieceOf
  <2>19. InPlan(r)'
    <3>1. router[r].packet + 1 \in 1..Len(PieceOf(r).pts) + 1
      <4>1. \A n \in Nat : \A k \in Nat \ {0} : k <= n => k + 1 \in 1..n + 1
        OBVIOUS
      <4>2. QED
        BY <2>1, <2>2, <4>1
    <3>2. QED
      BY <2>1, <2>5, <2>18, <3>1 DEF InPlan, Working
  <2>20. OwnLeft(r)' => OwnLeft(r)
    <3>1. router[r].packet + 1 <= Len(PieceOf(r).pts) => router[r].packet <= Len(PieceOf(r).pts)
      BY <2>2
    <3>2. QED
      BY <2>5, <2>18, <3>1 DEF OwnLeft
  <2>21. NothingLost(r)' /\ Resulted(r)'
    <3>1. Starved(r)' = Starved(r) /\ producer'[r] = producer[r]
      BY <1>3, <2>18 DEF Starved
    <3>2. NothingLost(r)'
      BY <1>1, <2>5, <2>20, <3>1 DEF RouteInv, NothingLost
    <3>3. Resulted(r)'
      BY <1>1, <2>5 DEF RouteInv, Resulted
    <3>4. QED
      BY <3>2, <3>3
  <2>22. QED
    BY <2>7, <2>12, <2>17, <2>19, <2>21 DEF RouteInv
<1>4. QED
  BY <1>2, <1>3 DEF SendPacket

\* A piece is left when all of it was handed over, or its process broke off.
LEMMA EndPieceSteps ==
    ASSUME Shape, NEW r \in Routes, RouteInv(r), EndPiece(r)
    PROVE  RouteInv(r)' /\ Stepped(r)
<1> DEFINE through == router[r].packet > Len(PieceOf(r).pts)
           more == through /\ router[r].piece < Len(Pieces(r))
<1>1. /\ router[r] \in RouterType /\ router[r].pc = "reading"
      /\ through \/ Source(r) \in {"failed", "exited"}
      /\ UNCHANGED <<cancel, asked, queue, main, heads, out, muxer, files>>
  BY DEF EndPiece, Shape
<1>2. CASE Over(r, "failed")
  BY <1>1, <1>2, OverSteps
<1>3. CASE /\ PieceOf(r).by = "seam" => through
           /\ IF more THEN GoesOn(r, "reading", router[r].segment, router[r].piece + 1, 1)
              ELSE GoesOn(r, "finishing", router[r].segment, router[r].piece, router[r].packet)
           /\ producer' = [producer EXCEPT ![r].side = IF PieceOf(r).by = "seam" THEN "none" ELSE @]
  <2>1. /\ router[r].segment \in DOMAIN Plan[r] /\ router[r].piece \in DOMAIN Pieces(r)
        /\ Pieces(r) = Plan[r][router[r].segment].pieces
        /\ PieceOf(r) = Plan[r][router[r].segment].pieces[router[r].piece]
        /\ router[r].segment \in Nat \ {0} /\ router[r].piece \in Nat \ {0}
        /\ router[r].packet \in Nat \ {0} /\ router[r].piece + 1 \in Nat \ {0} /\ 1 \in Nat \ {0}
        /\ Len(PieceOf(r).pts) \in Nat /\ PieceOf(r).by \in {"reader", "seam"}
        /\ CurrentSegment(r).feeds => PieceOf(r).by = "reader"
        /\ Len(Pieces(r)) \in Nat \ {0} /\ DOMAIN Pieces(r) = 1..Len(Pieces(r))
        /\ router[r].packet <= Len(PieceOf(r).pts) + 1
    BY <1>1, AtWork DEF Working
  <2>2. /\ router' \in [Routes -> RouterType]
        /\ \A q \in Routes \ {r} : router'[q] = router[q]
        /\ router'[r].segment = router[r].segment /\ router'[r].result = router[r].result /\ router'[r].header \in {router[r].header, "sent"}
        /\ more => /\ router'[r].pc = "reading" /\ router'[r].piece = router[r].piece + 1
                   /\ router'[r].packet = 1
        /\ ~more => /\ router'[r].pc = "finishing" /\ router'[r].piece = router[r].piece
                    /\ router'[r].packet = router[r].packet
    <3>1. {"reading", "finishing"} \subseteq {"next"} \cup Working /\ router \in [Routes -> RouterType]
      BY DEF Shape, Working
    <3> HIDE DEF more
    <3>2. CASE more
      <4>1. GoesOn(r, "reading", router[r].segment, router[r].piece + 1, 1) /\ "reading" \in {"next"} \cup Working
        BY <1>3, <3>1, <3>2
      <4>2. /\ router' \in [Routes -> RouterType]
            /\ \A q \in Routes \ {r} : router'[q] = router[q]
            /\ router'[r].pc = "reading" /\ router'[r].segment = router[r].segment
            /\ router'[r].piece = router[r].piece + 1 /\ router'[r].packet = 1
            /\ router'[r].result = router[r].result /\ router'[r].header \in {router[r].header, "sent"}
        BY <2>1, <3>1, <4>1, GoesOnDoes, Zenon
      <4>3. QED
        BY <3>2, <4>2
    <3>3. CASE ~more
      <4>1. /\ GoesOn(r, "finishing", router[r].segment, router[r].piece, router[r].packet)
            /\ "finishing" \in {"next"} \cup Working
        BY <1>3, <3>1, <3>3
      <4>2. /\ router' \in [Routes -> RouterType]
            /\ \A q \in Routes \ {r} : router'[q] = router[q]
            /\ router'[r].pc = "finishing" /\ router'[r].segment = router[r].segment
            /\ router'[r].piece = router[r].piece /\ router'[r].packet = router[r].packet
            /\ router'[r].result = router[r].result /\ router'[r].header \in {router[r].header, "sent"}
        BY <2>1, <3>1, <4>1, GoesOnDoes, Zenon
      <4>3. QED
        BY <3>3, <4>2
    <3>4. QED
      BY <3>2, <3>3
  <2>3. /\ producer' \in [Routes -> ProducerType] /\ producer'[r].own = producer[r].own
        /\ \A q \in Routes \ {r} : producer'[q] = producer[q]
        /\ PieceOf(r).by # "seam" => producer'[r] = producer[r]
    BY <1>3 DEF Shape, ProducerType, ProcessState
  <2>4. Stepped(r)
    BY <1>1, <2>2, <2>3 DEF Shape, Stepped
  <2>5. \A x \in Places(r) : Earlier(x, Cursor(r)') <=> Earlier(x, Cursor(r))
    <3>1. CASE ~more
      BY <2>2, <3>1 DEF Cursor
    <3>2. CASE more
      <4>1. SUFFICES ASSUME NEW x \in Places(r) PROVE Earlier(x, Cursor(r)') <=> Earlier(x, Cursor(r))
        OBVIOUS
      <4>2. /\ x[1] \in Nat /\ x[2] \in Nat /\ x[3] \in Nat /\ x[3] >= 1
            /\ x[3] <= Len(Plan[r][x[1]].pieces[x[2]].pts)
        BY PlaceFacts
      <4>3. /\ Cursor(r)' = <<router[r].segment, router[r].piece + 1, 1>>
            /\ Cursor(r) = <<router[r].segment, router[r].piece, router[r].packet>>
        BY <2>2, <3>2 DEF Cursor
      <4>4. x[1] = router[r].segment /\ x[2] = router[r].piece => x[3] < router[r].packet
        <5>1. SUFFICES ASSUME x[1] = router[r].segment, x[2] = router[r].piece
                       PROVE  x[3] < router[r].packet
          OBVIOUS
        <5>2. x[3] <= Len(PieceOf(r).pts)
          BY <2>1, <4>2, <5>1
        <5>3. \A m, n, k \in Nat : m <= n /\ k > n => m < k
          OBVIOUS
        <5>4. QED
          BY <2>1, <3>2, <4>2, <5>2, <5>3
      <4>5. x[2] < router[r].piece + 1 <=> (x[2] < router[r].piece \/ x[2] = router[r].piece)
        BY <2>1, <4>2
      <4>6. QED
        BY <4>2, <4>3, <4>4, <4>5 DEF Earlier
    <3>3. QED
      BY <3>1, <3>2
  <2>6. SentSoFar(r)' /\ InOrder(r)' /\ Sent(r)' = Sent(r)
    BY <1>1, <2>5, FrontKeeps
  <2>7. CurrentSegment(r)' = CurrentSegment(r) /\ Pieces(r)' = Pieces(r)
    BY <2>2 DEF CurrentSegment, Pieces
  <2>8. InPlan(r)'
    <3>1. CASE more
      <4>1. router[r].piece + 1 \in DOMAIN Pieces(r)
        <5>1. \A n \in Nat : \A k \in Nat \ {0} : k < n => k + 1 \in 1..n
          OBVIOUS
        <5>2. QED
          BY <2>1, <3>1, <5>1
      <4>2. 1 \in 1..Len(PieceOf(r)'.pts) + 1
        <5>1. PieceOf(r)' = Plan[r][router[r].segment].pieces[router[r].piece + 1]
          BY <2>1, <2>2, <2>7, <3>1 DEF PieceOf
        <5>2. Len(PieceOf(r)'.pts) \in Nat
          <6>1. router[r].piece + 1 \in DOMAIN Plan[r][router[r].segment].pieces
            BY <2>1, <4>1
          <6>2. Len(Plan[r][router[r].segment].pieces[router[r].piece + 1].pts) \in Nat
            BY <2>1, <6>1, PlanFacts
          <6>3. QED
            BY <5>1, <6>2
        <5>3. \A n \in Nat : 1 \in 1..n + 1
          OBVIOUS
        <5>4. QED
          BY <5>2, <5>3
      <4>3. QED
        BY <2>1, <2>2, <2>7, <3>1, <4>1, <4>2 DEF InPlan, Working
    <3>2. CASE ~more
      <4>1. PieceOf(r)' = PieceOf(r)
        BY <2>2, <2>7, <3>2 DEF PieceOf
      <4>2. QED
        BY <1>1, <2>2, <2>7, <3>2, <4>1 DEF RouteInv, InPlan, Working
    <3>3. QED
      BY <3>1, <3>2
  <2>9. Starved(r)' <=> Starved(r)
    BY <2>1, <2>3, <2>7 DEF Starved
  <2>10. NothingLost(r)'
    <3>1. CASE more
      <4>1. OwnLeft(r)' => OwnLeft(r)
        <5>1. SUFFICES ASSUME OwnLeft(r)' PROVE OwnLeft(r)
          OBVIOUS
        <5>2. PICK p \in router[r].piece + 1..Len(Pieces(r)) : Pieces(r)[p].by = "reader"
          BY <2>2, <2>7, <3>1, <5>1 DEF OwnLeft
        <5>3. p \in router[r].piece..Len(Pieces(r)) /\ p # router[r].piece
          BY <2>1
        <5>4. QED
          BY <5>2, <5>3 DEF OwnLeft
      <4>2. QED
        BY <1>1, <2>2, <2>3, <2>9, <3>1, <4>1 DEF RouteInv, NothingLost
    <3>2. CASE ~more /\ through
      <4>1. router[r].piece = Len(Pieces(r))
        BY <2>1, <3>2
      <4>2. PieceOf(r)' = PieceOf(r)
        BY <2>2, <2>7, <3>2 DEF PieceOf
      <4>3. QED
        BY <2>2, <2>7, <3>2, <4>1, <4>2 DEF NothingLost
    <3>3. CASE ~through
      <4>1. PieceOf(r).by = "reader" /\ producer[r].own \in {"failed", "exited"}
        BY <1>1, <1>3, <2>1, <3>3 DEF Source
      <4>2. CASE producer[r].own = "failed"
        BY <2>2, <2>3, <3>3, <4>2 DEF NothingLost
      <4>3. CASE producer[r].own = "exited"
        <5>1. router[r].packet <= Len(PieceOf(r).pts)
          <6>1. \A m, n \in Nat : ~(m > n) => m <= n
            OBVIOUS
          <6>2. QED
            BY <2>1, <3>3, <6>1
        <5>2. router[r].piece \in router[r].piece..Len(Pieces(r))
          BY <2>1
        <5>3. Pieces(r)[router[r].piece].by = "reader"
          BY <2>1, <4>1
        <5>4. OwnLeft(r)
          BY <5>1, <5>2, <5>3 DEF OwnLeft
        <5>5. Starved(r)
          BY <1>1, <4>3, <5>4 DEF RouteInv, NothingLost
        <5>6. QED
          BY <2>2, <2>9, <3>3, <5>5 DEF NothingLost
      <4>4. QED
        BY <4>1, <4>2, <4>3
    <3>4. QED
      BY <3>1, <3>2, <3>3
  <2>11. Resulted(r)'
    BY <1>1, <2>2, <2>6 DEF RouteInv, Resulted
  <2>12. QED
    BY <2>4, <2>6, <2>8, <2>10, <2>11 DEF RouteInv
<1>4. QED
  BY <1>1, <1>2, <1>3 DEF EndPiece

\* A segment is over only when all of it was handed over.
LEMMA FinishSteps ==
    ASSUME Shape, NEW r \in Routes, RouteInv(r), Finish(r)
    PROVE  RouteInv(r)' /\ Stepped(r)
<1>1. /\ router[r] \in RouterType /\ router[r].pc = "finishing"
      /\ UNCHANGED <<cancel, asked, queue, main, heads, out, muxer, files>>
  BY DEF Finish, Shape
<1>2. CASE Over(r, "failed")
  BY <1>1, <1>2, OverSteps
<1>3. CASE producer[r].side \in {"failed", "cancelled"} /\ Over(r, producer[r].side)
  <2>1. Over(r, "failed") \/ Over(r, "cancelled")
    BY <1>3
  <2>2. QED
    BY <1>1, <2>1, OverSteps
<1>4. CASE /\ producer[r].own = "exited" /\ producer[r].side \in {"none", "exited"}
           /\ GoesOn(r, "next", router[r].segment + 1, 1, 1)
           /\ producer' = [producer EXCEPT ![r] = NoProducer]
  <2>1. /\ router[r].segment \in Nat \ {0} /\ router[r].piece \in Nat \ {0}
        /\ Pieces(r) = Plan[r][router[r].segment].pieces
        /\ PieceOf(r) = Plan[r][router[r].segment].pieces[router[r].piece]
        /\ router[r].packet \in Nat \ {0} /\ router[r].segment + 1 \in Nat \ {0} /\ 1 \in Nat \ {0}
        /\ Len(PieceOf(r).pts) \in Nat /\ Len(Pieces(r)) \in Nat
    BY <1>1, AtWork DEF Working
  <2>2. router[r].piece = Len(Pieces(r)) /\ router[r].packet > Len(PieceOf(r).pts)
    BY <1>1, <1>4 DEF RouteInv, NothingLost, Starved
  <2>3. /\ router' \in [Routes -> RouterType]
        /\ \A q \in Routes \ {r} : router'[q] = router[q]
        /\ router'[r].pc = "next" /\ router'[r].segment = router[r].segment + 1
        /\ router'[r].piece = 1 /\ router'[r].packet = 1
        /\ router'[r].result = router[r].result /\ router'[r].header \in {router[r].header, "sent"}
    <3>1. "next" \in {"next"} \cup Working /\ router \in [Routes -> RouterType]
      BY DEF Shape
    <3>2. QED
      BY <1>4, <2>1, <3>1, GoesOnDoes, Zenon
  <2>4. /\ producer' \in [Routes -> ProducerType]
        /\ \A q \in Routes \ {r} : producer'[q] = producer[q]
    BY <1>4 DEF Shape, ProducerType, ProcessState, NoProducer
  <2>5. Stepped(r)
    BY <1>1, <2>3, <2>4 DEF Shape, Stepped
  <2>6. \A x \in Places(r) : Earlier(x, Cursor(r)') <=> Earlier(x, Cursor(r))
    <3>1. SUFFICES ASSUME NEW x \in Places(r) PROVE Earlier(x, Cursor(r)') <=> Earlier(x, Cursor(r))
      OBVIOUS
    <3>2. /\ x[1] \in Nat /\ x[2] \in Nat /\ x[3] \in Nat /\ x[2] >= 1 /\ x[3] >= 1
          /\ x[2] <= Len(Plan[r][x[1]].pieces)
          /\ x[3] <= Len(Plan[r][x[1]].pieces[x[2]].pts)
      BY PlaceFacts
    <3>3. /\ Cursor(r)' = <<router[r].segment + 1, 1, 1>>
          /\ Cursor(r) = <<router[r].segment, router[r].piece, router[r].packet>>
      BY <2>3 DEF Cursor
    <3>4. x[1] = router[r].segment => x[2] < router[r].piece \/ x[2] = router[r].piece
      BY <2>1, <2>2, <3>2
    <3>5. x[1] = router[r].segment /\ x[2] = router[r].piece => x[3] < router[r].packet
      <4>1. SUFFICES ASSUME x[1] = router[r].segment, x[2] = router[r].piece
                     PROVE  x[3] < router[r].packet
        OBVIOUS
      <4>2. x[3] <= Len(PieceOf(r).pts)
        BY <2>1, <3>2, <4>1
      <4>3. \A m, n, k \in Nat : m <= n /\ k > n => m < k
        OBVIOUS
      <4>4. QED
        BY <2>1, <2>2, <3>2, <4>2, <4>3
    <3>6. x[1] < router[r].segment + 1 <=> (x[1] < router[r].segment \/ x[1] = router[r].segment)
      BY <2>1, <3>2
    <3>7. ~(x[2] < 1) /\ ~(x[3] < 1)
      BY <3>2
    <3>8. QED
      BY <3>3, <3>4, <3>5, <3>6, <3>7 DEF Earlier
  <2>7. SentSoFar(r)' /\ InOrder(r)' /\ Sent(r)' = Sent(r)
    BY <1>1, <2>6, FrontKeeps
  <2>8. InPlan(r)' /\ NothingLost(r)' /\ Resulted(r)'
    BY <1>1, <2>3, <2>7 DEF RouteInv, InPlan, NothingLost, Resulted, Working
  <2>9. QED
    BY <2>5, <2>7, <2>8 DEF RouteInv
<1>5. QED
  BY <1>2, <1>3, <1>4 DEF Finish

\* A process exits well once it wrote all it had to, or starved.
LEMMA ProducerSteps ==
    ASSUME Shape, NEW r \in Routes, RouteInv(r),
           \/ \E k \in {"own", "side"} : ProducerExits(r, k) \/ ProducerFails(r, k)
           \/ Feeds(r)
    PROVE  RouteInv(r)' /\ Stepped(r)
<1>1. /\ router' = router
      /\ UNCHANGED <<cancel, asked, queue, main, heads, out, muxer, files>>
      /\ producer' \in [Routes -> ProducerType]
      /\ \A q \in Routes \ {r} : producer'[q] = producer[q]
  <2>1. UNCHANGED <<cancel, asked, router, queue, main, heads, out, muxer, files>>
    BY DEF ProducerExits, ProducerFails, Feeds
  <2>2. \/ \E v \in ProcessState : producer' = [producer EXCEPT ![r].own = v]
        \/ \E v \in ProcessState : producer' = [producer EXCEPT ![r].side = v]
    BY DEF ProducerExits, ProducerFails, Feeds, ProcessState
  <2>3. producer' \in [Routes -> ProducerType]
    BY <2>2 DEF Shape, ProducerType
  <2>4. QED
    BY <2>1, <2>2, <2>3 DEF Shape
<1>2. Stepped(r)
  BY <1>1 DEF Shape, Stepped
<1>3. CurrentSegment(r)' = CurrentSegment(r) /\ Pieces(r)' = Pieces(r) /\ PieceOf(r)' = PieceOf(r)
  BY <1>1 DEF CurrentSegment, Pieces, PieceOf
<1>4. Cursor(r)' = Cursor(r) /\ (Open(r)' <=> Open(r)) /\ Pending(r)' = Pending(r) /\ Sent(r)' = Sent(r)
  BY <1>1 DEF Cursor, Open, Pending, Sent
<1>5. InPlan(r)' /\ SentSoFar(r)' /\ Resulted(r)'
  BY <1>1, <1>3, <1>4 DEF RouteInv, InPlan, SentSoFar, Resulted
<1>6. InOrder(r)'
  BY <1>1, <1>4 DEF RouteInv, InOrder
<1>7. producer[r].own = "failed" => producer'[r].own = "failed"
  BY DEF Shape, ProducerExits, ProducerFails, Feeds, ProducerType
<1>8. Starved(r) => Starved(r)'
  BY <1>3 DEF Shape, ProducerExits, ProducerFails, Feeds, ProducerType, Starved
<1>9. OwnLeft(r)' <=> OwnLeft(r)
  BY <1>1, <1>3 DEF OwnLeft
<1>10. router[r].pc \in {"reading", "sending"} /\ producer'[r].own = "exited" =>
          producer[r].own = "exited" \/ ~OwnLeft(r) \/ Starved(r) \/ producer[r].own = "dropped"
  BY DEF Shape, ProducerExits, ProducerFails, Feeds, ProducerType, Unread, OwnLeft
<1>11. producer'[r].own = "dropped" => producer[r].own = "dropped"
  BY DEF Shape, ProducerExits, ProducerFails, Feeds, ProducerType
<1>12. NothingLost(r)'
  <2>1. /\ router[r].pc \in {"reading", "sending"} /\ producer'[r].own = "exited" =>
              ~OwnLeft(r)' \/ Starved(r)'
        /\ router[r].pc \in {"reading", "sending"} => producer'[r].own # "dropped"
    BY <1>8, <1>9, <1>10, <1>11 DEF RouteInv, NothingLost
  <2>2. router[r].pc = "finishing" =>
           \/ router[r].piece = Len(Pieces(r)) /\ router[r].packet > Len(PieceOf(r).pts)
           \/ producer'[r].own = "failed"
           \/ Starved(r)'
    BY <1>7, <1>8 DEF RouteInv, NothingLost
  <2>3. QED
    BY <1>1, <1>3, <2>1, <2>2 DEF NothingLost
<1>13. QED
  BY <1>2, <1>5, <1>6, <1>12 DEF RouteInv

LEMMA RouterSteps ==
    ASSUME Shape, NEW r \in Routes, RouteInv(r), Router(r)
    PROVE  RouteInv(r)' /\ Stepped(r)
  BY ReferenceSteps, OpenSegmentSteps, ReadHeaderSteps, OpenSeamSteps, ReadPacketSteps,
     SendPacketSteps, EndPieceSteps, FinishSteps, Zenon DEF Router

\* A step of a route leaves the rest of the export where it is.
LEMMA SteppedIInv ==
    ASSUME IInv, NEW r \in Routes, RouteInv(r)', Stepped(r)
    PROVE  IInv'
<1>1. /\ UNCHANGED <<cancel, asked, main, heads, out, muxer, files>>
      /\ \A q \in Routes \ {r} : router'[q] = router[q] /\ producer'[q] = producer[q] /\ queue'[q] = queue[q]
      /\ router[r].pc = "over" => router'[r] = router[r] /\ queue'[r] = queue[r]
  BY DEF Stepped
<1>2. Shape'
  BY DEF IInv, Shape, Stepped
<1>3. \A q \in Routes : RouteInv(q)'
  <2>1. SUFFICES ASSUME NEW q \in Routes \ {r} PROVE RouteInv(q)'
    OBVIOUS
  <2>2. QED
    BY <1>1, RouteFrame DEF IInv
<1>4. \A q \in Routes : router[q].pc = "over" => router'[q] = router[q] /\ queue'[q] = queue[q]
  BY <1>1
<1>5. (OverAll => OverAll') /\ Everything' = Everything
  BY <1>4 DEF OverAll
<1>6. MainInv'
  <2>1. \A q \in Routes : heads[q] = Ended => queue'[q] = <<>> /\ router'[q].pc = "over"
    BY <1>4 DEF IInv, MainInv
  <2>2. main.pc = "rename" => OverAll' /\ \A q \in Routes : router'[q].result = "ok"
    BY <1>4, <1>5 DEF IInv, MainInv, OverAll
  <2>3. main.pc = "first error" => \E q \in Routes : router'[q].header = "error"
    <3>1. \A q \in Routes : router[q].header = "error" => router[q].pc = "over"
      BY DEF IInv, RouteInv, Resulted
    <3>2. QED
      BY <1>4, <3>1 DEF IInv, MainInv
  <2>4. QED
    BY <1>1, <2>1, <2>2, <2>3 DEF IInv, MainInv
<1>7. ExportSettles'
  BY <1>1, <1>5 DEF IInv, ExportSettles, CompleteMeansAll, NothingLeft
<1>8. QED
  BY <1>2, <1>3, <1>6, <1>7 DEF IInv

LEMMA RoutesIInv ==
    ASSUME IInv, NEW r \in Routes,
           \/ Router(r) \/ Feeds(r)
           \/ \E k \in {"own", "side"} : ProducerExits(r, k) \/ ProducerFails(r, k)
    PROVE  IInv'
<1>1. Shape /\ RouteInv(r)
  BY DEF IInv
<1>2. CASE Router(r)
  BY <1>1, <1>2, RouterSteps, SteppedIInv
<1>3. CASE Feeds(r) \/ \E k \in {"own", "side"} : ProducerExits(r, k) \/ ProducerFails(r, k)
  BY <1>1, <1>3, ProducerSteps, SteppedIInv
<1>4. QED
  BY <1>2, <1>3

-----------------------------------------------------------------------------
(* The export's own thread                                                   *)

\* A step that leaves the routes, their queues and what is written.
LEMMA RoutesKept ==
    ASSUME IInv, UNCHANGED <<router, producer, queue, heads, out>>
    PROVE  /\ \A r \in Routes : RouteInv(r)'
           /\ OverAll' <=> OverAll
           /\ Everything' = Everything /\ Range(out') = Range(out)
<1>1. \A r \in Routes : RouteInv(r)'
  <2>1. SUFFICES ASSUME NEW r \in Routes PROVE RouteInv(r)'
    OBVIOUS
  <2>2. QED
    BY RouteFrame DEF IInv
<1>2. QED
  BY <1>1 DEF OverAll

LEMMA HeadersIInv ==
    ASSUME IInv, CollectHeaders \/ GiveUp \/ Cancel
    PROVE  IInv'
<1>1. UNCHANGED <<router, producer, queue, heads, out>> /\ main \in MainType
  BY DEF CollectHeaders, GiveUp, Cancel, IInv, Shape
<1>2. /\ \A r \in Routes : RouteInv(r)'
      /\ OverAll' <=> OverAll
      /\ Everything' = Everything /\ Range(out') = Range(out)
  BY <1>1, RoutesKept
<1>3. CASE CollectHeaders
  <2>1. /\ main' \in MainType /\ muxer' \in MuxerType /\ files' \in Files
        /\ main.pc = "headers" /\ main'.pc = "interleave" /\ main'.outcome = main.outcome
        /\ muxer'.process = "runs" /\ muxer'.input = TRUE /\ files'.target = files.target
    BY <1>3 DEF CollectHeaders, IInv, Shape, MainType, MuxerType, Files
  <2>2. Shape'
    BY <1>1, <1>3, <2>1 DEF CollectHeaders, IInv, Shape
  <2>3. MainInv' /\ ExportSettles'
    BY <1>1, <1>2, <2>1 DEF IInv, MainInv, ExportSettles, CompleteMeansAll, NothingLeft
  <2>4. QED
    BY <1>2, <2>2, <2>3 DEF IInv
<1>4. CASE GiveUp
  <2>1. /\ main' \in MainType /\ UNCHANGED <<muxer, files>>
        /\ main.pc = "headers" /\ main'.pc = "first error" /\ main'.outcome = main.outcome
    BY <1>4 DEF GiveUp, IInv, Shape, MainType
  <2>2. \E r \in Routes : router'[r].header = "error"
    BY <1>1, <1>4 DEF GiveUp
  <2>3. Shape'
    BY <1>1, <1>4, <2>1 DEF GiveUp, IInv, Shape
  <2>4. MainInv' /\ ExportSettles'
    BY <1>1, <1>2, <2>1, <2>2 DEF IInv, MainInv, ExportSettles, CompleteMeansAll, NothingLeft
  <2>5. QED
    BY <1>2, <2>3, <2>4 DEF IInv
<1>5. CASE Cancel
  <2>1. UNCHANGED <<main, muxer, files>>
    BY <1>5 DEF Cancel
  <2>2. Shape'
    BY <1>1, <1>5, <2>1 DEF Cancel, IInv, Shape
  <2>3. MainInv' /\ ExportSettles'
    BY <1>1, <1>2, <2>1 DEF IInv, MainInv, ExportSettles, CompleteMeansAll, NothingLeft
  <2>4. QED
    BY <1>2, <2>2, <2>3 DEF IInv
<1>6. QED
  BY <1>3, <1>4, <1>5

\* The muxer's file holds everything, or it is not the export's.
LEMMA MuxerIInv ==
    ASSUME IInv, MuxerReads \/ MuxerStops("killed") \/ MuxerStops("failed")
    PROVE  IInv'
<1>1. /\ UNCHANGED <<cancel, asked, router, producer, queue, main, heads, out>>
      /\ muxer.process = "runs" /\ muxer \in MuxerType /\ files \in Files
  BY DEF MuxerReads, MuxerStops, IInv, Shape
<1>2. /\ \A r \in Routes : RouteInv(r)'
      /\ OverAll' <=> OverAll
      /\ Everything' = Everything /\ Range(out') = Range(out)
  BY <1>1, RoutesKept
<1>3. main.pc \in {"interleave", "join"}
  BY <1>1 DEF IInv, Shape, MainType, MainInv, ExportSettles, NothingLeft
<1>4. CASE MuxerReads /\ muxer.unread > 0
  <2>1. /\ muxer' \in MuxerType /\ muxer'.process = "runs" /\ muxer'.input = muxer.input
        /\ files' = files
    BY <1>1, <1>4 DEF MuxerReads, MuxerType
  <2>2. Shape'
    BY <1>1, <2>1 DEF IInv, Shape
  <2>3. MainInv' /\ ExportSettles'
    BY <1>1, <1>2, <1>3, <2>1 DEF IInv, MainInv, ExportSettles, CompleteMeansAll, NothingLeft
  <2>4. QED
    BY <1>2, <2>2, <2>3 DEF IInv
<1>5. CASE MuxerReads /\ ~(muxer.unread > 0)
  <2>1. /\ muxer' \in MuxerType /\ muxer'.process = "exited" /\ muxer'.input = muxer.input
        /\ ~muxer.input
        /\ files' = [files EXCEPT !.partial = IF Range(out) = Everything THEN "whole" ELSE "short"]
    BY <1>1, <1>5 DEF MuxerReads, MuxerType
  <2>2. /\ files' \in Files /\ files'.target = files.target
        /\ files'.partial = "whole" <=> Range(out) = Everything
    BY <1>1, <2>1 DEF Files
  <2>3. Shape'
    BY <1>1, <2>1, <2>2 DEF IInv, Shape
  <2>4. main.pc = "join"
    BY <1>3, <2>1 DEF IInv, MainInv
  <2>5. MainInv' /\ ExportSettles'
    BY <1>1, <1>2, <2>1, <2>2, <2>4 DEF IInv, MainInv, ExportSettles, CompleteMeansAll, NothingLeft
  <2>6. QED
    BY <1>2, <2>3, <2>5 DEF IInv
<1>6. CASE MuxerStops("killed") \/ MuxerStops("failed")
  <2>1. /\ muxer' \in MuxerType /\ muxer'.process \in {"killed", "failed"} /\ muxer'.input = muxer.input
        /\ files' \in Files /\ files'.target = files.target
    <3>1. PICK how \in {"killed", "failed"} :
             muxer' = [muxer EXCEPT !.process = how, !.unread = 0]
      BY <1>6 DEF MuxerStops
    <3>4. \A m \in MuxerType : LET n == [m EXCEPT !.process = how, !.unread = 0]
                               IN n \in MuxerType /\ n.process = how /\ n.input = m.input
      BY DEF MuxerType
    <3>2. files' = [files EXCEPT !.partial = "absent"]
      BY <1>6 DEF MuxerStops, RemovePartial
    <3>3. files' \in Files /\ files'.target = files.target
      BY <1>1, <3>2 DEF Files
    <3>5. QED
      BY <1>1, <3>1, <3>3, <3>4
  <2>2. Shape'
    BY <1>1, <2>1 DEF IInv, Shape
  <2>3. MainInv' /\ ExportSettles'
    BY <1>1, <1>2, <1>3, <2>1 DEF IInv, MainInv, ExportSettles, CompleteMeansAll, NothingLeft
  <2>4. QED
    BY <1>2, <2>2, <2>3 DEF IInv
<1>7. QED
  BY <1>4, <1>5, <1>6

\* A head received was the first of its queue.
LEMMA ReceiveIInv ==
    ASSUME IInv, NEW r \in Routes, Receive(r)
    PROVE  IInv'
<1>1. /\ UNCHANGED <<cancel, asked, router, producer, main, out, muxer, files>>
      /\ main.pc = "interleave" /\ heads[r] = Waiting /\ ~Open(r)
      /\ queue[r] \in Seq(Nat) /\ RouteInv(r) /\ Pending(r) = Range(queue[r])
      /\ heads \in [Routes -> Nat \cup {Waiting, Ended}] /\ queue \in [Routes -> Seq(Nat)]
  BY DEF Receive, Open, IInv, Shape, Pending
<1>2. /\ heads' \in [Routes -> Nat \cup {Waiting, Ended}] /\ queue' \in [Routes -> Seq(Nat)]
      /\ \A q \in Routes \ {r} : heads'[q] = heads[q] /\ queue'[q] = queue[q]
      /\ \/ /\ queue[r] # <<>> /\ heads'[r] = Head(queue[r]) /\ queue'[r] = Tail(queue[r])
         \/ /\ queue[r] = <<>> /\ router[r].pc = "over" /\ heads'[r] = Ended /\ queue'[r] = <<>>
  <2>1. CASE queue[r] # <<>>
    <3>1. /\ heads' = [heads EXCEPT ![r] = Head(queue[r])]
          /\ queue' = [queue EXCEPT ![r] = Tail(queue[r])]
      BY <2>1 DEF Receive
    <3>2. Head(queue[r]) \in Nat /\ Tail(queue[r]) \in Seq(Nat)
      BY <1>1, <2>1, RangeOfTail
    <3>3. QED
      BY <1>1, <2>1, <3>1, <3>2
  <2>2. CASE queue[r] = <<>>
    BY <1>1, <2>2 DEF Receive
  <2>3. QED
    BY <2>1, <2>2
<1>3. Pending(r)' = Pending(r)
  <2>1. CASE queue[r] # <<>>
    <3>1. /\ Head(queue[r]) \in Nat /\ Range(queue[r]) = {Head(queue[r])} \cup Range(Tail(queue[r]))
      BY <1>1, <2>1, RangeOfTail
    <3>2. Open(r)'
      BY <1>2, <2>1, <3>1 DEF Open, Waiting, Ended
    <3>3. QED
      BY <1>1, <1>2, <2>1, <3>1, <3>2 DEF Pending
  <2>2. CASE queue[r] = <<>>
    BY <1>1, <1>2, <2>2 DEF Pending, Open
  <2>3. QED
    BY <2>1, <2>2
<1>4. Sent(r)' = Sent(r) /\ Cursor(r)' = Cursor(r)
  BY <1>1, <1>3 DEF Sent, Cursor
<1>5. CurrentSegment(r)' = CurrentSegment(r) /\ Pieces(r)' = Pieces(r) /\ PieceOf(r)' = PieceOf(r)
  BY <1>1 DEF CurrentSegment, Pieces, PieceOf
<1>6. InPlan(r)' /\ SentSoFar(r)' /\ NothingLost(r)' /\ Resulted(r)'
  BY <1>1, <1>4, <1>5
     DEF RouteInv, InPlan, SentSoFar, NothingLost, Resulted, OwnLeft, Starved
<1>7. /\ \A i \in DOMAIN queue'[r] : Open(r)' => ComesBefore(r, heads'[r], queue'[r][i])
      /\ \A i, j \in DOMAIN queue'[r] : i < j => ComesBefore(r, queue'[r][i], queue'[r][j])
  <2>1. CASE queue[r] # <<>>
    <3>1. /\ Head(queue[r]) = queue[r][1] /\ 1 \in DOMAIN queue[r]
          /\ \A i \in DOMAIN Tail(queue[r]) : i + 1 \in DOMAIN queue[r] /\ Tail(queue[r])[i] = queue[r][i + 1]
          /\ DOMAIN Tail(queue[r]) \subseteq Nat \ {0}
      BY <1>1, <2>1, RangeOfTail
    <3>2. \A i, j \in DOMAIN queue[r] : i < j => ComesBefore(r, queue[r][i], queue[r][j])
      BY <1>1 DEF RouteInv, InOrder
    <3>3. \A i \in DOMAIN Tail(queue[r]) : 1 < i + 1
      BY <3>1
    <3>4. \A i, j \in DOMAIN Tail(queue[r]) : i < j => i + 1 < j + 1
      BY <3>1
    <3>5. /\ \A i \in DOMAIN Tail(queue[r]) : ComesBefore(r, Head(queue[r]), Tail(queue[r])[i])
          /\ \A i, j \in DOMAIN Tail(queue[r]) :
                i < j => ComesBefore(r, Tail(queue[r])[i], Tail(queue[r])[j])
      <4>1. \A i \in DOMAIN Tail(queue[r]) : ComesBefore(r, queue[r][1], queue[r][i + 1])
        BY <3>1, <3>2, <3>3
      <4>2. \A i, j \in DOMAIN Tail(queue[r]) :
               i < j => ComesBefore(r, queue[r][i + 1], queue[r][j + 1])
        BY <3>1, <3>2, <3>4
      <4>3. QED
        BY <3>1, <4>1, <4>2
    <3>6. QED
      BY <1>2, <2>1, <3>5
  <2>2. CASE queue[r] = <<>>
    BY <1>2, <2>2
  <2>3. QED
    BY <2>1, <2>2
<1>8. InOrder(r)'
  BY <1>1, <1>3, <1>4, <1>7 DEF RouteInv, InOrder
<1>9. \A q \in Routes : RouteInv(q)'
  <2>1. RouteInv(r)'
    BY <1>6, <1>8 DEF RouteInv
  <2>2. ASSUME NEW q \in Routes \ {r} PROVE RouteInv(q)'
    BY <1>1, <1>2, RouteFrame DEF IInv
  <2>3. QED
    BY <2>1, <2>2
<1>10. Shape'
  BY <1>1, <1>2 DEF IInv, Shape
<1>11. MainInv'
  <2>1. \A q \in Routes : heads'[q] = Ended => queue'[q] = <<>> /\ router'[q].pc = "over"
    <3>1. ASSUME NEW q \in Routes \ {r}, heads'[q] = Ended
          PROVE  queue'[q] = <<>> /\ router'[q].pc = "over"
      BY <1>1, <1>2, <3>1 DEF IInv, MainInv
    <3>2. ASSUME heads'[r] = Ended PROVE queue'[r] = <<>> /\ router'[r].pc = "over"
      <4>1. queue[r] = <<>>
        <5>1. queue[r] # <<>> => heads'[r] \in Nat
          BY <1>1, <1>2, RangeOfTail
        <5>2. QED
          BY <3>2, <5>1 DEF Ended
      <4>2. QED
        BY <1>1, <1>2, <4>1
    <3>3. QED
      BY <3>1, <3>2
  <2>2. QED
    BY <1>1, <2>1 DEF IInv, MainInv
<1>12. ExportSettles'
  BY <1>1 DEF IInv, ExportSettles, CompleteMeansAll, NothingLeft, OverAll
<1>13. QED
  BY <1>9, <1>10, <1>11, <1>12 DEF IInv

\* A packet written is still handed over.
LEMMA WriteIInv ==
    ASSUME IInv, NEW r \in Routes, Write(r)
    PROVE  IInv'
<1>1. /\ UNCHANGED <<cancel, asked, router, producer, queue, main, files>>
      /\ main.pc = "interleave" /\ Open(r) /\ heads[r] \in Nat
      /\ RouteInv(r) /\ Pending(r) = Range(queue[r]) \cup {heads[r]}
      /\ heads \in [Routes -> Nat \cup {Waiting, Ended}] /\ out \in Seq(Routes \X Nat)
      /\ out' = Append(out, <<r, heads[r]>>) /\ heads' = [heads EXCEPT ![r] = Waiting]
  BY DEF Write, IsNext, Open, IInv, Shape, Pending
<1>2. /\ out' \in Seq(Routes \X Nat) /\ Range(out') = Range(out) \cup {<<r, heads[r]>>}
  BY <1>1, RangeOfAppend
<1>3. /\ heads' \in [Routes -> Nat \cup {Waiting, Ended}]
      /\ heads'[r] = Waiting /\ ~Open(r)'
      /\ \A q \in Routes \ {r} : heads'[q] = heads[q]
  BY <1>1 DEF Open
<1>4. heads[r] \in PacketsOf(r) /\ Pending(r) \subseteq PacketsOf(r)
  BY <1>1 DEF RouteInv, InOrder
<1>5. Pending(r)' = Range(queue[r])
  BY <1>1, <1>3 DEF Pending
<1>6. Sent(r)' = Sent(r) /\ Cursor(r)' = Cursor(r)
  <2>1. \A t : <<r, t>> \in Range(out') <=> (<<r, t>> \in Range(out) \/ t = heads[r])
    BY <1>2
  <2>2. QED
    BY <1>1, <1>4, <1>5, <2>1 DEF Sent, Cursor
<1>7. CurrentSegment(r)' = CurrentSegment(r) /\ Pieces(r)' = Pieces(r) /\ PieceOf(r)' = PieceOf(r)
  BY <1>1 DEF CurrentSegment, Pieces, PieceOf
<1>8. InPlan(r)' /\ SentSoFar(r)' /\ NothingLost(r)' /\ Resulted(r)'
  BY <1>1, <1>6, <1>7
     DEF RouteInv, InPlan, SentSoFar, NothingLost, Resulted, OwnLeft, Starved
<1>9. InOrder(r)'
  <2>1. Pending(r)' \subseteq Pending(r)
    BY <1>1, <1>5
  <2>2. QED
    BY <1>1, <1>3, <1>4, <1>6, <2>1 DEF RouteInv, InOrder
<1>10. \A q \in Routes : RouteInv(q)'
  <2>1. RouteInv(r)'
    BY <1>8, <1>9 DEF RouteInv
  <2>2. ASSUME NEW q \in Routes \ {r} PROVE RouteInv(q)'
    <3>1. \A t : <<q, t>> \in Range(out') <=> <<q, t>> \in Range(out)
      BY <1>2
    <3>2. QED
      BY <1>1, <1>3, <3>1, RouteFrame DEF IInv
  <2>3. QED
    BY <2>1, <2>2
<1>11. /\ muxer' \in MuxerType /\ muxer'.process = muxer.process /\ muxer'.input = muxer.input
  <2>1. muxer \in MuxerType
    BY DEF IInv, Shape
  <2>2. CASE muxer' = [muxer EXCEPT !.buffered = TRUE]
    BY <2>1, <2>2 DEF MuxerType
  <2>3. CASE muxer' = [muxer EXCEPT !.unread = muxer.unread + 1, !.buffered = FALSE]
    <3>1. \A m \in MuxerType, k \in Nat : LET n == [m EXCEPT !.unread = k, !.buffered = FALSE]
                               IN n \in MuxerType /\ n.process = m.process /\ n.input = m.input
      BY DEF MuxerType
    <3>2. muxer.unread + 1 \in Nat
      BY <2>1 DEF MuxerType
    <3>3. QED
      BY <2>1, <2>3, <3>1, <3>2
  <2>4. QED
    BY <2>2, <2>3 DEF Write
<1>12. Shape'
  BY <1>1, <1>2, <1>3, <1>11 DEF IInv, Shape
<1>13. MainInv'
  <2>1. \A q \in Routes : heads'[q] = Ended => queue'[q] = <<>> /\ router'[q].pc = "over"
    BY <1>1, <1>3 DEF IInv, MainInv, Waiting, Ended
  <2>2. Everything' = Everything /\ Range(out') \subseteq Everything
    <3>1. <<r, heads[r]>> \in Everything
      BY <1>4 DEF Everything
    <3>2. QED
      BY <1>2, <3>1 DEF IInv, MainInv
  <2>3. QED
    BY <1>1, <1>11, <2>1, <2>2 DEF IInv, MainInv
<1>14. ExportSettles'
  BY <1>1 DEF IInv, MainInv, ExportSettles, CompleteMeansAll, NothingLeft, OverAll
<1>15. QED
  BY <1>10, <1>12, <1>13, <1>14 DEF IInv

\* The interleaving is over: whatever was written, the queues and the muxer's
\* input go.
LEMMA InterleaveEndsIInv ==
    ASSUME IInv, InterleaveCancelled \/ WriteBroken \/ WriteEnd
    PROVE  IInv'
<1>1. /\ UNCHANGED <<cancel, asked, router, producer, queue, heads, out, files>>
      /\ main.pc = "interleave" /\ main \in MainType /\ muxer \in MuxerType
  BY DEF InterleaveCancelled, WriteBroken, WriteEnd, Stops, IInv, Shape
<1>2. /\ \A r \in Routes : RouteInv(r)'
      /\ OverAll' <=> OverAll
      /\ Everything' = Everything /\ Range(out') = Range(out)
  BY <1>1, RoutesKept
<1>3. \A w \in {"ok", "failed", "cancelled"} :
         LET n == [DropQueues(main) EXCEPT !.written = w]
         IN n \in MainType /\ n.pc = "join" /\ n.written = w /\ n.outcome = main.outcome
  BY <1>1 DEF DropQueues, MainType
<1>4. PICK w \in {"ok", "failed", "cancelled"} :
         /\ main' = [DropQueues(main) EXCEPT !.written = w]
         /\ w = "ok" => \A r \in Routes : heads[r] = Ended
  BY DEF InterleaveCancelled, WriteBroken, WriteEnd, Stops
<1>5. /\ main' \in MainType /\ main'.pc = "join" /\ main'.outcome = main.outcome
      /\ main'.written # "none" /\ (main'.written = "ok" => \A r \in Routes : heads[r] = Ended)
  BY <1>3, <1>4
<1>6. muxer' \in MuxerType /\ muxer'.process = muxer.process
  <2>1. PICK k \in Nat : \/ muxer' = [muxer EXCEPT !.input = FALSE, !.buffered = FALSE]
                         \/ muxer' = [muxer EXCEPT !.input = FALSE, !.buffered = FALSE, !.unread = k]
    <3>1. muxer.unread \in Nat /\ muxer.unread + 1 \in Nat
      BY <1>1 DEF MuxerType
    <3>2. QED
      BY <3>1 DEF InterleaveCancelled, WriteBroken, WriteEnd, Stops
  <2>2. \A m \in MuxerType : LET n == [m EXCEPT !.input = FALSE, !.buffered = FALSE]
                             IN n \in MuxerType /\ n.process = m.process
    BY DEF MuxerType
  <2>3. \A m \in MuxerType : LET n == [m EXCEPT !.input = FALSE, !.buffered = FALSE, !.unread = k]
                             IN n \in MuxerType /\ n.process = m.process
    BY DEF MuxerType
  <2>4. QED
    BY <1>1, <2>1, <2>2, <2>3
<1>7. Shape'
  BY <1>1, <1>5, <1>6 DEF IInv, Shape
<1>8. MainInv' /\ ExportSettles'
  BY <1>1, <1>2, <1>5, <1>6 DEF IInv, MainInv, ExportSettles, CompleteMeansAll, NothingLeft
<1>9. QED
  BY <1>2, <1>7, <1>8 DEF IInv

\* When every router is through without an error and every queue is empty,
\* everything was written.
LEMMA AllWritten ==
    ASSUME IInv, \A r \in Routes : router[r].result = "ok" /\ heads[r] = Ended
    PROVE  Range(out) = Everything
<1>1. \A r \in Routes : PacketsOf(r) \subseteq {t \in PacketsOf(r) : <<r, t>> \in Range(out)}
  <2>1. SUFFICES ASSUME NEW r \in Routes
                 PROVE  PacketsOf(r) \subseteq {t \in PacketsOf(r) : <<r, t>> \in Range(out)}
    OBVIOUS
  <2>2. queue[r] = <<>> /\ ~Open(r)
    BY DEF IInv, MainInv, Open
  <2>3. Pending(r) = {}
    BY <2>2 DEF Pending, Range
  <2>4. PacketsOf(r) \subseteq Sent(r)
    BY DEF IInv, RouteInv, Resulted
  <2>5. QED
    BY <2>3, <2>4 DEF Sent
<1>2. Everything \subseteq Range(out)
  BY <1>1 DEF Everything
<1>3. QED
  BY <1>2 DEF IInv, MainInv

LEMMA EndsDoes ==
    ASSUME main \in MainType, files \in Files, NEW outcome \in {"ok", "failed", "cancelled"}, Ends(outcome)
    PROVE  main' \in MainType /\ main'.pc = "ended" /\ main'.outcome = outcome
  BY DEF Ends, MainType

\* The export ends with an error: what was written goes.
LEMMA EndsBadlyIInv ==
    ASSUME IInv, OverAll, muxer.process # "runs", main.pc # "ended",
           NEW outcome \in {"failed", "cancelled"}, Ends(outcome), files' = RemovePartial(files),
           UNCHANGED <<cancel, asked, router, producer, queue, heads, out, muxer>>
    PROVE  IInv'
<1>1. /\ \A r \in Routes : RouteInv(r)'
      /\ OverAll' <=> OverAll
      /\ Everything' = Everything /\ Range(out') = Range(out)
  BY RoutesKept
<1>2. main' \in MainType /\ main'.pc = "ended" /\ main'.outcome = outcome
  BY EndsDoes DEF IInv, Shape
<1>3. files' \in Files /\ files'.partial = "absent" /\ files'.target = files.target
  BY DEF RemovePartial, Files, IInv, Shape
<1>4. files.target \in {"old", "absent"}
  BY DEF IInv, MainInv
<1>5. Shape'
  BY <1>2, <1>3 DEF IInv, Shape
<1>6. MainInv' /\ ExportSettles'
  BY <1>1, <1>2, <1>3, <1>4 DEF IInv, MainInv, ExportSettles, CompleteMeansAll, NothingLeft
<1>7. QED
  BY <1>1, <1>5, <1>6 DEF IInv

LEMMA FirstErrorIs ==
    ASSUME IInv, OverAll
    PROVE  FirstError \in {"ok", "failed", "cancelled"}
<1> DEFINE wrong == {r \in Routes : router[r].result # "ok"}
<1>1. \A r \in Routes : router[r].result \in {"ok", "failed", "cancelled"}
  BY DEF IInv, Shape, RouterType, RouteInv, Resulted, OverAll
<1>2. CASE wrong = {}
  BY <1>2 DEF FirstError
<1>3. CASE wrong # {}
  <2>1. Routes \subseteq Int /\ IsFiniteSet(wrong)
    BY PlanAssumption, FS_Subset
  <2>2. Min(wrong) \in wrong
    BY <1>3, <2>1, MinIsIn
  <2>3. FirstError = router[Min(wrong)].result
    BY <1>3 DEF FirstError
  <2>4. QED
    BY <1>1, <2>2, <2>3
<1>4. QED
  BY <1>2, <1>3

LEMMA FirstErrorIInv ==
    ASSUME IInv, TakeFirstError
    PROVE  IInv'
<1>1. OverAll /\ main.pc = "first error" /\ muxer.process = "none"
  BY DEF TakeFirstError, IInv, MainInv
<1>2. FirstError \in {"failed", "cancelled"}
  <2>1. PICK r \in Routes : router[r].header = "error"
    BY <1>1 DEF TakeFirstError, IInv, MainInv
  <2>2. router[r].result # "ok"
    BY <2>1 DEF IInv, RouteInv, Resulted
  <2>3. FirstError # "ok"
    BY <2>2, ErrorsShow DEF IInv, Shape
  <2>4. QED
    BY <1>1, <2>3, FirstErrorIs
<1>3. /\ Ends(FirstError) /\ files' = RemovePartial(files)
      /\ UNCHANGED <<cancel, asked, router, producer, queue, heads, out, muxer>>
  BY DEF TakeFirstError
<1>4. QED
  BY <1>1, <1>2, <1>3, EndsBadlyIInv

\* What is moved to the target is the whole of it.
LEMMA ConcludeIInv ==
    ASSUME IInv, Conclude
    PROVE  IInv'
<1>1. /\ main.pc = "join" /\ OverAll /\ muxer.process # "runs" /\ muxer.process # "none"
      /\ main \in MainType /\ muxer \in MuxerType /\ files \in Files /\ main.written # "none"
      /\ UNCHANGED <<cancel, asked, router, producer, queue, heads, out, muxer>>
  BY DEF Conclude, IInv, Shape, MainInv
<1>2. CASE Concluded # "ok"
  <2>1. Concluded \in {"failed", "cancelled"}
    BY <1>1, <1>2, FirstErrorIs DEF Concluded, MainType
  <2>2. Ends(Concluded) /\ files' = RemovePartial(files)
    BY <1>2 DEF Conclude
  <2>3. QED
    BY <1>1, <2>1, <2>2, EndsBadlyIInv
<1>3. CASE Concluded = "ok"
  <2>1. FirstError = "ok" /\ main.written = "ok" /\ muxer.process = "exited"
    BY <1>1, <1>3 DEF Concluded, MuxerType
  <2>2. \A r \in Routes : router[r].result = "ok" /\ heads[r] = Ended
    BY <1>1, <2>1, ErrorsShow DEF IInv, Shape, MainInv
  <2>3. /\ main' = [main EXCEPT !.pc = "rename"]
        /\ files' = [files EXCEPT !.target = IF Overwrite THEN "absent" ELSE files.target]
    BY <1>3 DEF Conclude
  <2>4. main' \in MainType /\ main'.pc = "rename" /\ main'.written = main.written /\ main'.outcome = main.outcome
    BY <1>1, <2>3 DEF MainType
  <2>5. /\ files' \in Files /\ files'.partial = files.partial
        /\ files'.target \in {files.target, "absent"}
    BY <1>1, <2>3 DEF Files
  <2>6. /\ \A r \in Routes : RouteInv(r)'
        /\ OverAll' <=> OverAll
        /\ Everything' = Everything /\ Range(out') = Range(out)
    BY <1>1, RoutesKept
  <2>7. Shape'
    BY <1>1, <2>4, <2>5 DEF IInv, Shape
  <2>8. MainInv' /\ ExportSettles'
    BY <1>1, <2>1, <2>2, <2>4, <2>5, <2>6 DEF IInv, MainInv, ExportSettles, CompleteMeansAll, NothingLeft
  <2>9. QED
    BY <2>6, <2>7, <2>8 DEF IInv
<1>4. QED
  BY <1>2, <1>3

LEMMA RenameIInv ==
    ASSUME IInv, Rename
    PROVE  IInv'
<1>1. /\ main.pc = "rename" /\ OverAll /\ muxer.process = "exited"
      /\ UNCHANGED <<cancel, asked, router, producer, queue, heads, out, muxer>>
      /\ main.written = "ok" /\ \A r \in Routes : router[r].result = "ok"
      /\ main \in MainType /\ files \in Files
  BY DEF Rename, IInv, Shape, MainInv
<1>2. CASE Ends("failed") /\ files' = RemovePartial(files)
  BY <1>1, <1>2, EndsBadlyIInv
<1>3. CASE Ends("ok") /\ files' = [partial |-> "absent", target |-> files.partial]
  <2>1. \A r \in Routes : heads[r] = Ended
    BY <1>1 DEF IInv, MainInv
  <2>2. Range(out) = Everything
    BY <1>1, <2>1, AllWritten
  <2>3. files.partial = "whole"
    BY <1>1, <2>2 DEF IInv, MainInv
  <2>4. files' \in Files /\ files'.partial = "absent" /\ files'.target = "whole"
    BY <1>3, <2>3 DEF Files
  <2>5. main' \in MainType /\ main'.pc = "ended" /\ main'.outcome = "ok"
    BY <1>1, <1>3, EndsDoes
  <2>6. /\ \A r \in Routes : RouteInv(r)'
        /\ OverAll' <=> OverAll
        /\ Everything' = Everything /\ Range(out') = Range(out)
    BY <1>1, RoutesKept
  <2>7. Shape'
    BY <1>1, <2>4, <2>5 DEF IInv, Shape
  <2>8. MainInv' /\ ExportSettles'
    BY <1>1, <2>2, <2>4, <2>5, <2>6 DEF IInv, MainInv, ExportSettles, CompleteMeansAll, NothingLeft
  <2>9. QED
    BY <2>6, <2>7, <2>8 DEF IInv
<1>4. QED
  BY <1>2, <1>3 DEF Rename

-----------------------------------------------------------------------------
(* The theorems                                                              *)

LEMMA InitIInv == PipeInit => IInv
<1> SUFFICES ASSUME PipeInit PROVE IInv
  OBVIOUS
<1>1. Shape
  <2>1. router \in [Routes -> RouterType]
    BY DEF PipeInit, RouterType
  <2>2. producer \in [Routes -> ProducerType]
    BY DEF PipeInit, ProducerType, ProcessState, NoProducer
  <2>3. queue \in [Routes -> Seq(Nat)] /\ heads \in [Routes -> Nat \cup {Waiting, Ended}]
    BY DEF PipeInit
  <2>4. main \in MainType /\ muxer \in MuxerType /\ files \in Files
    BY DEF PipeInit, MainType, MuxerType, Files
  <2>5. cancel \in BOOLEAN /\ asked \in BOOLEAN /\ out \in Seq(Routes \X Nat)
    <3>1. cancel = FALSE /\ asked = FALSE /\ out = <<>>
      BY DEF PipeInit
    <3>2. \A S : <<>> \in Seq(S)
      OBVIOUS
    <3>3. out \in Seq(Routes \X Nat)
      BY <3>1, <3>2, Zenon
    <3>4. QED
      BY <3>1, <3>3
  <2>6. QED
    BY <2>1, <2>2, <2>3, <2>4, <2>5 DEF Shape
<1>2. MainInv
  BY DEF PipeInit, MainInv, Range, Waiting, Ended
<1>3. ExportSettles
  BY DEF PipeInit, ExportSettles, CompleteMeansAll, NothingLeft
<1>4. ASSUME NEW r \in Routes PROVE RouteInv(r)
  <2>1. /\ router[r].pc \in {"reference", "next"} /\ router[r].segment = 1 /\ router[r].piece = 1
        /\ router[r].packet = 1 /\ router[r].result = "none" /\ router[r].header = "none"
        /\ queue[r] = <<>> /\ heads[r] = Waiting
    BY DEF PipeInit
  <2>2. Pending(r) = {} /\ ~Open(r)
    BY <2>1 DEF Pending, Open, Range
  <2>3. InPlan(r) /\ NothingLost(r) /\ Resulted(r)
    BY <2>1 DEF InPlan, NothingLost, Resulted, Working
  <2>4. \A x \in Places(r) : ~Earlier(x, Cursor(r))
    <3>1. SUFFICES ASSUME NEW x \in Places(r) PROVE ~Earlier(x, Cursor(r))
      OBVIOUS
    <3>2. /\ x[1] \in Nat /\ x[2] \in Nat /\ x[3] \in Nat
          /\ x[1] >= 1 /\ x[2] >= 1 /\ x[3] >= 1
      BY PlaceFacts
    <3>3. Cursor(r) = <<1, 1, 1>>
      BY <2>1 DEF Cursor
    <3>4. QED
      BY <3>2, <3>3 DEF Earlier
  <2>5. SentSoFar(r) /\ InOrder(r)
    BY <2>1, <2>2, <2>4 DEF SentSoFar, InOrder
  <2>6. QED
    BY <2>3, <2>5 DEF RouteInv
<1>5. QED
  BY <1>1, <1>2, <1>3, <1>4 DEF IInv

LEMMA NextIInv == IInv /\ [PipeNext]_pipeVars => IInv'
<1> SUFFICES ASSUME IInv, [PipeNext]_pipeVars PROVE IInv'
  OBVIOUS
<1>1. ASSUME NEW r \in Routes, Router(r) \/ Feeds(r) PROVE IInv'
  BY <1>1, RoutesIInv
<1>2. ASSUME NEW r \in Routes, NEW k \in {"own", "side"}, ProducerExits(r, k) \/ ProducerFails(r, k)
      PROVE  IInv'
  BY <1>2, RoutesIInv
<1>3. CASE CollectHeaders \/ GiveUp \/ Cancel
  BY <1>3, HeadersIInv
<1>4. CASE TakeFirstError
  BY <1>4, FirstErrorIInv
<1>5. ASSUME NEW r \in Routes, Receive(r) PROVE IInv'
  BY <1>5, ReceiveIInv
<1>6. ASSUME NEW r \in Routes, Write(r) PROVE IInv'
  BY <1>6, WriteIInv
<1>7. CASE InterleaveCancelled \/ WriteBroken \/ WriteEnd
  BY <1>7, InterleaveEndsIInv
<1>8. CASE Conclude
  BY <1>8, ConcludeIInv
<1>9. CASE Rename
  BY <1>9, RenameIInv
<1>10. CASE MuxerReads \/ MuxerStops("killed") \/ MuxerStops("failed")
  BY <1>10, MuxerIInv
<1>11. CASE UNCHANGED pipeVars
  <2>1. UNCHANGED <<cancel, asked, router, producer, queue, main, heads, out, muxer, files>>
    BY <1>11 DEF pipeVars
  <2>2. /\ \A r \in Routes : RouteInv(r)'
        /\ OverAll' <=> OverAll
        /\ Everything' = Everything /\ Range(out') = Range(out)
    BY <2>1, RoutesKept
  <2>3. Shape' /\ MainInv' /\ ExportSettles'
    BY <2>1, <2>2 DEF IInv, Shape, MainInv, ExportSettles, CompleteMeansAll, NothingLeft
  <2>4. QED
    BY <2>2, <2>3 DEF IInv
<1>12. QED
  BY <1>1, <1>2, <1>3, <1>4, <1>5, <1>6, <1>7, <1>8, <1>9, <1>10, <1>11 DEF PipeNext, Main

LEMMA Invariant == PipeSpec => []IInv
<1>1. PipeInit => IInv
  BY InitIInv
<1>2. IInv /\ [PipeNext]_pipeVars => IInv'
  BY NextIInv
<1>3. QED
  BY <1>1, <1>2, PTL DEF PipeSpec

\* However an export ends, whatever failed in whichever order, it has settled:
\* done means that every packet of every stream is in the file at the target,
\* anything else that no part of the new file is there, or beside it, and no
\* process or thread goes on (execute.rs: run, conclude, export).
THEOREM EveryExportSettles == PipeSpec => []ExportSettles
<1>1. IInv => ExportSettles
  BY DEF IInv
<1>2. QED
  BY <1>1, Invariant, PTL

\* What is written is never ahead of what another stream has yet to bring.
LEMMA WriteInTime ==
    ASSUME IInv, NEW r \in Routes, Write(r), NEW q \in Routes \ {r}, NEW t \in PacketsOf(q),
           t < heads[r], <<q, t>> \notin Range(out)
    PROVE  \/ router[q].result \in {"failed", "cancelled"}
           \/ heads[q] >= heads[r] /\ ComesBefore(q, heads[q], t)
<1>1. /\ Open(r) /\ heads[r] \in Nat /\ heads[q] # Waiting /\ heads[q] \in Nat \cup {Waiting, Ended}
      /\ Open(q) => heads[r] <= heads[q]
      /\ RouteInv(q) /\ router[q] \in RouterType /\ queue[q] \in Seq(Nat)
  BY DEF Write, IsNext, Open, IInv, Shape
<1>2. CASE heads[q] = Ended
  <2>1. router[q].pc = "over" /\ queue[q] = <<>> /\ ~Open(q)
    BY <1>2 DEF IInv, MainInv, Open
  <2>2. router[q].result # "none" /\ Pending(q) = {}
    BY <1>1, <2>1 DEF RouteInv, Resulted, Pending, Range
  <2>3. router[q].result # "ok"
    BY <1>1, <2>2 DEF RouteInv, Resulted, Sent
  <2>4. QED
    BY <1>1, <2>2, <2>3 DEF RouterType
<1>3. CASE heads[q] # Ended
  <2>1. Open(q) /\ heads[q] \in Nat /\ heads[r] <= heads[q] /\ heads[q] >= heads[r]
    BY <1>1, <1>3 DEF Open
  <2>2. heads[q] \in Pending(q) /\ t # heads[q]
    <3>1. t \in Nat
      BY PacketsAreTimes
    <3>2. QED
      BY <1>1, <2>1, <3>1 DEF Pending
  <2>3. CASE t \in Range(queue[q])
    <3>1. PICK i \in DOMAIN queue[q] : queue[q][i] = t
      BY <2>3 DEF Range
    <3>2. ComesBefore(q, heads[q], t)
      BY <1>1, <2>1, <3>1 DEF RouteInv, InOrder
    <3>3. QED
      BY <2>1, <3>2
  <2>4. CASE t \notin Range(queue[q])
    <3>1. t \notin Sent(q)
      BY <2>2, <2>4 DEF Sent, Pending
    <3>2. CASE router[q].pc = "over"
      BY <1>1, <2>1, <2>2, <3>1, <3>2 DEF RouteInv, InOrder
    <3>3. CASE router[q].pc # "over"
      <4>1. PICK x \in Places(q) : t = Time(q, x)
        BY DEF PacketsOf
      <4>2. ~Earlier(x, Cursor(q))
        BY <1>1, <3>1, <3>3, <4>1 DEF RouteInv, SentSoFar
      <4>3. QED
        BY <1>1, <2>1, <2>2, <3>3, <4>1, <4>2 DEF RouteInv, InOrder
    <3>4. QED
      BY <3>2, <3>3
  <2>5. QED
    BY <2>3, <2>4
<1>4. QED
  BY <1>2, <1>3

\* No stream runs ahead of another in the file: a packet is written once every
\* packet of the other streams that is shown before it is, unless its router
\* failed or its stream brings it after one that is shown no earlier
\* (execute.rs: interleave).
THEOREM NoStreamRunsAhead == PipeSpec => InterleavedInTime
<1> DEFINE InTime == \A r \in Routes : Write(r) =>
         \A q \in Routes \ {r} : \A t \in PacketsOf(q) :
            t < heads[r] /\ <<q, t>> \notin Range(out) =>
               \/ router[q].result \in {"failed", "cancelled"}
               \/ heads[q] >= heads[r] /\ ComesBefore(q, heads[q], t)
<1>1. IInv /\ [PipeNext]_pipeVars => [InTime]_pipeVars
  BY WriteInTime
<1>2. QED
  BY <1>1, Invariant, PTL DEF PipeSpec, InterleavedInTime, InTime
=============================================================================
