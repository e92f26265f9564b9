-------------------------- MODULE EditHistoryProofs --------------------------
(***************************************************************************)
(* Proof that EditHistory implements SnapshotHistory, for any projects     *)
(* without an id twice, any edits and any depth of the history.            *)
(*                                                                         *)
(* One change and its inverse come first: where the change applies and     *)
(* brings nothing that is there, the inverse applies after it and gives    *)
(* back the very project (InverseTakesBack).  So the inverses apply_all    *)
(* collects lead back, wherever it stops, and reverting them gives changes *)
(* that lead forth; and of two edits in one gesture what coalesce keeps    *)
(* leads back over both (CoalesceUndoes).  Every edit compiles to a tidy   *)
(* list, which brings an id once and only where it is new (EditsChange).   *)
(* HistoryInv then chains the entries to graphs: each entry leads from one *)
(* to the one before it.  A push is a graph more, and at the depth the     *)
(* oldest less; an undo or a redo goes one along the chain, and nothing    *)
(* else on it moves.                                                       *)
(***************************************************************************)
EXTENDS EditHistoryRefinement, Extremes, SequenceTheorems, TLAPS

-----------------------------------------------------------------------------
(* Sequences                                                                 *)

\* A sequence, of whatever it is of
IsSeq(s) == s \in Seq(Range(s))

\* A sequence of anything is one of its own elements.
LEMMA SomeSeq ==
    ASSUME NEW U, NEW s \in Seq(U)
    PROVE  IsSeq(s)
<1>1. s \in [1..Len(s) -> U] /\ DOMAIN s = 1..Len(s) /\ Len(s) \in Nat
  OBVIOUS
<1>2. s \in [1..Len(s) -> Range(s)]
  BY <1>1 DEF Range
<1>3. s \in Seq(Range(s))
  BY <1>1, <1>2, SeqDef
<1>4. QED
  BY <1>3 DEF IsSeq

\* A sequence is the function of its places.
LEMMA SeqIs ==
    ASSUME NEW s, IsSeq(s)
    PROVE  Len(s) \in Nat /\ DOMAIN s = 1..Len(s) /\ s = [i \in 1..Len(s) |-> s[i]]
<1>1. Len(s) \in Nat /\ s \in [1..Len(s) -> Range(s)] /\ DOMAIN s = 1..Len(s)
  BY LenProperties DEF IsSeq
<1>2. QED
  BY <1>1

\* A list of so many is a sequence.
LEMMA ListIs ==
    ASSUME NEW n \in Nat, NEW s, DOMAIN s = 1..n, s = [i \in DOMAIN s |-> s[i]]
    PROVE  IsSeq(s) /\ Len(s) = n
<1> DEFINE U == {s[i] : i \in 1..n}
<1>1. s \in [1..n -> U]
  OBVIOUS
<1> HIDE DEF U
<1>2. s \in Seq(U)
  BY <1>1, SeqDef
<1>3. Len(s) \in Nat /\ DOMAIN s = 1..Len(s)
  BY <1>2, LenProperties
<1>4. Len(s) = n
  BY <1>3
<1>5. QED
  BY <1>2, <1>4, SomeSeq

\* Two sequences with the same elements at the same places are the same.
LEMMA SameSeq ==
    ASSUME NEW s, IsSeq(s), NEW r, IsSeq(r), Len(s) = Len(r), \A i \in 1..Len(s) : s[i] = r[i]
    PROVE  s = r
<1>1. s = [i \in 1..Len(s) |-> s[i]] /\ r = [i \in 1..Len(s) |-> r[i]]
  BY SeqIs
<1>2. [i \in 1..Len(s) |-> s[i]] = [i \in 1..Len(s) |-> r[i]]
  OBVIOUS
<1>3. QED
  BY <1>1, <1>2

Joined(s, r, u) ==
    /\ IsSeq(u) /\ Len(u) = Len(s) + Len(r)
    /\ \A i \in 1..Len(s) : u[i] = s[i]
    /\ \A i \in 1..Len(r) : u[Len(s) + i] = r[i]
    /\ \A i \in 1..Len(u) : i \in 1..Len(s) \/ \E k \in 1..Len(r) : i = Len(s) + k

\* Two sequences joined are the one and then the other.
LEMMA JoinIs ==
    ASSUME NEW s, IsSeq(s), NEW r, IsSeq(r)
    PROVE  Joined(s, r, s \o r)
<1> DEFINE U == Range(s) \cup Range(r)
<1>1. Len(s) \in Nat /\ Len(r) \in Nat
  BY SeqIs
<1>2. s \in Seq(U) /\ r \in Seq(U)
  <2>1. s \in [1..Len(s) -> U] /\ r \in [1..Len(r) -> U]
    <3>1. DOMAIN s = 1..Len(s) /\ DOMAIN r = 1..Len(r) /\ s = [i \in 1..Len(s) |-> s[i]]
          /\ r = [i \in 1..Len(r) |-> r[i]]
      BY SeqIs
    <3>2. (\A i \in 1..Len(s) : s[i] \in U) /\ (\A i \in 1..Len(r) : r[i] \in U)
      BY <3>1 DEF Range
    <3>3. QED
      BY <3>1, <3>2
  <2>2. QED
    BY <1>1, <2>1, SeqDef
<1> HIDE DEF U
<1>3. /\ s \o r \in Seq(U) /\ Len(s \o r) = Len(s) + Len(r)
      /\ \A i \in 1..Len(s) + Len(r) : (s \o r)[i] = IF i <= Len(s) THEN s[i] ELSE r[i - Len(s)]
  BY <1>2, ConcatProperties
<1>4. IsSeq(s \o r)
  <2>1. s \o r \in Seq(U)
    BY <1>3
  <2>2. QED
    BY <2>1, SomeSeq, Zenon
<1>5. \A i \in 1..Len(s) : (s \o r)[i] = s[i]
  BY <1>1, <1>3
<1>6. \A i \in 1..Len(r) : (s \o r)[Len(s) + i] = r[i]
  <2>1. \A i \in 1..Len(r) : Len(s) + i \in 1..Len(s) + Len(r) /\ ~(Len(s) + i <= Len(s))
                             /\ Len(s) + i - Len(s) = i
    BY <1>1
  <2>2. QED
    BY <1>3, <2>1
<1>7. \A i \in 1..Len(s \o r) : i \in 1..Len(s) \/ \E k \in 1..Len(r) : i = Len(s) + k
  <2>1. SUFFICES ASSUME NEW i \in 1..Len(s) + Len(r), i \notin 1..Len(s)
                 PROVE  \E k \in 1..Len(r) : i = Len(s) + k
    BY <1>3
  <2>2. i - Len(s) \in 1..Len(r) /\ i = Len(s) + (i - Len(s))
    BY <2>1, <1>1
  <2>3. QED
    BY <2>2
<1>8. QED
  BY <1>3, <1>4, <1>5, <1>6, <1>7 DEF Joined

\* Each place of two sequences joined is a place of the one or of the other.
LEMMA StandsInOne ==
    ASSUME NEW s, NEW r, NEW u, Joined(s, r, u), Len(s) \in Nat, Len(r) \in Nat, NEW n \in 1..Len(u)
    PROVE  \/ n \in 1..Len(s) /\ u[n] = s[n]
           \/ n - Len(s) \in 1..Len(r) /\ u[n] = r[n - Len(s)]
<1>1. n \in 1..Len(s) \/ \E k \in 1..Len(r) : n = Len(s) + k
  BY DEF Joined
<1>2. CASE n \in 1..Len(s)
  BY <1>2 DEF Joined
<1>3. ASSUME NEW k \in 1..Len(r), n = Len(s) + k
      PROVE  n - Len(s) \in 1..Len(r) /\ u[n] = r[n - Len(s)]
  <2>1. n - Len(s) = k
    BY <1>3
  <2>2. u[n] = r[k]
    BY <1>3 DEF Joined
  <2>3. QED
    BY <2>1, <2>2
<1>4. QED
  BY <1>1, <1>2, <1>3

\* The list of one thing
LEMMA OneIs ==
    ASSUME NEW e
    PROVE  IsSeq(<<e>>) /\ Len(<<e>>) = 1 /\ <<e>>[1] = e
<1>1. <<e>> \in Seq({e})
  OBVIOUS
<1>2. IsSeq(<<e>>)
  BY <1>1, SomeSeq, Zenon
<1>3. QED
  BY <1>2

\* The empty list
LEMMA NoneIs == IsSeq(<<>>) /\ Len(<<>>) = 0
BY DEF IsSeq

\* What stands in a part of a sequence
LEMMA PartIs ==
    ASSUME NEW s, IsSeq(s), NEW a \in 1..Len(s) + 1, NEW b \in 0..Len(s)
    PROVE  /\ IsSeq(SubSeq(s, a, b)) /\ Len(SubSeq(s, a, b)) = IF a <= b THEN b - a + 1 ELSE 0
           /\ \A i \in 1..Len(SubSeq(s, a, b)) : SubSeq(s, a, b)[i] = s[a + i - 1]
<1>1. s \in Seq(Range(s)) /\ Len(s) \in Nat
  BY SeqIs DEF IsSeq
<1>2. SubSeq(s, a, b) \in Seq(Range(s))
  BY <1>1
<1>3. IsSeq(SubSeq(s, a, b))
  BY <1>2, SomeSeq, Zenon
<1>4. QED
  BY <1>1, <1>3

\* What stands where in a sequence that something was inserted into
LEMMA InsertedIs ==
    ASSUME NEW s, IsSeq(s), NEW e, NEW i \in 1..Len(s) + 1
    PROVE  /\ IsSeq(InsertAt(s, i, e)) /\ Len(InsertAt(s, i, e)) = Len(s) + 1
           /\ \A k \in 1..Len(s) + 1 :
                 InsertAt(s, i, e)[k] = IF k < i THEN s[k] ELSE IF k = i THEN e ELSE s[k - 1]
<1> DEFINE A == SubSeq(s, 1, i - 1)
           B == SubSeq(s, i, Len(s))
           n == Len(s)
<1>1. n \in Nat
  BY SeqIs
<1>2. IsSeq(A) /\ Len(A) = i - 1 /\ \A k \in 1..i - 1 : A[k] = s[k]
  <2>1. 1 \in 1..Len(s) + 1 /\ i - 1 \in 0..Len(s)
    BY <1>1
  <2>2. QED
    BY <1>1, <2>1, PartIs
<1>3. IsSeq(B) /\ Len(B) = n + 1 - i /\ \A k \in 1..n + 1 - i : B[k] = s[i + k - 1]
  <2>1. i \in 1..Len(s) + 1 /\ Len(s) \in 0..Len(s)
    BY <1>1
  <2>2. QED
    BY <1>1, <2>1, PartIs
<1> DEFINE C == A \o <<e>>
<1>4. InsertAt(s, i, e) = C \o B
  BY DEF InsertAt
<1> HIDE DEF A, B
<1>5. IsSeq(C) /\ Len(C) = i /\ (\A k \in 1..i - 1 : C[k] = s[k]) /\ C[i] = e
  <2>1. /\ IsSeq(C) /\ Len(C) = Len(A) + 1 /\ \A k \in 1..Len(A) : C[k] = A[k]
        /\ C[Len(A) + 1] = e
    <3>1. Joined(A, <<e>>, C)
      BY <1>2, OneIs, JoinIs
    <3>2. Len(<<e>>) = 1 /\ 1 \in 1..1 /\ <<e>>[1] = e
      OBVIOUS
    <3>3. QED
      BY <3>1, <3>2 DEF Joined
  <2>2. Len(A) + 1 = i
    BY <1>1, <1>2
  <2>3. QED
    BY <1>2, <2>1, <2>2
<1> HIDE DEF C
<1>6. /\ IsSeq(C \o B) /\ Len(C \o B) = Len(C) + Len(B)
      /\ \A k \in 1..Len(C) : (C \o B)[k] = C[k]
      /\ \A k \in 1..Len(B) : (C \o B)[Len(C) + k] = B[k]
  <2>1. Joined(C, B, C \o B)
    BY <1>3, <1>5, JoinIs
  <2>2. QED
    BY <2>1 DEF Joined
<1>7. Len(C \o B) = n + 1
  BY <1>1, <1>3, <1>5, <1>6
<1>8. ASSUME NEW k \in 1..n + 1
      PROVE  (C \o B)[k] = IF k < i THEN s[k] ELSE IF k = i THEN e ELSE s[k - 1]
  <2>1. CASE k < i
    <3>1. k \in 1..i - 1 /\ k \in 1..Len(C)
      BY <1>1, <1>5, <2>1
    <3>2. QED
      BY <2>1, <3>1, <1>5, <1>6
  <2>2. CASE k = i
    <3>1. k \in 1..Len(C)
      BY <1>1, <1>5, <2>2
    <3>2. QED
      BY <2>2, <3>1, <1>5, <1>6
  <2>3. CASE k > i
    <3>1. k - i \in 1..n + 1 - i /\ i + (k - i) = k /\ i + (k - i) - 1 = k - 1 /\ ~(k < i) /\ k # i
      BY <1>1, <2>3
    <3>2. (C \o B)[Len(C) + (k - i)] = B[k - i] /\ B[k - i] = s[i + (k - i) - 1]
      BY <3>1, <1>3, <1>6
    <3>3. QED
      BY <3>1, <3>2, <1>5
  <2>4. k \in Int /\ i \in Int
    BY <1>1
  <2>5. k < i \/ k = i \/ k > i
    BY <2>4
  <2>6. QED
    BY <2>1, <2>2, <2>3, <2>5
<1>9. QED
  BY <1>4, <1>6, <1>7, <1>8

\* What stands where in a sequence that something was removed from
LEMMA RemovedIs ==
    ASSUME NEW s, IsSeq(s), NEW i \in 1..Len(s)
    PROVE  /\ IsSeq(RemoveAt(s, i)) /\ Len(RemoveAt(s, i)) = Len(s) - 1
           /\ \A k \in 1..Len(s) - 1 : RemoveAt(s, i)[k] = IF k < i THEN s[k] ELSE s[k + 1]
<1> DEFINE A == SubSeq(s, 1, i - 1)
           B == SubSeq(s, i + 1, Len(s))
           n == Len(s)
<1>1. n \in Nat
  BY SeqIs
<1>2. IsSeq(A) /\ Len(A) = i - 1 /\ \A k \in 1..i - 1 : A[k] = s[k]
  <2>1. 1 \in 1..Len(s) + 1 /\ i - 1 \in 0..Len(s)
    BY <1>1
  <2>2. QED
    BY <1>1, <2>1, PartIs
<1>3. IsSeq(B) /\ Len(B) = n - i /\ \A k \in 1..n - i : B[k] = s[i + k]
  <2>1. i + 1 \in 1..Len(s) + 1 /\ Len(s) \in 0..Len(s)
    BY <1>1
  <2>2. \A k \in 1..n - i : (i + 1) + k - 1 = i + k
    BY <1>1
  <2>3. /\ IsSeq(B) /\ Len(B) = IF i + 1 <= n THEN n - (i + 1) + 1 ELSE 0
        /\ \A k \in 1..Len(B) : B[k] = s[(i + 1) + k - 1]
    BY <2>1, PartIs
  <2>4. Len(B) = n - i
    BY <1>1, <2>3
  <2>5. QED
    BY <2>2, <2>3, <2>4
<1>4. RemoveAt(s, i) = A \o B
  BY DEF RemoveAt
<1> HIDE DEF A, B
<1>5. /\ IsSeq(A \o B) /\ Len(A \o B) = Len(A) + Len(B)
      /\ \A k \in 1..Len(A) : (A \o B)[k] = A[k]
      /\ \A k \in 1..Len(B) : (A \o B)[Len(A) + k] = B[k]
  <2>1. Joined(A, B, A \o B)
    BY <1>2, <1>3, JoinIs
  <2>2. QED
    BY <2>1 DEF Joined
<1>6. Len(A \o B) = n - 1
  BY <1>1, <1>2, <1>3, <1>5
<1>7. ASSUME NEW k \in 1..n - 1
      PROVE  (A \o B)[k] = IF k < i THEN s[k] ELSE s[k + 1]
  <2>1. CASE k < i
    <3>1. k \in 1..i - 1
      BY <1>1, <2>1
    <3>2. QED
      BY <2>1, <3>1, <1>2, <1>5
  <2>2. CASE k >= i
    <3>1. k - (i - 1) \in 1..n - i /\ (i - 1) + (k - (i - 1)) = k /\ i + (k - (i - 1)) = k + 1 /\ ~(k < i)
      BY <1>1, <2>2
    <3>2. (A \o B)[Len(A) + (k - (i - 1))] = B[k - (i - 1)] /\ B[k - (i - 1)] = s[i + (k - (i - 1))]
      BY <3>1, <1>3, <1>5
    <3>3. QED
      BY <3>1, <3>2, <1>2
  <2>3. k \in Int /\ i \in Int
    BY <1>1
  <2>4. k < i \/ k >= i
    BY <2>3
  <2>5. QED
    BY <2>1, <2>2, <2>4
<1>8. QED
  BY <1>4, <1>5, <1>6, <1>7

\* To remove what was inserted takes the insertion back,
LEMMA RemoveInserted ==
    ASSUME NEW s, IsSeq(s), NEW e, NEW i \in 1..Len(s) + 1
    PROVE  RemoveAt(InsertAt(s, i, e), i) = s
<1> DEFINE r == InsertAt(s, i, e)
           u == RemoveAt(r, i)
<1>1. Len(s) \in Nat
  BY SeqIs
<1>2. /\ IsSeq(r) /\ Len(r) = Len(s) + 1
      /\ \A k \in 1..Len(s) + 1 : r[k] = IF k < i THEN s[k] ELSE IF k = i THEN e ELSE s[k - 1]
  BY InsertedIs
<1> HIDE DEF r
<1>3. i \in 1..Len(r)
  BY <1>2
<1>4. /\ IsSeq(u) /\ Len(u) = Len(r) - 1
      /\ \A k \in 1..Len(r) - 1 : u[k] = IF k < i THEN r[k] ELSE r[k + 1]
  BY <1>2, <1>3, RemovedIs
<1> HIDE DEF u
<1>5. Len(u) = Len(s)
  BY <1>1, <1>2, <1>4
<1>6. ASSUME NEW k \in 1..Len(u) PROVE u[k] = s[k]
  <2>1. CASE k < i
    BY <2>1, <1>1, <1>2, <1>4, <1>5
  <2>2. CASE k >= i
    <3>1. k + 1 \in 1..Len(s) + 1 /\ ~(k + 1 < i) /\ k + 1 # i /\ (k + 1) - 1 = k
      BY <2>2, <1>1, <1>5
    <3>2. r[k + 1] = s[k]
      BY <3>1, <1>2
    <3>3. u[k] = r[k + 1]
      BY <2>2, <1>1, <1>2, <1>4, <1>5
    <3>4. QED
      BY <3>2, <3>3
  <2>3. QED
    BY <2>1, <2>2, <1>1, <1>5
<1>7. u = s
  BY <1>4, <1>5, <1>6, SameSeq
<1>8. QED
  BY <1>7 DEF u, r

\* ... and to insert again what was removed the removal.
LEMMA InsertRemoved ==
    ASSUME NEW s, IsSeq(s), NEW i \in 1..Len(s)
    PROVE  InsertAt(RemoveAt(s, i), i, s[i]) = s
<1> DEFINE r == RemoveAt(s, i)
           u == InsertAt(r, i, s[i])
<1>1. Len(s) \in Nat
  BY SeqIs
<1>2. /\ IsSeq(r) /\ Len(r) = Len(s) - 1
      /\ \A k \in 1..Len(s) - 1 : r[k] = IF k < i THEN s[k] ELSE s[k + 1]
  BY RemovedIs
<1> HIDE DEF r
<1>3. i \in 1..Len(r) + 1
  BY <1>1, <1>2
<1>4. /\ IsSeq(u) /\ Len(u) = Len(r) + 1
      /\ \A k \in 1..Len(r) + 1 : u[k] = IF k < i THEN r[k] ELSE IF k = i THEN s[i] ELSE r[k - 1]
  BY <1>2, <1>3, InsertedIs
<1> HIDE DEF u
<1>5. Len(u) = Len(s)
  BY <1>1, <1>2, <1>4
<1>6. ASSUME NEW k \in 1..Len(u) PROVE u[k] = s[k]
  <2>1. CASE k < i
    <3>1. k \in 1..Len(s) - 1 /\ k \in 1..Len(r) + 1
      BY <2>1, <1>1, <1>2, <1>4, <1>5
    <3>2. u[k] = r[k]
      BY <2>1, <3>1, <1>4
    <3>3. QED
      BY <2>1, <3>1, <3>2, <1>2
  <2>2. CASE k = i
    <3>1. k \in 1..Len(r) + 1 /\ ~(k < i)
      BY <2>2, <1>1, <1>2
    <3>2. QED
      BY <2>2, <3>1, <1>4
  <2>3. CASE k > i
    <3>1. k - 1 \in 1..Len(s) - 1 /\ ~(k - 1 < i) /\ (k - 1) + 1 = k
      BY <2>3, <1>1, <1>5
    <3>2. r[k - 1] = s[k]
      BY <3>1, <1>2
    <3>3. u[k] = r[k - 1]
      BY <2>3, <1>1, <1>2, <1>4, <1>5
    <3>4. QED
      BY <3>2, <3>3
  <2>4. QED
    BY <2>1, <2>2, <2>3, <1>1, <1>5
<1>7. u = s
  BY <1>4, <1>5, <1>6, SameSeq
<1>8. QED
  BY <1>7 DEF u, r

-----------------------------------------------------------------------------
(* Projects                                                                  *)

\* What the proofs need of a clip, and of a track
IsClip(c) == "id" \in DOMAIN c /\ c.id \in Nat
TrackOf(t, clips) ==
    [id |-> t.id, kind |-> t.kind, locked |-> t.locked, clips |-> clips]
AreClips(s) == IsSeq(s) /\ \A j \in 1..Len(s) : IsClip(s[j])
IsTrack(t) == t = TrackOf(t, t.clips) /\ t.id \in Nat /\ AreClips(t.clips)

\* Where a clip stands
Sits(p, x, i, j) ==
    i \in 1..Len(p) /\ j \in 1..Len(p[i].clips) /\ p[i].clips[j].id = x

\* Tracks of clips, no id twice
Shape(p) == IsSeq(p) /\ \A i \in 1..Len(p) : IsTrack(p[i])
OneTrackEach(p) == \A i, k \in 1..Len(p) : p[i].id = p[k].id => i = k
OnePlaceEach(p) ==
    \A x : \A i, j, k, l : Sits(p, x, i, j) /\ Sits(p, x, k, l) => i = k /\ j = l
Wf(p) == Shape(p) /\ OneTrackEach(p) /\ OnePlaceEach(p)

\* A track with other clips
Put(p, i, clips) == [p EXCEPT ![i].clips = clips]

\* The clips, ids and tracks of a project by their places
LEMMA ClipsAre ==
    ASSUME NEW p, Shape(p)
    PROVE  /\ \A c : c \in Clips(p) <=> \E i \in 1..Len(p) : \E j \in 1..Len(p[i].clips) : c = p[i].clips[j]
           /\ \A x : x \in Ids(p) <=> \E i, j : Sits(p, x, i, j)
           /\ \A x : x \in TrackIds(p) <=> \E i \in 1..Len(p) : p[i].id = x
<1>1. DOMAIN p = 1..Len(p) /\ \A i \in 1..Len(p) : DOMAIN p[i].clips = 1..Len(p[i].clips)
  BY SeqIs DEF Shape, IsTrack, AreClips
<1>2. \A c : c \in Clips(p) <=> \E i \in 1..Len(p) : \E j \in 1..Len(p[i].clips) : c = p[i].clips[j]
  BY <1>1 DEF Clips, ToSet
<1>3. \A x : x \in Ids(p) <=> \E i, j : Sits(p, x, i, j)
  <2>1. \A x : x \in Ids(p) <=> \E c \in Clips(p) : c.id = x
    BY DEF Ids
  <2>2. QED
    BY <1>2, <2>1 DEF Sits
<1>4. \A x : x \in TrackIds(p) <=> \E i \in 1..Len(p) : p[i].id = x
  BY <1>1 DEF TrackIds
<1>5. QED
  BY <1>2, <1>3, <1>4

\* A track is found by its id,
LEMMA TrackIs ==
    ASSUME NEW p, Wf(p), NEW i \in 1..Len(p)
    PROVE  TrackAt(p, p[i].id) = i /\ p[i].id \in TrackIds(p)
<1>1. i \in DOMAIN p /\ DOMAIN p = 1..Len(p)
  BY SeqIs DEF Wf, Shape
<1>2. \A k \in DOMAIN p : p[k].id = p[i].id => k = i
  BY <1>1 DEF Wf, OneTrackEach
<1>3. QED
  BY <1>1, <1>2 DEF TrackAt, TrackIds

\* ... and an id there is names a track.
LEMMA TrackFound ==
    ASSUME NEW p, Wf(p), NEW x \in TrackIds(p)
    PROVE  TrackAt(p, x) \in 1..Len(p) /\ p[TrackAt(p, x)].id = x
<1>1. PICK i \in 1..Len(p) : p[i].id = x
  BY ClipsAre DEF Wf
<1>2. QED
  BY <1>1, TrackIs

\* A clip is found by its id,
LEMMA ClipIs ==
    ASSUME NEW p, Wf(p), NEW x, NEW i, NEW j, Sits(p, x, i, j)
    PROVE  Home(p, x) = i /\ SlotOf(p, x) = j /\ ClipOf(p, x) = p[i].clips[j] /\ x \in Ids(p)
<1>1. /\ DOMAIN p = 1..Len(p) /\ Len(p[i].clips) \in Nat
      /\ \A k \in 1..Len(p) : DOMAIN p[k].clips = 1..Len(p[k].clips)
  BY SeqIs DEF Wf, Shape, IsTrack, AreClips, Sits
<1>0. \A k \in 1..Len(p) : \A l \in 1..Len(p[k].clips) : p[k].clips[l].id = x => k = i /\ l = j
  <2>1. \A k, l : Sits(p, x, k, l) => k = i /\ l = j
    BY DEF Wf, OnePlaceEach
  <2>2. QED
    BY <2>1 DEF Sits
<1>2. \A k \in DOMAIN p : (\E c \in ToSet(p[k].clips) : c.id = x) => k = i
  BY <1>0, <1>1 DEF ToSet
<1>3. i \in DOMAIN p /\ \E c \in ToSet(p[i].clips) : c.id = x
  BY <1>1 DEF Sits, ToSet
<1>4. Home(p, x) = i
  BY <1>2, <1>3 DEF Home
<1>5. {k \in 1..Len(p[i].clips) : p[i].clips[k].id = x} = {j}
  BY <1>0 DEF Sits
<1>6. Min({j}) = j
  <2>1. j \in Int
    BY DEF Sits
  <2>2. QED
    BY <2>1 DEF Min
<1>7. SlotOf(p, x) = j
  BY <1>4, <1>5, <1>6 DEF SlotOf, SelectInSeq
<1>8. x \in Ids(p)
  BY ClipsAre DEF Wf
<1>9. \A c \in Clips(p) : c.id = x => c = p[i].clips[j]
  <2>1. SUFFICES ASSUME NEW c \in Clips(p), c.id = x PROVE c = p[i].clips[j]
    OBVIOUS
  <2>2. PICK k \in 1..Len(p) : \E l \in 1..Len(p[k].clips) : c = p[k].clips[l]
    BY ClipsAre DEF Wf
  <2>2a. PICK l \in 1..Len(p[k].clips) : c = p[k].clips[l]
    BY <2>2
  <2>3. Sits(p, x, k, l)
    BY <2>1, <2>2, <2>2a DEF Sits
  <2>4. k = i /\ l = j
    BY <2>3 DEF Wf, OnePlaceEach
  <2>5. QED
    BY <2>2a, <2>4
<1>10. p[i].clips[j] \in Clips(p) /\ p[i].clips[j].id = x
  BY ClipsAre DEF Wf, Sits
<1>11. ClipOf(p, x) = p[i].clips[j]
  BY <1>9, <1>10 DEF ClipOf
<1>12. QED
  BY <1>4, <1>7, <1>8, <1>11

\* ... and an id there is names a clip.
LEMMA ClipFound ==
    ASSUME NEW p, Wf(p), NEW x \in Ids(p)
    PROVE  /\ Sits(p, x, Home(p, x), SlotOf(p, x))
           /\ ClipOf(p, x) = p[Home(p, x)].clips[SlotOf(p, x)]
           /\ IsClip(ClipOf(p, x)) /\ ClipOf(p, x).id = x
           /\ ClipOf(p, x) \in Clips(p)
<1>1. PICK i, j : Sits(p, x, i, j)
  BY ClipsAre DEF Wf
<1>2. Home(p, x) = i /\ SlotOf(p, x) = j /\ ClipOf(p, x) = p[i].clips[j]
  BY <1>1, ClipIs
<1>3. IsClip(p[i].clips[j]) /\ p[i].clips[j].id = x /\ p[i].clips[j] \in Clips(p)
  BY <1>1, ClipsAre DEF Wf, Shape, IsTrack, AreClips, Sits
<1>4. QED
  BY <1>1, <1>2, <1>3

\* What a track with other clips leaves of the project, and how it is taken back
LEMMA PutIs ==
    ASSUME NEW p, Shape(p), NEW i \in 1..Len(p), NEW s, AreClips(s)
    PROVE  /\ Shape(Put(p, i, s)) /\ Len(Put(p, i, s)) = Len(p)
           /\ \A k \in 1..Len(p) : k # i => Put(p, i, s)[k] = p[k]
           /\ Put(p, i, s)[i] = TrackOf(p[i], s)
           /\ Put(Put(p, i, s), i, p[i].clips) = p
<1> DEFINE q == Put(p, i, s)
<1>1. Len(p) \in Nat /\ DOMAIN p = 1..Len(p) /\ p = [k \in 1..Len(p) |-> p[k]]
  BY SeqIs DEF Shape
<1>2. p[i] = TrackOf(p[i], p[i].clips)
  BY DEF Shape, IsTrack
<1>3. [p[i] EXCEPT !.clips = s] = TrackOf(p[i], s)
  BY <1>2 DEF TrackOf
<1>4. q = [p EXCEPT ![i] = TrackOf(p[i], s)]
  BY <1>1, <1>3 DEF Put
<1>5. /\ DOMAIN q = 1..Len(p) /\ q[i] = TrackOf(p[i], s)
      /\ \A k \in 1..Len(p) : k # i => q[k] = p[k]
      /\ q = [k \in DOMAIN q |-> q[k]]
  BY <1>1, <1>4
<1> HIDE DEF q
<1>6. IsSeq(q) /\ Len(q) = Len(p)
  BY <1>1, <1>5, ListIs
<1>7. IsTrack(TrackOf(p[i], s))
  BY DEF Shape, IsTrack, TrackOf
<1>8. Shape(q)
  BY <1>5, <1>6, <1>7 DEF Shape
<1>9. Put(q, i, p[i].clips) = p
  <2>1. [q[i] EXCEPT !.clips = p[i].clips] = p[i]
    BY <1>2, <1>5 DEF TrackOf
  <2>2. Put(q, i, p[i].clips) = [q EXCEPT ![i] = p[i]]
    BY <1>5, <2>1 DEF Put
  <2>3. [q EXCEPT ![i] = p[i]] = [k \in 1..Len(p) |-> p[k]]
    BY <1>1, <1>5
  <2>4. QED
    BY <1>1, <2>2, <2>3
<1>10. QED
  BY <1>5, <1>6, <1>8, <1>9 DEF q

-----------------------------------------------------------------------------
(* One change and its inverse                                                *)

\* What a change brings into a project is new there.
Fresh(p, ch) ==
    CASE ch.change = "insert-clip" ->
           ch.index \in Nat /\ IsClip(ch.clip) /\ ch.clip.id \notin Ids(p)
      [] ch.change = "replace-clip" -> IsClip(ch.clip)
      [] ch.change = "insert-track" ->
           /\ ch.index \in Nat \ {0} /\ IsTrack(ch.put) /\ ch.put.id \notin TrackIds(p)
           /\ \A j \in 1..Len(ch.put.clips) : ch.put.clips[j].id \notin Ids(p)
           /\ \A j, k \in 1..Len(ch.put.clips) :
                 ch.put.clips[j].id = ch.put.clips[k].id => j = k
      [] OTHER -> ch.change \in {"remove-clip", "remove-track", "header"}

\* One change leads from p to q.
Leads(p, ch, q) == Wf(p) /\ Applies(p, ch) /\ Fresh(p, ch) /\ q = After(p, ch)

\* ... and its inverse back
Returns(p, ch) ==
    Wf(After(p, ch)) /\ Leads(After(p, ch), InverseOf(p, ch), p)

\* Where a track is inserted there is a place for it (edit.rs: insert_track).
LEMMA LesserIs ==
    ASSUME NEW a \in Nat \ {0}, NEW n \in Nat
    PROVE  Min({a, n + 1}) \in 1..n + 1 /\ (a <= n + 1 => Min({a, n + 1}) = a)
<1>1. Min({a, n + 1}) = IF a <= n + 1 THEN a ELSE n + 1
  BY LesserOf
<1>2. QED
  BY <1>1

\* Where a clip is inserted there is a place for it, its own if the index names one.
LEMMA PlaceIs ==
    ASSUME NEW s, AreClips(s), NEW index \in Nat, NEW c
    PROVE  /\ Place(s, index, c) \in 1..Len(s) + 1
           /\ index \in 1..Len(s) + 1 => Place(s, index, c) = index
<1>1. Len(s) \in Nat /\ DOMAIN s = 1..Len(s)
  BY SeqIs DEF AreClips
<1>2. CASE index = 0
  <2> DEFINE S == {i \in DOMAIN s : s[i].start <= c.start}
  <2>1. IsFiniteSet(1..Len(s)) /\ Cardinality(1..Len(s)) = Len(s)
    <3>1. IF 1 > Len(s) THEN Len(s) = 0 ELSE TRUE
      BY <1>1
    <3>2. QED
      BY <1>1, <3>1, FS_Interval
  <2>2. S \subseteq 1..Len(s)
    BY <1>1
  <2> HIDE DEF S
  <2>3. Cardinality(S) \in Nat /\ Cardinality(S) <= Len(s)
    BY <2>1, <2>2, FS_Subset, FS_CardinalityType
  <2>4. Place(s, index, c) = 1 + Cardinality(S)
    BY <1>2 DEF Place, S
  <2>5. QED
    BY <1>1, <1>2, <2>3, <2>4
<1>3. CASE index # 0
  <2>1. Place(s, index, c) = Min({index, Len(s) + 1})
    BY <1>3 DEF Place
  <2>2. QED
    BY <1>1, <1>3, <2>1, LesserIs
<1>4. QED
  BY <1>2, <1>3

\* Where clips stand once one was inserted
LEMMA InsertedStands ==
    ASSUME NEW p, Shape(p), NEW t \in 1..Len(p), NEW k \in 1..Len(p[t].clips) + 1,
           NEW c, IsClip(c)
    PROVE  LET q == Put(p, t, InsertAt(p[t].clips, k, c))
           IN /\ Shape(q) /\ Len(q) = Len(p) /\ \A i \in 1..Len(p) : q[i].id = p[i].id
              /\ q[t].clips = InsertAt(p[t].clips, k, c)
              /\ Sits(q, c.id, t, k)
              /\ \A x, i, j : Sits(q, x, i, j) =>
                    IF i = t THEN IF j < k THEN Sits(p, x, i, j)
                                  ELSE IF j = k THEN x = c.id ELSE Sits(p, x, i, j - 1)
                    ELSE Sits(p, x, i, j)
<1> DEFINE s == p[t].clips
           r == InsertAt(s, k, c)
           q == Put(p, t, r)
<1>1. AreClips(s) /\ IsSeq(s) /\ Len(s) \in Nat
  BY SeqIs DEF Shape, IsTrack, AreClips
<1>2. /\ IsSeq(r) /\ Len(r) = Len(s) + 1
      /\ \A i \in 1..Len(s) + 1 : r[i] = IF i < k THEN s[i] ELSE IF i = k THEN c ELSE s[i - 1]
  BY <1>1, InsertedIs
<1> HIDE DEF r
<1>3. AreClips(r)
  <2>1. SUFFICES ASSUME NEW i \in 1..Len(s) + 1 PROVE IsClip(r[i])
    BY <1>2 DEF AreClips
  <2>2. CASE i < k
    <3>1. i \in 1..Len(s)
      BY <1>1, <2>2
    <3>2. QED
      BY <1>1, <1>2, <2>2, <3>1 DEF AreClips
  <2>3. CASE i = k
    BY <1>2, <2>3
  <2>4. CASE i > k
    <3>1. i - 1 \in 1..Len(s) /\ ~(i < k) /\ i # k
      BY <1>1, <2>4
    <3>2. QED
      BY <1>1, <1>2, <3>1 DEF AreClips
  <2>5. i \in Int /\ k \in Int
    BY <1>1
  <2>6. i < k \/ i = k \/ i > k
    BY <2>5
  <2>7. QED
    BY <2>2, <2>3, <2>4, <2>6
<1>4. /\ Shape(q) /\ Len(q) = Len(p)
      /\ \A i \in 1..Len(p) : i # t => q[i] = p[i]
      /\ q[t] = TrackOf(p[t], r)
  BY <1>3, PutIs
<1> HIDE DEF q
<1>5. q[t].clips = r /\ \A i \in 1..Len(p) : q[i].id = p[i].id
  BY <1>4 DEF TrackOf
<1>6. Sits(q, c.id, t, k)
  BY <1>1, <1>2, <1>4, <1>5 DEF Sits
<1>7. ASSUME NEW x, NEW i, NEW j, Sits(q, x, i, j)
      PROVE  IF i = t THEN IF j < k THEN Sits(p, x, i, j)
                           ELSE IF j = k THEN x = c.id ELSE Sits(p, x, i, j - 1)
             ELSE Sits(p, x, i, j)
  <2>1. CASE i # t
    BY <1>4, <1>7, <2>1 DEF Sits
  <2>2. CASE i = t
    <3>1. j \in 1..Len(s) + 1 /\ r[j].id = x /\ j \in Int /\ k \in Int
      BY <1>1, <1>2, <1>5, <1>7, <2>2 DEF Sits
    <3>2. CASE j < k
      <4>1. j \in 1..Len(s) /\ r[j] = s[j]
        BY <1>1, <1>2, <3>1, <3>2
      <4>2. QED
        BY <2>2, <3>1, <3>2, <4>1 DEF Sits
    <3>3. CASE j = k
      BY <1>2, <2>2, <3>1, <3>3
    <3>4. CASE j > k
      <4>1. j - 1 \in 1..Len(s) /\ r[j] = s[j - 1] /\ ~(j < k) /\ j # k
        BY <1>1, <1>2, <3>1, <3>4
      <4>2. QED
        BY <2>2, <3>1, <4>1 DEF Sits
    <3>5. j < k \/ j = k \/ j > k
      BY <3>1
    <3>6. QED
      BY <3>2, <3>3, <3>4, <3>5
  <2>3. QED
    BY <2>1, <2>2
<1>8. QED
  BY <1>4, <1>5, <1>6, <1>7 DEF q, r

\* Where clips stand once one was removed
LEMMA RemovedStands ==
    ASSUME NEW p, Shape(p), NEW t \in 1..Len(p), NEW k \in 1..Len(p[t].clips)
    PROVE  LET q == Put(p, t, RemoveAt(p[t].clips, k))
           IN /\ Shape(q) /\ Len(q) = Len(p) /\ \A i \in 1..Len(p) : q[i].id = p[i].id
              /\ q[t].clips = RemoveAt(p[t].clips, k)
              /\ \A x, i, j : Sits(q, x, i, j) =>
                    IF i = t /\ j >= k THEN Sits(p, x, i, j + 1) ELSE Sits(p, x, i, j)
              /\ \A x, i, j : Sits(q, x, i, j) => j \in Nat
<1> DEFINE s == p[t].clips
           r == RemoveAt(s, k)
           q == Put(p, t, r)
<1>1. AreClips(s) /\ IsSeq(s) /\ Len(s) \in Nat
  BY SeqIs DEF Shape, IsTrack, AreClips
<1>2. /\ IsSeq(r) /\ Len(r) = Len(s) - 1
      /\ \A i \in 1..Len(s) - 1 : r[i] = IF i < k THEN s[i] ELSE s[i + 1]
  BY <1>1, RemovedIs
<1> HIDE DEF r
<1>3. AreClips(r)
  <2>1. SUFFICES ASSUME NEW i \in 1..Len(s) - 1 PROVE IsClip(r[i])
    BY <1>2 DEF AreClips
  <2>2. i \in 1..Len(s) /\ i + 1 \in 1..Len(s)
    BY <1>1
  <2>3. QED
    BY <1>1, <1>2, <2>2 DEF AreClips
<1>4. /\ Shape(q) /\ Len(q) = Len(p)
      /\ \A i \in 1..Len(p) : i # t => q[i] = p[i]
      /\ q[t] = TrackOf(p[t], r)
  BY <1>3, PutIs
<1> HIDE DEF q
<1>5. q[t].clips = r /\ \A i \in 1..Len(p) : q[i].id = p[i].id
  BY <1>4 DEF TrackOf
<1>6. ASSUME NEW x, NEW i, NEW j, Sits(q, x, i, j)
      PROVE  j \in Nat /\ IF i = t /\ j >= k THEN Sits(p, x, i, j + 1) ELSE Sits(p, x, i, j)
  <2>0. j \in Nat
    BY <1>6 DEF Sits
  <2>1. CASE i # t
    BY <1>4, <1>6, <2>0, <2>1 DEF Sits
  <2>2. CASE i = t
    <3>1. j \in 1..Len(s) - 1 /\ r[j].id = x /\ j \in Int /\ k \in Int
      BY <1>1, <1>2, <1>5, <1>6, <2>2 DEF Sits
    <3>2. j \in 1..Len(s) /\ j + 1 \in 1..Len(s) /\ r[j] = IF j < k THEN s[j] ELSE s[j + 1]
      BY <1>1, <1>2, <3>1
    <3>3. CASE j < k
      BY <2>0, <2>2, <3>1, <3>2, <3>3 DEF Sits
    <3>4. CASE j >= k
      BY <2>0, <2>2, <3>1, <3>2, <3>4 DEF Sits
    <3>5. j < k \/ j >= k
      BY <3>1
    <3>6. QED
      BY <3>3, <3>4, <3>5
  <2>3. QED
    BY <2>1, <2>2
<1>7. QED
  BY <1>4, <1>5, <1>6 DEF q, r

\* The inverse of inserting a clip takes it back.
LEMMA InsertReturns ==
    ASSUME NEW p, Wf(p), NEW ch, ch.change = "insert-clip", Applies(p, ch), Fresh(p, ch)
    PROVE  Returns(p, ch)
<1> DEFINE c == ch.clip
           t == TrackAt(p, ch.track)
           s == p[t].clips
           k == Place(s, ch.index, c)
           q == Put(p, t, InsertAt(s, k, c))
<1>1. t \in 1..Len(p) /\ p[t].id = ch.track
  BY TrackFound DEF Applies
<1>2. IsClip(c) /\ c.id \notin Ids(p) /\ ch.index \in Nat
  BY DEF Fresh
<1>3. Shape(p) /\ AreClips(s)
  BY <1>1 DEF Wf, Shape, IsTrack
<1>4. k \in 1..Len(s) + 1
  BY <1>2, <1>3, PlaceIs
<1>5. After(p, ch) = q
  <2>1. DOMAIN p = 1..Len(p)
    BY <1>3, SeqIs DEF Shape
  <2>2. QED
    BY <1>1, <2>1 DEF After, Put
<1> HIDE DEF q, k
<1>6. /\ Shape(q) /\ Len(q) = Len(p) /\ \A i \in 1..Len(p) : q[i].id = p[i].id
      /\ q[t].clips = InsertAt(s, k, c)
      /\ Sits(q, c.id, t, k)
      /\ \A x, i, j : Sits(q, x, i, j) =>
            IF i = t THEN IF j < k THEN Sits(p, x, i, j)
                          ELSE IF j = k THEN x = c.id ELSE Sits(p, x, i, j - 1)
            ELSE Sits(p, x, i, j)
  BY <1>1, <1>2, <1>3, <1>4, InsertedStands DEF q
<1>7. \A i, j : ~Sits(p, c.id, i, j)
  BY <1>2, <1>3, ClipsAre
<1>8. OneTrackEach(q)
  BY <1>6 DEF Wf, OneTrackEach
<1>9. OnePlaceEach(q)
  <2>1. SUFFICES ASSUME NEW x, NEW i, NEW j, NEW m, NEW l, Sits(q, x, i, j), Sits(q, x, m, l)
                 PROVE  i = m /\ j = l
    BY DEF OnePlaceEach
  <2>2. j \in Int /\ l \in Int /\ k \in Int
    <3>1. Len(s) \in Nat
      BY <1>3, SeqIs DEF AreClips
    <3>2. QED
      BY <2>1, <1>4, <3>1 DEF Sits
  <2>3. CASE x = c.id
    BY <2>1, <2>2, <2>3, <1>6, <1>7
  <2>4. CASE x # c.id
    <3> DEFINE jj == IF i = t /\ j > k THEN j - 1 ELSE j
               ll == IF m = t /\ l > k THEN l - 1 ELSE l
    <3>1. Sits(p, x, i, jj) /\ (i = t => j # k)
      BY <2>1, <2>2, <2>4, <1>6
    <3>2. Sits(p, x, m, ll) /\ (m = t => l # k)
      BY <2>1, <2>2, <2>4, <1>6
    <3>3. i = m /\ jj = ll
      BY <3>1, <3>2 DEF Wf, OnePlaceEach
    <3>4. QED
      BY <2>2, <3>1, <3>2, <3>3
  <2>5. QED
    BY <2>3, <2>4
<1>10. Wf(q)
  BY <1>6, <1>8, <1>9 DEF Wf
<1>11. InverseOf(p, ch) = RemoveClip(c.id)
  BY DEF InverseOf
<1>12. Home(q, c.id) = t /\ SlotOf(q, c.id) = k /\ c.id \in Ids(q)
  BY <1>6, <1>10, ClipIs
<1>13. After(q, RemoveClip(c.id)) = Put(q, t, RemoveAt(q[t].clips, k))
  <2>1. DOMAIN q = 1..Len(q)
    BY <1>6, SeqIs DEF Shape
  <2>2. QED
    BY <1>1, <1>6, <1>12, <2>1 DEF After, RemoveClip, Put
<1>14. RemoveAt(q[t].clips, k) = s
  BY <1>3, <1>4, <1>6, RemoveInserted DEF AreClips
<1>15. Put(q, t, s) = p
  <2>1. AreClips(q[t].clips)
    BY <1>1, <1>6 DEF Shape, IsTrack
  <2>2. QED
    BY <1>1, <1>3, <1>6, <2>1, PutIs DEF q
<1>16. Applies(q, RemoveClip(c.id)) /\ Fresh(q, RemoveClip(c.id))
  BY <1>12 DEF Applies, Fresh, RemoveClip
<1>17. QED
  BY <1>5, <1>10, <1>11, <1>13, <1>14, <1>15, <1>16 DEF Returns, Leads

\* The inverse of removing a clip puts it back where it was.
LEMMA RemoveReturns ==
    ASSUME NEW p, Wf(p), NEW ch, ch.change = "remove-clip", Applies(p, ch)
    PROVE  Returns(p, ch) /\ Ids(After(p, ch)) \subseteq Ids(p) \ {ch.id}
<1> DEFINE x == ch.id
           t == Home(p, x)
           k == SlotOf(p, x)
           s == p[t].clips
           q == Put(p, t, RemoveAt(s, k))
           c == ClipOf(p, x)
           inv == InsertClip(p[t].id, k, c)
<1>1. Sits(p, x, t, k) /\ c = s[k] /\ IsClip(c) /\ c.id = x
  BY ClipFound DEF Applies
<1>2. t \in 1..Len(p) /\ k \in 1..Len(s) /\ Shape(p) /\ AreClips(s)
  BY <1>1 DEF Sits, Wf, Shape, IsTrack
<1>3. After(p, ch) = q
  <2>1. DOMAIN p = 1..Len(p)
    BY <1>2, SeqIs DEF Shape
  <2>2. QED
    BY <1>2, <2>1 DEF After, Put
<1>4. InverseOf(p, ch) = inv
  BY DEF InverseOf
<1>5. IsSeq(s) /\ Len(s) \in Nat
  BY <1>2, SeqIs DEF AreClips
<1> HIDE DEF q, t, k, c, x
<1>6. /\ Shape(q) /\ Len(q) = Len(p) /\ \A i \in 1..Len(p) : q[i].id = p[i].id
      /\ q[t].clips = RemoveAt(s, k)
      /\ \A y, i, j : Sits(q, y, i, j) =>
            IF i = t /\ j >= k THEN Sits(p, y, i, j + 1) ELSE Sits(p, y, i, j)
      /\ \A y, i, j : Sits(q, y, i, j) => j \in Nat
  BY <1>2, RemovedStands DEF q
<1>7. k \in Int
  BY <1>2, <1>5
<1>8. OneTrackEach(q)
  BY <1>6 DEF Wf, OneTrackEach
<1>9. OnePlaceEach(q)
  <2>1. SUFFICES ASSUME NEW y, NEW i, NEW j, NEW m, NEW l, Sits(q, y, i, j), Sits(q, y, m, l)
                 PROVE  i = m /\ j = l
    BY DEF OnePlaceEach
  <2> DEFINE jj == IF i = t /\ j >= k THEN j + 1 ELSE j
             ll == IF m = t /\ l >= k THEN l + 1 ELSE l
  <2>2. j \in Nat /\ l \in Nat
    BY <2>1, <1>6
  <2>3. Sits(p, y, i, jj) /\ Sits(p, y, m, ll)
    BY <2>1, <1>6
  <2>4. i = m /\ jj = ll
    BY <2>3 DEF Wf, OnePlaceEach
  <2>5. QED
    BY <1>7, <2>2, <2>4
<1>10. Wf(q)
  BY <1>6, <1>8, <1>9 DEF Wf
<1>11. \A i, j : ~Sits(q, x, i, j)
  <2>1. SUFFICES ASSUME NEW i, NEW j, Sits(q, x, i, j) PROVE FALSE
    OBVIOUS
  <2> DEFINE jj == IF i = t /\ j >= k THEN j + 1 ELSE j
  <2>2. j \in Nat /\ Sits(p, x, i, jj)
    BY <2>1, <1>6
  <2>3. i = t /\ jj = k
    BY <1>1, <2>2 DEF Wf, OnePlaceEach
  <2>4. QED
    BY <1>7, <2>2, <2>3
<1>12. Ids(q) \subseteq Ids(p) \ {x}
  <2>1. SUFFICES ASSUME NEW y \in Ids(q) PROVE y \in Ids(p) /\ y # x
    OBVIOUS
  <2>2. PICK i, j : Sits(q, y, i, j)
    BY <2>1, <1>6, ClipsAre
  <2>3. \E l : Sits(p, y, i, l)
    BY <2>2, <1>6
  <2>4. QED
    BY <1>2, <1>11, <2>2, <2>3, ClipsAre
<1>13. Len(RemoveAt(s, k)) = Len(s) - 1 /\ AreClips(q[t].clips)
  BY <1>2, <1>5, <1>6, RemovedIs DEF Shape, IsTrack
<1>14. TrackAt(q, p[t].id) = t /\ p[t].id \in TrackIds(q)
  BY <1>2, <1>6, <1>10, TrackIs
<1>15. Place(q[t].clips, k, c) = k
  <2>1. k \in Nat /\ k \in 1..Len(q[t].clips) + 1
    BY <1>2, <1>5, <1>6, <1>13
  <2>2. QED
    BY <1>13, <2>1, PlaceIs
<1>16. After(q, inv) = Put(q, t, InsertAt(q[t].clips, k, c))
  <2>1. DOMAIN q = 1..Len(p)
    BY <1>6, SeqIs DEF Shape
  <2>2. QED
    BY <1>2, <1>14, <1>15, <2>1 DEF After, InsertClip, Put
<1>17. InsertAt(q[t].clips, k, c) = s
  BY <1>1, <1>2, <1>5, <1>6, InsertRemoved
<1>18. Put(q, t, s) = p
  BY <1>2, <1>6, <1>13, PutIs DEF q
<1>19. Applies(q, inv) /\ Fresh(q, inv)
  <2>1. k \in Nat
    BY <1>2, <1>5
  <2>2. QED
    BY <1>1, <1>12, <1>14, <2>1 DEF Applies, Fresh, InsertClip
<1>20. QED
  BY <1>3, <1>4, <1>10, <1>12, <1>16, <1>17, <1>18, <1>19 DEF Returns, Leads, x

\* A clip replaced stands where it stood, and nothing else changes.
LEMMA ReplacedIs ==
    ASSUME NEW p, Wf(p), NEW c, IsClip(c), c.id \in Ids(p)
    PROVE  LET t == Home(p, c.id)
               k == SlotOf(p, c.id)
               q == After(p, ReplaceClip(c))
           IN /\ q = Put(p, t, [p[t].clips EXCEPT ![k] = c])
              /\ Wf(q) /\ Len(q) = Len(p)
              /\ \A i \in 1..Len(p) : i # t => q[i] = p[i]
              /\ q[t] = TrackOf(p[t], q[t].clips)
              /\ q[t].clips = [p[t].clips EXCEPT ![k] = c]
              /\ \A x, i, j : Sits(q, x, i, j) <=> Sits(p, x, i, j)
<1> DEFINE t == Home(p, c.id)
           k == SlotOf(p, c.id)
           s == p[t].clips
           r == [s EXCEPT ![k] = c]
           q == Put(p, t, r)
<1>1. Sits(p, c.id, t, k)
  BY ClipFound
<1>2. t \in 1..Len(p) /\ k \in 1..Len(s) /\ Shape(p) /\ AreClips(s) /\ s[k].id = c.id
  BY <1>1 DEF Sits, Wf, Shape, IsTrack
<1>3. After(p, ReplaceClip(c)) = q
  <2>1. DOMAIN p = 1..Len(p)
    BY <1>2, SeqIs DEF Shape
  <2>2. QED
    BY <1>2, <2>1 DEF After, Put, ReplaceClip
<1>4. Len(s) \in Nat /\ DOMAIN s = 1..Len(s)
  BY <1>2, SeqIs DEF AreClips
<1> HIDE DEF t, k, q
<1>5. IsSeq(r) /\ Len(r) = Len(s) /\ r[k] = c /\ \A j \in 1..Len(s) : j # k => r[j] = s[j]
  <2>1. DOMAIN r = 1..Len(s) /\ r = [j \in DOMAIN r |-> r[j]]
    BY <1>4
  <2>2. QED
    BY <1>2, <1>4, <2>1, ListIs
<1> HIDE DEF r
<1>6. AreClips(r)
  BY <1>2, <1>5 DEF AreClips
<1>7. /\ Shape(q) /\ Len(q) = Len(p) /\ \A i \in 1..Len(p) : i # t => q[i] = p[i]
      /\ q[t] = TrackOf(p[t], r)
  BY <1>2, <1>6, PutIs DEF q
<1>8. q[t].clips = r /\ q[t].id = p[t].id
  BY <1>7 DEF TrackOf
<1>9. \A x, i, j : Sits(q, x, i, j) <=> Sits(p, x, i, j)
  BY <1>2, <1>5, <1>7, <1>8 DEF Sits
<1>10. \A i \in 1..Len(p) : q[i].id = p[i].id
  BY <1>7, <1>8
<1>11. Wf(q)
  <2>1. OneTrackEach(q)
    BY <1>7, <1>10 DEF Wf, OneTrackEach
  <2>2. OnePlaceEach(q)
    BY <1>9 DEF Wf, OnePlaceEach
  <2>3. QED
    BY <1>7, <2>1, <2>2 DEF Wf
<1>12. QED
  BY <1>3, <1>7, <1>8, <1>9, <1>11 DEF q, r, t, k

\* The inverse of replacing a clip puts the earlier one back.
LEMMA ReplaceReturns ==
    ASSUME NEW p, Wf(p), NEW ch, ch.change = "replace-clip", Applies(p, ch), Fresh(p, ch)
    PROVE  Returns(p, ch)
<1> DEFINE c == ch.clip
           x == c.id
           t == Home(p, x)
           k == SlotOf(p, x)
           s == p[t].clips
           q == After(p, ReplaceClip(c))
           d == ClipOf(p, x)
<1>1. IsClip(c) /\ x \in Ids(p)
  BY DEF Applies, Fresh
<1>2. After(p, ch) = q /\ InverseOf(p, ch) = ReplaceClip(d)
  BY DEF After, ReplaceClip, InverseOf
<1>3. Sits(p, x, t, k) /\ d = s[k] /\ IsClip(d) /\ d.id = x
  BY <1>1, ClipFound
<1>4. /\ q = Put(p, t, [s EXCEPT ![k] = c])
      /\ Wf(q) /\ Len(q) = Len(p)
      /\ q[t].clips = [s EXCEPT ![k] = c]
      /\ \A y, i, j : Sits(q, y, i, j) <=> Sits(p, y, i, j)
  BY <1>1, ReplacedIs
<1> HIDE DEF q, t, k, d
<1>5. Home(q, x) = t /\ SlotOf(q, x) = k /\ x \in Ids(q)
  BY <1>3, <1>4, ClipIs
<1>6. After(q, ReplaceClip(d)) = Put(q, t, [q[t].clips EXCEPT ![k] = d])
  BY <1>3, <1>4, <1>5, ReplacedIs
<1>7. t \in 1..Len(p) /\ k \in 1..Len(s) /\ Shape(p) /\ AreClips(s)
  BY <1>3 DEF Sits, Wf, Shape, IsTrack
<1>8. [q[t].clips EXCEPT ![k] = d] = s
  <2>1. DOMAIN s = 1..Len(s) /\ s = [j \in 1..Len(s) |-> s[j]]
    BY <1>7, SeqIs DEF AreClips
  <2>2. [[s EXCEPT ![k] = c] EXCEPT ![k] = d] = [j \in 1..Len(s) |-> s[j]]
    BY <1>3, <1>7, <2>1
  <2>3. QED
    BY <1>4, <2>1, <2>2
<1>9. Put(q, t, s) = p
  <2>1. AreClips([s EXCEPT ![k] = c])
    BY <1>4, <1>7 DEF Wf, Shape, IsTrack
  <2>2. QED
    BY <1>4, <1>7, <2>1, PutIs
<1>10. Applies(q, ReplaceClip(d)) /\ Fresh(q, ReplaceClip(d))
  BY <1>3, <1>5 DEF Applies, Fresh, ReplaceClip
<1>11. QED
  BY <1>2, <1>4, <1>6, <1>8, <1>9, <1>10 DEF Returns, Leads

\* The inverse of inserting a track takes it back.
LEMMA InsertTrackReturns ==
    ASSUME NEW p, Wf(p), NEW ch, ch.change = "insert-track", Fresh(p, ch)
    PROVE  Returns(p, ch)
<1> DEFINE n == Min({ch.index, Len(p) + 1})
           tr == ch.put
           q == InsertAt(p, n, tr)
<1>1. /\ ch.index \in Nat \ {0} /\ IsTrack(tr) /\ tr.id \notin TrackIds(p)
      /\ \A j \in 1..Len(tr.clips) : tr.clips[j].id \notin Ids(p)
      /\ \A j, k \in 1..Len(tr.clips) : tr.clips[j].id = tr.clips[k].id => j = k
  BY DEF Fresh
<1>2. Shape(p) /\ IsSeq(p) /\ Len(p) \in Nat
  BY SeqIs DEF Wf, Shape
<1>3. n \in 1..Len(p) + 1
  BY <1>1, <1>2, LesserIs
<1>4. After(p, ch) = q /\ InverseOf(p, ch) = RemoveTrack(tr.id)
  BY DEF After, InverseOf
<1> HIDE DEF q, n, tr
<1>5. /\ IsSeq(q) /\ Len(q) = Len(p) + 1
      /\ \A k \in 1..Len(p) + 1 : q[k] = IF k < n THEN p[k] ELSE IF k = n THEN tr ELSE p[k - 1]
  BY <1>2, <1>3, InsertedIs DEF q
<1>6. q[n] = tr /\ n \in 1..Len(q)
  BY <1>2, <1>3, <1>5
<1> DEFINE Old(k) == IF k > n THEN k - 1 ELSE k
<1>7. \A k \in 1..Len(q) : k # n => Old(k) \in 1..Len(p) /\ q[k] = p[Old(k)]
  BY <1>2, <1>3, <1>5
<1>8. \A k, l \in 1..Len(q) : k # n /\ l # n /\ Old(k) = Old(l) => k = l
  BY <1>2, <1>3, <1>5
<1> HIDE DEF Old
<1>9. Shape(q)
  BY <1>1, <1>2, <1>5, <1>6, <1>7 DEF Shape
<1>10. \A k \in 1..Len(q) : k # n => q[k].id # tr.id
  BY <1>1, <1>2, <1>7, ClipsAre
<1>11. OneTrackEach(q)
  <2>1. SUFFICES ASSUME NEW i \in 1..Len(q), NEW k \in 1..Len(q), q[i].id = q[k].id
                 PROVE  i = k
    BY DEF OneTrackEach
  <2>2. CASE i = n \/ k = n
    BY <2>1, <2>2, <1>6, <1>10
  <2>3. CASE i # n /\ k # n
    <3>1. p[Old(i)].id = p[Old(k)].id /\ Old(i) \in 1..Len(p) /\ Old(k) \in 1..Len(p)
      BY <2>1, <2>3, <1>7
    <3>2. Old(i) = Old(k)
      BY <3>1 DEF Wf, OneTrackEach
    <3>3. QED
      BY <2>3, <3>2, <1>8
  <2>4. QED
    BY <2>2, <2>3
<1>12. \A x, k, j : Sits(q, x, k, j) /\ k # n => Sits(p, x, Old(k), j) /\ x \in Ids(p)
  <2>1. \A x, k, j : Sits(q, x, k, j) /\ k # n => Sits(p, x, Old(k), j)
    BY <1>7 DEF Sits
  <2>2. QED
    BY <1>2, <2>1, ClipsAre
<1>13. \A x, j : Sits(q, x, n, j) => j \in 1..Len(tr.clips) /\ tr.clips[j].id = x /\ x \notin Ids(p)
  BY <1>1, <1>6 DEF Sits
<1>14. OnePlaceEach(q)
  <2>1. SUFFICES ASSUME NEW y, NEW i, NEW j, NEW m, NEW l, Sits(q, y, i, j), Sits(q, y, m, l)
                 PROVE  i = m /\ j = l
    BY DEF OnePlaceEach
  <2>2. CASE i = n \/ m = n
    <3>1. i = n /\ m = n
      BY <2>1, <2>2, <1>12, <1>13
    <3>2. QED
      BY <2>1, <3>1, <1>1, <1>13
  <2>3. CASE i # n /\ m # n
    <3>1. Sits(p, y, Old(i), j) /\ Sits(p, y, Old(m), l)
      BY <2>1, <2>3, <1>12
    <3>2. Old(i) = Old(m) /\ j = l
      BY <3>1 DEF Wf, OnePlaceEach
    <3>3. QED
      BY <2>1, <2>3, <3>2, <1>8 DEF Sits
  <2>4. QED
    BY <2>2, <2>3
<1>15. Wf(q)
  BY <1>9, <1>11, <1>14 DEF Wf
<1>16. TrackAt(q, tr.id) = n /\ tr.id \in TrackIds(q)
  BY <1>6, <1>15, TrackIs
<1>17. After(q, RemoveTrack(tr.id)) = RemoveAt(q, n)
  BY <1>16 DEF After, RemoveTrack
<1>18. RemoveAt(q, n) = p
  BY <1>2, <1>3, RemoveInserted DEF q
<1>19. Applies(q, RemoveTrack(tr.id)) /\ Fresh(q, RemoveTrack(tr.id))
  BY <1>16 DEF Applies, Fresh, RemoveTrack
<1>20. QED
  BY <1>4, <1>15, <1>17, <1>18, <1>19 DEF Returns, Leads

\* The inverse of removing a track puts it back with its clips, where it was.
LEMMA RemoveTrackReturns ==
    ASSUME NEW p, Wf(p), NEW ch, ch.change = "remove-track", Applies(p, ch)
    PROVE  /\ Returns(p, ch)
           /\ Ids(After(p, ch)) \subseteq Ids(p) /\ TrackIds(After(p, ch)) \subseteq TrackIds(p)
<1> DEFINE n == TrackAt(p, ch.id)
           q == RemoveAt(p, n)
           inv == InsertTrack(n, p[n])
<1>1. n \in 1..Len(p) /\ p[n].id = ch.id
  BY TrackFound DEF Applies
<1>2. Shape(p) /\ IsSeq(p) /\ Len(p) \in Nat
  BY SeqIs DEF Wf, Shape
<1>3. After(p, ch) = q /\ InverseOf(p, ch) = inv
  BY DEF After, InverseOf
<1> HIDE DEF q, n
<1>4. /\ IsSeq(q) /\ Len(q) = Len(p) - 1
      /\ \A k \in 1..Len(p) - 1 : q[k] = IF k < n THEN p[k] ELSE p[k + 1]
  BY <1>1, <1>2, RemovedIs DEF q
<1> DEFINE Old(k) == IF k >= n THEN k + 1 ELSE k
<1>5. \A k \in 1..Len(q) : Old(k) \in 1..Len(p) /\ Old(k) # n /\ q[k] = p[Old(k)]
  BY <1>1, <1>2, <1>4
<1>6. \A k, l \in 1..Len(q) : Old(k) = Old(l) => k = l
  BY <1>1, <1>2, <1>4
<1> HIDE DEF Old
<1>7. Shape(q)
  BY <1>2, <1>4, <1>5 DEF Shape
<1>8. OneTrackEach(q)
  BY <1>5, <1>6 DEF Wf, OneTrackEach
<1>9. \A x, k, j : Sits(q, x, k, j) => Sits(p, x, Old(k), j)
  BY <1>5 DEF Sits
<1>10. OnePlaceEach(q)
  <2>1. SUFFICES ASSUME NEW y, NEW i, NEW j, NEW m, NEW l, Sits(q, y, i, j), Sits(q, y, m, l)
                 PROVE  i = m /\ j = l
    BY DEF OnePlaceEach
  <2>2. Old(i) = Old(m) /\ j = l
    BY <2>1, <1>9 DEF Wf, OnePlaceEach
  <2>3. QED
    BY <2>1, <2>2, <1>6 DEF Sits
<1>11. Wf(q)
  BY <1>7, <1>8, <1>10 DEF Wf
<1>12. Ids(q) \subseteq Ids(p) /\ TrackIds(q) \subseteq TrackIds(p)
  <2>1. \A x \in Ids(q) : x \in Ids(p)
    BY <1>2, <1>7, <1>9, ClipsAre
  <2>2. \A x \in TrackIds(q) : x \in TrackIds(p)
    BY <1>2, <1>5, <1>7, ClipsAre
  <2>3. QED
    BY <2>1, <2>2
<1>13. Min({n, Len(q) + 1}) = n /\ n \in Nat \ {0}
  <2>1. n \in Nat \ {0} /\ n <= Len(q) + 1 /\ Len(q) \in Nat
    BY <1>1, <1>2, <1>4
  <2>2. QED
    BY <2>1, LesserIs
<1>14. After(q, inv) = InsertAt(q, n, p[n])
  BY <1>13 DEF After, InsertTrack
<1>15. InsertAt(q, n, p[n]) = p
  BY <1>1, <1>2, InsertRemoved DEF q
<1>16. IsTrack(p[n]) /\ p[n].id \notin TrackIds(q)
  <2>1. \A k \in 1..Len(q) : q[k].id # p[n].id
    BY <1>1, <1>5 DEF Wf, OneTrackEach
  <2>2. QED
    BY <1>1, <1>2, <1>7, <2>1, ClipsAre DEF Shape
<1>17. \A j \in 1..Len(p[n].clips) : Sits(p, p[n].clips[j].id, n, j)
  BY <1>1 DEF Sits
<1>18. \A j \in 1..Len(p[n].clips) : p[n].clips[j].id \notin Ids(q)
  <2>1. SUFFICES ASSUME NEW j \in 1..Len(p[n].clips), p[n].clips[j].id \in Ids(q) PROVE FALSE
    OBVIOUS
  <2>2. PICK k, l : Sits(q, p[n].clips[j].id, k, l)
    BY <2>1, <1>7, ClipsAre
  <2>3. Old(k) = n
    BY <2>2, <1>9, <1>17 DEF Wf, OnePlaceEach
  <2>4. QED
    BY <2>2, <2>3, <1>5 DEF Sits
<1>19. \A j, k \in 1..Len(p[n].clips) : p[n].clips[j].id = p[n].clips[k].id => j = k
  <2>1. SUFFICES ASSUME NEW j \in 1..Len(p[n].clips), NEW k \in 1..Len(p[n].clips),
                        p[n].clips[j].id = p[n].clips[k].id
                 PROVE  j = k
    OBVIOUS
  <2>2. Sits(p, p[n].clips[j].id, n, j) /\ Sits(p, p[n].clips[j].id, n, k)
    BY <2>1, <1>17
  <2>3. QED
    BY <2>2 DEF Wf, OnePlaceEach
<1>20. Applies(q, inv) /\ Fresh(q, inv)
  BY <1>13, <1>16, <1>18, <1>19 DEF Applies, Fresh, InsertTrack
<1>21. QED
  BY <1>3, <1>11, <1>12, <1>14, <1>15, <1>20 DEF Returns, Leads

\* The inverse of changing a track's header gives it the earlier one.
LEMMA HeaderReturns ==
    ASSUME NEW p, Wf(p), NEW ch, ch.change = "header", Applies(p, ch)
    PROVE  /\ Returns(p, ch)
           /\ Ids(After(p, ch)) \subseteq Ids(p) /\ TrackIds(After(p, ch)) \subseteq TrackIds(p)
<1> DEFINE n == TrackAt(p, ch.id)
           q == [p EXCEPT ![n].locked = ch.locked]
           inv == Header(ch.id, p[n].locked)
<1>1. n \in 1..Len(p) /\ p[n].id = ch.id
  BY TrackFound DEF Applies
<1>2. Shape(p) /\ IsSeq(p) /\ Len(p) \in Nat /\ DOMAIN p = 1..Len(p) /\ p = [k \in 1..Len(p) |-> p[k]]
  BY SeqIs DEF Wf, Shape
<1>3. After(p, ch) = q /\ InverseOf(p, ch) = inv
  BY DEF After, InverseOf
<1>4. p[n] = TrackOf(p[n], p[n].clips)
  BY <1>1, <1>2 DEF Shape, IsTrack
<1>5. /\ DOMAIN q = 1..Len(p) /\ q = [k \in DOMAIN q |-> q[k]]
      /\ \A k \in 1..Len(p) : k # n => q[k] = p[k]
      /\ q[n] = [p[n] EXCEPT !.locked = ch.locked]
  BY <1>1, <1>2
<1>6. q[n] = [id |-> p[n].id, kind |-> p[n].kind, locked |-> ch.locked, clips |-> p[n].clips]
  BY <1>4, <1>5 DEF TrackOf
<1>7. [q EXCEPT ![n].locked = p[n].locked] = p
  <2>1. [q[n] EXCEPT !.locked = p[n].locked] = p[n]
    BY <1>4, <1>6 DEF TrackOf
  <2> HIDE DEF q
  <2>2. [q EXCEPT ![n].locked = p[n].locked] = [k \in 1..Len(p) |-> p[k]]
    BY <1>5, <2>1
  <2>3. QED
    BY <1>2, <2>2
<1> HIDE DEF q, n
<1>8. IsSeq(q) /\ Len(q) = Len(p)
  BY <1>2, <1>5, ListIs
<1>9. \A k \in 1..Len(p) : q[k].id = p[k].id /\ q[k].clips = p[k].clips
  BY <1>5, <1>6
<1>10. Shape(q)
  <2>1. IsTrack(q[n])
    BY <1>1, <1>2, <1>6 DEF Shape, IsTrack, TrackOf
  <2>2. QED
    BY <1>2, <1>5, <1>8, <2>1 DEF Shape
<1>11. \A x, i, j : Sits(q, x, i, j) <=> Sits(p, x, i, j)
  BY <1>8, <1>9 DEF Sits
<1>12. Wf(q)
  BY <1>8, <1>9, <1>10, <1>11 DEF Wf, OneTrackEach, OnePlaceEach
<1>13. Ids(q) \subseteq Ids(p) /\ TrackIds(q) \subseteq TrackIds(p)
  <2>1. \A x \in Ids(q) : x \in Ids(p)
    BY <1>2, <1>10, <1>11, ClipsAre
  <2>2. \A x \in TrackIds(q) : x \in TrackIds(p)
    BY <1>2, <1>8, <1>9, <1>10, ClipsAre
  <2>3. QED
    BY <2>1, <2>2
<1>14. TrackAt(q, ch.id) = n /\ ch.id \in TrackIds(q)
  BY <1>1, <1>8, <1>9, <1>12, TrackIs
<1>15. After(q, inv) = p
  BY <1>7, <1>14 DEF After, Header
<1>16. Applies(q, inv) /\ Fresh(q, inv)
  BY <1>14 DEF Applies, Fresh, Header
<1>17. QED
  BY <1>3, <1>12, <1>13, <1>15, <1>16 DEF Returns, Leads

\* The heart of undo: where a change applies and brings nothing that is there, its
\* inverse applies after it and gives back exactly what was there before it
\* (edit.rs: Change::apply).
THEOREM InverseTakesBack ==
    ASSUME NEW p, NEW ch, NEW q, Leads(p, ch, q)
    PROVE  Wf(p) /\ Wf(q) /\ Leads(q, InverseOf(p, ch), p)
<1>1. Wf(p) /\ Applies(p, ch) /\ Fresh(p, ch) /\ q = After(p, ch)
  BY DEF Leads
<1>2. ch.change \in {"insert-clip", "replace-clip", "insert-track", "remove-clip",
                     "remove-track", "header"}
  BY <1>1 DEF Fresh
<1>3. Returns(p, ch)
  BY <1>1, <1>2, InsertReturns, RemoveReturns, ReplaceReturns, InsertTrackReturns,
     RemoveTrackReturns, HeaderReturns
<1>4. QED
  BY <1>1, <1>3 DEF Returns

-----------------------------------------------------------------------------
(* Lists of changes                                                          *)

\* The first n changes lead from p to q; the first n inverses, from the last to
\* the first, back from q to p.
Forth(p, chs, n, q) ==
    /\ Wf(p) /\ Wf(q)
    /\ \E g : g[0] = p /\ g[n] = q /\ \A k \in 1..n : Leads(g[k - 1], chs[k], g[k])
Backs(q, invs, n, p) ==
    /\ Wf(p) /\ Wf(q)
    /\ \E g : g[0] = p /\ g[n] = q /\ \A k \in 1..n : Leads(g[k], invs[k], g[k - 1])

Leading(p, chs, q) == IsSeq(chs) /\ Forth(p, chs, Len(chs), q)
Undoes(q, invs, p) == IsSeq(invs) /\ Backs(q, invs, Len(invs), p)

\* One change more is one step further forth.
LEMMA ForthMore ==
    ASSUME NEW p, NEW chs, NEW n \in Nat, NEW q, NEW r,
           Forth(p, chs, n, q), Leads(q, chs[n + 1], r)
    PROVE  Forth(p, chs, n + 1, r)
<1>1. PICK g : g[0] = p /\ g[n] = q /\ \A k \in 1..n : Leads(g[k - 1], chs[k], g[k])
  BY DEF Forth
<1> DEFINE h == [k \in 0..n + 1 |-> IF k <= n THEN g[k] ELSE r]
<1>2. h[0] = p /\ h[n + 1] = r /\ h[n] = q
  BY <1>1
<1>3. \A k \in 1..n : h[k - 1] = g[k - 1] /\ h[k] = g[k]
  OBVIOUS
<1> HIDE DEF h
<1>4. \A k \in 1..n + 1 : Leads(h[k - 1], chs[k], h[k])
  <2>1. SUFFICES ASSUME NEW k \in 1..n + 1 PROVE Leads(h[k - 1], chs[k], h[k])
    OBVIOUS
  <2>2. CASE k \in 1..n
    BY <1>1, <1>3, <2>2
  <2>3. CASE k = n + 1
    <3>1. k - 1 = n
      BY <2>3
    <3>2. QED
      BY <1>2, <2>3, <3>1
  <2>4. QED
    BY <2>2, <2>3
<1>5. Wf(r)
  BY InverseTakesBack
<1>6. QED
  BY <1>2, <1>4, <1>5 DEF Forth

\* The last of the changes comes after all the others.
LEMMA ForthLess ==
    ASSUME NEW p, NEW chs, NEW n \in Nat, NEW q, Forth(p, chs, n + 1, q)
    PROVE  \E r : Forth(p, chs, n, r) /\ Leads(r, chs[n + 1], q)
<1>1. PICK g : g[0] = p /\ g[n + 1] = q /\ \A k \in 1..n + 1 : Leads(g[k - 1], chs[k], g[k])
  BY DEF Forth
<1>2. Leads(g[n], chs[n + 1], q)
  <2>1. n + 1 \in 1..n + 1 /\ (n + 1) - 1 = n
    OBVIOUS
  <2>2. QED
    BY <1>1, <2>1
<1>3. Wf(g[n])
  BY <1>2 DEF Leads
<1>4. \A k \in 1..n : Leads(g[k - 1], chs[k], g[k])
  BY <1>1
<1>5. Forth(p, chs, n, g[n])
  BY <1>1, <1>3, <1>4 DEF Forth
<1>6. QED
  BY <1>2, <1>5

\* The last of the inverses is the first taken.
LEMMA BacksLess ==
    ASSUME NEW p, NEW invs, NEW n \in Nat, NEW q, Backs(q, invs, n + 1, p)
    PROVE  \E r : Backs(r, invs, n, p) /\ Leads(q, invs[n + 1], r)
<1>1. PICK g : g[0] = p /\ g[n + 1] = q /\ \A k \in 1..n + 1 : Leads(g[k], invs[k], g[k - 1])
  BY DEF Backs
<1>2. Leads(q, invs[n + 1], g[n])
  <2>1. n + 1 \in 1..n + 1 /\ (n + 1) - 1 = n
    OBVIOUS
  <2>2. QED
    BY <1>1, <2>1
<1>3. Wf(g[n])
  BY <1>2, InverseTakesBack
<1>4. \A k \in 1..n : Leads(g[k], invs[k], g[k - 1])
  BY <1>1
<1>5. Backs(g[n], invs, n, p)
  BY <1>1, <1>3, <1>4 DEF Backs
<1>6. QED
  BY <1>2, <1>5

\* No changes lead nowhere else,
LEMMA NothingToDo ==
    ASSUME NEW p, Wf(p), NEW chs
    PROVE  Forth(p, chs, 0, p) /\ Backs(p, chs, 0, p)
<1> DEFINE g == [k \in {0} |-> p]
<1>1. g[0] = p /\ \A k \in 1..0 : FALSE
  OBVIOUS
<1>2. QED
  BY <1>1 DEF Forth, Backs

\* ... neither forth nor back.
LEMMA NothingDone ==
    ASSUME NEW p, NEW chs, NEW q, Forth(p, chs, 0, q) \/ Backs(q, chs, 0, p)
    PROVE  p = q
BY DEF Forth, Backs

\* Two lists of inverses, one after the other
LEMMA UndoesBoth ==
    ASSUME NEW p, NEW a, NEW q, NEW b, NEW r, Undoes(q, a, p), Undoes(r, b, q)
    PROVE  Undoes(r, a \o b, p)
<1> DEFINE n == Len(a)
           m == Len(b)
           c == a \o b
<1>1. n \in Nat /\ m \in Nat /\ Joined(a, b, c)
  BY SeqIs, JoinIs DEF Undoes
<1>2. PICK g : g[0] = p /\ g[n] = q /\ \A k \in 1..n : Leads(g[k], a[k], g[k - 1])
  BY DEF Undoes, Backs
<1>3. PICK h : h[0] = q /\ h[m] = r /\ \A k \in 1..m : Leads(h[k], b[k], h[k - 1])
  BY DEF Undoes, Backs
<1> HIDE DEF n, m, c
<1> DEFINE f == [k \in 0..n + m |-> IF k <= n THEN g[k] ELSE h[k - n]]
<1>4. f[0] = p /\ \A k \in 0..n : f[k] = g[k]
  BY <1>1, <1>2
<1>5. \A k \in 0..m : f[n + k] = h[k]
  <2>1. SUFFICES ASSUME NEW k \in 0..m PROVE f[n + k] = h[k]
    OBVIOUS
  <2>2. CASE k = 0
    BY <1>1, <1>2, <1>3, <2>2
  <2>3. CASE k # 0
    <3>1. n + k \in 0..n + m /\ ~(n + k <= n) /\ (n + k) - n = k
      BY <1>1, <2>3
    <3>2. QED
      BY <3>1
  <2>4. QED
    BY <2>2, <2>3
<1> HIDE DEF f
<1>6. f[n + m] = r
  <2>1. m \in 0..m
    BY <1>1
  <2>2. QED
    BY <1>3, <1>5, <2>1
<1>7. ASSUME NEW k \in 1..n + m PROVE Leads(f[k], c[k], f[k - 1])
  <2>1. CASE k \in 1..n
    <3>1. k \in 0..n /\ k - 1 \in 0..n
      BY <1>1, <2>1
    <3>2. f[k] = g[k] /\ f[k - 1] = g[k - 1] /\ c[k] = a[k]
      BY <1>1, <1>4, <2>1, <3>1 DEF Joined, n
    <3>3. QED
      BY <1>2, <2>1, <3>2
  <2>2. CASE k \notin 1..n
    <3> DEFINE l == k - n
    <3>1. l \in 1..m /\ l \in 0..m /\ l - 1 \in 0..m /\ k = n + l /\ k - 1 = n + (l - 1)
      BY <1>1, <2>2
    <3> HIDE DEF l
    <3>2. f[k] = h[l] /\ f[k - 1] = h[l - 1]
      BY <1>5, <3>1
    <3>3. c[k] = b[l]
      BY <1>1, <3>1 DEF Joined, n, m
    <3>4. QED
      BY <1>3, <3>1, <3>2, <3>3
  <2>3. QED
    BY <2>1, <2>2
<1>8. IsSeq(c) /\ Len(c) = n + m
  BY <1>1 DEF Joined, n, m
<1>9. Wf(p) /\ Wf(r)
  BY DEF Undoes, Backs
<1>10. QED
  BY <1>4, <1>6, <1>7, <1>8, <1>9 DEF Undoes, Backs, c

\* A list of one change leads where the change does.
LEMMA OneUndoes ==
    ASSUME NEW q, NEW inv, NEW p, Leads(q, inv, p)
    PROVE  Undoes(q, <<inv>>, p) /\ Leading(q, <<inv>>, p)
<1> DEFINE g == [k \in 0..1 |-> IF k = 0 THEN p ELSE q]
           h == [k \in 0..1 |-> IF k = 0 THEN q ELSE p]
<1>1. g[0] = p /\ g[1] = q /\ h[0] = q /\ h[1] = p
  OBVIOUS
<1> HIDE DEF g, h
<1>2. Len(<<inv>>) = 1 /\ <<inv>>[1] = inv /\ IsSeq(<<inv>>)
  BY OneIs
<1>3. \A k \in 1..1 : k = 1 /\ k - 1 = 0
  OBVIOUS
<1>4. Wf(p) /\ Wf(q)
  BY InverseTakesBack
<1>5. QED
  BY <1>1, <1>2, <1>3, <1>4 DEF Undoes, Backs, Leading, Forth

\* One change before a list of them
LEMMA LeadsBefore ==
    ASSUME NEW r, NEW ch, NEW q, NEW chs, NEW z, Leads(r, ch, q), Leading(q, chs, z)
    PROVE  Leading(r, <<ch>> \o chs, z)
<1> DEFINE m == Len(chs)
           c == <<ch>> \o chs
<1>1. m \in Nat /\ Joined(<<ch>>, chs, c) /\ Len(<<ch>>) = 1 /\ <<ch>>[1] = ch
  BY SeqIs, JoinIs, OneIs DEF Leading
<1>2. PICK h : h[0] = q /\ h[m] = z /\ \A k \in 1..m : Leads(h[k - 1], chs[k], h[k])
  BY DEF Leading, Forth
<1> HIDE DEF m, c
<1> DEFINE f == [k \in 0..1 + m |-> IF k = 0 THEN r ELSE h[k - 1]]
<1>3. f[0] = r /\ \A k \in 0..m : f[1 + k] = h[k]
  <2>1. \A k \in 0..m : 1 + k \in 0..1 + m /\ 1 + k # 0 /\ (1 + k) - 1 = k
    BY <1>1
  <2>2. QED
    BY <1>1, <2>1
<1> HIDE DEF f
<1>4. f[1 + m] = z
  <2>1. m \in 0..m
    BY <1>1
  <2>2. QED
    BY <1>2, <1>3, <2>1
<1>5. ASSUME NEW k \in 1..1 + m PROVE Leads(f[k - 1], c[k], f[k])
  <2>1. CASE k = 1
    <3>1. f[0] = r /\ f[1 + 0] = q /\ c[1] = ch /\ 0 \in 0..m /\ 1 + 0 = 1
      BY <1>1, <1>2, <1>3 DEF Joined
    <3>2. QED
      BY <2>1, <3>1
  <2>2. CASE k # 1
    <3> DEFINE l == k - 1
    <3>1. l \in 1..m /\ l \in 0..m /\ l - 1 \in 0..m /\ k = 1 + l /\ k - 1 = 1 + (l - 1)
      BY <1>1, <2>2
    <3> HIDE DEF l
    <3>2. f[k] = h[l] /\ f[k - 1] = h[l - 1]
      BY <1>3, <3>1
    <3>3. c[k] = chs[l]
      BY <1>1, <3>1 DEF Joined, m
    <3>4. QED
      BY <1>2, <3>1, <3>2, <3>3
  <2>3. QED
    BY <2>1, <2>2
<1>6. IsSeq(c) /\ Len(c) = 1 + m
  BY <1>1 DEF Joined, m
<1>7. Wf(r) /\ Wf(z)
  BY DEF Leading, Forth, Leads
<1>8. QED
  BY <1>3, <1>4, <1>5, <1>6, <1>7 DEF Leading, Forth, c

-----------------------------------------------------------------------------
(* apply_all and revert                                                      *)

\* What a list does to a project, one change after another
Runs(run, p, chs) ==
    /\ run[0] = [ok |-> TRUE, project |-> p, inverses |-> <<>>]
    /\ \A n \in 1..Len(chs) : run[n] = Onto(run[n - 1], chs[n])

\* apply_all goes through its list one change at a time.
LEMMA ApplyRuns ==
    ASSUME NEW p, NEW chs, Len(chs) \in Nat
    PROVE  \E run : Runs(run, p, chs) /\ ApplyAll(p, chs) = run[Len(chs)]
<1> DEFINE L == Len(chs)
           none == [ok |-> TRUE, project |-> p, inverses |-> <<>>]
           Next1(s, n) == CHOOSE t \in {Onto(u, chs[n]) : u \in {s}} : TRUE
           run == CHOOSE run : run = [n \in 0..L |-> IF n = 0 THEN none ELSE Next1(run[n - 1], n)]
           N == {m \in Nat : \E g : g = [n \in 0..m |-> IF n = 0 THEN none ELSE Next1(g[n - 1], n)]}
<1>1. \A s, n : Next1(s, n) = Onto(s, chs[n])
  OBVIOUS
<1> HIDE DEF Next1, none
<1>2. 0 \in N
  <2> DEFINE g == [n \in 0..0 |-> none]
  <2>1. g = [n \in 0..0 |-> IF n = 0 THEN none ELSE Next1(g[n - 1], n)]
    OBVIOUS
  <2> HIDE DEF g
  <2>2. QED
    BY <2>1
<1>3. ASSUME NEW m \in Nat, m \in N PROVE m + 1 \in N
  <2>1. PICK g : g = [n \in 0..m |-> IF n = 0 THEN none ELSE Next1(g[n - 1], n)]
    BY <1>3
  <2> DEFINE h == [n \in 0..m + 1 |-> IF n <= m THEN g[n] ELSE Next1(g[m], m + 1)]
  <2>2. \A n \in 0..m : h[n] = g[n]
    OBVIOUS
  <2>3. h[m + 1] = Next1(g[m], m + 1) /\ DOMAIN h = 0..m + 1 /\ h = [n \in 0..m + 1 |-> h[n]]
    OBVIOUS
  <2> HIDE DEF h
  <2>4. ASSUME NEW n \in 0..m + 1 PROVE h[n] = IF n = 0 THEN none ELSE Next1(h[n - 1], n)
    <3>1. CASE n = 0
      <4>1. g[0] = none
        BY <2>1
      <4>2. QED
        BY <2>2, <3>1, <4>1
    <3>2. CASE n \in 1..m
      <4>1. g[n] = Next1(g[n - 1], n) /\ n - 1 \in 0..m
        BY <2>1, <3>2
      <4>2. QED
        BY <2>2, <3>2, <4>1
    <3>3. CASE n = m + 1
      <4>1. n - 1 = m /\ m \in 0..m /\ n # 0
        BY <3>3
      <4>2. QED
        BY <2>2, <2>3, <3>3, <4>1
    <3>4. QED
      BY <3>1, <3>2, <3>3
  <2>5. h = [n \in 0..m + 1 |-> IF n = 0 THEN none ELSE Next1(h[n - 1], n)]
    BY <2>3, <2>4
  <2>6. QED
    BY <2>5
<1>4. L \in N
  BY <1>2, <1>3, Inductively
<1>5. run = [n \in 0..L |-> IF n = 0 THEN none ELSE Next1(run[n - 1], n)]
  BY <1>4
<1>6. ApplyAll(p, chs) = run[L]
  BY DEF ApplyAll, none, Next1
<1> HIDE DEF run
<1>7. run[0] = none /\ \A n \in 1..L : run[n] = Onto(run[n - 1], chs[n])
  <2>1. 0 \in 0..L
    OBVIOUS
  <2>2. run[0] = none
    BY <1>5, <2>1
  <2>3. \A n \in 1..L : n \in 0..L /\ n # 0
    OBVIOUS
  <2>4. \A n \in 1..L : run[n] = Next1(run[n - 1], n)
    BY <1>5, <2>3
  <2>5. QED
    BY <1>1, <2>2, <2>4
<1>8. QED
  BY <1>6, <1>7 DEF Runs, none

RunsBack(run, p, invs) ==
    /\ run[0] = [project |-> p, forward |-> <<>>]
    /\ \A n \in 1..Len(invs) : run[n] = Back(run[n - 1], invs[Len(invs) - n + 1])

\* revert goes through its list from the last inverse to the first.
LEMMA RevertRuns ==
    ASSUME NEW p, NEW invs, Len(invs) \in Nat
    PROVE  \E run : RunsBack(run, p, invs) /\ Revert(p, invs) = run[Len(invs)]
<1> DEFINE L == Len(invs)
           none == [project |-> p, forward |-> <<>>]
           Next1(s, n) == CHOOSE t \in {Back(u, invs[L - n + 1]) : u \in {s}} : TRUE
           run == CHOOSE run : run = [n \in 0..L |-> IF n = 0 THEN none ELSE Next1(run[n - 1], n)]
           N == {m \in Nat : \E g : g = [n \in 0..m |-> IF n = 0 THEN none ELSE Next1(g[n - 1], n)]}
<1>1. \A s, n : Next1(s, n) = Back(s, invs[L - n + 1])
  OBVIOUS
<1> HIDE DEF Next1, none
<1>2. 0 \in N
  <2> DEFINE g == [n \in 0..0 |-> none]
  <2>1. g = [n \in 0..0 |-> IF n = 0 THEN none ELSE Next1(g[n - 1], n)]
    OBVIOUS
  <2> HIDE DEF g
  <2>2. QED
    BY <2>1
<1>3. ASSUME NEW m \in Nat, m \in N PROVE m + 1 \in N
  <2>1. PICK g : g = [n \in 0..m |-> IF n = 0 THEN none ELSE Next1(g[n - 1], n)]
    BY <1>3
  <2> DEFINE h == [n \in 0..m + 1 |-> IF n <= m THEN g[n] ELSE Next1(g[m], m + 1)]
  <2>2. \A n \in 0..m : h[n] = g[n]
    OBVIOUS
  <2>3. h[m + 1] = Next1(g[m], m + 1) /\ DOMAIN h = 0..m + 1 /\ h = [n \in 0..m + 1 |-> h[n]]
    OBVIOUS
  <2> HIDE DEF h
  <2>4. ASSUME NEW n \in 0..m + 1 PROVE h[n] = IF n = 0 THEN none ELSE Next1(h[n - 1], n)
    <3>1. CASE n = 0
      <4>1. g[0] = none
        BY <2>1
      <4>2. QED
        BY <2>2, <3>1, <4>1
    <3>2. CASE n \in 1..m
      <4>1. g[n] = Next1(g[n - 1], n) /\ n - 1 \in 0..m
        BY <2>1, <3>2
      <4>2. QED
        BY <2>2, <3>2, <4>1
    <3>3. CASE n = m + 1
      <4>1. n - 1 = m /\ m \in 0..m /\ n # 0
        BY <3>3
      <4>2. QED
        BY <2>2, <2>3, <3>3, <4>1
    <3>4. QED
      BY <3>1, <3>2, <3>3
  <2>5. h = [n \in 0..m + 1 |-> IF n = 0 THEN none ELSE Next1(h[n - 1], n)]
    BY <2>3, <2>4
  <2>6. QED
    BY <2>5
<1>4. L \in N
  BY <1>2, <1>3, Inductively
<1>5. run = [n \in 0..L |-> IF n = 0 THEN none ELSE Next1(run[n - 1], n)]
  BY <1>4
<1>6. Revert(p, invs) = run[L]
  BY DEF Revert, none, Next1
<1> HIDE DEF run
<1>7. run[0] = none /\ \A n \in 1..L : run[n] = Back(run[n - 1], invs[L - n + 1])
  <2>1. 0 \in 0..L
    OBVIOUS
  <2>2. run[0] = none
    BY <1>5, <2>1
  <2>3. \A n \in 1..L : n \in 0..L /\ n # 0
    OBVIOUS
  <2>4. \A n \in 1..L : run[n] = Next1(run[n - 1], n)
    BY <1>5, <2>3
  <2>5. QED
    BY <1>1, <2>2, <2>4
<1>8. QED
  BY <1>6, <1>7 DEF RunsBack, none

\* Nothing a list brings into a project is there already when it comes.
Orderly(p, chs) ==
    /\ Wf(p) /\ IsSeq(chs)
    /\ \A n \in 1..Len(chs) : \A r :
          Forth(p, chs, n - 1, r) /\ Applies(r, chs[n]) => Fresh(r, chs[n])

\* What apply_all has come to: the inverses lead back, and if every change
\* applied, the changes forth.
AppliedTo(s, p, chs, n) ==
    /\ s = [ok |-> s.ok, project |-> s.project, inverses |-> s.inverses]
    /\ Undoes(s.project, s.inverses, p)
    /\ s.ok => Forth(p, chs, n, s.project) /\ Len(s.inverses) = n

\* No inverses undo nothing.
LEMMA UndoesNothing ==
    ASSUME NEW p, Wf(p)
    PROVE  Undoes(p, <<>>, p)
<1>1. Backs(p, <<>>, 0, p)
  BY NothingToDo
<1>2. QED
  BY <1>1, NoneIs DEF Undoes

\* To append is to join a list of one.
LEMMA AppendIs ==
    ASSUME NEW s, IsSeq(s), NEW e
    PROVE  Append(s, e) = s \o <<e>>
<1> DEFINE U == Range(s) \cup {e}
<1>1. s \in Seq(U) /\ e \in U
  <2>1. Range(s) \subseteq U
    OBVIOUS
  <2>2. s \in Seq(Range(s))
    BY DEF IsSeq
  <2> HIDE DEF U
  <2>3. s \in Seq(U)
    BY <2>1, <2>2, SeqMonotonic
  <2>4. QED
    BY <2>3 DEF U
<1> HIDE DEF U
<1>2. QED
  BY <1>1, AppendIsConcat

\* What apply_all comes to on a list that brings nothing twice, wherever it stops:
\* the inverses it holds then lead back to where it began.
LEMMA ApplyIs ==
    ASSUME NEW p, NEW chs, Orderly(p, chs)
    PROVE  AppliedTo(ApplyAll(p, chs), p, chs, Len(chs))
<1> DEFINE L == Len(chs)
<1>0. L \in Nat /\ Wf(p)
  BY SeqIs DEF Orderly
<1>1. PICK run : Runs(run, p, chs) /\ ApplyAll(p, chs) = run[L]
  BY <1>0, ApplyRuns
<1> DEFINE N == {n \in Nat : n <= L => AppliedTo(run[n], p, chs, n)}
<1>2. 0 \in N
  <2> DEFINE s == [ok |-> TRUE, project |-> p, inverses |-> <<>>]
  <2>1. run[0] = s
    BY <1>1 DEF Runs
  <2>2. Forth(p, chs, 0, p) /\ Undoes(p, <<>>, p)
    BY <1>0, NothingToDo, UndoesNothing
  <2>3. AppliedTo(s, p, chs, 0)
    BY <2>2, NoneIs DEF AppliedTo
  <2>4. QED
    BY <2>1, <2>3
<1>3. ASSUME NEW n \in Nat, n \in N PROVE n + 1 \in N
  <2>1. SUFFICES ASSUME n + 1 <= L PROVE AppliedTo(run[n + 1], p, chs, n + 1)
    OBVIOUS
  <2> DEFINE s == run[n]
             ch == chs[n + 1]
  <2>2. AppliedTo(s, p, chs, n)
    BY <1>0, <1>3, <2>1
  <2>3. n + 1 \in 1..L /\ (n + 1) - 1 = n
    BY <1>0, <2>1
  <2>4. run[n + 1] = Onto(s, ch)
    BY <1>1, <2>3 DEF Runs
  <2> HIDE DEF s, ch
  <2>5. CASE ~s.ok \/ ~Applies(s.project, ch)
    <3>1. Onto(s, ch) = [ok |-> FALSE, project |-> s.project, inverses |-> s.inverses]
      BY <2>2, <2>5 DEF Onto, AppliedTo
    <3>2. QED
      BY <2>2, <2>4, <3>1 DEF AppliedTo
  <2>6. CASE s.ok /\ Applies(s.project, ch)
    <3> DEFINE q == After(s.project, ch)
               inv == InverseOf(s.project, ch)
    <3>1. Onto(s, ch) = [ok |-> TRUE, project |-> q, inverses |-> Append(s.inverses, inv)]
      BY <2>6 DEF Onto
    <3>2. Forth(p, chs, n, s.project) /\ Undoes(s.project, s.inverses, p) /\ Len(s.inverses) = n
      BY <2>2, <2>6 DEF AppliedTo
    <3>3. Fresh(s.project, ch)
      BY <2>3, <2>6, <3>2 DEF Orderly, ch
    <3>4. Leads(s.project, ch, q)
      BY <2>6, <3>2, <3>3 DEF Leads, Forth
    <3>5. Forth(p, chs, n + 1, q)
      BY <3>2, <3>4, ForthMore DEF ch
    <3>6. Leads(q, inv, s.project)
      BY <3>4, InverseTakesBack
    <3> HIDE DEF q, inv
    <3>7. Undoes(q, s.inverses \o <<inv>>, p)
      <4>1. Undoes(q, <<inv>>, s.project)
        BY <3>6, OneUndoes
      <4>2. QED
        BY <3>2, <4>1, UndoesBoth
    <3>8. IsSeq(s.inverses)
      BY <3>2 DEF Undoes
    <3>9. Append(s.inverses, inv) = s.inverses \o <<inv>>
      BY <3>8, AppendIs
    <3>10. Len(Append(s.inverses, inv)) = n + 1
      BY <3>2, <3>8, <3>9, JoinIs, OneIs DEF Joined
    <3>11. QED
      BY <2>4, <3>1, <3>5, <3>7, <3>9, <3>10 DEF AppliedTo
  <2>7. QED
    BY <2>5, <2>6
<1>4. L \in N
  BY <1>0, <1>2, <1>3, Inductively
<1>5. QED
  BY <1>1, <1>4

\* A list that leads somewhere leads there.
LEMMA ApplyLeads ==
    ASSUME NEW p, NEW chs, NEW q, Leading(p, chs, q)
    PROVE  LET s == ApplyAll(p, chs)
           IN s.ok /\ s.project = q /\ Undoes(q, s.inverses, p) /\ Len(s.inverses) = Len(chs)
<1> DEFINE L == Len(chs)
<1>0. L \in Nat /\ Wf(p) /\ IsSeq(chs)
  BY SeqIs DEF Leading, Forth
<1>1. PICK g : g[0] = p /\ g[L] = q /\ \A k \in 1..L : Leads(g[k - 1], chs[k], g[k])
  BY DEF Leading, Forth
<1>2. ASSUME NEW n \in 0..L, NEW r, Forth(p, chs, n, r) PROVE r = g[n]
  <2>1. PICK h : h[0] = p /\ h[n] = r /\ \A k \in 1..n : Leads(h[k - 1], chs[k], h[k])
    BY <1>2 DEF Forth
  <2> DEFINE M == {m \in Nat : m <= n => h[m] = g[m]}
  <2>2. 0 \in M
    BY <1>1, <2>1
  <2>3. ASSUME NEW m \in Nat, m \in M PROVE m + 1 \in M
    <3>1. SUFFICES ASSUME m + 1 <= n PROVE h[m + 1] = g[m + 1]
      OBVIOUS
    <3>2. m + 1 \in 1..n /\ m + 1 \in 1..L /\ (m + 1) - 1 = m /\ h[m] = g[m]
      BY <1>0, <2>3, <3>1
    <3>3. h[m + 1] = After(h[m], chs[m + 1]) /\ g[m + 1] = After(g[m], chs[m + 1])
      BY <1>1, <2>1, <3>2 DEF Leads
    <3>4. QED
      BY <3>2, <3>3
  <2>4. n \in M
    <3>1. n \in Nat /\ n <= n
      BY <1>0
    <3>2. \A m \in Nat : m \in M => m + 1 \in M
      BY <2>3
    <3> HIDE DEF M
    <3>3. Nat \subseteq M
      BY <2>2, <3>2, Inductively
    <3>4. QED
      BY <3>1, <3>3
  <2>5. QED
    BY <2>1, <2>4, <1>0 DEF M
<1>3. Orderly(p, chs)
  <2>1. SUFFICES ASSUME NEW n \in 1..L, NEW r, Forth(p, chs, n - 1, r)
                 PROVE  Fresh(r, chs[n])
    BY <1>0 DEF Orderly
  <2>2. n - 1 \in 0..L
    BY <1>0
  <2>3. r = g[n - 1]
    BY <1>2, <2>1, <2>2
  <2>4. QED
    BY <1>1, <2>3 DEF Leads
<1>4. PICK run : Runs(run, p, chs) /\ ApplyAll(p, chs) = run[L]
  BY <1>0, ApplyRuns
<1> DEFINE N == {n \in Nat : n <= L => run[n].ok /\ run[n].project = g[n]}
<1>5. 0 \in N
  BY <1>1, <1>4 DEF Runs
<1>6. ASSUME NEW n \in Nat, n \in N PROVE n + 1 \in N
  <2>1. SUFFICES ASSUME n + 1 <= L PROVE run[n + 1].ok /\ run[n + 1].project = g[n + 1]
    OBVIOUS
  <2>2. n + 1 \in 1..L /\ (n + 1) - 1 = n /\ run[n].ok /\ run[n].project = g[n]
    BY <1>0, <1>6, <2>1
  <2>3. run[n + 1] = Onto(run[n], chs[n + 1]) /\ Leads(g[n], chs[n + 1], g[n + 1])
    BY <1>1, <1>4, <2>2 DEF Runs
  <2>4. Applies(g[n], chs[n + 1]) /\ g[n + 1] = After(g[n], chs[n + 1])
    BY <2>3 DEF Leads
  <2>5. QED
    BY <2>2, <2>3, <2>4 DEF Onto
<1>7. L \in N
  BY <1>0, <1>5, <1>6, Inductively
<1>8. AppliedTo(ApplyAll(p, chs), p, chs, L)
  BY <1>3, ApplyIs
<1>9. QED
  BY <1>1, <1>4, <1>7, <1>8, <1>0 DEF AppliedTo

\* Reverting inverses that lead back leads back, and the forward changes forth.
LEMMA RevertLeads ==
    ASSUME NEW q, NEW invs, NEW p, Undoes(q, invs, p)
    PROVE  LET s == Revert(q, invs)
           IN s.project = p /\ Leading(p, s.forward, q) /\ Len(s.forward) = Len(invs)
<1> DEFINE L == Len(invs)
<1>0. L \in Nat /\ Wf(p) /\ Wf(q) /\ IsSeq(invs)
  BY SeqIs DEF Undoes, Backs
<1>1. PICK run : RunsBack(run, q, invs) /\ Revert(q, invs) = run[L]
  BY <1>0, RevertRuns
<1> DEFINE P(n) == /\ Backs(run[n].project, invs, L - n, p)
                   /\ Leading(run[n].project, run[n].forward, q)
                   /\ Len(run[n].forward) = n
           N == {n \in Nat : n <= L => P(n)}
<1>2. 0 \in N
  <2>1. run[0] = [project |-> q, forward |-> <<>>]
    BY <1>1 DEF RunsBack
  <2>2. L - 0 = L
    BY <1>0
  <2>3. Forth(q, <<>>, 0, q)
    BY <1>0, NothingToDo
  <2>4. P(0)
    BY <2>1, <2>2, <2>3, NoneIs DEF Leading, Undoes
  <2>5. QED
    BY <2>4
<1>3. ASSUME NEW n \in Nat, n \in N PROVE n + 1 \in N
  <2>1. SUFFICES ASSUME n + 1 <= L PROVE P(n + 1)
    OBVIOUS
  <2> DEFINE s == run[n]
             m == L - (n + 1)
             inv == invs[m + 1]
  <2>2. P(n)
    BY <1>0, <1>3, <2>1
  <2>3. n + 1 \in 1..L /\ (n + 1) - 1 = n /\ m \in Nat /\ L - n = m + 1 /\ L - (n + 1) + 1 = m + 1
    BY <1>0, <2>1
  <2>4. run[n + 1] = Back(s, inv)
    BY <1>1, <2>3 DEF RunsBack
  <2>5. Backs(s.project, invs, m + 1, p)
    BY <2>2, <2>3
  <2>6. PICK r : Backs(r, invs, m, p) /\ Leads(s.project, inv, r)
    BY <2>3, <2>5, BacksLess
  <2>7. Leads(r, InverseOf(s.project, inv), s.project)
    BY <2>6, InverseTakesBack
  <2>8. Back(s, inv) = [project |-> r, forward |-> <<InverseOf(s.project, inv)>> \o s.forward]
    BY <2>6 DEF Back, Leads
  <2>9. Leading(r, <<InverseOf(s.project, inv)>> \o s.forward, q)
    BY <2>2, <2>7, LeadsBefore
  <2>10. Len(<<InverseOf(s.project, inv)>> \o s.forward) = n + 1
    <3>1. IsSeq(s.forward) /\ Len(s.forward) = n
      BY <2>2 DEF Leading
    <3>2. QED
      BY <3>1, JoinIs, OneIs DEF Joined
  <2>11. QED
    BY <2>4, <2>6, <2>8, <2>9, <2>10
<1>4. L \in N
  BY <1>0, <1>2, <1>3, Inductively
<1>5. P(L) /\ L - L = 0
  BY <1>0, <1>4
<1>6. run[L].project = p
  BY <1>5, NothingDone
<1>7. QED
  BY <1>1, <1>5, <1>6

-----------------------------------------------------------------------------
(* A gesture's changes, coalesced                                            *)

\* What a list of replacements makes of a clip: of several for one clip the first
\* was recorded first, and is undone last.
HasN(lst, n, x) == \E k \in 1..n : lst[k].clip.id = x
FirstOf(lst, x) ==
    CHOOSE k \in Nat \ {0} : /\ lst[k].clip.id = x
                             /\ \A m \in 1..k - 1 : lst[m].clip.id # x
Made(lst, n, c) == IF HasN(lst, n, c.id) THEN lst[FirstOf(lst, c.id)].clip ELSE c

\* What one replacement more makes of a clip
LEMMA MadeByMore ==
    ASSUME NEW lst, NEW n \in Nat, NEW c
    PROVE  /\ Made(lst, 0, c) = c
           /\ \A x : HasN(lst, n + 1, x) <=> HasN(lst, n, x) \/ lst[n + 1].clip.id = x
           /\ HasN(lst, n, c.id) => Made(lst, n + 1, c) = Made(lst, n, c)
           /\ ~HasN(lst, n, c.id) =>
                 /\ Made(lst, n, c) = c
                 /\ Made(lst, n + 1, c) = IF lst[n + 1].clip.id = c.id THEN lst[n + 1].clip ELSE c
<1>1. Made(lst, 0, c) = c
  BY DEF Made, HasN
<1>2. \A x : HasN(lst, n + 1, x) <=> HasN(lst, n, x) \/ lst[n + 1].clip.id = x
  <2>1. \A k : k \in 1..n + 1 <=> k \in 1..n \/ k = n + 1
    OBVIOUS
  <2>2. QED
    BY <2>1 DEF HasN
<1>3. HasN(lst, n, c.id) => Made(lst, n + 1, c) = Made(lst, n, c)
  BY <1>2 DEF Made
<1>4. ASSUME ~HasN(lst, n, c.id), lst[n + 1].clip.id = c.id
      PROVE  Made(lst, n + 1, c) = lst[n + 1].clip
  <2> DEFINE F(k) == lst[k].clip.id = c.id /\ \A m \in 1..k - 1 : lst[m].clip.id # c.id
  <2>1. n + 1 \in Nat \ {0} /\ F(n + 1)
    <3>1. (n + 1) - 1 = n
      OBVIOUS
    <3>2. QED
      BY <1>4, <3>1 DEF HasN
  <2>2. \A k \in Nat \ {0} : F(k) => k = n + 1
    <3>1. SUFFICES ASSUME NEW k \in Nat \ {0}, F(k), k # n + 1 PROVE FALSE
      OBVIOUS
    <3>2. CASE k < n + 1
      <4>1. k \in 1..n
        BY <3>2
      <4>2. QED
        BY <3>1, <4>1, <1>4 DEF HasN
    <3>3. CASE k > n + 1
      <4>1. n + 1 \in 1..k - 1
        BY <3>3
      <4>2. QED
        BY <3>1, <4>1, <1>4
    <3>4. QED
      BY <3>1, <3>2, <3>3
  <2>3. FirstOf(lst, c.id) = n + 1
    BY <2>1, <2>2 DEF FirstOf
  <2>4. QED
    BY <1>2, <1>4, <2>3 DEF Made
<1>5. QED
  BY <1>1, <1>2, <1>3, <1>4 DEF Made

\* It is made of the clip's id alone, where the list has it.
LEMMA MadeOfId ==
    ASSUME NEW lst, NEW n, NEW c, NEW d, c.id = d.id, HasN(lst, n, c.id)
    PROVE  Made(lst, n, c) = Made(lst, n, d)
BY DEF Made

\* A replacement keeps the id of the clip.
LEMMA MadeHasId ==
    ASSUME NEW lst, NEW n \in Nat, NEW c
    PROVE  Made(lst, n, c).id = c.id
<1> DEFINE N == {m \in Nat : Made(lst, m, c).id = c.id}
<1>1. 0 \in N
  BY MadeByMore
<1>2. ASSUME NEW m \in Nat, m \in N PROVE m + 1 \in N
  <2>1. CASE HasN(lst, m, c.id)
    <3>1. Made(lst, m + 1, c) = Made(lst, m, c)
      BY <2>1, MadeByMore
    <3>2. QED
      BY <1>2, <3>1
  <2>2. CASE ~HasN(lst, m, c.id)
    <3>1. Made(lst, m + 1, c) = IF lst[m + 1].clip.id = c.id THEN lst[m + 1].clip ELSE c
      BY <2>2, MadeByMore
    <3>2. QED
      BY <3>1
  <2>3. QED
    BY <2>1, <2>2
<1>3. Nat \subseteq N
  <2>1. \A m \in Nat : m \in N => m + 1 \in N
    BY <1>2
  <2> HIDE DEF N
  <2>2. QED
    BY <1>1, <2>1, Inductively
<1>4. QED
  BY <1>3

\* Lists that begin alike make the same of a clip.
LEMMA MadeAlike ==
    ASSUME NEW n \in Nat, NEW a, NEW b, \A k \in 1..n : a[k] = b[k], NEW c
    PROVE  /\ \A x : HasN(a, n, x) <=> HasN(b, n, x)
           /\ Made(a, n, c) = Made(b, n, c)
<1>1. \A m \in 0..n : \A x : HasN(a, m, x) <=> HasN(b, m, x)
  <2>1. SUFFICES ASSUME NEW m \in 0..n, NEW x PROVE HasN(a, m, x) <=> HasN(b, m, x)
    OBVIOUS
  <2>2. \A k \in 1..m : a[k] = b[k]
    OBVIOUS
  <2>3. QED
    BY <2>2 DEF HasN
<1> DEFINE N == {m \in Nat : m <= n => Made(a, m, c) = Made(b, m, c)}
<1>2. 0 \in N
  BY MadeByMore
<1>3. ASSUME NEW m \in Nat, m \in N PROVE m + 1 \in N
  <2>1. SUFFICES ASSUME m + 1 <= n PROVE Made(a, m + 1, c) = Made(b, m + 1, c)
    OBVIOUS
  <2>2. m \in 0..n /\ m + 1 \in 1..n /\ Made(a, m, c) = Made(b, m, c)
    BY <1>3, <2>1
  <2>3. a[m + 1] = b[m + 1] /\ (HasN(a, m, c.id) <=> HasN(b, m, c.id))
    BY <1>1, <2>2
  <2>4. CASE HasN(a, m, c.id)
    BY <2>2, <2>3, <2>4, MadeByMore
  <2>5. CASE ~HasN(a, m, c.id)
    <3>1. Made(a, m + 1, c) = IF a[m + 1].clip.id = c.id THEN a[m + 1].clip ELSE c
      BY <2>5, MadeByMore
    <3>2. Made(b, m + 1, c) = IF b[m + 1].clip.id = c.id THEN b[m + 1].clip ELSE c
      BY <2>3, <2>5, MadeByMore
    <3>3. QED
      BY <2>3, <3>1, <3>2
  <2>6. QED
    BY <2>4, <2>5
<1>4. Nat \subseteq N
  <2>1. \A m \in Nat : m \in N => m + 1 \in N
    BY <1>3
  <2> HIDE DEF N
  <2>2. QED
    BY <1>2, <2>1, Inductively
<1>5. QED
  BY <1>1, <1>4

\* The same tracks, and of every clip what the list makes of it
Patched(q, lst, n, p) ==
    /\ Len(p) = Len(q)
    /\ \A i \in 1..Len(q) :
          /\ p[i] = TrackOf(q[i], p[i].clips) /\ Len(p[i].clips) = Len(q[i].clips)
          /\ \A j \in 1..Len(q[i].clips) : p[i].clips[j] = Made(lst, n, q[i].clips[j])

\* A replacement replaces the clip of its id.
LEMMA ReplacingIs ==
    ASSUME NEW p, NEW ch, NEW q, Leads(p, ch, q), ch.change = "replace-clip"
    PROVE  /\ Len(q) = Len(p) /\ Ids(q) = Ids(p) /\ ch.clip.id \in Ids(p) /\ IsClip(ch.clip)
           /\ \A i \in 1..Len(p) :
                 /\ q[i] = TrackOf(p[i], q[i].clips) /\ Len(q[i].clips) = Len(p[i].clips)
                 /\ \A j \in 1..Len(p[i].clips) :
                       /\ q[i].clips[j].id = p[i].clips[j].id
                       /\ q[i].clips[j] = IF p[i].clips[j].id = ch.clip.id THEN ch.clip
                                          ELSE p[i].clips[j]
<1> DEFINE c == ch.clip
           t == Home(p, c.id)
           k == SlotOf(p, c.id)
           s == p[t].clips
<1>1. IsClip(c) /\ c.id \in Ids(p) /\ Wf(p)
  BY DEF Leads, Applies, Fresh
<1>2. q = After(p, ReplaceClip(c))
  BY DEF Leads, After, ReplaceClip
<1>3. /\ Wf(q) /\ Len(q) = Len(p)
      /\ \A i \in 1..Len(p) : i # t => q[i] = p[i]
      /\ q[t] = TrackOf(p[t], q[t].clips)
      /\ q[t].clips = [s EXCEPT ![k] = c]
      /\ \A x, i, j : Sits(q, x, i, j) <=> Sits(p, x, i, j)
  BY <1>1, <1>2, ReplacedIs
<1>4. Sits(p, c.id, t, k)
  BY <1>1, ClipFound
<1> HIDE DEF t, k
<1>5. Ids(q) = Ids(p)
  <2>1. \A x : x \in Ids(q) <=> x \in Ids(p)
    BY <1>1, <1>3, ClipsAre DEF Wf
  <2>2. QED
    BY <2>1
<1>6. \A i \in 1..Len(p) : p[i] = TrackOf(p[i], p[i].clips) /\ IsSeq(p[i].clips)
                           /\ DOMAIN p[i].clips = 1..Len(p[i].clips)
  BY <1>1, SeqIs DEF Wf, Shape, IsTrack, AreClips
<1>7. t \in 1..Len(p) /\ k \in 1..Len(s) /\ s[k].id = c.id
  BY <1>4 DEF Sits
<1>8. Len(q[t].clips) = Len(s)
  <2>1. IsSeq(q[t].clips) /\ DOMAIN q[t].clips = 1..Len(q[t].clips) /\ Len(q[t].clips) \in Nat
    BY <1>3, <1>7, SeqIs DEF Wf, Shape, IsTrack, AreClips
  <2>2. DOMAIN q[t].clips = 1..Len(s) /\ Len(s) \in Nat
    BY <1>3, <1>6, <1>7, SeqIs
  <2>3. QED
    BY <2>1, <2>2
<1>9. \A i \in 1..Len(p) : q[i] = TrackOf(p[i], q[i].clips) /\ Len(q[i].clips) = Len(p[i].clips)
  BY <1>3, <1>6, <1>8
<1>10. ASSUME NEW i \in 1..Len(p), NEW j \in 1..Len(p[i].clips)
       PROVE  /\ q[i].clips[j].id = p[i].clips[j].id
              /\ q[i].clips[j] = IF p[i].clips[j].id = c.id THEN c ELSE p[i].clips[j]
  <2>1. Sits(p, p[i].clips[j].id, i, j)
    BY DEF Sits
  <2>2. Sits(q, p[i].clips[j].id, i, j)
    BY <2>1, <1>3
  <2>3. CASE p[i].clips[j].id = c.id
    <3>1. i = t /\ j = k
      BY <1>1, <1>4, <2>1, <2>3 DEF Wf, OnePlaceEach
    <3>2. q[t].clips[k] = c
      BY <1>3, <1>6, <1>7
    <3>3. QED
      BY <2>3, <3>1, <3>2
  <2>4. CASE p[i].clips[j].id # c.id
    <3>1. ~(i = t /\ j = k)
      BY <1>7, <2>4
    <3>2. q[i].clips[j] = p[i].clips[j]
      <4>1. CASE i # t
        BY <1>3, <4>1
      <4>2. CASE i = t
        BY <1>3, <1>6, <1>7, <3>1, <4>2
      <4>3. QED
        BY <4>1, <4>2
    <3>3. QED
      BY <2>4, <3>2
  <2>5. QED
    BY <2>3, <2>4
<1>11. QED
  BY <1>1, <1>3, <1>5, <1>9, <1>10

\* Undoing replacements leaves of each clip what the list makes of it.
LEMMA UndoingPatches ==
    ASSUME NEW q, NEW lst, NEW p, Undoes(q, lst, p), OnlyReplaces(lst)
    PROVE  /\ Patched(q, lst, Len(lst), p)
           /\ \A k \in 1..Len(lst) : IsClip(lst[k].clip) /\ lst[k].clip.id \in Ids(q)
           /\ Ids(q) = Ids(p)
<1> DEFINE L == Len(lst)
<1>1. L \in Nat /\ IsSeq(lst) /\ DOMAIN lst = 1..L /\ Wf(p) /\ Wf(q)
  BY SeqIs DEF Undoes, Backs
<1>2. PICK g : g[0] = p /\ g[L] = q /\ \A k \in 1..L : Leads(g[k], lst[k], g[k - 1])
  BY DEF Undoes, Backs
<1>3. \A k \in 1..L : lst[k].change = "replace-clip"
  BY <1>1 DEF OnlyReplaces
<1> DEFINE P(n) == /\ Patched(g[n], lst, n, p) /\ Ids(g[n]) = Ids(p)
                   /\ \A k \in 1..n : IsClip(lst[k].clip) /\ lst[k].clip.id \in Ids(p)
           N == {n \in Nat : n <= L => P(n)}
<1>4. 0 \in N
  <2>1. \A i \in 1..Len(p) : p[i] = TrackOf(p[i], p[i].clips)
    BY <1>1 DEF Wf, Shape, IsTrack
  <2>2. \A c : Made(lst, 0, c) = c
    BY MadeByMore
  <2>3. Patched(p, lst, 0, p)
    BY <2>1, <2>2 DEF Patched
  <2>4. P(0)
    BY <1>2, <2>3
  <2>5. QED
    BY <2>4
<1>5. ASSUME NEW n \in Nat, n \in N PROVE n + 1 \in N
  <2>1. SUFFICES ASSUME n + 1 <= L PROVE P(n + 1)
    OBVIOUS
  <2> DEFINE r == g[n + 1]
             u == g[n]
             c == lst[n + 1].clip
  <2>2. P(n) /\ n + 1 \in 1..L /\ (n + 1) - 1 = n
    BY <1>1, <1>5, <2>1
  <2>3. Leads(r, lst[n + 1], u) /\ lst[n + 1].change = "replace-clip"
    BY <1>2, <1>3, <2>2
  <2> HIDE DEF r, u
  <2>4. /\ Len(u) = Len(r) /\ Ids(u) = Ids(r) /\ c.id \in Ids(r) /\ IsClip(c)
        /\ \A i \in 1..Len(r) :
              /\ u[i] = TrackOf(r[i], u[i].clips) /\ Len(u[i].clips) = Len(r[i].clips)
              /\ \A j \in 1..Len(r[i].clips) :
                    /\ u[i].clips[j].id = r[i].clips[j].id
                    /\ u[i].clips[j] = IF r[i].clips[j].id = c.id THEN c ELSE r[i].clips[j]
    BY <2>3, ReplacingIs
  <2>5. Patched(u, lst, n, p)
    BY <2>2 DEF u
  <2>6. ASSUME NEW i \in 1..Len(r), NEW j \in 1..Len(r[i].clips)
        PROVE  Made(lst, n, u[i].clips[j]) = Made(lst, n + 1, r[i].clips[j])
    <3> DEFINE d == u[i].clips[j]
               e == r[i].clips[j]
    <3>1. d.id = e.id /\ d = IF e.id = c.id THEN c ELSE e
      BY <2>4, <2>6
    <3> HIDE DEF d, e
    <3>2. CASE HasN(lst, n, e.id)
      <4>1. Made(lst, n, d) = Made(lst, n, e)
        BY <3>1, <3>2, MadeOfId
      <4>2. Made(lst, n + 1, e) = Made(lst, n, e)
        BY <3>2, MadeByMore
      <4>3. QED
        BY <4>1, <4>2 DEF d, e
    <3>3. CASE ~HasN(lst, n, e.id)
      <4>1. Made(lst, n, d) = d
        BY <3>1, <3>3, MadeByMore
      <4>2. Made(lst, n + 1, e) = IF c.id = e.id THEN c ELSE e
        BY <3>3, MadeByMore
      <4>3. QED
        BY <3>1, <4>1, <4>2 DEF d, e
    <3>4. QED
      BY <3>2, <3>3
  <2>7. ASSUME NEW i \in 1..Len(r) PROVE p[i] = TrackOf(r[i], p[i].clips)
    <3>1. p[i] = TrackOf(u[i], p[i].clips) /\ u[i] = TrackOf(r[i], u[i].clips)
      BY <2>4, <2>5 DEF Patched
    <3>2. u[i].id = r[i].id /\ u[i].kind = r[i].kind /\ u[i].locked = r[i].locked
      BY <3>1 DEF TrackOf
    <3>3. TrackOf(u[i], p[i].clips) = TrackOf(r[i], p[i].clips)
      BY <3>2 DEF TrackOf
    <3>4. QED
      BY <3>1, <3>3
  <2>8. Patched(r, lst, n + 1, p)
    BY <2>4, <2>5, <2>6, <2>7 DEF Patched
  <2>9. \A k \in 1..n + 1 : k \in 1..n \/ k = n + 1
    OBVIOUS
  <2>10. QED
    BY <2>2, <2>4, <2>8, <2>9 DEF u, r
<1>6. L \in N
  <2>1. \A n \in Nat : n \in N => n + 1 \in N
    BY <1>5
  <2> HIDE DEF N
  <2>2. QED
    BY <1>1, <1>4, <2>1, Inductively
<1>7. P(L)
  BY <1>1, <1>6
<1>8. QED
  BY <1>2, <1>7

\* There is only one project a list makes of another.
LEMMA PatchedOnce ==
    ASSUME NEW q, NEW a, NEW n, NEW p, NEW b, NEW m, NEW r, Shape(p), Shape(r),
           Patched(q, a, n, p), Patched(q, b, m, r),
           \A i \in 1..Len(q) : \A j \in 1..Len(q[i].clips) :
              Made(a, n, q[i].clips[j]) = Made(b, m, q[i].clips[j])
    PROVE  p = r
<1>1. ASSUME NEW i \in 1..Len(q) PROVE p[i] = r[i]
  <2>1. IsSeq(p[i].clips) /\ IsSeq(r[i].clips)
    BY <1>1 DEF Patched, Shape, IsTrack, AreClips
  <2>2. Len(p[i].clips) = Len(r[i].clips) /\ \A j \in 1..Len(p[i].clips) : p[i].clips[j] = r[i].clips[j]
    BY <1>1 DEF Patched
  <2>3. p[i].clips = r[i].clips
    BY <2>1, <2>2, SameSeq
  <2>4. QED
    BY <2>3 DEF Patched
<1>2. IsSeq(p) /\ IsSeq(r) /\ Len(p) = Len(q) /\ Len(r) = Len(q)
  BY DEF Patched, Shape
<1>3. QED
  BY <1>1, <1>2, SameSeq

\* Replacements of clips that are there lead somewhere.
LEMMA ReplacingLeads ==
    ASSUME NEW q, Wf(q), NEW lst, IsSeq(lst), OnlyReplaces(lst),
           \A k \in 1..Len(lst) : IsClip(lst[k].clip) /\ lst[k].clip.id \in Ids(q)
    PROVE  \E p : Undoes(q, lst, p)
<1> DEFINE L == Len(lst)
           N == {n \in Nat : n <= L => \A r : Wf(r) /\ Ids(r) = Ids(q) => \E p : Backs(r, lst, n, p)}
<1>1. L \in Nat /\ \A k \in 1..L : lst[k].change = "replace-clip"
  BY SeqIs DEF OnlyReplaces
<1>2. 0 \in N
  BY NothingToDo
<1>3. ASSUME NEW n \in Nat, n \in N PROVE n + 1 \in N
  <2>1. SUFFICES ASSUME n + 1 <= L, NEW r, Wf(r), Ids(r) = Ids(q)
                 PROVE  \E p : Backs(r, lst, n + 1, p)
    OBVIOUS
  <2> DEFINE ch == lst[n + 1]
             u == After(r, ch)
  <2>2. n + 1 \in 1..L /\ (n + 1) - 1 = n
    BY <1>1, <2>1
  <2>3. Leads(r, ch, u)
    BY <1>1, <2>1, <2>2 DEF Leads, Applies, Fresh
  <2> HIDE DEF u
  <2>4. Wf(u) /\ Ids(u) = Ids(q)
    <3>1. ch.change = "replace-clip"
      BY <1>1, <2>2
    <3>2. Ids(u) = Ids(r)
      BY <2>3, <3>1, ReplacingIs
    <3>3. Wf(u)
      BY <2>3, InverseTakesBack
    <3>4. QED
      BY <2>1, <3>2, <3>3
  <2>5. PICK p : Backs(u, lst, n, p)
    BY <1>1, <1>3, <2>1, <2>4
  <2>6. PICK g : g[0] = p /\ g[n] = u /\ \A k \in 1..n : Leads(g[k], lst[k], g[k - 1])
    BY <2>5 DEF Backs
  <2> DEFINE h == [k \in 0..n + 1 |-> IF k <= n THEN g[k] ELSE r]
  <2>7. h[0] = p /\ h[n + 1] = r /\ h[n] = u
    BY <2>6
  <2>8. \A k \in 1..n : h[k - 1] = g[k - 1] /\ h[k] = g[k]
    OBVIOUS
  <2> HIDE DEF h
  <2>9. ASSUME NEW k \in 1..n + 1 PROVE Leads(h[k], lst[k], h[k - 1])
    <3>1. CASE k \in 1..n
      BY <2>6, <2>8, <3>1
    <3>2. CASE k = n + 1
      BY <2>2, <2>3, <2>7, <3>2
    <3>3. QED
      BY <3>1, <3>2
  <2>10. Wf(p)
    BY <2>5 DEF Backs
  <2>11. Backs(r, lst, n + 1, p)
    BY <2>1, <2>7, <2>9, <2>10 DEF Backs
  <2>12. QED
    BY <2>11
<1>4. L \in N
  <2>1. \A n \in Nat : n \in N => n + 1 \in N
    BY <1>3
  <2> HIDE DEF N
  <2>2. QED
    BY <1>1, <1>2, <2>1, Inductively
<1>5. \E p : Backs(q, lst, L, p)
  BY <1>1, <1>4
<1>6. QED
  BY <1>5 DEF Undoes

\* coalesce goes through the later list one inverse at a time.
LEMMA CoalesceRuns ==
    ASSUME NEW R, NEW I, Len(I) \in Nat, OnlyReplaces(R), OnlyReplaces(I)
    PROVE  \E kept : /\ kept[0] = R /\ Coalesce(R, I) = kept[Len(I)]
                     /\ \A n \in 1..Len(I) :
                           kept[n] = IF Has(kept[n - 1], I[n].clip.id) THEN kept[n - 1]
                                     ELSE Append(kept[n - 1], I[n])
<1> DEFINE L == Len(I)
           More(l, n) == IF Has(l, I[n].clip.id) THEN l ELSE Append(l, I[n])
           Next1(s, n) == CHOOSE k \in {IF Has(l, I[n].clip.id) THEN l ELSE Append(l, I[n]) : l \in {s}} : TRUE
           run == CHOOSE run : run = [n \in 0..L |-> IF n = 0 THEN R ELSE Next1(run[n - 1], n)]
           N == {m \in Nat : \E g : g = [n \in 0..m |-> IF n = 0 THEN R ELSE Next1(g[n - 1], n)]}
<1>1. \A s, n : Next1(s, n) = More(s, n)
  <2>1. SUFFICES ASSUME NEW s, NEW n PROVE Next1(s, n) = More(s, n)
    OBVIOUS
  <2>2. {IF Has(l, I[n].clip.id) THEN l ELSE Append(l, I[n]) : l \in {s}} = {More(s, n)}
    OBVIOUS
  <2> HIDE DEF More
  <2>3. QED
    BY <2>2
<1> HIDE DEF Next1
<1>2. 0 \in N
  <2> DEFINE g == [n \in 0..0 |-> R]
  <2>1. g = [n \in 0..0 |-> IF n = 0 THEN R ELSE Next1(g[n - 1], n)]
    OBVIOUS
  <2> HIDE DEF g
  <2>2. QED
    BY <2>1
<1>3. ASSUME NEW m \in Nat, m \in N PROVE m + 1 \in N
  <2>1. PICK g : g = [n \in 0..m |-> IF n = 0 THEN R ELSE Next1(g[n - 1], n)]
    BY <1>3
  <2> DEFINE h == [n \in 0..m + 1 |-> IF n <= m THEN g[n] ELSE Next1(g[m], m + 1)]
  <2>2. \A n \in 0..m : h[n] = g[n]
    OBVIOUS
  <2>3. h[m + 1] = Next1(g[m], m + 1) /\ DOMAIN h = 0..m + 1 /\ h = [n \in 0..m + 1 |-> h[n]]
    OBVIOUS
  <2> HIDE DEF h
  <2>4. ASSUME NEW n \in 0..m + 1 PROVE h[n] = IF n = 0 THEN R ELSE Next1(h[n - 1], n)
    <3>1. CASE n = 0
      <4>1. g[0] = R
        BY <2>1
      <4>2. QED
        BY <2>2, <3>1, <4>1
    <3>2. CASE n \in 1..m
      <4>1. g[n] = Next1(g[n - 1], n) /\ n - 1 \in 0..m
        BY <2>1, <3>2
      <4>2. QED
        BY <2>2, <3>2, <4>1
    <3>3. CASE n = m + 1
      <4>1. n - 1 = m /\ m \in 0..m /\ n # 0
        BY <3>3
      <4>2. QED
        BY <2>2, <2>3, <3>3, <4>1
    <3>4. QED
      BY <3>1, <3>2, <3>3
  <2>5. h = [n \in 0..m + 1 |-> IF n = 0 THEN R ELSE Next1(h[n - 1], n)]
    BY <2>3, <2>4
  <2>6. QED
    BY <2>5
<1>4. L \in N
  BY <1>2, <1>3, Inductively
<1>5. run = [n \in 0..L |-> IF n = 0 THEN R ELSE Next1(run[n - 1], n)]
  BY <1>4
<1>6. Coalesce(R, I) = run[L]
  BY DEF Coalesce, Next1
<1> HIDE DEF run
<1>7. run[0] = R /\ \A n \in 1..L : run[n] = More(run[n - 1], n)
  <2>1. 0 \in 0..L
    OBVIOUS
  <2>2. run[0] = R
    BY <1>5, <2>1
  <2>3. \A n \in 1..L : n \in 0..L /\ n # 0
    OBVIOUS
  <2>4. \A n \in 1..L : run[n] = Next1(run[n - 1], n)
    BY <1>5, <2>3
  <2>5. QED
    BY <1>1, <2>2, <2>4
<1>8. QED
  BY <1>6, <1>7

\* What is kept of two lists of replacements makes of a clip what the later list
\* and then the earlier one make of it.
Keeps(K, R, I, n, X) ==
    /\ IsSeq(K) /\ Len(K) >= Len(R) /\ OnlyReplaces(K)
    /\ \A k \in 1..Len(K) : IsClip(K[k].clip) /\ K[k].clip.id \in X
    /\ \A x : HasN(K, Len(K), x) <=> HasN(R, Len(R), x) \/ HasN(I, n, x)
    /\ \A c : Made(K, Len(K), c) = IF HasN(R, Len(R), c.id) THEN Made(R, Len(R), c) ELSE Made(I, n, c)

\* One inverse more, dropped where the clip has one already and kept where not
LEMMA KeepsMore ==
    ASSUME NEW K, NEW R, NEW I, NEW n \in Nat, NEW X, Keeps(K, R, I, n, X), Len(R) \in Nat,
           I[n + 1].change = "replace-clip", IsClip(I[n + 1].clip), I[n + 1].clip.id \in X
    PROVE  Keeps(IF Has(K, I[n + 1].clip.id) THEN K ELSE Append(K, I[n + 1]), R, I, n + 1, X)
<1> DEFINE e == I[n + 1]
           x == e.clip.id
<1>1. IsSeq(K) /\ Len(K) \in Nat /\ DOMAIN K = 1..Len(K)
  BY SeqIs DEF Keeps
<1>2. Has(K, x) <=> HasN(K, Len(K), x)
  BY <1>1 DEF Has, HasN
<1>3. CASE Has(K, x)
  <2>1. HasN(R, Len(R), x) \/ HasN(I, n, x)
    BY <1>2, <1>3 DEF Keeps
  <2>2. \A y : HasN(K, Len(K), y) <=> HasN(R, Len(R), y) \/ HasN(I, n + 1, y)
    <3>1. SUFFICES ASSUME NEW y
                   PROVE  HasN(K, Len(K), y) <=> HasN(R, Len(R), y) \/ HasN(I, n + 1, y)
      OBVIOUS
    <3>2. HasN(I, n + 1, y) <=> HasN(I, n, y) \/ x = y
      BY MadeByMore
    <3>3. QED
      BY <2>1, <3>2 DEF Keeps
  <2>3. ASSUME NEW c
        PROVE  Made(K, Len(K), c) = IF HasN(R, Len(R), c.id) THEN Made(R, Len(R), c) ELSE Made(I, n + 1, c)
    <3>1. CASE HasN(R, Len(R), c.id)
      BY <3>1 DEF Keeps
    <3>2. CASE ~HasN(R, Len(R), c.id)
      <4>1. Made(K, Len(K), c) = Made(I, n, c)
        BY <3>2 DEF Keeps
      <4>2. Made(I, n + 1, c) = Made(I, n, c)
        <5>1. CASE HasN(I, n, c.id)
          BY <5>1, MadeByMore
        <5>2. CASE ~HasN(I, n, c.id)
          <6>1. x # c.id
            BY <2>1, <3>2, <5>2
          <6>2. QED
            BY <5>2, <6>1, MadeByMore
        <5>3. QED
          BY <5>1, <5>2
      <4>3. QED
        BY <3>2, <4>1, <4>2
    <3>3. QED
      BY <3>1, <3>2
  <2>4. QED
    BY <1>3, <2>2, <2>3 DEF Keeps
<1>4. CASE ~Has(K, x)
  <2> DEFINE J == Append(K, e)
             m == Len(K)
  <2>1. IsSeq(J) /\ Len(J) = m + 1 /\ J[m + 1] = e /\ \A k \in 1..m : J[k] = K[k]
    <3>1. J = K \o <<e>> /\ Joined(K, <<e>>, K \o <<e>>) /\ Len(<<e>>) = 1 /\ <<e>>[1] = e /\ 1 \in 1..1
      BY <1>1, AppendIs, JoinIs, OneIs
    <3>2. QED
      BY <3>1 DEF Joined
  <2> HIDE DEF J
  <2>2. \A k \in 1..m + 1 : k \in 1..m \/ k = m + 1
    BY <1>1
  <2>3. OnlyReplaces(J) /\ \A k \in 1..Len(J) : IsClip(J[k].clip) /\ J[k].clip.id \in X
    <3>1. DOMAIN J = 1..m + 1
      BY <2>1, SeqIs
    <3>2. QED
      BY <1>1, <2>1, <2>2, <3>1 DEF Keeps, OnlyReplaces
  <2>4. \A y : HasN(J, m, y) <=> HasN(K, m, y)
    BY <1>1, <2>1, MadeAlike
  <2>5. \A y : HasN(J, m + 1, y) <=> HasN(R, Len(R), y) \/ HasN(I, n + 1, y)
    <3>1. SUFFICES ASSUME NEW y
                   PROVE  HasN(J, m + 1, y) <=> HasN(R, Len(R), y) \/ HasN(I, n + 1, y)
      OBVIOUS
    <3>2. HasN(I, n + 1, y) <=> HasN(I, n, y) \/ x = y
      BY MadeByMore
    <3>3. HasN(J, m + 1, y) <=> HasN(J, m, y) \/ x = y
      BY <1>1, <2>1, MadeByMore
    <3>4. QED
      BY <2>4, <3>2, <3>3 DEF Keeps
  <2>6. ASSUME NEW c
        PROVE  Made(J, m + 1, c) = IF HasN(R, Len(R), c.id) THEN Made(R, Len(R), c) ELSE Made(I, n + 1, c)
    <3>1. Made(J, m, c) = Made(K, m, c)
      BY <1>1, <2>1, MadeAlike
    <3>2. CASE HasN(K, m, c.id)
      <4>1. Made(J, m + 1, c) = Made(K, m, c)
        <5>1. HasN(J, m, c.id)
          BY <2>4, <3>2
        <5>2. Made(J, m + 1, c) = Made(J, m, c)
          BY <1>1, <5>1, MadeByMore
        <5>3. QED
          BY <3>1, <5>2
      <4>2. HasN(R, Len(R), c.id) \/ HasN(I, n, c.id)
        BY <3>2 DEF Keeps
      <4>3. HasN(I, n, c.id) => Made(I, n + 1, c) = Made(I, n, c)
        BY MadeByMore
      <4>4. QED
        BY <4>1, <4>2, <4>3 DEF Keeps
    <3>3. CASE ~HasN(K, m, c.id)
      <4>1. ~HasN(R, Len(R), c.id) /\ ~HasN(I, n, c.id)
        BY <3>3 DEF Keeps
      <4>2. Made(I, n + 1, c) = IF x = c.id THEN e.clip ELSE c
        BY <4>1, MadeByMore
      <4>3. ~HasN(J, m, c.id)
        BY <2>4, <3>3
      <4>4. Made(J, m + 1, c) = IF x = c.id THEN e.clip ELSE c
        BY <1>1, <2>1, <4>3, MadeByMore
      <4>5. QED
        BY <4>1, <4>2, <4>4
    <3>4. QED
      BY <3>2, <3>3
  <2>7. Len(J) >= Len(R)
    BY <1>1, <2>1 DEF Keeps
  <2>8. Keeps(J, R, I, n + 1, X)
    BY <2>1, <2>3, <2>5, <2>6, <2>7 DEF Keeps
  <2>9. QED
    BY <1>4, <2>8 DEF J
<1>5. QED
  BY <1>3, <1>4

\* Undoing what is kept of the lists of two edits undoes both (edit.rs: coalesce).
THEOREM CoalesceUndoes ==
    ASSUME NEW p, NEW R, NEW q, NEW I, NEW r, Undoes(q, R, p), Undoes(r, I, q)
    PROVE  /\ Undoes(r, Coalesce(R, I), p)
           /\ R # <<>> \/ I # <<>> => Coalesce(R, I) # <<>>
<1>1. IsSeq(R) /\ IsSeq(I) /\ Len(R) \in Nat /\ Len(I) \in Nat
  BY SeqIs DEF Undoes
<1>2. CASE ~OnlyReplaces(R) \/ ~OnlyReplaces(I)
  <2>1. Coalesce(R, I) = R \o I
    BY <1>2 DEF Coalesce
  <2>2. Undoes(r, R \o I, p)
    BY UndoesBoth
  <2>3. R # <<>> \/ I # <<>> => R \o I # <<>>
    <3>1. Len(R \o I) = Len(R) + Len(I)
      BY <1>1, JoinIs DEF Joined
    <3>2. (R # <<>> => Len(R) # 0) /\ (I # <<>> => Len(I) # 0)
      BY <1>1, NoneIs, SameSeq
    <3>3. QED
      BY <1>1, <3>1, <3>2, NoneIs
  <2>4. QED
    BY <2>1, <2>2, <2>3
<1>3. CASE OnlyReplaces(R) /\ OnlyReplaces(I)
  <2> DEFINE L == Len(I)
             X == Ids(r)
             K == Coalesce(R, I)
  <2>1. /\ Patched(q, R, Len(R), p) /\ Ids(q) = Ids(p)
        /\ \A k \in 1..Len(R) : IsClip(R[k].clip) /\ R[k].clip.id \in Ids(q)
    BY <1>3, UndoingPatches
  <2>2. /\ Patched(r, I, L, q) /\ Ids(r) = Ids(q)
        /\ \A k \in 1..L : IsClip(I[k].clip) /\ I[k].clip.id \in Ids(r)
    BY <1>3, UndoingPatches
  <2>3. PICK kept : /\ kept[0] = R /\ K = kept[L]
                    /\ \A n \in 1..L :
                          kept[n] = IF Has(kept[n - 1], I[n].clip.id) THEN kept[n - 1]
                                    ELSE Append(kept[n - 1], I[n])
    BY <1>1, <1>3, CoalesceRuns
  <2> HIDE DEF K
  <2> DEFINE N == {n \in Nat : n <= L => Keeps(kept[n], R, I, n, X)}
  <2>4. 0 \in N
    <3>1. \A x : ~HasN(I, 0, x)
      BY DEF HasN
    <3>2. \A c : ~HasN(R, Len(R), c.id) => Made(R, Len(R), c) = c
      BY DEF Made
    <3>3. \A c : Made(I, 0, c) = c
      BY MadeByMore
    <3>4. \A c : Made(R, Len(R), c) = IF HasN(R, Len(R), c.id) THEN Made(R, Len(R), c) ELSE Made(I, 0, c)
      BY <3>2, <3>3
    <3>5. Len(R) >= Len(R)
      BY <1>1
    <3>6. Keeps(R, R, I, 0, X)
      BY <1>1, <1>3, <2>1, <2>2, <3>1, <3>4, <3>5 DEF Keeps
    <3>7. QED
      BY <2>3, <3>6
  <2>5. ASSUME NEW n \in Nat, n \in N PROVE n + 1 \in N
    <3>1. SUFFICES ASSUME n + 1 <= L PROVE Keeps(kept[n + 1], R, I, n + 1, X)
      OBVIOUS
    <3>2. n + 1 \in 1..L /\ (n + 1) - 1 = n /\ Keeps(kept[n], R, I, n, X)
      BY <1>1, <2>5, <3>1
    <3>3. I[n + 1].change = "replace-clip" /\ IsClip(I[n + 1].clip) /\ I[n + 1].clip.id \in X
      <4>1. DOMAIN I = 1..L
        BY <1>1, SeqIs
      <4>2. QED
        BY <1>3, <2>2, <3>2, <4>1 DEF OnlyReplaces
    <3>4. kept[n + 1] = IF Has(kept[n], I[n + 1].clip.id) THEN kept[n] ELSE Append(kept[n], I[n + 1])
      BY <2>3, <3>2
    <3>5. QED
      BY <1>1, <3>2, <3>3, <3>4, KeepsMore
  <2>6. L \in N
    <3>1. \A n \in Nat : n \in N => n + 1 \in N
      BY <2>5
    <3> HIDE DEF N
    <3>2. QED
      BY <1>1, <2>4, <3>1, Inductively
  <2>7. Keeps(K, R, I, L, X)
    BY <1>1, <2>3, <2>6
  <2>8. Wf(r) /\ Wf(p) /\ Shape(p)
    BY DEF Undoes, Backs, Wf
  <2>9. PICK u : Undoes(r, K, u)
    BY <2>7, <2>8, ReplacingLeads DEF Keeps
  <2>10. Patched(r, K, Len(K), u) /\ Shape(u)
    BY <2>7, <2>9, UndoingPatches DEF Keeps, Undoes, Backs, Wf
  <2>11. ASSUME NEW i \in 1..Len(r), NEW j \in 1..Len(r[i].clips)
         PROVE  /\ Made(R, Len(R), q[i].clips[j]) = Made(K, Len(K), r[i].clips[j])
    <3> DEFINE c == r[i].clips[j]
               d == q[i].clips[j]
    <3>1. d = Made(I, L, c)
      BY <2>2, <2>11 DEF Patched
    <3>2. d.id = c.id
      BY <1>1, <3>1, MadeHasId
    <3>3. Made(K, Len(K), c) = IF HasN(R, Len(R), c.id) THEN Made(R, Len(R), c) ELSE Made(I, L, c)
      BY <2>7 DEF Keeps
    <3> HIDE DEF c, d
    <3>4. CASE HasN(R, Len(R), c.id)
      <4>1. Made(R, Len(R), c) = Made(R, Len(R), d)
        BY <3>2, <3>4, MadeOfId
      <4>2. QED
        BY <3>3, <3>4, <4>1 DEF c, d
    <3>5. CASE ~HasN(R, Len(R), c.id)
      <4>1. Made(R, Len(R), d) = d
        BY <3>2, <3>5 DEF Made
      <4>2. QED
        BY <3>1, <3>3, <3>5, <4>1 DEF c, d
    <3>6. QED
      BY <3>4, <3>5
  <2>12. u = p
    <3>1. Patched(r, K, Len(K), p)
      <4>1. ASSUME NEW i \in 1..Len(r)
            PROVE  /\ p[i] = TrackOf(r[i], p[i].clips) /\ Len(p[i].clips) = Len(r[i].clips)
                   /\ \A j \in 1..Len(r[i].clips) : p[i].clips[j] = Made(K, Len(K), r[i].clips[j])
        <5>1. p[i] = TrackOf(q[i], p[i].clips) /\ q[i] = TrackOf(r[i], q[i].clips)
          BY <2>1, <2>2 DEF Patched
        <5>2. q[i].id = r[i].id /\ q[i].kind = r[i].kind /\ q[i].locked = r[i].locked
          BY <5>1 DEF TrackOf
        <5>3. TrackOf(q[i], p[i].clips) = TrackOf(r[i], p[i].clips)
          BY <5>2 DEF TrackOf
        <5>4. Len(p[i].clips) = Len(r[i].clips) /\ Len(q[i].clips) = Len(r[i].clips)
          BY <2>1, <2>2 DEF Patched
        <5>5. \A j \in 1..Len(r[i].clips) : p[i].clips[j] = Made(R, Len(R), q[i].clips[j])
          BY <2>1, <2>2, <5>4 DEF Patched
        <5>6. QED
          BY <5>1, <5>3, <5>4, <5>5, <2>11
      <4>2. Len(p) = Len(r)
        BY <2>1, <2>2 DEF Patched
      <4>3. QED
        BY <4>1, <4>2 DEF Patched
    <3>2. QED
      BY <2>8, <2>10, <3>1, PatchedOnce
  <2>13. R # <<>> \/ I # <<>> => K # <<>>
    <3>1. CASE R # <<>>
      <4>1. Len(R) # 0
        BY <1>1, <3>1, NoneIs, SameSeq
      <4>2. QED
        BY <1>1, <2>7, <4>1, NoneIs DEF Keeps
    <3>2. CASE I # <<>>
      <4>1. 1 \in 1..L
        BY <1>1, <3>2, NoneIs, SameSeq
      <4>2. HasN(I, L, I[1].clip.id)
        BY <4>1 DEF HasN
      <4>3. HasN(K, Len(K), I[1].clip.id)
        BY <2>7, <4>2 DEF Keeps
      <4>4. Len(K) # 0
        BY <4>3 DEF HasN
      <4>5. QED
        BY <4>4, NoneIs
    <3>3. QED
      BY <3>1, <3>2
  <2>14. QED
    BY <2>9, <2>12, <2>13 DEF K
<1>4. QED
  BY <1>2, <1>3

-----------------------------------------------------------------------------
(* Lists that bring nothing twice                                            *)

\* What a change does to the ids
LEMMA EffectIs ==
    ASSUME NEW p, NEW ch, NEW q, Leads(p, ch, q)
    PROVE  /\ ch.change = "insert-clip" =>
                 Ids(q) \subseteq Ids(p) \cup {ch.clip.id} /\ TrackIds(q) \subseteq TrackIds(p)
           /\ ch.change = "remove-clip" =>
                 Ids(q) \subseteq Ids(p) \ {ch.id} /\ TrackIds(q) \subseteq TrackIds(p)
           /\ ch.change = "replace-clip" =>
                 Ids(q) = Ids(p) /\ TrackIds(q) \subseteq TrackIds(p)
           /\ ch.change = "insert-track" =>
                 /\ ch.put.clips = <<>> => Ids(q) \subseteq Ids(p)
                 /\ TrackIds(q) \subseteq TrackIds(p) \cup {ch.put.id}
           /\ ch.change \in {"remove-track", "header"} =>
                 Ids(q) \subseteq Ids(p) /\ TrackIds(q) \subseteq TrackIds(p)
<1>1. Wf(p) /\ Wf(q) /\ Shape(p) /\ Shape(q) /\ Applies(p, ch) /\ Fresh(p, ch) /\ q = After(p, ch)
  BY InverseTakesBack DEF Leads, Wf
<1>2. DOMAIN p = 1..Len(p) /\ IsSeq(p) /\ Len(p) \in Nat
  BY <1>1, SeqIs DEF Shape
<1>3. ASSUME Len(q) = Len(p), \A i \in 1..Len(p) : q[i].id = p[i].id
      PROVE  TrackIds(q) \subseteq TrackIds(p)
  <2>1. \A x \in TrackIds(q) : x \in TrackIds(p)
    BY <1>1, <1>3, ClipsAre
  <2>2. QED
    BY <2>1
<1>4. ASSUME ch.change = "insert-clip"
      PROVE  Ids(q) \subseteq Ids(p) \cup {ch.clip.id} /\ TrackIds(q) \subseteq TrackIds(p)
  <2> DEFINE c == ch.clip
             t == TrackAt(p, ch.track)
             s == p[t].clips
             k == Place(s, ch.index, c)
  <2>1. t \in 1..Len(p) /\ p[t].id = ch.track
    BY <1>1, <1>4, TrackFound DEF Applies
  <2>2. IsClip(c) /\ ch.index \in Nat /\ AreClips(s)
    BY <1>1, <1>4, <2>1 DEF Fresh, Shape, IsTrack
  <2>3. k \in 1..Len(s) + 1
    BY <2>2, PlaceIs
  <2>4. q = Put(p, t, InsertAt(s, k, c))
    BY <1>1, <1>2, <1>4, <2>1 DEF After, Put
  <2> DEFINE w == Put(p, t, InsertAt(p[t].clips, k, c))
  <2>8. k \in 1..Len(p[t].clips) + 1 /\ q = w
    BY <2>3, <2>4
  <2> HIDE DEF k, t, c, s
  <2>9. /\ Len(w) = Len(p) /\ \A i \in 1..Len(p) : w[i].id = p[i].id
        /\ \A x, i, j : Sits(w, x, i, j) =>
              IF i = t THEN IF j < k THEN Sits(p, x, i, j)
                            ELSE IF j = k THEN x = c.id ELSE Sits(p, x, i, j - 1)
              ELSE Sits(p, x, i, j)
    <3>1. Shape(p) /\ t \in 1..Len(p) /\ k \in 1..Len(p[t].clips) + 1 /\ IsClip(c)
      BY <1>1, <2>1, <2>2, <2>8
    <3>2. QED
      BY <3>1, InsertedStands
  <2> HIDE DEF w
  <2>5. /\ Len(q) = Len(p) /\ \A i \in 1..Len(p) : q[i].id = p[i].id
        /\ \A x, i, j : Sits(q, x, i, j) =>
              IF i = t THEN IF j < k THEN Sits(p, x, i, j)
                            ELSE IF j = k THEN x = c.id ELSE Sits(p, x, i, j - 1)
              ELSE Sits(p, x, i, j)
    BY <2>8, <2>9
  <2>6. \A x \in Ids(q) : x \in Ids(p) \/ x = c.id
    <3>1. SUFFICES ASSUME NEW x \in Ids(q) PROVE x \in Ids(p) \/ x = c.id
      OBVIOUS
    <3>2. PICK i, j : Sits(q, x, i, j)
      BY <1>1, ClipsAre
    <3>3. x = c.id \/ \E l : Sits(p, x, i, l)
      BY <2>5, <3>2
    <3>4. QED
      BY <1>1, <3>3, ClipsAre
  <2>7. QED
    BY <1>3, <2>5, <2>6 DEF c
<1>5. ASSUME ch.change = "remove-clip"
      PROVE  Ids(q) \subseteq Ids(p) \ {ch.id} /\ TrackIds(q) \subseteq TrackIds(p)
  <2> DEFINE t == Home(p, ch.id)
             k == SlotOf(p, ch.id)
  <2>1. t \in 1..Len(p) /\ k \in 1..Len(p[t].clips)
    BY <1>1, <1>5, ClipFound DEF Applies, Sits
  <2>2. q = Put(p, t, RemoveAt(p[t].clips, k))
    BY <1>1, <1>2, <1>5, <2>1 DEF After, Put
  <2> HIDE DEF t, k
  <2>3. Len(q) = Len(p) /\ \A i \in 1..Len(p) : q[i].id = p[i].id
    BY <1>1, <2>1, <2>2, RemovedStands
  <2>4. QED
    BY <1>1, <1>3, <1>5, <2>3, RemoveReturns
<1>6. ASSUME ch.change = "replace-clip"
      PROVE  Ids(q) = Ids(p) /\ TrackIds(q) \subseteq TrackIds(p)
  <2>1. /\ Len(q) = Len(p) /\ Ids(q) = Ids(p)
        /\ \A i \in 1..Len(p) : q[i] = TrackOf(p[i], q[i].clips)
    BY <1>6, ReplacingIs
  <2>2. ASSUME NEW i \in 1..Len(p) PROVE q[i].id = p[i].id
    <3>1. q[i] = TrackOf(p[i], q[i].clips)
      BY <2>1
    <3>2. TrackOf(p[i], q[i].clips).id = p[i].id
      BY DEF TrackOf
    <3>3. QED
      BY <3>1, <3>2
  <2>3. QED
    BY <1>3, <2>1, <2>2
<1>7. ASSUME ch.change = "insert-track"
      PROVE  /\ ch.put.clips = <<>> => Ids(q) \subseteq Ids(p)
             /\ TrackIds(q) \subseteq TrackIds(p) \cup {ch.put.id}
  <2> DEFINE n == Min({ch.index, Len(p) + 1})
  <2>1. ch.index \in Nat \ {0}
    BY <1>1, <1>7 DEF Fresh
  <2>2. n \in 1..Len(p) + 1
    BY <1>2, <2>1, LesserIs
  <2>3. q = InsertAt(p, n, ch.put)
    BY <1>1, <1>7 DEF After
  <2> HIDE DEF n
  <2>4. /\ Len(q) = Len(p) + 1
        /\ \A k \in 1..Len(p) + 1 : q[k] = IF k < n THEN p[k] ELSE IF k = n THEN ch.put ELSE p[k - 1]
    BY <1>2, <2>2, <2>3, InsertedIs
  <2>5. \A k \in 1..Len(q) : q[k] = ch.put \/ \E l \in 1..Len(p) : q[k] = p[l]
    <3>1. SUFFICES ASSUME NEW k \in 1..Len(p) + 1
                   PROVE  q[k] = ch.put \/ \E l \in 1..Len(p) : q[k] = p[l]
      BY <2>4
    <3>2. CASE k < n
      <4>1. k \in 1..Len(p) /\ q[k] = p[k]
        BY <1>2, <2>2, <2>4, <3>2
      <4>2. QED
        BY <4>1
    <3>3. CASE k = n
      BY <2>4, <3>3
    <3>4. CASE k > n
      <4>1. k - 1 \in 1..Len(p) /\ ~(k < n) /\ k # n
        BY <1>2, <2>2, <3>4
      <4>2. QED
        BY <2>4, <4>1
    <3>5. k < n \/ k = n \/ k > n
      BY <1>2, <2>2
    <3>6. QED
      BY <3>2, <3>3, <3>4, <3>5
  <2>6. \A x \in TrackIds(q) : x \in TrackIds(p) \/ x = ch.put.id
    <3>1. SUFFICES ASSUME NEW x \in TrackIds(q) PROVE x \in TrackIds(p) \/ x = ch.put.id
      OBVIOUS
    <3>2. PICK k \in 1..Len(q) : q[k].id = x
      BY <1>1, ClipsAre
    <3>3. QED
      BY <1>1, <2>5, <3>2, ClipsAre
  <2>7. ASSUME ch.put.clips = <<>>, NEW x \in Ids(q) PROVE x \in Ids(p)
    <3>1. PICK k, j : Sits(q, x, k, j)
      BY <1>1, <2>7, ClipsAre
    <3>2. q[k] # ch.put
      <4>1. Len(q[k].clips) # 0
        BY <3>1 DEF Sits
      <4>2. QED
        BY <2>7, <4>1, NoneIs
    <3>3. PICK l \in 1..Len(p) : q[k] = p[l]
      BY <2>5, <3>1, <3>2 DEF Sits
    <3>4. Sits(p, x, l, j)
      BY <3>1, <3>3 DEF Sits
    <3>5. QED
      BY <1>1, <3>4, ClipsAre
  <2>8. QED
    BY <2>6, <2>7
<1>8. ASSUME ch.change \in {"remove-track", "header"}
      PROVE  Ids(q) \subseteq Ids(p) /\ TrackIds(q) \subseteq TrackIds(p)
  BY <1>1, <1>8, RemoveTrackReturns, HeaderReturns
<1>9. QED
  BY <1>4, <1>5, <1>6, <1>7, <1>8

Brings(chs, n, x) == \E m \in 1..n : chs[m].change = "insert-clip" /\ chs[m].clip.id = x
Takes(chs, n, x) == \E m \in 1..n : chs[m].change = "remove-clip" /\ chs[m].id = x

\* A clip is inserted once, with an id that is new or was taken away before; at most
\* one track is, and it is empty.
Tidy(p, chs) ==
    /\ Wf(p) /\ IsSeq(chs)
    /\ \A n \in 1..Len(chs) :
          \/ chs[n].change \in {"remove-clip", "remove-track", "header"}
          \/ chs[n].change = "replace-clip" /\ IsClip(chs[n].clip)
          \/ /\ chs[n].change = "insert-clip" /\ chs[n].index \in Nat /\ IsClip(chs[n].clip)
             /\ ~Brings(chs, n - 1, chs[n].clip.id)
             /\ chs[n].clip.id \in Ids(p) => Takes(chs, n - 1, chs[n].clip.id)
          \/ /\ chs[n].change = "insert-track" /\ chs[n].index \in Nat \ {0}
             /\ IsTrack(chs[n].put) /\ chs[n].put.clips = <<>>
             /\ chs[n].put.id \notin TrackIds(p)
             /\ \A m \in 1..n - 1 : chs[m].change # "insert-track"

\* A tidy list brings nothing that is there when it comes.
LEMMA TidyIsOrderly ==
    ASSUME NEW p, NEW chs, Tidy(p, chs)
    PROVE  Orderly(p, chs)
<1> DEFINE L == Len(chs)
<1>1. L \in Nat /\ IsSeq(chs) /\ Wf(p)
  BY SeqIs DEF Tidy
<1>2. SUFFICES ASSUME NEW n \in 1..L, NEW r, Forth(p, chs, n - 1, r), Applies(r, chs[n])
               PROVE  Fresh(r, chs[n])
  BY <1>1 DEF Orderly
<1>3. PICK g : g[0] = p /\ g[n - 1] = r /\ \A k \in 1..n - 1 : Leads(g[k - 1], chs[k], g[k])
  BY <1>2 DEF Forth
<1> DEFINE P(m) == /\ \A x \in Ids(g[m]) : Brings(chs, m, x) \/ (x \in Ids(p) /\ ~Takes(chs, m, x))
                   /\ \A x \in TrackIds(g[m]) : \/ x \in TrackIds(p)
                                                \/ \E l \in 1..m : chs[l].change = "insert-track"
           N == {m \in Nat : m <= n - 1 => P(m)}
<1>4. 0 \in N
  BY <1>3 DEF Takes
<1>5. ASSUME NEW m \in Nat, m \in N PROVE m + 1 \in N
  <2>1. SUFFICES ASSUME m + 1 <= n - 1 PROVE P(m + 1)
    OBVIOUS
  <2> DEFINE u == g[m]
             v == g[m + 1]
             ch == chs[m + 1]
  <2>2. m + 1 \in 1..n - 1 /\ (m + 1) - 1 = m /\ m + 1 \in 1..L /\ P(m)
    BY <1>1, <1>5, <2>1
  <2>3. Leads(u, ch, v)
    BY <1>3, <2>2
  <2>4. \A x : Brings(chs, m + 1, x) <=> Brings(chs, m, x) \/ (ch.change = "insert-clip" /\ ch.clip.id = x)
    <3>1. \A l : l \in 1..m + 1 <=> l \in 1..m \/ l = m + 1
      OBVIOUS
    <3>2. QED
      BY <3>1 DEF Brings
  <2>5. \A x : Takes(chs, m + 1, x) <=> Takes(chs, m, x) \/ (ch.change = "remove-clip" /\ ch.id = x)
    <3>1. \A l : l \in 1..m + 1 <=> l \in 1..m \/ l = m + 1
      OBVIOUS
    <3>2. QED
      BY <3>1 DEF Takes
  <2>6. \A l \in 1..m : l \in 1..m + 1
    OBVIOUS
  <2> HIDE DEF u, v
  <2>7. /\ \A x \in Ids(u) : Brings(chs, m, x) \/ (x \in Ids(p) /\ ~Takes(chs, m, x))
        /\ \A x \in TrackIds(u) : x \in TrackIds(p) \/ \E l \in 1..m + 1 : chs[l].change = "insert-track"
    BY <2>2, <2>6 DEF u
  <2>8. CASE ch.change = "remove-clip"
    <3>1. Ids(v) \subseteq Ids(u) \ {ch.id} /\ TrackIds(v) \subseteq TrackIds(u)
      BY <2>3, <2>8, EffectIs
    <3>2. QED
      BY <2>4, <2>5, <2>7, <2>8, <3>1 DEF v
  <2>9. CASE ch.change = "replace-clip" \/ ch.change \in {"remove-track", "header"}
    <3>1. Ids(v) \subseteq Ids(u) /\ TrackIds(v) \subseteq TrackIds(u)
      BY <2>3, <2>9, EffectIs
    <3>2. QED
      BY <2>4, <2>5, <2>7, <2>9, <3>1 DEF v
  <2>10. CASE ch.change = "insert-clip"
    <3>1. Ids(v) \subseteq Ids(u) \cup {ch.clip.id} /\ TrackIds(v) \subseteq TrackIds(u)
      BY <2>3, <2>10, EffectIs
    <3>2. QED
      BY <2>4, <2>5, <2>7, <2>10, <3>1 DEF v
  <2>11. CASE ch.change = "insert-track" /\ ch.put.clips = <<>>
    <3>1. Ids(v) \subseteq Ids(u)
      BY <2>3, <2>11, EffectIs
    <3>2. \E l \in 1..m + 1 : chs[l].change = "insert-track"
      BY <2>11
    <3>3. QED
      BY <2>4, <2>5, <2>7, <2>11, <3>1, <3>2 DEF v
  <2>12. QED
    BY <2>2, <2>8, <2>9, <2>10, <2>11 DEF Tidy
<1>6. P(n - 1)
  <2>1. n - 1 \in Nat /\ n - 1 <= n - 1
    BY <1>1
  <2>2. \A m \in Nat : m \in N => m + 1 \in N
    BY <1>5
  <2>3. n - 1 \in N
    <3> HIDE DEF N
    <3>1. QED
      BY <1>4, <2>1, <2>2, Inductively
  <2>4. QED
    BY <2>1, <2>3
<1> HIDE DEF N
<1>7. CASE chs[n].change \in {"remove-clip", "remove-track", "header"}
  BY <1>7 DEF Fresh
<1>8. CASE chs[n].change = "replace-clip" /\ IsClip(chs[n].clip)
  BY <1>8 DEF Fresh
<1>9. CASE /\ chs[n].change = "insert-clip" /\ chs[n].index \in Nat /\ IsClip(chs[n].clip)
           /\ ~Brings(chs, n - 1, chs[n].clip.id)
           /\ chs[n].clip.id \in Ids(p) => Takes(chs, n - 1, chs[n].clip.id)
  <2>1. chs[n].clip.id \notin Ids(r)
    BY <1>3, <1>6, <1>9
  <2>2. QED
    BY <1>9, <2>1 DEF Fresh
<1>10. CASE /\ chs[n].change = "insert-track" /\ chs[n].index \in Nat \ {0}
            /\ IsTrack(chs[n].put) /\ chs[n].put.clips = <<>>
            /\ chs[n].put.id \notin TrackIds(p)
            /\ \A m \in 1..n - 1 : chs[m].change # "insert-track"
  <2>1. chs[n].put.id \notin TrackIds(r)
    BY <1>3, <1>6, <1>10
  <2>2. \A j \in 1..Len(chs[n].put.clips) : FALSE
    BY <1>10, NoneIs
  <2>3. QED
    BY <1>10, <2>1, <2>2 DEF Fresh
<1>11. QED
  BY <1>7, <1>8, <1>9, <1>10 DEF Tidy

-----------------------------------------------------------------------------
(* Sets in order                                                             *)

Lesser(S, x) == {y \in S : y < x}

\* Of every finite set of numbers, one is preceded by each count there can be.
LEMMA EachRankIsTaken ==
    ASSUME NEW U, U \subseteq Int, IsFiniteSet(U)
    PROVE  \A n \in 1..Cardinality(U) : \E x \in U : Cardinality(Lesser(U, x)) = n - 1
<1> DEFINE P(S) == \A n \in 1..Cardinality(S) : \E x \in S : Cardinality(Lesser(S, x)) = n - 1
           N == {m \in Nat : \A S \in SUBSET U : Cardinality(S) = m => P(S)}
<1>1. 0 \in N
  OBVIOUS
<1>2. ASSUME NEW m \in Nat, m \in N PROVE m + 1 \in N
  <2>1. SUFFICES ASSUME NEW S \in SUBSET U, Cardinality(S) = m + 1, NEW n \in 1..m + 1
                 PROVE  \E x \in S : Cardinality(Lesser(S, x)) = n - 1
    OBVIOUS
  <2>2. IsFiniteSet(S) /\ S \subseteq Int
    BY FS_Subset
  <2>3. S # {}
    BY <2>1, FS_EmptySet
  <2> DEFINE a == Max(S)
             T == S \ {a}
  <2>4. a \in S /\ \A y \in S : a >= y
    BY <2>2, <2>3, MaxIsIn
  <2> HIDE DEF a
  <2>5. T \in SUBSET U /\ Cardinality(T) = m
    BY <2>1, <2>2, <2>4, OneFewer
  <2>6. CASE n = m + 1
    <3>1. \A y \in S : y < a <=> y # a
      BY <2>2, <2>4
    <3>2. Lesser(S, a) = T
      BY <3>1 DEF Lesser
    <3>3. QED
      BY <2>4, <2>5, <2>6, <3>2
  <2>7. CASE n \in 1..m
    <3>1. P(T)
      BY <1>2, <2>5
    <3>2. PICK x \in T : Cardinality(Lesser(T, x)) = n - 1
      BY <2>5, <2>7, <3>1
    <3>3. ~(a < x)
      BY <2>2, <2>4, <3>2
    <3>4. Lesser(S, x) = Lesser(T, x)
      BY <3>3 DEF Lesser
    <3>5. QED
      BY <3>2, <3>4
  <2>8. QED
    BY <2>1, <2>6, <2>7
<1>3. Cardinality(U) \in N
  <2>1. Cardinality(U) \in Nat
    BY FS_CardinalityType
  <2>2. \A m \in Nat : m \in N => m + 1 \in N
    BY <1>2
  <2> HIDE DEF N
  <2>3. QED
    BY <1>1, <2>1, <2>2, Inductively
<1>4. QED
  BY <1>3

\* A set's members once each
Lists(s, S) ==
    /\ IsSeq(s) /\ \A n \in 1..Len(s) : s[n] \in S
    /\ \A n, m \in 1..Len(s) : s[n] = s[m] => n = m

\* Numbers in order are listed once each.
LEMMA SortedIs ==
    ASSUME NEW S, S \subseteq Int, IsFiniteSet(S)
    PROVE  Lists(Sorted(S), S) /\ Len(Sorted(S)) = Cardinality(S)
<1> DEFINE s == Sorted(S)
           C == Cardinality(S)
<1>1. C \in Nat
  BY FS_CardinalityType
<1>2. DOMAIN s = 1..C /\ s = [n \in DOMAIN s |-> s[n]]
  <2> DEFINE Nth(n) == CHOOSE x \in S : Cardinality({y \in S : y < x}) = n - 1
  <2>1. s = [n \in 1..C |-> Nth(n)]
    BY DEF Sorted
  <2> HIDE DEF s, C, Nth
  <2>2. QED
    BY <2>1
<1>3. \A n \in 1..C : s[n] \in S /\ Cardinality(Lesser(S, s[n])) = n - 1
  <2>1. SUFFICES ASSUME NEW n \in 1..C PROVE s[n] \in S /\ Cardinality(Lesser(S, s[n])) = n - 1
    OBVIOUS
  <2>2. s[n] = CHOOSE x \in S : Cardinality(Lesser(S, x)) = n - 1
    BY DEF Sorted, Lesser
  <2>3. \E x \in S : Cardinality(Lesser(S, x)) = n - 1
    BY EachRankIsTaken
  <2>4. QED
    BY <2>2, <2>3
<1> HIDE DEF s, C
<1>4. IsSeq(s) /\ Len(s) = C
  BY <1>1, <1>2, ListIs
<1>5. ASSUME NEW n \in 1..Len(s), NEW m \in 1..Len(s), s[n] = s[m] PROVE n = m
  <2>1. n - 1 = m - 1
    BY <1>3, <1>4, <1>5
  <2>2. QED
    BY <1>1, <1>4, <2>1
<1>6. QED
  BY <1>3, <1>4, <1>5 DEF Lists, s, C

\* Clips in order are listed once each, and so are their ids.
LEMMA InOrderIs ==
    ASSUME NEW clips, NEW I, I \subseteq Nat, IsFiniteSet(I), \A c \in clips : c.id \in I
    PROVE  /\ Lists(InOrder(clips), clips)
           /\ \A n, m \in 1..Len(InOrder(clips)) : InOrder(clips)[n].id = InOrder(clips)[m].id => n = m
<1> DEFINE S == {c.id : c \in clips}
           ids == Sorted(S)
           s == InOrder(clips)
<1>1. S \subseteq I
  OBVIOUS
<1>2. S \subseteq Int /\ IsFiniteSet(S)
  <2> HIDE DEF S
  <2>1. S \subseteq Int
    BY <1>1
  <2>2. QED
    BY <1>1, <2>1, FS_Subset
<1>3. Lists(ids, S)
  BY <1>2, SortedIs
<1>4. DOMAIN ids = 1..Len(ids) /\ Len(ids) \in Nat
  BY <1>3, SeqIs DEF Lists
<1>5. s = [n \in DOMAIN ids |-> CHOOSE c \in clips : c.id = ids[n]]
  BY DEF InOrder
<1>6. \A n \in 1..Len(ids) : s[n] \in clips /\ s[n].id = ids[n]
  <2>1. SUFFICES ASSUME NEW n \in 1..Len(ids) PROVE s[n] \in clips /\ s[n].id = ids[n]
    OBVIOUS
  <2>2. \E c \in clips : c.id = ids[n]
    BY <1>3 DEF Lists
  <2>3. s[n] = CHOOSE c \in clips : c.id = ids[n]
    BY <1>4, <1>5
  <2>4. QED
    BY <2>2, <2>3
<1>7. DOMAIN s = 1..Len(ids) /\ s = [n \in DOMAIN s |-> s[n]]
  BY <1>4, <1>5
<1> HIDE DEF s, ids, S
<1>8. IsSeq(s) /\ Len(s) = Len(ids)
  BY <1>4, <1>7, ListIs
<1>9. \A n, m \in 1..Len(s) : s[n].id = s[m].id => n = m
  BY <1>3, <1>6, <1>8 DEF Lists
<1>10. Lists(s, clips)
  BY <1>6, <1>8, <1>9 DEF Lists
<1>11. QED
  BY <1>9, <1>10 DEF s

\* A sequence has finitely many members.
LEMMA MembersAreFinite ==
    ASSUME NEW s, IsSeq(s)
    PROVE  IsFiniteSet(ToSet(s))
<1> DEFINE g == [j \in 1..Len(s) |-> s[j]]
<1>1. Len(s) \in Nat /\ DOMAIN s = 1..Len(s)
  BY SeqIs
<1>2. ToSet(s) = {g[j] : j \in 1..Len(s)}
  BY <1>1 DEF ToSet
<1>3. DOMAIN g = 1..Len(s)
  OBVIOUS
<1>4. IsFiniteSet(1..Len(s))
  BY <1>1, FS_Interval
<1> HIDE DEF g
<1>5. QED
  BY <1>2, <1>3, <1>4, ImageIsFinite

\* The ids of a project are finitely many numbers, and a new one is none of them.
LEMMA IdsAre ==
    ASSUME NEW p, Wf(p)
    PROVE  /\ Ids(p) \subseteq Nat /\ IsFiniteSet(Ids(p))
           /\ NextId(p) \in Nat \ {0} /\ \A n \in Nat : NextId(p) + n \notin Ids(p)
           /\ NextTrack(p) \in Nat /\ NextTrack(p) \notin TrackIds(p)
<1>1. /\ Shape(p) /\ DOMAIN p = 1..Len(p) /\ Len(p) \in Nat
      /\ \A i \in 1..Len(p) : /\ IsTrack(p[i]) /\ Len(p[i].clips) \in Nat
                              /\ DOMAIN p[i].clips = 1..Len(p[i].clips)
  BY SeqIs DEF Wf, Shape, IsTrack, AreClips
<1>2. Ids(p) \subseteq Nat /\ TrackIds(p) \subseteq Nat
  <2>1. \A x \in Ids(p) : x \in Nat
    BY <1>1, ClipsAre DEF Sits, IsTrack, AreClips, IsClip
  <2>2. \A x \in TrackIds(p) : x \in Nat
    BY <1>1, ClipsAre DEF IsTrack
  <2>3. QED
    BY <2>1, <2>2
<1>3. IsFiniteSet(TrackIds(p))
  <2> DEFINE f == [i \in 1..Len(p) |-> p[i].id]
  <2>1. TrackIds(p) = {f[i] : i \in 1..Len(p)}
    BY <1>1 DEF TrackIds
  <2>2. DOMAIN f = 1..Len(p) /\ IsFiniteSet(1..Len(p))
    BY <1>1, FS_Interval
  <2> HIDE DEF f
  <2>3. QED
    BY <2>1, <2>2, ImageIsFinite
<1>4. IsFiniteSet(Ids(p))
  <2>1. \A i \in 1..Len(p) : IsFiniteSet(ToSet(p[i].clips))
    <3>1. \A s : IsSeq(s) => IsFiniteSet(ToSet(s))
      BY MembersAreFinite
    <3>2. QED
      BY <1>1, <3>1 DEF IsTrack, AreClips
  <2> DEFINE f == [i \in 1..Len(p) |-> ToSet(p[i].clips)]
             F == {f[i] : i \in 1..Len(p)}
  <2>2. IsFiniteSet(F)
    <3>1. DOMAIN f = 1..Len(p)
      OBVIOUS
    <3>2. IsFiniteSet(1..Len(p))
      <4>1. Len(p) \in Nat
        BY <1>1
      <4>2. QED
        BY <4>1, FS_Interval
    <3> HIDE DEF f
    <3>3. QED
      BY <3>1, <3>2, ImageIsFinite
  <2>3. \A T \in F : IsFiniteSet(T)
    BY <2>1
  <2>4. Clips(p) = UNION F
    BY <1>1 DEF Clips
  <2>5. IsFiniteSet(Clips(p))
    BY <2>2, <2>3, <2>4, FS_UNION
  <2> DEFINE h == [c \in Clips(p) |-> c.id]
  <2>6. Ids(p) = {h[c] : c \in Clips(p)}
    BY DEF Ids
  <2>7. DOMAIN h = Clips(p)
    OBVIOUS
  <2> HIDE DEF h
  <2>8. QED
    BY <2>5, <2>6, <2>7, ImageIsFinite
<1>5. ASSUME NEW S, S \subseteq Nat, IsFiniteSet(S)
      PROVE  Max(S \cup {0}) + 1 \in Nat \ {0} /\ \A n \in Nat : Max(S \cup {0}) + 1 + n \notin S
  <2> DEFINE a == Max(S \cup {0})
  <2>1. IsFiniteSet(S \cup {0}) /\ S \cup {0} \subseteq Int /\ S \cup {0} # {}
    BY <1>5, FS_AddElement
  <2>2. a \in S \cup {0} /\ \A y \in S \cup {0} : a >= y
    BY <2>1, MaxIsIn
  <2> HIDE DEF a
  <2>3. a \in Nat
    BY <1>5, <2>2
  <2>4. \A n \in Nat : a + 1 + n \notin S
    BY <2>2, <2>3
  <2>5. QED
    BY <2>3, <2>4 DEF a
<1>6. NextTrack(p) \in Nat /\ NextTrack(p) \notin TrackIds(p)
  <2>1. NextTrack(p) \in Nat \ {0} /\ \A n \in Nat : NextTrack(p) + n \notin TrackIds(p)
    BY <1>2, <1>3, <1>5 DEF NextTrack
  <2>2. NextTrack(p) + 0 = NextTrack(p)
    BY <2>1
  <2>3. QED
    BY <2>1, <2>2
<1>7. QED
  BY <1>2, <1>4, <1>5, <1>6 DEF NextId

-----------------------------------------------------------------------------
(* What edits are compiled to                                                *)

\* A change that brings nothing, and one that brings a clip with an id that is new
Plain(ch) ==
    \/ ch.change \in {"remove-clip", "remove-track", "header"}
    \/ ch.change = "replace-clip" /\ IsClip(ch.clip)
Adds(p, ch) ==
    ch.change = "insert-clip" /\ ch.index \in Nat /\ IsClip(ch.clip) /\ ch.clip.id \notin Ids(p)
AllPlain(chs) == IsSeq(chs) /\ \A n \in 1..Len(chs) : Plain(chs[n])
AllAdd(p, chs) ==
    /\ IsSeq(chs) /\ \A n \in 1..Len(chs) : Adds(p, chs[n])
    /\ \A n, m \in 1..Len(chs) : chs[n].clip.id = chs[m].clip.id => n = m

\* A list that adds each new id once is tidy.
LEMMA AddingIsTidy ==
    ASSUME NEW p, Wf(p), NEW chs, IsSeq(chs),
           \A n \in 1..Len(chs) : Plain(chs[n]) \/ Adds(p, chs[n]),
           \A n, m \in 1..Len(chs) :
              chs[n].change = "insert-clip" /\ chs[m].change = "insert-clip"
              /\ chs[n].clip.id = chs[m].clip.id => n = m
    PROVE  Tidy(p, chs)
<1>1. Len(chs) \in Nat
  BY SeqIs
<1>2. ASSUME NEW n \in 1..Len(chs), Adds(p, chs[n])
      PROVE  ~Brings(chs, n - 1, chs[n].clip.id)
  <2>1. \A m \in 1..n - 1 : m \in 1..Len(chs) /\ m # n
    BY <1>1
  <2>2. QED
    BY <1>2, <2>1 DEF Brings, Adds
<1>3. QED
  BY <1>2 DEF Tidy, Plain, Adds

\* A list that brings nothing is tidy.
LEMMA PlainIsTidy ==
    ASSUME NEW p, Wf(p), NEW chs, AllPlain(chs)
    PROVE  Tidy(p, chs)
BY AddingIsTidy DEF AllPlain, Plain

\* Two lists that bring nothing bring nothing together.
LEMMA PlainJoined ==
    ASSUME NEW a, AllPlain(a), NEW b, AllPlain(b)
    PROVE  AllPlain(a \o b)
<1> DEFINE c == a \o b
<1>1. Joined(a, b, c)
  BY JoinIs DEF AllPlain
<1>2. Len(a) \in Nat /\ Len(b) \in Nat
  BY SeqIs DEF AllPlain
<1> HIDE DEF c
<1>3. ASSUME NEW n \in 1..Len(c) PROVE Plain(c[n])
  <2>1. \/ n \in 1..Len(a) /\ c[n] = a[n]
        \/ n - Len(a) \in 1..Len(b) /\ c[n] = b[n - Len(a)]
    BY <1>1, <1>2, StandsInOne
  <2>2. QED
    BY <2>1 DEF AllPlain
<1>4. QED
  BY <1>1, <1>3 DEF AllPlain, Joined, c

\* A list that brings nothing and then one that adds new clips
LEMMA PlainThenAdds ==
    ASSUME NEW p, Wf(p), NEW a, AllPlain(a), NEW b, AllAdd(p, b)
    PROVE  Tidy(p, a \o b)
<1> DEFINE c == a \o b
<1>1. Joined(a, b, c)
  BY JoinIs DEF AllPlain, AllAdd
<1>2. Len(a) \in Nat /\ Len(b) \in Nat
  BY SeqIs DEF AllPlain, AllAdd
<1> HIDE DEF c
<1>3. \A n \in 1..Len(c) : \/ n <= Len(a) /\ Plain(c[n])
                           \/ n - Len(a) \in 1..Len(b) /\ c[n] = b[n - Len(a)]
  <2>1. SUFFICES ASSUME NEW n \in 1..Len(c)
                 PROVE  \/ n <= Len(a) /\ Plain(c[n])
                        \/ n - Len(a) \in 1..Len(b) /\ c[n] = b[n - Len(a)]
    OBVIOUS
  <2>2. \/ n \in 1..Len(a) /\ c[n] = a[n]
        \/ n - Len(a) \in 1..Len(b) /\ c[n] = b[n - Len(a)]
    BY <1>1, <1>2, StandsInOne
  <2>3. CASE n \in 1..Len(a) /\ c[n] = a[n]
    BY <1>2, <2>3 DEF AllPlain
  <2>4. QED
    BY <2>2, <2>3
<1>4. \A n \in 1..Len(c) : Plain(c[n]) \/ Adds(p, c[n])
  BY <1>3 DEF AllAdd
<1>5. ASSUME NEW n \in 1..Len(c), NEW m \in 1..Len(c),
             c[n].change = "insert-clip", c[m].change = "insert-clip", c[n].clip.id = c[m].clip.id
      PROVE  n = m
  <2>1. ~Plain(c[n]) /\ ~Plain(c[m])
    BY <1>5 DEF Plain
  <2>2. /\ n - Len(a) \in 1..Len(b) /\ c[n] = b[n - Len(a)]
        /\ m - Len(a) \in 1..Len(b) /\ c[m] = b[m - Len(a)]
    BY <1>3, <2>1
  <2>3. b[n - Len(a)].clip.id = b[m - Len(a)].clip.id
    BY <1>5, <2>2
  <2>4. n - Len(a) = m - Len(a)
    BY <2>2, <2>3 DEF AllAdd
  <2>5. QED
    BY <1>2, <2>4
<1>6. IsSeq(c)
  BY <1>1 DEF Joined
<1>7. Tidy(p, c)
  BY <1>4, <1>5, <1>6, AddingIsTidy
<1>8. QED
  BY <1>7 DEF c

\* The clips of a project
LEMMA ClipsHaveIds ==
    ASSUME NEW p, Wf(p)
    PROVE  /\ \A c \in Clips(p) : IsClip(c) /\ c.id \in Ids(p) /\ ClipOf(p, c.id) = c
           /\ \A i \in 1..Len(p) : ToSet(p[i].clips) \subseteq Clips(p)
           /\ DOMAIN p = 1..Len(p)
           /\ \A x \in Ids(p) : /\ ClipOf(p, x) \in Clips(p) /\ ClipOf(p, x).id = x
                                /\ Home(p, x) \in 1..Len(p)
<1>1. Shape(p) /\ DOMAIN p = 1..Len(p)
  BY SeqIs DEF Wf, Shape
<1>2. \A i \in 1..Len(p) : AreClips(p[i].clips) /\ DOMAIN p[i].clips = 1..Len(p[i].clips)
  BY <1>1, SeqIs DEF Shape, IsTrack, AreClips
<1>3. ASSUME NEW c \in Clips(p) PROVE IsClip(c) /\ c.id \in Ids(p) /\ ClipOf(p, c.id) = c
  <2>1. PICK i \in 1..Len(p) : \E j \in 1..Len(p[i].clips) : c = p[i].clips[j]
    BY <1>1, ClipsAre
  <2>2. PICK j \in 1..Len(p[i].clips) : c = p[i].clips[j]
    BY <2>1
  <2>3. Sits(p, c.id, i, j)
    BY <2>2 DEF Sits
  <2>4. QED
    BY <1>2, <2>2, <2>3, ClipIs DEF AreClips
<1>4. \A i \in 1..Len(p) : ToSet(p[i].clips) \subseteq Clips(p)
  BY <1>1 DEF Clips
<1>5. ASSUME NEW x \in Ids(p)
      PROVE  ClipOf(p, x) \in Clips(p) /\ ClipOf(p, x).id = x /\ Home(p, x) \in 1..Len(p)
  <2>1. PICK i, j : Sits(p, x, i, j)
    BY <1>1, ClipsAre
  <2>2. Home(p, x) = i /\ ClipOf(p, x) = p[i].clips[j]
    BY <2>1, ClipIs
  <2>3. i \in 1..Len(p) /\ j \in 1..Len(p[i].clips) /\ p[i].clips[j].id = x
    BY <2>1 DEF Sits
  <2>4. p[i].clips[j] \in Clips(p)
    BY <1>1, <2>3, ClipsAre
  <2>5. QED
    BY <2>2, <2>3, <2>4
<1>6. QED
  BY <1>1, <1>3, <1>4, <1>5

\* A clip of which something else was changed
LEMMA ChangedIs ==
    ASSUME NEW c, IsClip(c)
    PROVE  /\ \A v : IsClip([c EXCEPT !.start = v]) /\ [c EXCEPT !.start = v].id = c.id
           /\ \A v : IsClip([c EXCEPT !.from = v]) /\ [c EXCEPT !.from = v].id = c.id
           /\ \A v : IsClip([c EXCEPT !.to = v]) /\ [c EXCEPT !.to = v].id = c.id
           /\ \A v : IsClip([c EXCEPT !.rate = v]) /\ [c EXCEPT !.rate = v].id = c.id
           /\ \A v : IsClip([c EXCEPT !.link = v]) /\ [c EXCEPT !.link = v].id = c.id
           /\ \A v : IsClip([c EXCEPT !.detached = v]) /\ [c EXCEPT !.detached = v].id = c.id
           /\ \A v \in Nat : IsClip([c EXCEPT !.id = v]) /\ [c EXCEPT !.id = v].id = v
BY DEF IsClip

\* Replacing clips brings nothing.
LEMMA ReplacingIsPlain ==
    ASSUME NEW p, Wf(p), NEW clips, \A c \in clips : IsClip(c) /\ c.id \in Ids(p)
    PROVE  AllPlain(Replacing(clips))
<1> DEFINE s == InOrder(clips)
           r == Replacing(clips)
<1>1. Lists(s, clips)
  BY IdsAre, InOrderIs
<1>2. DOMAIN s = 1..Len(s) /\ Len(s) \in Nat /\ \A n \in 1..Len(s) : s[n] \in clips
  BY <1>1, SeqIs DEF Lists
<1>3. r = [i \in DOMAIN s |-> ReplaceClip(s[i])]
  BY DEF Replacing
<1> HIDE DEF s, r
<1>4. IsSeq(r) /\ Len(r) = Len(s)
  BY <1>2, <1>3, ListIs
<1>5. \A n \in 1..Len(r) : Plain(r[n])
  BY <1>2, <1>3, <1>4 DEF Plain, ReplaceClip
<1>6. QED
  BY <1>4, <1>5 DEF AllPlain, r

\* Removing clips brings nothing.
LEMMA RemovingIsPlain ==
    ASSUME NEW p, Wf(p), NEW ids, ids \subseteq Ids(p)
    PROVE  AllPlain(Removing(ids))
<1> DEFINE s == Sorted(ids)
           r == Removing(ids)
<1>1. ids \subseteq Int /\ IsFiniteSet(ids)
  BY IdsAre, FS_Subset
<1>2. Lists(s, ids)
  BY <1>1, SortedIs
<1>3. DOMAIN s = 1..Len(s) /\ Len(s) \in Nat
  BY <1>2, SeqIs DEF Lists
<1>4. r = [i \in DOMAIN s |-> RemoveClip(s[i])]
  BY DEF Removing
<1> HIDE DEF s, r
<1>5. IsSeq(r) /\ Len(r) = Len(s)
  BY <1>3, <1>4, ListIs
<1>6. \A n \in 1..Len(r) : Plain(r[n])
  BY <1>3, <1>4, <1>5 DEF Plain, RemoveClip
<1>7. QED
  BY <1>5, <1>6 DEF AllPlain, r

\* A list of one change, and of none
LEMMA OneIsPlain ==
    ASSUME NEW ch, Plain(ch)
    PROVE  AllPlain(<<ch>>)
<1>1. IsSeq(<<ch>>) /\ Len(<<ch>>) = 1 /\ <<ch>>[1] = ch
  BY OneIs
<1>2. QED
  BY <1>1 DEF AllPlain

\* The list of no change
LEMMA NoneIsPlain == AllPlain(<<>>)
BY NoneIs DEF AllPlain

\* A compiled edit is refused, or brings nothing twice.
Compiles(p, compiled) == compiled.ok => Tidy(p, compiled.changes)

\* An edit that compiles to a tidy list
LEMMA ListCompiles ==
    ASSUME NEW p, NEW chs, Tidy(p, chs)
    PROVE  Compiles(p, Changes(chs))
BY DEF Compiles, Changes

\* An edit that is refused under a condition
LEMMA UnlessCompiles ==
    ASSUME NEW p, NEW compiled, Compiles(p, compiled), NEW condition
    PROVE  Compiles(p, Unless(condition, compiled))
BY DEF Compiles, Unless, Refusal

\* The clips linked to clips there are, are there (edit.rs: with_links).
LEMMA LinkedAreIds ==
    ASSUME NEW p, Wf(p), NEW ids, ids \subseteq Ids(p)
    PROVE  WithLinks(p, ids) \subseteq Ids(p)
BY ClipsHaveIds DEF WithLinks

\* Edit::RemoveClips compiles to a tidy list.
LEMMA RemoveClipsCompiles ==
    ASSUME NEW p, Wf(p), NEW ids, ids \subseteq Ids(p)
    PROVE  Compiles(p, RemoveClips(p, ids))
BY LinkedAreIds, RemovingIsPlain, PlainIsTidy, ListCompiles DEF RemoveClips

\* Edit::RippleDelete does: clips removed, and later ones moved up.
LEMMA RippleDeleteCompiles ==
    ASSUME NEW p, Wf(p), NEW named, named \subseteq Ids(p)
    PROVE  Compiles(p, RippleDelete(p, named))
<1> DEFINE ids == WithLinks(p, named)
           Shift(i, c) == MapThenSumSet(LengthOf,
                             {d \in ToSet(p[i].clips) : d.id \in ids
                                                       /\ EndOf(d) <= c.start})
           shifted == UNION {{[c EXCEPT !.start = @ - Shift(i, c)] :
                                c \in {c \in ToSet(p[i].clips) :
                                         c.id \notin ids /\ Shift(i, c) > 0}} :
                             i \in DOMAIN p}
<1>1. RippleDelete(p, named) = Changes(Removing(ids) \o Replacing(shifted))
  BY DEF RippleDelete
<1> HIDE DEF Shift, ids
<1>2. ASSUME NEW d \in shifted PROVE IsClip(d) /\ d.id \in Ids(p)
  <2>1. PICK i \in DOMAIN p : \E c \in ToSet(p[i].clips) : d = [c EXCEPT !.start = @ - Shift(i, c)]
    BY <1>2
  <2>2. PICK c \in ToSet(p[i].clips) : d = [c EXCEPT !.start = @ - Shift(i, c)]
    BY <2>1
  <2>3. IsClip(c) /\ c.id \in Ids(p)
    BY ClipsHaveIds
  <2>4. QED
    BY <2>2, <2>3, ChangedIs
<1> HIDE DEF shifted
<1>3. AllPlain(Removing(ids)) /\ AllPlain(Replacing(shifted))
  BY <1>2, LinkedAreIds, RemovingIsPlain, ReplacingIsPlain DEF ids
<1>4. QED
  BY <1>1, <1>3, PlainJoined, PlainIsTidy, ListCompiles

\* Shifting what comes later on a track brings nothing.
LEMMA ShiftIsPlain ==
    ASSUME NEW p, Wf(p), NEW track \in 1..Len(p), NEW id, NEW frame, NEW shift
    PROVE  AllPlain(ShiftAfter(p, track, id, frame, shift))
<1> DEFINE shifted == {[c EXCEPT !.start = @ + shift] :
                          c \in {c \in ToSet(p[track].clips) : c.id # id /\ c.start >= frame}}
<1>1. ASSUME NEW d \in shifted PROVE IsClip(d) /\ d.id \in Ids(p)
  <2>1. PICK c \in ToSet(p[track].clips) : d = [c EXCEPT !.start = @ + shift]
    BY <1>1
  <2>2. IsClip(c) /\ c.id \in Ids(p)
    BY ClipsHaveIds
  <2>3. QED
    BY <2>1, <2>2, ChangedIs
<1>2. ShiftAfter(p, track, id, frame, shift) = IF shift = 0 THEN <<>> ELSE Replacing(shifted)
  BY DEF ShiftAfter
<1> HIDE DEF shifted
<1>3. QED
  BY <1>1, <1>2, NoneIsPlain, ReplacingIsPlain

\* A clip trimmed is a clip.
LEMMA TrimmedIs ==
    ASSUME NEW c, IsClip(c), NEW frames, NEW extent, NEW room
    PROVE  IsClip(TrimStart(c, frames, extent, room)) /\ IsClip(TrimEnd(c, frames, extent, room))
<1>1. IsClip(TrimEnd(c, frames, extent, room))
  BY ChangedIs DEF TrimEnd
<1> DEFINE trimmed == [c EXCEPT !.from = InPoint(c, frames, extent, room).tick]
<1>2. IsClip(trimmed)
  BY ChangedIs
<1>3. TrimStart(c, frames, extent, room) = [trimmed EXCEPT !.start = EndOf(c) - LengthOf(trimmed)]
  BY DEF TrimStart
<1> HIDE DEF trimmed
<1>4. QED
  BY <1>1, <1>2, <1>3, ChangedIs

\* A clip replaced brings nothing.
LEMMA ReplaceIsPlain ==
    ASSUME NEW c, IsClip(c)
    PROVE  Plain(ReplaceClip(c))
BY DEF Plain, ReplaceClip

\* Edit::TrimStart and Edit::TrimEnd compile to tidy lists.
LEMMA TrimEdgeCompiles ==
    ASSUME NEW p, Wf(p), NEW id \in Ids(p), NEW edge, NEW frames, NEW ripple
    PROVE  Compiles(p, TrimEdge(p, id, edge, frames, ripple))
<1> DEFINE c == ClipOf(p, id)
           trimmed == IF edge = "start"
                      THEN TrimStart(c, frames, Extent, Room(p, c, ripple))
                      ELSE TrimEnd(c, frames, Extent, Room(p, c, ripple))
           placed == IF ripple THEN [trimmed EXCEPT !.start = c.start] ELSE trimmed
           shift == IF ripple THEN LengthOf(trimmed) - LengthOf(c) ELSE 0
           later == ShiftAfter(p, Home(p, id), id, EndOf(c), shift)
<1>1. TrimEdge(p, id, edge, frames, ripple) =
         Changes(IF placed = c THEN <<>> ELSE <<ReplaceClip(placed)>> \o later)
  BY DEF TrimEdge
<1>2. IsClip(c) /\ Home(p, id) \in 1..Len(p)
  BY ClipsHaveIds
<1> HIDE DEF c
<1>3. IsClip(trimmed)
  BY <1>2, TrimmedIs
<1> HIDE DEF trimmed
<1>4. IsClip(placed)
  BY <1>3, ChangedIs
<1> HIDE DEF placed, shift
<1>5. AllPlain(<<ReplaceClip(placed)>>) /\ AllPlain(later)
  BY <1>2, <1>4, ReplaceIsPlain, OneIsPlain, ShiftIsPlain
<1> HIDE DEF later
<1>6. AllPlain(<<ReplaceClip(placed)>> \o later)
  BY <1>5, PlainJoined
<1>7. QED
  BY <1>1, <1>6, NoneIsPlain, PlainIsTidy, ListCompiles

\* A list of two changes that bring nothing
LEMMA PairIsPlain ==
    ASSUME NEW a, Plain(a), NEW b, Plain(b)
    PROVE  AllPlain(<<a, b>>)
<1>1. DOMAIN <<a, b>> = 1..2 /\ <<a, b>> = [i \in DOMAIN <<a, b>> |-> <<a, b>>[i]]
  OBVIOUS
<1>2. IsSeq(<<a, b>>) /\ Len(<<a, b>>) = 2
  BY <1>1, ListIs
<1>3. \A n \in 1..2 : <<a, b>>[n] = a \/ <<a, b>>[n] = b
  OBVIOUS
<1>4. QED
  BY <1>2, <1>3 DEF AllPlain

\* Edit::Roll compiles to a tidy list.
LEMMA RollCompiles ==
    ASSUME NEW p, Wf(p), NEW left \in Ids(p), NEW right \in Ids(p), NEW frames
    PROVE  Compiles(p, Roll(p, left, right, frames))
<1> DEFINE a == ClipOf(p, left)
           b == ClipOf(p, right)
           lowest == Max({1 - LengthOf(a), StartReach(b, Extent)})
           highest == Min({EndReach(a, Extent), LengthOf(b) - 1})
           delta == Min({Max({frames, Min({lowest, 0})}), Max({highest, 0})})
           rolled == TrimEnd(a, delta, Extent, AnyRoom)
           taken == TrimStart(b, delta, Extent, AnyRoom)
           chs == IF delta = 0 THEN <<>> ELSE <<ReplaceClip(rolled), ReplaceClip(taken)>>
<1>1. Roll(p, left, right, frames) =
         Unless(\/ Home(p, left) # Home(p, right) \/ EndOf(a) # b.start
                \/ EndOf(rolled) # taken.start, Changes(chs))
  BY DEF Roll
<1>2. IsClip(a) /\ IsClip(b)
  BY ClipsHaveIds
<1> HIDE DEF a, b, delta
<1>3. IsClip(rolled) /\ IsClip(taken)
  BY <1>2, TrimmedIs
<1> HIDE DEF rolled, taken
<1>4. AllPlain(chs)
  BY <1>3, NoneIsPlain, PairIsPlain, ReplaceIsPlain
<1> HIDE DEF chs
<1>5. QED
  BY <1>1, <1>4, PlainIsTidy, ListCompiles, UnlessCompiles

\* Edit::Join does.
LEMMA JoinCompiles ==
    ASSUME NEW p, Wf(p), NEW left \in Ids(p), NEW right \in Ids(p)
    PROVE  Compiles(p, Join(p, left, right))
<1> DEFINE a == ClipOf(p, left)
           b == ClipOf(p, right)
           chs == <<RemoveClip(right), ReplaceClip([a EXCEPT !.to = b.to])>>
<1>1. Join(p, left, right) =
         Unless(\/ Home(p, left) # Home(p, right) \/ EndOf(a) # b.start
                \/ a.rate # b.rate \/ a.to # b.from, Changes(chs))
  BY DEF Join
<1>2. IsClip(a)
  BY ClipsHaveIds
<1>3. Plain(ReplaceClip([a EXCEPT !.to = b.to])) /\ Plain(RemoveClip(right))
  BY <1>2, ChangedIs, ReplaceIsPlain DEF Plain, RemoveClip
<1>4. AllPlain(chs)
  BY <1>3, PairIsPlain
<1> HIDE DEF chs, a, b
<1>5. QED
  BY <1>1, <1>4, PlainIsTidy, ListCompiles, UnlessCompiles

\* Edit::Unlink does.
LEMMA UnlinkCompiles ==
    ASSUME NEW p, Wf(p), NEW ids
    PROVE  Compiles(p, Unlink(p, ids))
<1> DEFINE clips == {[c EXCEPT !.link = NoLink] :
                        c \in {c \in Clips(p) : c.id \in WithLinks(p, ids) /\ c.link # NoLink}}
<1>1. Unlink(p, ids) = Changes(Replacing(clips))
  BY DEF Unlink
<1>2. ASSUME NEW d \in clips PROVE IsClip(d) /\ d.id \in Ids(p)
  <2>1. PICK c \in Clips(p) : d = [c EXCEPT !.link = NoLink]
    BY <1>2
  <2>2. IsClip(c) /\ c.id \in Ids(p)
    BY ClipsHaveIds
  <2>3. QED
    BY <2>1, <2>2, ChangedIs
<1> HIDE DEF clips
<1>3. QED
  BY <1>1, <1>2, ReplacingIsPlain, PlainIsTidy, ListCompiles

\* Edit::SetSpeed does.
LEMMA SetSpeedCompiles ==
    ASSUME NEW p, Wf(p), NEW ids, NEW rate
    PROVE  Compiles(p, SetSpeed(p, ids, rate))
<1> DEFINE clips == {[c EXCEPT !.rate = rate] :
                        c \in {c \in Clips(p) : c.id \in ids /\ c.rate # rate}}
<1>1. SetSpeed(p, ids, rate) = Changes(Replacing(clips))
  BY DEF SetSpeed
<1>2. ASSUME NEW d \in clips PROVE IsClip(d) /\ d.id \in Ids(p)
  <2>1. PICK c \in Clips(p) : d = [c EXCEPT !.rate = rate]
    BY <1>2
  <2>2. IsClip(c) /\ c.id \in Ids(p)
    BY ClipsHaveIds
  <2>3. QED
    BY <2>1, <2>2, ChangedIs
<1> HIDE DEF clips
<1>3. QED
  BY <1>1, <1>2, ReplacingIsPlain, PlainIsTidy, ListCompiles

\* Edit::SetTrack and Edit::RemoveTrack do.
LEMMA TrackEditsCompile ==
    ASSUME NEW p, Wf(p), NEW track, NEW locked
    PROVE  Compiles(p, SetTrack(p, track, locked)) /\ Compiles(p, DropTrack(p, track))
<1>1. Plain(Header(track, locked)) /\ Plain(RemoveTrack(track))
  BY DEF Plain, Header, RemoveTrack
<1>2. AllPlain(<<Header(track, locked)>>) /\ AllPlain(<<RemoveTrack(track)>>)
  BY <1>1, OneIsPlain
<1>3. QED
  BY <1>2, NoneIsPlain, PlainIsTidy, ListCompiles DEF SetTrack, DropTrack

\* Edit::AddClip does: its id is new.
LEMMA AddClipCompiles ==
    ASSUME NEW p, Wf(p), NEW track, NEW from, NEW to, NEW start
    PROVE  Compiles(p, AddClip(p, track, from, to, start))
<1> DEFINE c == [id |-> NextId(p), from |-> from, to |-> to, start |-> start,
                 rate |-> NormalRate, link |-> NoLink, detached |-> FALSE]
           ch == InsertClip(track, 0, c)
<1>1. IsClip(c) /\ c.id \notin Ids(p)
  <2>1. NextId(p) \in Nat /\ NextId(p) + 0 \notin Ids(p)
    BY IdsAre
  <2>2. NextId(p) + 0 = NextId(p)
    BY <2>1
  <2>3. QED
    BY <2>1, <2>2 DEF IsClip
<1>2. AddClip(p, track, from, to, start) = Changes(<<ch>>)
  BY DEF AddClip
<1> HIDE DEF c
<1>3. Adds(p, ch)
  BY <1>1 DEF Adds, InsertClip
<1> HIDE DEF ch
<1>4. IsSeq(<<ch>>) /\ Len(<<ch>>) = 1 /\ <<ch>>[1] = ch
  BY OneIs
<1>5. Tidy(p, <<ch>>)
  BY <1>3, <1>4, AddingIsTidy
<1>6. QED
  BY <1>2, <1>5, ListCompiles

\* Edit::AddTrack does: its id is new.
LEMMA AddTrackCompiles ==
    ASSUME NEW p, Wf(p), NEW kind
    PROVE  Compiles(p, AddTrack(p, kind))
<1> DEFINE same == {i \in DOMAIN p : p[i].kind = kind}
           first == IF kind = "video" THEN 1 ELSE Len(p) + 1
           n == IF same = {} THEN first ELSE Max(same) + 1
           t == [id |-> NextTrack(p), kind |-> kind, locked |-> FALSE, clips |-> <<>>]
           ch == InsertTrack(n, t)
<1>1. DOMAIN p = 1..Len(p) /\ Len(p) \in Nat
  BY SeqIs DEF Wf, Shape
<1>2. n \in Nat \ {0}
  <2>1. CASE same = {}
    BY <1>1, <2>1
  <2>2. CASE same # {}
    <3>1. same \subseteq 1..Len(p)
      BY <1>1
    <3>2. IsFiniteSet(1..Len(p))
      BY <1>1, FS_Interval
    <3> HIDE DEF same
    <3>3. IsFiniteSet(same)
      BY <3>1, <3>2, FS_Subset
    <3>4. same \subseteq Int
      BY <1>1, <3>1
    <3>5. Max(same) \in same
      BY <2>2, <3>3, <3>4, MaxIsIn
    <3>6. Max(same) \in 1..Len(p)
      BY <3>1, <3>5
    <3>7. QED
      BY <1>1, <2>2, <3>6
  <2>3. QED
    BY <2>1, <2>2
<1>3. AddTrack(p, kind) = Changes(<<ch>>)
  BY DEF AddTrack
<1> HIDE DEF n
<1>4. IsTrack(t) /\ t.clips = <<>> /\ t.id \notin TrackIds(p)
  <2>1. AreClips(<<>>)
    BY NoneIs DEF AreClips
  <2>2. NextTrack(p) \in Nat /\ NextTrack(p) \notin TrackIds(p)
    BY IdsAre
  <2>3. QED
    BY <2>1, <2>2 DEF IsTrack, TrackOf
<1> HIDE DEF t
<1>5. /\ ch.change = "insert-track" /\ ch.index = n /\ ch.put = t
  BY DEF InsertTrack
<1> HIDE DEF ch
<1>6. IsSeq(<<ch>>) /\ Len(<<ch>>) = 1 /\ <<ch>>[1] = ch
  BY OneIs
<1>7. Tidy(p, <<ch>>)
  <2> DEFINE s == <<ch>>
  <2>1. /\ IsSeq(s) /\ Len(s) = 1 /\ s[1] = ch
    BY <1>6
  <2> HIDE DEF s
  <2>2. \A k \in 1..Len(s) : s[k] = ch /\ k = 1
    BY <2>1
  <2>3. Tidy(p, s)
    BY <1>2, <1>4, <1>5, <2>1, <2>2 DEF Tidy
  <2>4. QED
    BY <2>3 DEF s
<1>8. QED
  BY <1>3, <1>7, ListCompiles

\* Edit::Split does: the clips it adds have an id each, all of them new.
LEMMA SplitCompiles ==
    ASSUME NEW p, Wf(p), NEW ids, NEW at
    PROVE  Compiles(p, Split(p, ids, at))
<1> DEFINE across == {c \in Clips(p) : c.id \in ids /\ Splits(c, at)}
           homes == {Home(p, c.id) : c \in across}
           tracks == Sorted(homes)
           cut == [n \in DOMAIN tracks |-> CHOOSE c \in across : Home(p, c.id) = tracks[n]]
           right(n) == [RightHalf(cut[n], at) EXCEPT !.id = NextId(p) + n - 1]
           Pair(n) == <<ReplaceClip(LeftHalf(cut[n], at)),
                        InsertClip(p[tracks[n]].id, 0, right(n))>>
           chs == [i \in 1..2 * Len(cut) |-> Pair((i + 1) \div 2)[2 - (i % 2)]]
<1>1. Split(p, ids, at) = Unless(cut = <<>>, Changes(chs))
  BY DEF Split
<1>2. Lists(tracks, homes)
  <2>1. homes \subseteq 1..Len(p)
    BY ClipsHaveIds
  <2>2. Len(p) \in Nat
    BY SeqIs DEF Wf, Shape
  <2>3. IsFiniteSet(1..Len(p))
    BY <2>2, FS_Interval
  <2> HIDE DEF homes
  <2>4. IsFiniteSet(homes)
    BY <2>1, <2>3, FS_Subset
  <2>5. homes \subseteq Int
    BY <2>1, <2>2
  <2>6. QED
    BY <2>4, <2>5, SortedIs
<1>3. DOMAIN tracks = 1..Len(tracks) /\ Len(tracks) \in Nat
  BY <1>2, SeqIs DEF Lists
<1>4. \A n \in 1..Len(tracks) : cut[n] \in across
  <2>1. SUFFICES ASSUME NEW n \in 1..Len(tracks) PROVE cut[n] \in across
    OBVIOUS
  <2>2. \E c \in across : Home(p, c.id) = tracks[n]
    BY <1>2 DEF Lists
  <2>3. cut[n] = CHOOSE c \in across : Home(p, c.id) = tracks[n]
    BY <1>3
  <2>4. QED
    BY <2>2, <2>3
<1> HIDE DEF tracks, homes
<1>5. DOMAIN cut = 1..Len(tracks) /\ cut = [n \in DOMAIN cut |-> cut[n]]
  <2>1. DOMAIN cut = DOMAIN tracks
    OBVIOUS
  <2>2. cut = [n \in DOMAIN cut |-> cut[n]]
    OBVIOUS
  <2>3. QED
    BY <1>3, <2>1, <2>2
<1> HIDE DEF cut
<1>6. Len(cut) = Len(tracks)
  BY <1>3, <1>5, ListIs
<1>7. \A n \in 1..Len(cut) : IsClip(cut[n])
  BY <1>4, <1>6, ClipsHaveIds
<1>8. ASSUME NEW n \in 1..Len(cut)
      PROVE  Plain(Pair(n)[1]) /\ Adds(p, Pair(n)[2]) /\ Pair(n)[2].clip.id = NextId(p) + n - 1
  <2>1. IsClip(LeftHalf(cut[n], at))
    BY <1>7, ChangedIs DEF LeftHalf
  <2>2. IsClip(RightHalf(cut[n], at))
    BY <1>7 DEF RightHalf, IsClip
  <2>3. /\ NextId(p) \in Nat /\ n - 1 \in Nat /\ n \in Nat
    BY IdsAre
  <2>4. NextId(p) + (n - 1) \notin Ids(p)
    BY <2>3, IdsAre
  <2>5. NextId(p) + (n - 1) = NextId(p) + n - 1 /\ NextId(p) + n - 1 \in Nat
    BY <2>3
  <2>6. IsClip(right(n)) /\ right(n).id = NextId(p) + n - 1
    BY <2>2, <2>5, ChangedIs
  <2> HIDE DEF right
  <2>7. Pair(n)[1] = ReplaceClip(LeftHalf(cut[n], at))
    OBVIOUS
  <2>8. Pair(n)[2] = InsertClip(p[tracks[n]].id, 0, right(n))
    OBVIOUS
  <2> HIDE DEF Pair
  <2>9. Plain(Pair(n)[1])
    BY <2>1, <2>7, ReplaceIsPlain
  <2>10. Pair(n)[2].clip = right(n) /\ Pair(n)[2].change = "insert-clip" /\ Pair(n)[2].index = 0
    BY <2>8 DEF InsertClip
  <2>11. QED
    BY <2>4, <2>5, <2>6, <2>9, <2>10 DEF Adds
<1> HIDE DEF Pair
<1>9. DOMAIN chs = 1..2 * Len(cut) /\ chs = [i \in DOMAIN chs |-> chs[i]] /\ 2 * Len(cut) \in Nat
  BY <1>3, <1>6
<1>10. \A i \in 1..2 * Len(cut) :
          \/ Plain(chs[i])
          \/ /\ (i + 1) \div 2 \in 1..Len(cut) /\ i = 2 * ((i + 1) \div 2)
             /\ Adds(p, chs[i]) /\ chs[i].clip.id = NextId(p) + (i + 1) \div 2 - 1
  <2>1. SUFFICES ASSUME NEW i \in 1..2 * Len(cut)
                 PROVE  \/ Plain(chs[i])
                        \/ /\ (i + 1) \div 2 \in 1..Len(cut) /\ i = 2 * ((i + 1) \div 2)
                           /\ Adds(p, chs[i]) /\ chs[i].clip.id = NextId(p) + (i + 1) \div 2 - 1
    OBVIOUS
  <2> DEFINE n == (i + 1) \div 2
  <2>2. n \in 1..Len(cut) /\ (i % 2 = 1 \/ (i % 2 = 0 /\ i = 2 * n))
    BY <1>3, <1>6
  <2>3. chs[i] = Pair(n)[2 - (i % 2)]
    OBVIOUS
  <2> HIDE DEF n, chs
  <2>4. CASE i % 2 = 1
    <3>1. 2 - (i % 2) = 1
      BY <2>4
    <3>2. QED
      BY <1>8, <2>2, <2>3, <3>1
  <2>5. CASE i % 2 = 0
    <3>1. 2 - (i % 2) = 2 /\ i = 2 * n
      BY <2>2, <2>5
    <3>2. Adds(p, chs[i]) /\ chs[i].clip.id = NextId(p) + n - 1
      BY <1>8, <2>2, <2>3, <3>1
    <3>3. QED
      BY <2>2, <3>1, <3>2 DEF n
  <2>6. QED
    BY <2>2, <2>4, <2>5
<1> HIDE DEF chs
<1>11. IsSeq(chs) /\ Len(chs) = 2 * Len(cut)
  BY <1>9, ListIs
<1>12. ASSUME NEW n \in 1..Len(chs), NEW m \in 1..Len(chs),
              chs[n].change = "insert-clip", chs[m].change = "insert-clip", chs[n].clip.id = chs[m].clip.id
       PROVE  n = m
  <2>1. ~Plain(chs[n]) /\ ~Plain(chs[m])
    BY <1>12 DEF Plain
  <2>2. /\ (n + 1) \div 2 \in 1..Len(cut) /\ n = 2 * ((n + 1) \div 2)
        /\ (m + 1) \div 2 \in 1..Len(cut) /\ m = 2 * ((m + 1) \div 2)
        /\ NextId(p) + (n + 1) \div 2 - 1 = NextId(p) + (m + 1) \div 2 - 1
    BY <1>10, <1>11, <1>12, <2>1
  <2>3. (n + 1) \div 2 = (m + 1) \div 2
    BY <2>2, IdsAre
  <2>4. QED
    BY <2>2, <2>3
<1>13. Tidy(p, chs)
  BY <1>10, <1>11, <1>12, AddingIsTidy
<1>14. QED
  BY <1>1, <1>13, ListCompiles, UnlessCompiles

\* Edit::Duplicate does: so have its copies.
LEMMA DuplicateCompiles ==
    ASSUME NEW p, Wf(p), NEW id \in Ids(p)
    PROVE  Compiles(p, Duplicate(p, {id}))
<1> DEFINE ids == {id}
           those == {c \in Clips(p) : c.id \in ids}
           Rank(c) == Cardinality({d \in those \ {c} :
                          \/ Home(p, d.id) < Home(p, c.id)
                          \/ Home(p, d.id) = Home(p, c.id) /\ d.start < c.start})
           named == [n \in 1..Cardinality(those) |-> CHOOSE c \in those : Rank(c) = n - 1]
           Shift(i, c) == MapThenSumSet(LengthOf,
                             {d \in ToSet(p[i].clips) : d.id \in ids /\ d.start < c.start})
           shifted == UNION {{[c EXCEPT !.start = @ + Shift(i, c)] :
                                c \in {c \in ToSet(p[i].clips) : Shift(i, c) # 0}} :
                             i \in DOMAIN p}
           copy(n) == [named[n] EXCEPT !.id = NextId(p) + n - 1,
                                       !.start = EndOf(named[n]) + Shift(Home(p, named[n].id), named[n])]
           Copy(n) == InsertClip(p[Home(p, named[n].id)].id, 0, copy(n))
           copies == [n \in DOMAIN named |-> Copy(n)]
<1>1. Duplicate(p, {id}) = Changes(Replacing(shifted) \o copies)
  BY DEF Duplicate
<1> DEFINE c == ClipOf(p, id)
<1>2. those = {c} /\ IsClip(c)
  <2>1. c \in Clips(p) /\ c.id = id
    BY ClipsHaveIds
  <2>2. \A d \in Clips(p) : d.id = id => d = c
    BY ClipsHaveIds
  <2>3. QED
    BY <2>1, <2>2, ClipsHaveIds
<1> HIDE DEF c, those
<1>3. Cardinality(those) = 1
  BY <1>2, FS_Singleton
<1>4. Rank(c) = 0
  <2>1. those \ {c} = {}
    BY <1>2
  <2> DEFINE none == {d \in those \ {c} :
                          \/ Home(p, d.id) < Home(p, c.id)
                          \/ Home(p, d.id) = Home(p, c.id) /\ d.start < c.start}
  <2>2. none = {}
    BY <2>1
  <2>3. Cardinality(none) = 0
    BY <2>2, FS_EmptySet
  <2>4. QED
    BY <2>3
<1> HIDE DEF Rank
<1>5. DOMAIN named = 1..1 /\ named[1] = c
  <2>1. DOMAIN named = 1..1
    BY <1>3
  <2>2. named[1] = CHOOSE d \in those : Rank(d) = 1 - 1
    BY <1>3
  <2>3. 1 - 1 = 0
    OBVIOUS
  <2> HIDE DEF named
  <2>4. (CHOOSE d \in those : Rank(d) = 1 - 1) \in those
    BY <1>2, <1>4, <2>3
  <2>5. QED
    BY <1>2, <2>1, <2>2, <2>4
<1> HIDE DEF named, Shift
<1>6. ASSUME NEW d \in shifted PROVE IsClip(d) /\ d.id \in Ids(p)
  <2>1. PICK i \in DOMAIN p : \E e \in ToSet(p[i].clips) : d = [e EXCEPT !.start = @ + Shift(i, e)]
    BY <1>6
  <2>2. PICK e \in ToSet(p[i].clips) : d = [e EXCEPT !.start = @ + Shift(i, e)]
    BY <2>1
  <2>3. IsClip(e) /\ e.id \in Ids(p)
    BY ClipsHaveIds
  <2>4. QED
    BY <2>2, <2>3, ChangedIs
<1> HIDE DEF shifted
<1>7. NextId(p) + 1 - 1 \in Nat /\ NextId(p) + 1 - 1 \notin Ids(p)
  <2>1. NextId(p) \in Nat /\ NextId(p) + 0 \notin Ids(p)
    BY IdsAre
  <2>2. NextId(p) + 1 - 1 = NextId(p) + 0 /\ NextId(p) + 0 \in Nat
    BY <2>1
  <2>3. QED
    BY <2>1, <2>2
<1>8. IsClip(copy(1)) /\ copy(1).id \notin Ids(p)
  BY <1>2, <1>5, <1>7 DEF IsClip
<1> HIDE DEF copy
<1>9. DOMAIN copies = 1..1 /\ copies = [n \in DOMAIN copies |-> copies[n]] /\ copies[1] = Copy(1)
  BY <1>5
<1>10. Adds(p, Copy(1))
  BY <1>8 DEF Adds, InsertClip
<1> HIDE DEF copies, Copy
<1>11. IsSeq(copies) /\ Len(copies) = 1
  BY <1>9, ListIs
<1>12. AllAdd(p, copies)
  BY <1>9, <1>10, <1>11 DEF AllAdd
<1>13. AllPlain(Replacing(shifted))
  BY <1>6, ReplacingIsPlain
<1>14. QED
  BY <1>1, <1>12, <1>13, PlainThenAdds, ListCompiles

\* Edit::Paste does: so have the clips pasted.
LEMMA PasteCompiles ==
    ASSUME NEW p, Wf(p), NEW named, named \subseteq Ids(p), NEW at
    PROVE  Compiles(p, Paste(p, named, at))
<1> DEFINE ids == WithLinks(p, named)
           clips == {c \in Clips(p) : c.id \in ids}
           originals == InOrder(clips)
           origin == Min({c.start : c \in ToSet(originals)})
           span == Max({EndOf(c) : c \in ToSet(originals)}) - origin
           targets == {Home(p, id) : id \in ids}
           open == {i \in DOMAIN p : ~p[i].locked \/ i \in targets}
           later == UNION {{c \in ToSet(p[i].clips) : c.start >= at} : i \in open}
           Number(n) == NextId(p) + n - 1
           Group(link) ==
               LET n == Max({0} \cup {n \in DOMAIN originals : originals[n].id = link})
               IN Number(IF n # 0 THEN n
                         ELSE Min({m \in DOMAIN originals : originals[m].link = link}))
           copy(n) == [originals[n] EXCEPT !.id = Number(n), !.start = at + originals[n].start - origin,
                                           !.link = IF originals[n].link = NoLink THEN NoLink
                                                    ELSE Group(originals[n].link)]
           Copy(n) == InsertClip(p[Home(p, originals[n].id)].id, 0, copy(n))
           copies == [n \in DOMAIN originals |-> Copy(n)]
           moved == {[c EXCEPT !.start = @ + span] : c \in later}
<1>1. Paste(p, named, at) =
         Unless(\E i \in targets : \E c \in ToSet(p[i].clips) : c.start < at /\ at < EndOf(c),
                Changes(Replacing(moved) \o copies))
  BY DEF Paste
<1>2. \A c \in clips : c.id \in Ids(p) /\ IsClip(c)
  BY ClipsHaveIds
<1>3. Lists(originals, clips)
  <2> HIDE DEF clips
  <2>1. QED
    BY <1>2, IdsAre, InOrderIs
<1> HIDE DEF clips, originals, origin, span, targets, Group
<1>4. ASSUME NEW d \in moved PROVE IsClip(d) /\ d.id \in Ids(p)
  <2>1. PICK c \in later : d = [c EXCEPT !.start = @ + span]
    BY <1>4
  <2>2. PICK i \in open : c \in ToSet(p[i].clips)
    BY <2>1
  <2>3. IsClip(c) /\ c.id \in Ids(p)
    BY <2>2, ClipsHaveIds
  <2>4. QED
    BY <2>1, <2>3, ChangedIs
<1> HIDE DEF moved
<1>5. AllPlain(Replacing(moved))
  BY <1>4, ReplacingIsPlain
<1>6. DOMAIN originals = 1..Len(originals) /\ Len(originals) \in Nat
  BY <1>3, SeqIs DEF Lists
<1>7. ASSUME NEW n \in 1..Len(originals)
      PROVE  Adds(p, Copy(n)) /\ Copy(n).clip.id = NextId(p) + n - 1
  <2>1. IsClip(originals[n])
    BY <1>2, <1>3 DEF Lists
  <2>2. NextId(p) \in Nat /\ n - 1 \in Nat /\ n \in Nat
    BY IdsAre
  <2>3. NextId(p) + (n - 1) \notin Ids(p)
    BY <2>2, IdsAre
  <2>4. NextId(p) + (n - 1) = NextId(p) + n - 1 /\ NextId(p) + n - 1 \in Nat
    BY <2>2
  <2>5. IsClip(copy(n)) /\ copy(n).id = NextId(p) + n - 1
    BY <2>1, <2>4 DEF IsClip
  <2> HIDE DEF copy
  <2>6. QED
    BY <2>3, <2>4, <2>5 DEF Adds, InsertClip
<1>8. DOMAIN copies = 1..Len(originals) /\ copies = [n \in DOMAIN copies |-> copies[n]]
  <2>1. DOMAIN copies = DOMAIN originals
    OBVIOUS
  <2>2. copies = [n \in DOMAIN copies |-> copies[n]]
    OBVIOUS
  <2>3. QED
    BY <1>6, <2>1, <2>2
<1>9. \A n \in 1..Len(originals) : copies[n] = Copy(n)
  BY <1>6
<1> HIDE DEF copies, Copy
<1>10. IsSeq(copies) /\ Len(copies) = Len(originals)
  BY <1>6, <1>8, ListIs
<1>11. ASSUME NEW n \in 1..Len(copies), NEW m \in 1..Len(copies), copies[n].clip.id = copies[m].clip.id
       PROVE  n = m
  <2>1. NextId(p) + n - 1 = NextId(p) + m - 1
    BY <1>7, <1>9, <1>10, <1>11
  <2>2. QED
    BY <1>6, <1>10, <2>1, IdsAre
<1>12. AllAdd(p, copies)
  BY <1>7, <1>9, <1>10, <1>11 DEF AllAdd
<1>13. QED
  BY <1>1, <1>5, <1>12, PlainThenAdds, ListCompiles, UnlessCompiles

\* A track and then a clip
LEMMA TrackIsTidy ==
    ASSUME NEW p, Wf(p), NEW t, t.change = "insert-track", t.index \in Nat \ {0}, IsTrack(t.put),
           t.put.clips = <<>>, t.put.id \notin TrackIds(p),
           NEW a, Plain(a), NEW b, Adds(p, b)
    PROVE  Tidy(p, <<t>> \o <<a>> \o <<b>>)
<1> DEFINE u == <<t>> \o <<a>>
           s == u \o <<b>>
<1>1. /\ IsSeq(<<t>>) /\ Len(<<t>>) = 1 /\ <<t>>[1] = t /\ IsSeq(<<a>>) /\ Len(<<a>>) = 1 /\ <<a>>[1] = a
      /\ IsSeq(<<b>>) /\ Len(<<b>>) = 1 /\ <<b>>[1] = b
  BY OneIs
<1>2. Joined(<<t>>, <<a>>, u)
  BY <1>1, JoinIs
<1>3. IsSeq(u) /\ Len(u) = 2 /\ u[1] = t /\ u[2] = a
  BY <1>1, <1>2 DEF Joined
<1> HIDE DEF u
<1>4. Joined(u, <<b>>, s)
  BY <1>1, <1>3, JoinIs
<1>5. IsSeq(s) /\ Len(s) = 3 /\ s[1] = t /\ s[2] = a /\ s[3] = b
  BY <1>1, <1>3, <1>4 DEF Joined
<1> HIDE DEF s
<1>6. b.change = "insert-clip" /\ a.change # "insert-clip" /\ a.change # "insert-track"
  BY DEF Adds, Plain
<1>7. ~Brings(s, 2, b.clip.id)
  <2>1. \A m \in 1..2 : m = 1 \/ m = 2
    OBVIOUS
  <2>2. QED
    BY <1>5, <1>6, <2>1 DEF Brings
<1>8. ASSUME NEW n \in 1..Len(s)
      PROVE  \/ s[n].change \in {"remove-clip", "remove-track", "header"}
             \/ s[n].change = "replace-clip" /\ IsClip(s[n].clip)
             \/ /\ s[n].change = "insert-clip" /\ s[n].index \in Nat /\ IsClip(s[n].clip)
                /\ ~Brings(s, n - 1, s[n].clip.id)
                /\ s[n].clip.id \in Ids(p) => Takes(s, n - 1, s[n].clip.id)
             \/ /\ s[n].change = "insert-track" /\ s[n].index \in Nat \ {0}
                /\ IsTrack(s[n].put) /\ s[n].put.clips = <<>>
                /\ s[n].put.id \notin TrackIds(p)
                /\ \A m \in 1..n - 1 : s[m].change # "insert-track"
  <2>1. CASE n = 1
    BY <1>5, <2>1
  <2>2. CASE n = 2
    BY <1>5, <2>2 DEF Plain
  <2>3. CASE n = 3
    <3>1. n - 1 = 2
      BY <2>3
    <3>2. QED
      BY <1>5, <1>6, <1>7, <2>3, <3>1 DEF Adds
  <2>4. QED
    BY <1>5, <2>1, <2>2, <2>3
<1>9. Tidy(p, s)
  BY <1>5, <1>8 DEF Tidy
<1>10. QED
  BY <1>9 DEF s, u

\* A list that adds one clip
LEMMA OneIsAdded ==
    ASSUME NEW p, NEW ch, Adds(p, ch)
    PROVE  AllAdd(p, <<ch>>)
<1> DEFINE s == <<ch>>
<1>1. IsSeq(s) /\ Len(s) = 1 /\ s[1] = ch
  BY OneIs
<1> HIDE DEF s
<1>2. AllAdd(p, s)
  BY <1>1 DEF AllAdd
<1>3. QED
  BY <1>2 DEF s

\* Edit::DetachAudio does, with a new track for the sound or without.
LEMMA DetachAudioCompiles ==
    ASSUME NEW p, Wf(p), NEW id \in Ids(p)
    PROVE  Compiles(p, DetachAudio(p, id))
<1> DEFINE c == ClipOf(p, id)
           link == IF c.link = NoLink THEN id ELSE c.link
           sound == [SoundOf(c) EXCEPT !.id = NextId(p), !.link = link]
           lane == SelectInSeq(p, LAMBDA t :
                      /\ t.kind = "audio"
                      /\ \A d \in ToSet(t.clips) :
                            EndOf(c) <= d.start \/ EndOf(d) <= c.start)
           new == [id |-> NextTrack(p), kind |-> "audio", locked |-> FALSE, clips |-> <<>>]
           put1 == InsertClip(p[lane].id, 0, sound)
           put2 == InsertClip(new.id, 0, sound)
           puts == IF lane # 0 THEN <<put1>> ELSE <<put2>>
           quiet == ReplaceClip([c EXCEPT !.detached = TRUE, !.link = link])
           track == InsertTrack(Len(p) + 1, new)
           chs == (IF lane # 0 THEN <<>> ELSE <<track>>) \o <<quiet>> \o puts
<1>1. DetachAudio(p, id) = IF Kind(p, id) # "video" \/ c.detached THEN Changes(<<>>)
                           ELSE Unless(sound.to <= sound.from, Changes(chs))
  BY DEF DetachAudio
<1>2. IsClip(c)
  BY ClipsHaveIds
<1>3. NextId(p) \in Nat /\ NextId(p) \notin Ids(p) /\ NextTrack(p) \in Nat /\ NextTrack(p) \notin TrackIds(p)
  <2>1. NextId(p) \in Nat /\ NextId(p) + 0 \notin Ids(p) /\ NextTrack(p) \in Nat /\ NextTrack(p) \notin TrackIds(p)
    BY IdsAre
  <2>2. NextId(p) + 0 = NextId(p)
    BY <2>1
  <2>3. QED
    BY <2>1, <2>2
<1> HIDE DEF c, link, lane
<1>4. IsClip(SoundOf(c))
  BY <1>2 DEF SoundOf, IsClip
<1>5. IsClip(sound) /\ sound.id \notin Ids(p)
  BY <1>3, <1>4 DEF IsClip
<1> HIDE DEF sound
<1>6. Plain(quiet)
  BY <1>2 DEF Plain, ReplaceClip, IsClip
<1>7. Adds(p, put1) /\ Adds(p, put2)
  BY <1>5 DEF Adds, InsertClip
<1>8. IsTrack(new) /\ new.clips = <<>> /\ new.id \notin TrackIds(p)
  <2>1. AreClips(<<>>)
    BY NoneIs DEF AreClips
  <2>2. QED
    BY <1>3, <2>1 DEF IsTrack, TrackOf
<1> HIDE DEF new, quiet, put1, put2
<1>9. track.change = "insert-track" /\ track.index \in Nat \ {0} /\ track.put = new
  <2>1. Len(p) \in Nat
    BY SeqIs DEF Wf, Shape
  <2>2. QED
    BY <2>1 DEF InsertTrack
<1> HIDE DEF track
<1>10. Tidy(p, chs)
  <2>1. CASE lane # 0
    <3>1. chs = <<>> \o <<quiet>> \o <<put1>>
      BY <2>1
    <3>2. AllPlain(<<>> \o <<quiet>>)
      BY <1>6, NoneIsPlain, OneIsPlain, PlainJoined
    <3>3. AllAdd(p, <<put1>>)
      BY <1>7, OneIsAdded
    <3> HIDE DEF chs
    <3>4. QED
      BY <3>1, <3>2, <3>3, PlainThenAdds
  <2>2. CASE lane = 0
    <3>1. chs = <<track>> \o <<quiet>> \o <<put2>>
      BY <2>2
    <3> HIDE DEF chs
    <3>2. QED
      BY <1>6, <1>7, <1>8, <1>9, <3>1, TrackIsTidy
  <2>3. QED
    BY <2>1, <2>2
<1> HIDE DEF chs
<1>11. Tidy(p, <<>>)
  BY NoneIsPlain, PlainIsTidy
<1>12. QED
  BY <1>1, <1>10, <1>11, ListCompiles, UnlessCompiles

\* Moves of clips there are, each of another
AreMoves(p, moves) ==
    /\ IsSeq(moves) /\ \A i \in 1..Len(moves) : moves[i].clip \in Ids(p)
    /\ \A i, j \in 1..Len(moves) : moves[i].clip = moves[j].clip => i = j

\* The moves of linked clips name clips that no move names yet.
LEMMA PartnersAreMoves ==
    ASSUME NEW p, Wf(p), NEW all, AreMoves(p, all), NEW step
    PROVE  AreMoves(p, all \o Partners(p, all, step))
<1> DEFINE c == ClipOf(p, step.clip)
           clips == {d \in Clips(p) : /\ c.link # NoLink /\ d.link = c.link
                                      /\ \A i \in DOMAIN all : all[i].clip # d.id}
           seq == InOrder(clips)
           Move(i) == [clip |-> seq[i].id, track |-> p[Home(p, seq[i].id)].id,
                       start |-> seq[i].start + step.start - c.start]
           more == Partners(p, all, step)
           s == all \o more
<1>1. more = [i \in DOMAIN seq |-> Move(i)]
  BY DEF Partners
<1>2. DOMAIN all = 1..Len(all) /\ Len(all) \in Nat
  BY SeqIs DEF AreMoves
<1>3. \A d \in clips : d.id \in Ids(p) /\ \A i \in 1..Len(all) : all[i].clip # d.id
  BY <1>2, ClipsHaveIds
<1> HIDE DEF clips
<1>4. Lists(seq, clips) /\ \A n, m \in 1..Len(seq) : seq[n].id = seq[m].id => n = m
  BY <1>3, IdsAre, InOrderIs
<1>5. DOMAIN seq = 1..Len(seq) /\ Len(seq) \in Nat
  BY <1>4, SeqIs DEF Lists
<1> HIDE DEF seq, more
<1>6. IsSeq(more) /\ Len(more) = Len(seq)
  <2>1. DOMAIN more = DOMAIN seq /\ more = [i \in DOMAIN more |-> more[i]]
    BY <1>1
  <2>2. QED
    BY <1>5, <2>1, ListIs
<1>7. \A i \in 1..Len(more) : more[i].clip = seq[i].id
  BY <1>1, <1>5, <1>6
<1>8. \A i \in 1..Len(more) : more[i].clip \in Ids(p) /\ \A j \in 1..Len(all) : all[j].clip # more[i].clip
  BY <1>3, <1>4, <1>6, <1>7 DEF Lists
<1>9. \A i, j \in 1..Len(more) : more[i].clip = more[j].clip => i = j
  BY <1>4, <1>6, <1>7
<1>10. Joined(all, more, s)
  BY <1>6, JoinIs DEF AreMoves
<1> HIDE DEF s
<1>11. \A n \in 1..Len(s) : \/ n \in 1..Len(all) /\ s[n] = all[n]
                            \/ n - Len(all) \in 1..Len(more) /\ s[n] = more[n - Len(all)]
  BY <1>2, <1>5, <1>6, <1>10, StandsInOne
<1>12. \A n \in 1..Len(s) : s[n].clip \in Ids(p)
  BY <1>8, <1>11 DEF AreMoves
<1>13. ASSUME NEW n \in 1..Len(s), NEW m \in 1..Len(s), s[n].clip = s[m].clip PROVE n = m
  <2>1. CASE n \in 1..Len(all) /\ s[n] = all[n]
    <3>1. CASE m \in 1..Len(all) /\ s[m] = all[m]
      BY <1>13, <2>1, <3>1 DEF AreMoves
    <3>2. CASE m - Len(all) \in 1..Len(more) /\ s[m] = more[m - Len(all)]
      BY <1>8, <1>13, <2>1, <3>2
    <3>3. QED
      BY <1>11, <3>1, <3>2
  <2>2. CASE n - Len(all) \in 1..Len(more) /\ s[n] = more[n - Len(all)]
    <3>1. CASE m \in 1..Len(all) /\ s[m] = all[m]
      BY <1>8, <1>13, <2>2, <3>1
    <3>2. CASE m - Len(all) \in 1..Len(more) /\ s[m] = more[m - Len(all)]
      <4>1. n - Len(all) = m - Len(all)
        BY <1>9, <1>13, <2>2, <3>2
      <4>2. QED
        BY <1>2, <4>1
    <3>3. QED
      BY <1>11, <3>1, <3>2
  <2>3. QED
    BY <1>11, <2>1, <2>2
<1>14. IsSeq(s)
  BY <1>10 DEF Joined
<1>15. AreMoves(p, s)
  BY <1>12, <1>13, <1>14 DEF AreMoves
<1>16. QED
  BY <1>15 DEF s, more

\* Moves with those of the clips linked to them name each clip once.
LEMMA LinkedMovesAreMoves ==
    ASSUME NEW p, Wf(p), NEW moves, AreMoves(p, moves)
    PROVE  AreMoves(p, WithLinkedMoves(p, moves))
<1> DEFINE L == Len(moves)
           Next1(s, n) == s \o Partners(p, s, moves[n])
           run == CHOOSE run : run = [n \in 0..L |-> IF n = 0 THEN moves ELSE Next1(run[n - 1], n)]
           N == {m \in Nat : \E g : g = [n \in 0..m |-> IF n = 0 THEN moves ELSE Next1(g[n - 1], n)]}
           M == {m \in Nat : m <= L => AreMoves(p, run[m])}
<1>0. L \in Nat
  BY SeqIs DEF AreMoves
<1>1. \A s, n : AreMoves(p, s) => AreMoves(p, Next1(s, n))
  BY PartnersAreMoves
<1>7. WithLinkedMoves(p, moves) = run[L]
  BY DEF WithLinkedMoves
<1> HIDE DEF Next1
<1>2. 0 \in N
  <2> DEFINE g == [n \in 0..0 |-> moves]
  <2>1. g = [n \in 0..0 |-> IF n = 0 THEN moves ELSE Next1(g[n - 1], n)]
    OBVIOUS
  <2> HIDE DEF g
  <2>2. QED
    BY <2>1
<1>3. ASSUME NEW m \in Nat, m \in N PROVE m + 1 \in N
  <2>1. PICK g : g = [n \in 0..m |-> IF n = 0 THEN moves ELSE Next1(g[n - 1], n)]
    BY <1>3
  <2> DEFINE h == [n \in 0..m + 1 |-> IF n <= m THEN g[n] ELSE Next1(g[m], m + 1)]
  <2>2. \A n \in 0..m : h[n] = g[n]
    OBVIOUS
  <2>3. h[m + 1] = Next1(g[m], m + 1) /\ DOMAIN h = 0..m + 1 /\ h = [n \in 0..m + 1 |-> h[n]]
    OBVIOUS
  <2> HIDE DEF h
  <2>4. ASSUME NEW n \in 0..m + 1 PROVE h[n] = IF n = 0 THEN moves ELSE Next1(h[n - 1], n)
    <3>1. CASE n = 0
      <4>1. g[0] = moves
        BY <2>1
      <4>2. QED
        BY <2>2, <3>1, <4>1
    <3>2. CASE n \in 1..m
      <4>1. g[n] = Next1(g[n - 1], n) /\ n - 1 \in 0..m
        BY <2>1, <3>2
      <4>2. QED
        BY <2>2, <3>2, <4>1
    <3>3. CASE n = m + 1
      <4>1. n - 1 = m /\ m \in 0..m /\ n # 0
        BY <3>3
      <4>2. QED
        BY <2>2, <2>3, <3>3, <4>1
    <3>4. QED
      BY <3>1, <3>2, <3>3
  <2>5. h = [n \in 0..m + 1 |-> IF n = 0 THEN moves ELSE Next1(h[n - 1], n)]
    BY <2>3, <2>4
  <2>6. QED
    BY <2>5
<1>4. L \in N
  <2>1. \A m \in Nat : m \in N => m + 1 \in N
    BY <1>3
  <2> HIDE DEF N
  <2>2. QED
    BY <1>0, <1>2, <2>1, Inductively
<1>5. run = [n \in 0..L |-> IF n = 0 THEN moves ELSE Next1(run[n - 1], n)]
  BY <1>4
<1> HIDE DEF run
<1>8. 0 \in M
  <2>1. 0 \in 0..L
    BY <1>0
  <2>2. run[0] = moves
    BY <1>5, <2>1
  <2>3. QED
    BY <2>2
<1>9. ASSUME NEW m \in Nat, m \in M PROVE m + 1 \in M
  <2>1. SUFFICES ASSUME m + 1 <= L PROVE AreMoves(p, run[m + 1])
    OBVIOUS
  <2>2. m + 1 \in 0..L /\ m + 1 # 0 /\ (m + 1) - 1 = m /\ m <= L
    BY <1>0, <2>1
  <2>3. run[m + 1] = Next1(run[m], m + 1)
    BY <1>5, <2>2
  <2>4. QED
    BY <1>1, <1>9, <2>2, <2>3
<1>10. L \in M
  <2>1. \A m \in Nat : m \in M => m + 1 \in M
    BY <1>9
  <2> HIDE DEF M
  <2>2. QED
    BY <1>0, <1>8, <2>1, Inductively
<1>11. QED
  BY <1>0, <1>7, <1>10

\* Clips moved are taken away before they are inserted again.
LEMMA MovedIsTidy ==
    ASSUME NEW p, Wf(p), NEW moves, AreMoves(p, moves)
    PROVE  Tidy(p, Moved(p, moves))
<1> DEFINE Those == {i \in DOMAIN moves :
                        \/ p[Home(p, moves[i].clip)].id # moves[i].track
                        \/ ClipOf(p, moves[i].clip).start # moves[i].start}
           chosen == Sorted(Those)
           moving == [n \in DOMAIN chosen |-> moves[chosen[n]]]
           Arrival(i) == [ClipOf(p, moving[i].clip) EXCEPT !.start = moving[i].start]
           a == [i \in DOMAIN moving |-> RemoveClip(moving[i].clip)]
           b == [i \in DOMAIN moving |-> InsertClip(moving[i].track, 0, Arrival(i))]
           s == a \o b
           K == Len(chosen)
<1>1. Moved(p, moves) = s
  BY DEF Moved
<1>2. DOMAIN moves = 1..Len(moves) /\ Len(moves) \in Nat
  BY SeqIs DEF AreMoves
<1>3. Lists(chosen, Those) /\ Those \subseteq 1..Len(moves)
  <2>1. Those \subseteq 1..Len(moves)
    BY <1>2
  <2>2. IsFiniteSet(1..Len(moves))
    BY <1>2, FS_Interval
  <2> HIDE DEF Those
  <2>3. IsFiniteSet(Those)
    BY <2>1, <2>2, FS_Subset
  <2>4. Those \subseteq Int
    BY <1>2, <2>1
  <2>5. QED
    BY <2>1, <2>3, <2>4, SortedIs
<1> HIDE DEF Those, chosen
<1>4. DOMAIN chosen = 1..K /\ K \in Nat
  BY <1>3, SeqIs DEF Lists
<1>5. DOMAIN moving = 1..K
  BY <1>4
<1>6. \A n \in 1..K : moving[n].clip \in Ids(p)
  <2>1. SUFFICES ASSUME NEW n \in 1..K PROVE moving[n].clip \in Ids(p)
    OBVIOUS
  <2>2. chosen[n] \in 1..Len(moves) /\ moving[n] = moves[chosen[n]]
    BY <1>3, <1>4 DEF Lists
  <2>3. QED
    BY <2>2 DEF AreMoves
<1>7. ASSUME NEW n \in 1..K, NEW m \in 1..K, moving[n].clip = moving[m].clip PROVE n = m
  <2>1. /\ chosen[n] \in 1..Len(moves) /\ moving[n] = moves[chosen[n]]
        /\ chosen[m] \in 1..Len(moves) /\ moving[m] = moves[chosen[m]]
    BY <1>3, <1>4 DEF Lists
  <2>2. chosen[n] = chosen[m]
    BY <1>7, <2>1 DEF AreMoves
  <2>3. QED
    BY <1>3, <2>2 DEF Lists
<1> HIDE DEF moving, K
<1>8. IsSeq(a) /\ Len(a) = K /\ \A n \in 1..K : a[n] = RemoveClip(moving[n].clip)
  <2>1. /\ DOMAIN a = DOMAIN moving /\ a = [i \in DOMAIN a |-> a[i]]
        /\ \A n \in DOMAIN moving : a[n] = RemoveClip(moving[n].clip)
    OBVIOUS
  <2> HIDE DEF a
  <2>2. QED
    BY <1>4, <1>5, <2>1, ListIs
<1>9. IsSeq(b) /\ Len(b) = K /\ \A n \in 1..K : b[n] = InsertClip(moving[n].track, 0, Arrival(n))
  <2>1. /\ DOMAIN b = DOMAIN moving /\ b = [i \in DOMAIN b |-> b[i]]
        /\ \A n \in DOMAIN moving : b[n] = InsertClip(moving[n].track, 0, Arrival(n))
    OBVIOUS
  <2> HIDE DEF b
  <2>2. QED
    BY <1>4, <1>5, <2>1, ListIs
<1>10. \A n \in 1..K : IsClip(Arrival(n)) /\ Arrival(n).id = moving[n].clip
  <2>1. SUFFICES ASSUME NEW n \in 1..K PROVE IsClip(Arrival(n)) /\ Arrival(n).id = moving[n].clip
    OBVIOUS
  <2> DEFINE c == ClipOf(p, moving[n].clip)
  <2>2. IsClip(c) /\ c.id = moving[n].clip
    BY <1>6, ClipsHaveIds
  <2> HIDE DEF c
  <2>3. Arrival(n) = [c EXCEPT !.start = moving[n].start]
    BY DEF c
  <2> HIDE DEF Arrival
  <2>4. QED
    BY <2>2, <2>3, ChangedIs
<1> HIDE DEF a, b, Arrival
<1>11. Joined(a, b, s)
  BY <1>8, <1>9, JoinIs
<1> HIDE DEF s
<1>12. /\ IsSeq(s) /\ Len(s) = K + K
       /\ \A n \in 1..K : s[n].change = "remove-clip" /\ s[n].id = moving[n].clip
       /\ \A n \in 1..K : /\ s[K + n].change = "insert-clip" /\ s[K + n].index = 0
                          /\ IsClip(s[K + n].clip) /\ s[K + n].clip.id = moving[n].clip
  <2>1. IsSeq(s) /\ Len(s) = K + K
    BY <1>8, <1>9, <1>11 DEF Joined
  <2>2. ASSUME NEW n \in 1..K PROVE s[n].change = "remove-clip" /\ s[n].id = moving[n].clip
    <3>1. s[n] = RemoveClip(moving[n].clip)
      BY <1>8, <1>11 DEF Joined
    <3>2. QED
      BY <3>1 DEF RemoveClip
  <2>3. ASSUME NEW n \in 1..K
        PROVE  /\ s[K + n].change = "insert-clip" /\ s[K + n].index = 0
               /\ IsClip(s[K + n].clip) /\ s[K + n].clip.id = moving[n].clip
    <3>1. s[K + n] = b[n]
      BY <1>8, <1>9, <1>11 DEF Joined
    <3>2. s[K + n] = InsertClip(moving[n].track, 0, Arrival(n))
      BY <1>9, <3>1
    <3>3. QED
      BY <1>10, <3>2 DEF InsertClip
  <2>4. QED
    BY <2>1, <2>2, <2>3
<1>13. ASSUME NEW n \in 1..Len(s)
       PROVE  \/ s[n].change = "remove-clip"
              \/ /\ s[n].change = "insert-clip" /\ s[n].index \in Nat /\ IsClip(s[n].clip)
                 /\ ~Brings(s, n - 1, s[n].clip.id)
                 /\ Takes(s, n - 1, s[n].clip.id)
  <2>1. CASE n <= K
    <3>1. n \in 1..K
      BY <1>4, <1>12, <2>1
    <3>2. QED
      BY <1>12, <3>1
  <2>2. CASE ~(n <= K)
    <3> DEFINE k == n - K
    <3>1. k \in 1..K /\ n = K + k /\ k \in 1..n - 1
      BY <1>4, <1>12, <2>2
    <3> HIDE DEF k
    <3>2. /\ s[n].change = "insert-clip" /\ s[n].index = 0
          /\ IsClip(s[n].clip) /\ s[n].clip.id = moving[k].clip
      BY <1>12, <3>1
    <3>3. Takes(s, n - 1, s[n].clip.id)
      BY <1>12, <3>1, <3>2 DEF Takes
    <3>4. ASSUME NEW m \in 1..n - 1, s[m].change = "insert-clip", s[m].clip.id = s[n].clip.id
          PROVE  FALSE
      <4>1. ~(m \in 1..K)
        BY <1>12, <3>4
      <4> DEFINE l == m - K
      <4>2. l \in 1..K /\ m = K + l /\ l # k
        BY <1>4, <1>12, <3>1, <4>1
      <4> HIDE DEF l
      <4>3. s[m].clip.id = moving[l].clip
        BY <1>12, <4>2
      <4>4. QED
        BY <1>7, <3>1, <3>2, <3>4, <4>2, <4>3
    <3>5. QED
      BY <3>2, <3>3, <3>4 DEF Brings
  <2>3. QED
    BY <2>1, <2>2
<1>14. Tidy(p, s)
  BY <1>12, <1>13 DEF Tidy
<1>15. QED
  BY <1>1, <1>14

\* Edit::MoveClips compiles to a tidy list.
LEMMA MoveClipsCompiles ==
    ASSUME NEW p, Wf(p), NEW named, AreMoves(p, named)
    PROVE  Compiles(p, MoveClips(p, named))
<1> DEFINE moves == WithLinkedMoves(p, named)
<1>1. MoveClips(p, named) =
         Unless(\E i \in DOMAIN moves :
                   Kind(p, moves[i].clip) # p[TrackAt(p, moves[i].track)].kind,
                Changes(Moved(p, moves)))
  BY DEF MoveClips
<1>2. AreMoves(p, moves)
  BY LinkedMovesAreMoves
<1> HIDE DEF moves
<1>3. Compiles(p, Changes(Moved(p, moves)))
  BY <1>2, MovedIsTidy, ListCompiles
<1>4. QED
  BY <1>1, <1>3, UnlessCompiles

-----------------------------------------------------------------------------
(* What an edit does                                                         *)

\* A list that brings nothing twice is applied, or taken back.
Changed(edit, chs) ==
    /\ Tidy(project, chs) /\ chs # <<>>
    /\ Commit(edit, ApplyAll(project, chs)) \/ RollBack(ApplyAll(project, chs))

\* An edit that is not refused changes the project by a tidy list.
LEMMA ApplyChanges ==
    ASSUME NEW edit, NEW compiled, Compiles(project, compiled), Apply(edit, compiled)
    PROVE  \E chs : Changed(edit, chs)
<1>1. /\ compiled.ok /\ compiled.changes # <<>>
      /\ \E result \in {ApplyAll(project, compiled.changes)} : Commit(edit, result) \/ RollBack(result)
  BY DEF Apply
<1>2. Changed(edit, compiled.changes)
  BY <1>1 DEF Compiles, Changed
<1>3. QED
  BY <1>2

\* So does a move, of one clip or of several.
LEMMA MovesChange ==
    ASSUME Wf(project), MovesOne \/ MovesPast
    PROVE  \E edit, chs : Changed(edit, chs)
<1>1. CASE MovesOne
  <2>1. PICK id \in Ids(project), track \in TrackIds(project), start \in Frames :
           Apply([edit |-> "move", ids |-> {id}],
                 MoveClips(project, <<[clip |-> id, track |-> track, start |-> start]>>))
    BY <1>1 DEF MovesOne
  <2> DEFINE move == [clip |-> id, track |-> track, start |-> start]
             moves == <<move>>
  <2>2. IsSeq(moves) /\ Len(moves) = 1 /\ moves[1] = move
    BY OneIs
  <2>3. move.clip = id
    OBVIOUS
  <2> HIDE DEF move, moves
  <2>4. AreMoves(project, moves)
    BY <2>2, <2>3 DEF AreMoves
  <2>5. Compiles(project, MoveClips(project, moves))
    BY <2>4, MoveClipsCompiles
  <2>6. Apply([edit |-> "move", ids |-> {id}], MoveClips(project, moves))
    BY <2>1 DEF moves, move
  <2>7. QED
    BY <2>5, <2>6, ApplyChanges
<1>2. CASE MovesPast
  <2> DEFINE To(id, place) == [clip |-> id, track |-> project[Home(project, place)].id,
                               start |-> ClipOf(project, place).start]
  <2>1. PICK a, b \in Ids(project) :
           /\ a < b
           /\ Apply([edit |-> "move", ids |-> {a, b}],
                    MoveClips(project, <<To(a, b), To(b, a)>>))
    BY <1>2 DEF MovesPast
  <2> DEFINE moves == <<To(a, b), To(b, a)>>
  <2>2. DOMAIN moves = 1..2 /\ moves = [i \in DOMAIN moves |-> moves[i]] /\ moves[1].clip = a /\ moves[2].clip = b
    OBVIOUS
  <2>3. a # b
    BY <2>1, IdsAre
  <2> HIDE DEF moves
  <2>4. IsSeq(moves) /\ Len(moves) = 2
    BY <2>2, ListIs
  <2>5. \A i \in 1..2 : i = 1 \/ i = 2
    OBVIOUS
  <2>6. AreMoves(project, moves)
    BY <2>2, <2>3, <2>4, <2>5 DEF AreMoves
  <2>7. Compiles(project, MoveClips(project, moves))
    BY <2>6, MoveClipsCompiles
  <2>8. Apply([edit |-> "move", ids |-> {a, b}], MoveClips(project, moves))
    BY <2>1 DEF moves
  <2>9. QED
    BY <2>7, <2>8, ApplyChanges
<1>3. QED
  BY <1>1, <1>2

\* Refused in frames, or compiled as it is
LEMMA InFramesCompiles ==
    ASSUME NEW compiled, Compiles(project, compiled)
    PROVE  Compiles(project, InFrames(compiled))
BY UnlessCompiles DEF InFrames

\* Every edit is a tidy list that was applied, or that was taken back.
LEMMA EditsChange ==
    ASSUME Wf(project), AnyEdit
    PROVE  \E edit, chs : Changed(edit, chs)
<1>1. CASE MovesOne \/ MovesPast
  BY <1>1, MovesChange
<1>2. CASE Removes
  <2>1. PICK id \in Ids(project) :
           Apply([edit |-> "remove", ids |-> {id}], RemoveClips(project, {id}))
    BY <1>2 DEF Removes
  <2>2. QED
    BY <2>1, RemoveClipsCompiles, ApplyChanges
<1>3. CASE RippleDeletes
  <2>1. PICK id \in Ids(project) :
           Apply([edit |-> "ripple-delete", ids |-> {id}], InFrames(RippleDelete(project, {id})))
    BY <1>3 DEF RippleDeletes
  <2>2. QED
    BY <2>1, RippleDeleteCompiles, InFramesCompiles, ApplyChanges
<1>4. CASE Trims
  <2>1. PICK id \in Ids(project), edge \in {"start", "end"}, frames \in Deltas, ripple \in BOOLEAN :
           Apply([edit |-> "trim", id |-> id, edge |-> edge, frames |-> frames, ripple |-> ripple],
                 InFrames(TrimEdge(project, id, edge, frames, ripple)))
    BY <1>4 DEF Trims
  <2>2. QED
    BY <2>1, TrimEdgeCompiles, InFramesCompiles, ApplyChanges
<1>5. CASE Rolls
  <2>1. PICK left, right \in Ids(project), frames \in Deltas :
           Apply([edit |-> "roll", left |-> left, right |-> right],
                 InFrames(Roll(project, left, right, frames)))
    BY <1>5 DEF Rolls
  <2>2. QED
    BY <2>1, RollCompiles, InFramesCompiles, ApplyChanges
<1>6. CASE Cuts
  <2>1. PICK at \in Frames, ids \in {{id} : id \in Ids(project)} \cup {Ids(project)} :
           Apply([edit |-> "split", ids |-> ids, at |-> at], Splitting(ids, at))
    BY <1>6 DEF Cuts
  <2>2. Compiles(project, Splitting(ids, at))
    BY SplitCompiles, InFramesCompiles DEF Splitting
  <2>3. QED
    BY <2>1, <2>2, ApplyChanges
<1>7. CASE Joins
  <2>1. PICK left, right \in Ids(project) :
           Apply([edit |-> "join", left |-> left, right |-> right],
                 InFrames(Join(project, left, right)))
    BY <1>7 DEF Joins
  <2>2. QED
    BY <2>1, JoinCompiles, InFramesCompiles, ApplyChanges
<1>8. CASE Duplicates
  <2>1. PICK id \in Ids(project) :
           Apply([edit |-> "duplicate"], InFrames(Duplicate(project, {id})))
    BY <1>8 DEF Duplicates
  <2>2. QED
    BY <2>1, DuplicateCompiles, InFramesCompiles, ApplyChanges
<1>9. CASE Pastes
  <2>1. PICK id \in Ids(project), at \in Frames :
           Apply([edit |-> "paste", ids |-> {id}], InFrames(Paste(project, {id}, at)))
    BY <1>9 DEF Pastes
  <2>2. QED
    BY <2>1, PasteCompiles, InFramesCompiles, ApplyChanges
<1>10. CASE Detaches
  <2>1. PICK id \in Ids(project) :
           Apply([edit |-> "detach", id |-> id], InFrames(DetachAudio(project, id)))
    BY <1>10 DEF Detaches
  <2>2. QED
    BY <2>1, DetachAudioCompiles, InFramesCompiles, ApplyChanges
<1>11. CASE Unlinks
  <2>1. PICK id \in Ids(project) : Apply([edit |-> "unlink"], Unlink(project, {id}))
    BY <1>11 DEF Unlinks
  <2>2. QED
    BY <2>1, UnlinkCompiles, ApplyChanges
<1>12. CASE Speeds
  <2>1. PICK id \in Ids(project), rate \in Rates :
           Apply([edit |-> "speed"], SetSpeed(project, {id}, rate))
    BY <1>12 DEF Speeds
  <2>2. QED
    BY <2>1, SetSpeedCompiles, ApplyChanges
<1>13. CASE Locks
  <2>1. PICK track \in TrackIds(project), locked \in BOOLEAN :
           Apply([edit |-> "lock"], SetTrack(project, track, locked))
    BY <1>13 DEF Locks
  <2>2. QED
    BY <2>1, TrackEditsCompile, ApplyChanges
<1>14. CASE DropsTrack
  <2>1. PICK track \in TrackIds(project) : Apply([edit |-> "drop-track"], DropTrack(project, track))
    BY <1>14 DEF DropsTrack
  <2>2. QED
    BY <2>1, TrackEditsCompile, ApplyChanges
<1>15. CASE AddsClip
  <2>1. PICK track \in TrackIds(project), range \in NewClips, start \in Frames :
           Apply([edit |-> "add-clip"], AddClip(project, track, range[1], range[2], start))
    BY <1>15 DEF AddsClip
  <2>2. QED
    BY <2>1, AddClipCompiles, ApplyChanges
<1>16. CASE AddsTrack
  <2>1. PICK kind \in {"video", "audio"} : Apply([edit |-> "add-track"], AddTrack(project, kind))
    BY <1>16 DEF AddsTrack
  <2>2. QED
    BY <2>1, AddTrackCompiles, ApplyChanges
<1>17. QED
  BY <1>1, <1>2, <1>3, <1>4, <1>5, <1>6, <1>7, <1>8, <1>9, <1>10, <1>11, <1>12, <1>13, <1>14,
     <1>15, <1>16 DEF AnyEdit

-----------------------------------------------------------------------------
(* The graphs an entry leads back to, and forth                              *)

\* c[i] is the graph before entry i was made, and before it is redone.
Behind(c, entries, graph) ==
    /\ c[Len(entries) + 1] = graph
    /\ \A i \in 1..Len(entries) : Undoes(c[i + 1], entries[i], c[i])
Ahead(c, entries, graph) ==
    /\ c[Len(entries) + 1] = graph
    /\ \A i \in 1..Len(entries) : Leading(c[i + 1], entries[i], c[i])

\* The graphs of the entries to undo are those of any chain that leads back,
LEMMA BehindIs ==
    ASSUME NEW s, IsSeq(s), NEW graph, NEW c, Behind(c, s, graph)
    PROVE  GraphsBehind(s, graph) = [i \in 1..Len(s) |-> c[i]]
<1> DEFINE L == Len(s)
           Next1(g, i) == Revert(g, s[i]).project
           F(f) == f = [i \in 1..L + 1 |-> IF i = L + 1 THEN graph ELSE Next1(f[i + 1], i)]
           before == CHOOSE f : F(f)
           b == [i \in 1..L + 1 |-> c[i]]
           N == {m \in Nat : m <= L => before[L + 1 - m] = c[L + 1 - m]}
<1>1. L \in Nat
  BY SeqIs
<1>2. GraphsBehind(s, graph) = [i \in 1..L |-> before[i]]
  BY DEF GraphsBehind
<1>3. \A i \in 1..L : Next1(c[i + 1], i) = c[i]
  BY RevertLeads DEF Behind
<1>4. c[L + 1] = graph
  BY DEF Behind
<1> HIDE DEF Next1, L
<1>5. F(b)
  <2>1. \A i \in 1..L + 1 : b[i] = IF i = L + 1 THEN graph ELSE Next1(b[i + 1], i)
    <3>1. SUFFICES ASSUME NEW i \in 1..L + 1
                   PROVE  b[i] = IF i = L + 1 THEN graph ELSE Next1(b[i + 1], i)
      OBVIOUS
    <3>2. CASE i = L + 1
      BY <1>4, <3>2
    <3>3. CASE i # L + 1
      <4>1. i \in 1..L /\ i + 1 \in 1..L + 1
        BY <1>1, <3>3
      <4>2. QED
        BY <1>3, <3>3, <4>1
    <3>4. QED
      BY <3>2, <3>3
  <2>2. b = [i \in 1..L + 1 |-> b[i]]
    OBVIOUS
  <2> HIDE DEF b
  <2>3. QED
    BY <2>1, <2>2
<1> HIDE DEF b
<1>6. F(before)
  BY <1>5
<1> HIDE DEF before
<1>7. \A i \in 1..L + 1 : before[i] = IF i = L + 1 THEN graph ELSE Next1(before[i + 1], i)
  BY <1>6
<1>8. 0 \in N
  <2>1. L + 1 \in 1..L + 1 /\ L + 1 - 0 = L + 1
    BY <1>1
  <2>2. QED
    BY <1>4, <1>7, <2>1
<1>9. ASSUME NEW m \in Nat, m \in N PROVE m + 1 \in N
  <2>1. SUFFICES ASSUME m + 1 <= L PROVE before[L + 1 - (m + 1)] = c[L + 1 - (m + 1)]
    OBVIOUS
  <2> DEFINE i == L + 1 - (m + 1)
  <2>2. i \in 1..L /\ i \in 1..L + 1 /\ i # L + 1 /\ i + 1 = L + 1 - m /\ m <= L
    BY <1>1, <2>1
  <2> HIDE DEF i
  <2>3. before[i + 1] = c[i + 1]
    BY <1>9, <2>2
  <2>4. before[i] = Next1(before[i + 1], i)
    BY <1>7, <2>2
  <2>5. before[i] = c[i]
    BY <1>3, <2>2, <2>3, <2>4
  <2>6. QED
    BY <2>5 DEF i
<1>10. \A i \in 1..L : before[i] = c[i]
  <2>1. \A m \in Nat : m \in N => m + 1 \in N
    BY <1>9
  <2>2. \A m \in Nat : m \in N
    <3> HIDE DEF N
    <3>1. QED
      BY <1>8, <2>1, Inductively
  <2>3. SUFFICES ASSUME NEW i \in 1..L PROVE before[i] = c[i]
    OBVIOUS
  <2>4. L + 1 - i \in Nat /\ L + 1 - i <= L /\ L + 1 - (L + 1 - i) = i
    BY <1>1, <2>3
  <2>5. before[L + 1 - (L + 1 - i)] = c[L + 1 - (L + 1 - i)]
    BY <2>2, <2>4
  <2>6. QED
    BY <2>4, <2>5
<1>11. QED
  BY <1>2, <1>10 DEF L

\* ... and the graphs of the entries to redo those of any that leads forth.
LEMMA AheadIs ==
    ASSUME NEW s, IsSeq(s), NEW graph, NEW c, Ahead(c, s, graph)
    PROVE  GraphsAhead(s, graph) = [i \in 1..Len(s) |-> c[i]]
<1> DEFINE L == Len(s)
           Next1(g, i) == ApplyAll(g, s[i]).project
           F(f) == f = [i \in 1..L + 1 |-> IF i = L + 1 THEN graph ELSE Next1(f[i + 1], i)]
           before == CHOOSE f : F(f)
           b == [i \in 1..L + 1 |-> c[i]]
           N == {m \in Nat : m <= L => before[L + 1 - m] = c[L + 1 - m]}
<1>1. L \in Nat
  BY SeqIs
<1>2. GraphsAhead(s, graph) = [i \in 1..L |-> before[i]]
  BY DEF GraphsAhead
<1>3. \A i \in 1..L : Next1(c[i + 1], i) = c[i]
  BY ApplyLeads DEF Ahead
<1>4. c[L + 1] = graph
  BY DEF Ahead
<1> HIDE DEF Next1, L
<1>5. F(b)
  <2>1. \A i \in 1..L + 1 : b[i] = IF i = L + 1 THEN graph ELSE Next1(b[i + 1], i)
    <3>1. SUFFICES ASSUME NEW i \in 1..L + 1
                   PROVE  b[i] = IF i = L + 1 THEN graph ELSE Next1(b[i + 1], i)
      OBVIOUS
    <3>2. CASE i = L + 1
      BY <1>4, <3>2
    <3>3. CASE i # L + 1
      <4>1. i \in 1..L /\ i + 1 \in 1..L + 1
        BY <1>1, <3>3
      <4>2. QED
        BY <1>3, <3>3, <4>1
    <3>4. QED
      BY <3>2, <3>3
  <2>2. b = [i \in 1..L + 1 |-> b[i]]
    OBVIOUS
  <2> HIDE DEF b
  <2>3. QED
    BY <2>1, <2>2
<1> HIDE DEF b
<1>6. F(before)
  BY <1>5
<1> HIDE DEF before
<1>7. \A i \in 1..L + 1 : before[i] = IF i = L + 1 THEN graph ELSE Next1(before[i + 1], i)
  BY <1>6
<1>8. 0 \in N
  <2>1. L + 1 \in 1..L + 1 /\ L + 1 - 0 = L + 1
    BY <1>1
  <2>2. QED
    BY <1>4, <1>7, <2>1
<1>9. ASSUME NEW m \in Nat, m \in N PROVE m + 1 \in N
  <2>1. SUFFICES ASSUME m + 1 <= L PROVE before[L + 1 - (m + 1)] = c[L + 1 - (m + 1)]
    OBVIOUS
  <2> DEFINE i == L + 1 - (m + 1)
  <2>2. i \in 1..L /\ i \in 1..L + 1 /\ i # L + 1 /\ i + 1 = L + 1 - m /\ m <= L
    BY <1>1, <2>1
  <2> HIDE DEF i
  <2>3. before[i + 1] = c[i + 1]
    BY <1>9, <2>2
  <2>4. before[i] = Next1(before[i + 1], i)
    BY <1>7, <2>2
  <2>5. before[i] = c[i]
    BY <1>3, <2>2, <2>3, <2>4
  <2>6. QED
    BY <2>5 DEF i
<1>10. \A i \in 1..L : before[i] = c[i]
  <2>1. \A m \in Nat : m \in N => m + 1 \in N
    BY <1>9
  <2>2. \A m \in Nat : m \in N
    <3> HIDE DEF N
    <3>1. QED
      BY <1>8, <2>1, Inductively
  <2>3. SUFFICES ASSUME NEW i \in 1..L PROVE before[i] = c[i]
    OBVIOUS
  <2>4. L + 1 - i \in Nat /\ L + 1 - i <= L /\ L + 1 - (L + 1 - i) = i
    BY <1>1, <2>3
  <2>5. before[L + 1 - (L + 1 - i)] = c[L + 1 - (L + 1 - i)]
    BY <2>2, <2>4
  <2>6. QED
    BY <2>4, <2>5
<1>11. QED
  BY <1>2, <1>10 DEF L

\* One entry more
LEMMA AppendedIs ==
    ASSUME NEW s, IsSeq(s), NEW e
    PROVE  /\ IsSeq(Append(s, e)) /\ Len(Append(s, e)) = Len(s) + 1
           /\ Append(s, e)[Len(s) + 1] = e
           /\ \A i \in 1..Len(s) : Append(s, e)[i] = s[i]
<1> DEFINE c == s \o <<e>>
<1>1. IsSeq(<<e>>) /\ Len(<<e>>) = 1 /\ <<e>>[1] = e /\ Len(s) \in Nat
  BY OneIs, SeqIs
<1>2. Joined(s, <<e>>, c)
  BY <1>1, JoinIs
<1>3. Append(s, e) = c
  BY AppendIs
<1> HIDE DEF c
<1>4. Len(s) + 1 \in 1..Len(s) + 1 /\ ~(Len(s) + 1 <= Len(s)) /\ Len(s) + 1 - Len(s) = 1
  BY <1>1
<1>5. QED
  BY <1>1, <1>2, <1>3, <1>4 DEF Joined

\* What is left without the first entry
LEMMA TailIs ==
    ASSUME NEW s, IsSeq(s), Len(s) > 0
    PROVE  /\ IsSeq(Tail(s)) /\ Len(Tail(s)) = Len(s) - 1
           /\ \A i \in 1..Len(s) - 1 : Tail(s)[i] = s[i + 1]
<1>1. s \in Seq(Range(s)) /\ Len(s) \in Nat
  BY SeqIs DEF IsSeq
<1>2. s # <<>>
  BY NoneIs
<1> DEFINE U == Range(s)
<1> HIDE DEF U
<1>3. Tail(s) \in Seq(U) /\ Len(Tail(s)) = Len(s) - 1 /\ \A i \in 1..Len(s) - 1 : Tail(s)[i] = s[i + 1]
  BY <1>1, <1>2 DEF U
<1>4. IsSeq(Tail(s))
  BY <1>3, SomeSeq
<1>5. QED
  BY <1>3, <1>4

\* ... and without the last
LEMMA FrontIs ==
    ASSUME NEW s, IsSeq(s), Len(s) > 0
    PROVE  /\ IsSeq(Front(s)) /\ Len(Front(s)) = Len(s) - 1 /\ Last(s) = s[Len(s)]
           /\ \A i \in 1..Len(s) - 1 : Front(s)[i] = s[i]
<1>1. Len(s) \in Nat
  BY SeqIs
<1>2. 1 \in 1..Len(s) + 1 /\ Len(s) - 1 \in 0..Len(s)
  BY <1>1
<1> DEFINE r == SubSeq(s, 1, Len(s) - 1)
           m == Len(s) - 1
<1>3. Front(s) = r /\ Last(s) = s[Len(s)]
  BY DEF Front, Last
<1>4. /\ IsSeq(r) /\ Len(r) = IF 1 <= m THEN m - 1 + 1 ELSE 0
      /\ \A i \in 1..Len(r) : r[i] = s[1 + i - 1]
  BY <1>2, PartIs
<1> HIDE DEF r
<1>5. Len(r) = Len(s) - 1
  BY <1>1, <1>4
<1>6. \A i \in 1..Len(s) - 1 : r[i] = s[i]
  <2>1. \A i \in 1..Len(s) - 1 : 1 + i - 1 = i
    OBVIOUS
  <2>2. QED
    BY <1>4, <1>5, <2>1
<1>7. QED
  BY <1>3, <1>4, <1>5, <1>6

\* A part of a chain is a list.
LEMMA GraphsAre ==
    ASSUME NEW n \in Nat, NEW c
    PROVE  LET s == [i \in 1..n |-> c[i]] IN IsSeq(s) /\ Len(s) = n
<1> DEFINE s == [i \in 1..n |-> c[i]]
<1>1. DOMAIN s = 1..n /\ s = [i \in DOMAIN s |-> s[i]]
  OBVIOUS
<1> HIDE DEF s
<1>2. IsSeq(s) /\ Len(s) = n
  BY <1>1, ListIs
<1>3. QED
  BY <1>2 DEF s

\* An entry more is a graph more to go back to, and if there are too many the
\* oldest of both is forgotten.
LEMMA PushedIs ==
    ASSUME NEW s, IsSeq(s), NEW p, NEW c, Behind(c, s, p), NEW q, NEW inv, Undoes(q, inv, p)
    PROVE  /\ IsSeq(Push(s, inv)) /\ \E d : Behind(d, Push(s, inv), q)
           /\ GraphsBehind(Push(s, inv), q) = Snapshots!Remember(GraphsBehind(s, p), p)
<1> DEFINE L == Len(s)
           a == Append(s, inv)
           e == [i \in 1..L + 2 |-> IF i = L + 2 THEN q ELSE c[i]]
           G == GraphsBehind(s, p)
           H == Append(G, p)
<1>1. L \in Nat /\ Depth \in Nat
  BY SeqIs, DepthAssumption
<1>2. IsSeq(a) /\ Len(a) = L + 1 /\ a[L + 1] = inv /\ \A i \in 1..L : a[i] = s[i]
  BY AppendedIs
<1>3. e[L + 2] = q /\ \A i \in 1..L + 1 : e[i] = c[i]
  BY <1>1
<1>4. c[L + 1] = p /\ \A i \in 1..L : Undoes(c[i + 1], s[i], c[i])
  BY DEF Behind
<1>5. G = [i \in 1..L |-> c[i]]
  BY BehindIs
<1> HIDE DEF a, e, G
<1>6. Behind(e, a, q)
  <2>1. ASSUME NEW i \in 1..L + 1 PROVE Undoes(e[i + 1], a[i], e[i])
    <3>1. CASE i = L + 1
      <4>1. i + 1 = L + 2
        BY <1>1, <3>1
      <4>2. QED
        BY <1>2, <1>3, <1>4, <3>1, <4>1
    <3>2. CASE i # L + 1
      <4>1. i \in 1..L /\ i + 1 \in 1..L + 1
        BY <1>1, <3>2
      <4>2. QED
        BY <1>2, <1>3, <1>4, <4>1
    <3>3. QED
      BY <3>1, <3>2
  <2>2. L + 1 + 1 = L + 2
    BY <1>1
  <2>3. QED
    BY <1>2, <1>3, <2>1, <2>2 DEF Behind
<1>7. IsSeq(G) /\ Len(G) = L /\ \A i \in 1..L : G[i] = c[i]
  BY <1>1, <1>5, GraphsAre
<1>8. IsSeq(H) /\ Len(H) = L + 1 /\ \A i \in 1..L + 1 : H[i] = e[i]
  <2>1. IsSeq(H) /\ Len(H) = L + 1 /\ H[L + 1] = p /\ \A i \in 1..L : H[i] = G[i]
    BY <1>7, AppendedIs
  <2> HIDE DEF H
  <2>2. \A i \in 1..L + 1 : H[i] = e[i]
    <3>1. SUFFICES ASSUME NEW i \in 1..L + 1 PROVE H[i] = e[i]
      OBVIOUS
    <3>2. CASE i = L + 1
      BY <1>3, <1>4, <2>1, <3>2
    <3>3. CASE i # L + 1
      <4>1. i \in 1..L
        BY <1>1, <3>3
      <4>2. QED
        BY <1>3, <1>7, <2>1, <4>1
    <3>4. QED
      BY <3>2, <3>3
  <2>3. QED
    BY <2>1, <2>2
<1>9. Push(s, inv) = (IF Len(a) > Depth THEN Tail(a) ELSE a)
  BY DEF Push, a
<1>10. Snapshots!Remember(G, p) = (IF Len(H) > Depth THEN Tail(H) ELSE H)
  BY DEF Snapshots!Remember
<1> HIDE DEF H
<1>11. CASE ~(L + 1 > Depth)
  <2>1. Push(s, inv) = a /\ Snapshots!Remember(G, p) = H
    BY <1>2, <1>8, <1>9, <1>10, <1>11
  <2>2. GraphsBehind(a, q) = [i \in 1..L + 1 |-> e[i]]
    BY <1>2, <1>6, BehindIs
  <2>3. IsSeq(GraphsBehind(a, q)) /\ Len(GraphsBehind(a, q)) = L + 1
    BY <1>1, <2>2, GraphsAre
  <2>4. GraphsBehind(a, q) = H
    BY <1>8, <2>2, <2>3, SameSeq
  <2>5. QED
    BY <1>2, <1>6, <2>1, <2>4 DEF G
<1>12. CASE L + 1 > Depth
  <2> DEFINE d == [i \in 1..L + 1 |-> e[i + 1]]
             u == Tail(a)
  <2>1. Push(s, inv) = u /\ Snapshots!Remember(G, p) = Tail(H)
    BY <1>2, <1>8, <1>9, <1>10, <1>12
  <2>2. Len(a) > 0 /\ Len(H) > 0
    BY <1>1, <1>2, <1>8
  <2>3. IsSeq(u) /\ Len(u) = L /\ \A i \in 1..L : u[i] = a[i + 1]
    BY <1>1, <1>2, <2>2, TailIs
  <2>4. IsSeq(Tail(H)) /\ Len(Tail(H)) = L /\ \A i \in 1..L : Tail(H)[i] = H[i + 1]
    BY <1>1, <1>8, <2>2, TailIs
  <2>5. \A i \in 1..L + 1 : d[i] = e[i + 1]
    OBVIOUS
  <2> HIDE DEF u, d
  <2>6. Behind(d, u, q)
    <3>1. ASSUME NEW i \in 1..L PROVE Undoes(d[i + 1], u[i], d[i])
      <4>1. i + 1 \in 1..L + 1 /\ i \in 1..L + 1
        BY <1>1
      <4>2. Undoes(e[(i + 1) + 1], a[i + 1], e[i + 1])
        BY <1>2, <1>6, <4>1 DEF Behind
      <4>3. QED
        BY <2>3, <2>5, <4>1, <4>2
    <3>2. L + 1 \in 1..L + 1 /\ L + 1 + 1 = L + 2
      BY <1>1
    <3>3. d[L + 1] = q
      BY <1>3, <2>5, <3>2
    <3>4. QED
      BY <2>3, <3>1, <3>3 DEF Behind
  <2>7. GraphsBehind(u, q) = [i \in 1..L |-> d[i]]
    BY <2>3, <2>6, BehindIs
  <2>8. IsSeq(GraphsBehind(u, q)) /\ Len(GraphsBehind(u, q)) = L
    BY <1>1, <2>7, GraphsAre
  <2>9. \A i \in 1..L : GraphsBehind(u, q)[i] = Tail(H)[i]
    <3>1. SUFFICES ASSUME NEW i \in 1..L PROVE d[i] = Tail(H)[i]
      BY <2>7
    <3>2. i \in 1..L + 1 /\ i + 1 \in 1..L + 1
      BY <1>1
    <3>3. QED
      BY <1>8, <2>4, <2>5, <3>2
  <2>10. GraphsBehind(u, q) = Tail(H)
    BY <2>4, <2>8, <2>9, SameSeq
  <2>11. QED
    BY <2>1, <2>3, <2>6, <2>10 DEF G
<1>13. QED
  BY <1>1, <1>11, <1>12

-----------------------------------------------------------------------------
(* The history implements snapshots                                          *)

\* The graph has no id twice; the inverses a gesture has recorded lead back to
\* the graph it began with, and the entries to undo from there to the graph
\* before each of them; the entries to redo lead forth from the graph.
Kept(p, d, u, g) ==
    /\ Wf(p) /\ IsSeq(d) /\ IsSeq(u)
    /\ g = [open |-> g.open, changes |-> g.changes] /\ g.open \in BOOLEAN
    /\ ~g.open => g.changes = <<>>
    /\ \E from : Undoes(p, g.changes, from) /\ \E c : Behind(c, d, from)
    /\ \E f : Ahead(f, u, p)
HistoryInv == Kept(project, done, undone, gesture) /\ (Evaluates(project) => evaluates)

\* A gesture that recorded nothing began with the graph there is.
LEMMA NothingRecorded ==
    ASSUME NEW p, Wf(p)
    PROVE  Undoes(p, <<>>, p) /\ Revert(p, <<>>).project = p
BY UndoesNothing, RevertLeads

\* Once the gesture under way is an entry, the entries lead back from the graph.
LEMMA SettledIs ==
    ASSUME Kept(project, done, undone, gesture)
    PROVE  /\ IsSeq(Settled) /\ \E c : Behind(c, Settled, project)
           /\ GraphsBehind(Settled, project) = Snapshots!Settled
<1>1. PICK from : Undoes(project, gesture.changes, from) /\ \E c : Behind(c, done, from)
  BY DEF Kept
<1>2. PICK c : Behind(c, done, from)
  BY <1>1
<1>3. Revert(project, gesture.changes).project = from
  BY <1>1, RevertLeads
<1>4. /\ Wf(project) /\ IsSeq(done) /\ gesture.open \in BOOLEAN
      /\ ~gesture.open => gesture.changes = <<>>
  BY DEF Kept
<1>5. CASE gesture.open /\ gesture.changes # <<>>
  <2>1. Settled = Push(done, gesture.changes)
    BY <1>5 DEF Settled
  <2>2. Snapshots!Settled = Snapshots!Remember(PastGraphs, from)
    BY <1>3, <1>5 DEF Snapshots!Settled, GestureFrom
  <2>3. PastGraphs = GraphsBehind(done, from)
    BY <1>3 DEF PastGraphs, GestureFrom
  <2>4. QED
    BY <1>1, <1>2, <1>4, <2>1, <2>2, <2>3, PushedIs
<1>6. CASE ~(gesture.open /\ gesture.changes # <<>>)
  <2>1. Settled = done
    BY <1>6 DEF Settled
  <2>2. gesture.changes = <<>>
    BY <1>4, <1>6
  <2>3. from = project
    BY <1>3, <1>4, <2>2, NothingRecorded
  <2>4. Snapshots!Settled = PastGraphs
    BY <1>6 DEF Snapshots!Settled
  <2>5. PastGraphs = GraphsBehind(done, project)
    BY <1>3, <2>3 DEF PastGraphs, GestureFrom
  <2>6. QED
    BY <1>2, <1>4, <2>1, <2>3, <2>4, <2>5
<1>7. QED
  BY <1>5, <1>6

\* No entries, no graphs
LEMMA NothingBehind ==
    ASSUME NEW p
    PROVE  /\ \E c : Behind(c, <<>>, p)
           /\ \E c : Ahead(c, <<>>, p)
           /\ GraphsBehind(<<>>, p) = <<>> /\ GraphsAhead(<<>>, p) = <<>>
<1> DEFINE c == [i \in 1..1 |-> p]
<1>1. c[1] = p
  OBVIOUS
<1> HIDE DEF c
<1>2. IsSeq(<<>>) /\ Len(<<>>) = 0
  BY NoneIs
<1>3. Behind(c, <<>>, p) /\ Ahead(c, <<>>, p)
  BY <1>1, <1>2 DEF Behind, Ahead
<1>4. GraphsBehind(<<>>, p) = [i \in 1..0 |-> c[i]] /\ GraphsAhead(<<>>, p) = [i \in 1..0 |-> c[i]]
  BY <1>2, <1>3, BehindIs, AheadIs
<1>5. IsSeq([i \in 1..0 |-> c[i]]) /\ Len([i \in 1..0 |-> c[i]]) = 0
  BY GraphsAre
<1>6. [i \in 1..0 |-> c[i]] = <<>>
  BY <1>2, <1>5, SameSeq
<1>7. QED
  BY <1>3, <1>4, <1>6

\* A project just opened has no entries, and no id twice (ProjectsAssumption).
LEMMA InitHolds ==
    ASSUME Init
    PROVE  HistoryInv /\ Snapshots!Init
<1>1. project \in Seq(TrackType) /\ IdsOnce(project)
  BY ProjectsAssumption DEF Init
<1>2. IsSeq(project) /\ DOMAIN project = 1..Len(project) /\ \A i \in 1..Len(project) : project[i] \in TrackType
  <2>1. \A i \in 1..Len(project) : project[i] \in TrackType
    BY <1>1
  <2>2. IsSeq(project)
    BY <1>1, SomeSeq
  <2>3. QED
    BY <2>1, <2>2, SeqIs
<1>3. ASSUME NEW i \in 1..Len(project)
      PROVE  IsTrack(project[i]) /\ DOMAIN project[i].clips = 1..Len(project[i].clips)
  <2> DEFINE t == project[i]
  <2>1. t \in TrackType
    BY <1>2
  <2> HIDE DEF t
  <2>2. t = TrackOf(t, t.clips) /\ t.id \in Nat /\ t.clips \in Seq(ClipType)
    BY <2>1 DEF TrackType, TrackOf
  <2> DEFINE s == t.clips
  <2>3. s \in Seq(ClipType)
    BY <2>2
  <2> HIDE DEF s
  <2>4. IsSeq(s) /\ \A j \in 1..Len(s) : s[j] \in ClipType
    BY <2>3, SomeSeq
  <2>5. \A k : k \in ClipType => IsClip(k)
    BY DEF ClipType, IsClip
  <2>6. AreClips(s) /\ DOMAIN s = 1..Len(s)
    BY <2>4, <2>5, SeqIs DEF AreClips
  <2>7. IsTrack(t) /\ DOMAIN t.clips = 1..Len(t.clips)
    BY <2>2, <2>6 DEF IsTrack, s
  <2>8. QED
    BY <2>7 DEF t
<1>4. Wf(project)
  <2>1. Shape(project)
    BY <1>2, <1>3 DEF Shape
  <2>2. OneTrackEach(project)
    BY <1>1, <1>2 DEF IdsOnce, OneTrackEach
  <2>3. OnePlaceEach(project)
    <3>1. SUFFICES ASSUME NEW x, NEW i, NEW j, NEW k, NEW l, Sits(project, x, i, j), Sits(project, x, k, l)
                   PROVE  i = k /\ j = l
      BY DEF OnePlaceEach
    <3>2. /\ i \in DOMAIN project /\ j \in DOMAIN project[i].clips
          /\ k \in DOMAIN project /\ l \in DOMAIN project[k].clips
          /\ project[i].clips[j].id = project[k].clips[l].id
      BY <1>2, <1>3, <3>1 DEF Sits
    <3>3. QED
      BY <1>1, <3>2 DEF IdsOnce
  <2>4. QED
    BY <2>1, <2>2, <2>3 DEF Wf
<1>5. done = <<>> /\ undone = <<>> /\ gesture = NoGesture /\ evaluates = Evaluates(project)
  BY DEF Init
<1>6. Undoes(project, <<>>, project)
  BY <1>4, NothingRecorded
<1>7. gesture.open = FALSE /\ gesture.changes = <<>> /\ gesture = [open |-> gesture.open, changes |-> gesture.changes]
  BY <1>5 DEF NoGesture
<1>8. Kept(project, done, undone, gesture)
  BY <1>4, <1>5, <1>6, <1>7, NoneIs, NothingBehind DEF Kept
<1>9. PastGraphs = <<>> /\ FutureGraphs = <<>>
  BY <1>5, NothingBehind DEF PastGraphs, FutureGraphs
<1>10. QED
  BY <1>5, <1>7, <1>8, <1>9 DEF HistoryInv, Snapshots!Init, Snapshots!Closed

\* What is to be shown of a step
Kept1 == Kept(project', done', undone', gesture') /\ (Evaluates(project') => evaluates')

\* An edit that is kept: its inverses are an entry of their own, or coalesced with
\* those of the gesture under way, and what was undone can no longer be redone
\* (edit.rs: commit).
LEMMA CommitHolds ==
    ASSUME HistoryInv, NEW edit, NEW chs, Tidy(project, chs), chs # <<>>,
           Commit(edit, ApplyAll(project, chs))
    PROVE  Kept1 /\ Snapshots!Edit
<1> DEFINE result == ApplyAll(project, chs)
           q == result.project
           inv == result.inverses
<1>1. Orderly(project, chs) /\ IsSeq(chs)
  BY TidyIsOrderly DEF Tidy
<1>2. AppliedTo(result, project, chs, Len(chs))
  BY <1>1, ApplyIs
<1>3. /\ result.ok /\ (evaluates => Evaluates(q)) /\ project' = q /\ evaluates' = TRUE /\ undone' = <<>>
      /\ IF gesture.open
         THEN gesture' = [gesture EXCEPT !.changes = Coalesce(@, inv)] /\ done' = done
         ELSE done' = Push(done, inv) /\ gesture' = gesture
  BY DEF Commit, UndoneAfterEdit
<1> HIDE DEF result
<1>4. Undoes(q, inv, project) /\ Len(inv) = Len(chs) /\ Forth(project, chs, Len(chs), q)
  BY <1>2, <1>3 DEF AppliedTo
<1>5. inv # <<>>
  <2>1. Len(chs) # 0
    BY <1>1, NoneIs, SameSeq
  <2>2. QED
    BY <1>4, <2>1, NoneIs
<1> HIDE DEF q, inv
<1>6. Wf(q)
  BY <1>4 DEF Undoes, Backs
<1>7. PICK from : Undoes(project, gesture.changes, from) /\ \E c : Behind(c, done, from)
  BY DEF HistoryInv, Kept
<1>8. PICK c : Behind(c, done, from)
  BY <1>7
<1>9. /\ Wf(project) /\ IsSeq(done) /\ gesture.open \in BOOLEAN
      /\ gesture = [open |-> gesture.open, changes |-> gesture.changes]
      /\ ~gesture.open => gesture.changes = <<>>
  BY DEF HistoryInv, Kept
<1>10. GestureFrom = from
  BY <1>7, RevertLeads DEF GestureFrom
<1>11. FutureGraphs' = <<>>
  BY <1>3, NothingBehind DEF FutureGraphs
<1>12. Evaluates(project) => Evaluates(project')
  BY <1>3 DEF HistoryInv
<1>13. CASE gesture.open
  <2> DEFINE changes == Coalesce(gesture.changes, inv)
  <2>1. gesture' = [open |-> TRUE, changes |-> changes] /\ done' = done
    BY <1>3, <1>9, <1>13
  <2>2. Undoes(q, changes, from) /\ changes # <<>>
    BY <1>4, <1>5, <1>7, CoalesceUndoes
  <2> HIDE DEF changes
  <2>3. Revert(q, changes).project = from
    BY <2>2, RevertLeads
  <2>4. gesture'.open = TRUE /\ gesture'.changes = changes
    BY <2>1
  <2>5. Kept(project', done', undone', gesture')
    BY <1>3, <1>6, <1>7, <1>9, <2>1, <2>2, <2>4, NoneIs, NothingBehind DEF Kept
  <2>6. GestureFrom' = from
    BY <1>3, <2>3, <2>4 DEF GestureFrom
  <2>7. PastGraphs' = PastGraphs
    BY <1>10, <2>1, <2>6 DEF PastGraphs
  <2> DEFINE Seen == IF gesture.open
                     THEN [open |-> TRUE, changed |-> gesture.changes # <<>>, from |-> GestureFrom]
                     ELSE [open |-> FALSE, changed |-> FALSE, from |-> <<>>]
  <2>8. Seen = [open |-> TRUE, changed |-> gesture.changes # <<>>, from |-> from]
    BY <1>10, <1>13
  <2>9. Seen' = [open |-> TRUE, changed |-> TRUE, from |-> from]
    BY <2>2, <2>4, <2>6
  <2> DEFINE Edited1 == /\ FutureGraphs' = <<>>
                        /\ Evaluates(project) => Evaluates(project')
                        /\ IF Seen.open THEN Seen' = [Seen EXCEPT !.changed = TRUE] /\ PastGraphs' = PastGraphs
                           ELSE PastGraphs' = Snapshots!Remember(PastGraphs, project) /\ Seen' = Seen
  <2>10. Edited1 => Snapshots!Edit
    BY DEF Snapshots!Edit
  <2> HIDE DEF Seen
  <2>14. Seen.open /\ Seen' = [Seen EXCEPT !.changed = TRUE]
    <3> DEFINE yes == TRUE
    <3>1. \A a, b, x, f : [[open |-> a, changed |-> x, from |-> f] EXCEPT !.changed = b]
                              = [open |-> a, changed |-> b, from |-> f]
      OBVIOUS
    <3>2. PICK x : Seen = [open |-> yes, changed |-> x, from |-> from]
      BY <2>8
    <3>3. Seen' = [open |-> yes, changed |-> yes, from |-> from]
      BY <2>9
    <3> HIDE DEF yes
    <3>4. Seen.open = yes
      BY <3>2
    <3>5. Seen' = [Seen EXCEPT !.changed = yes]
      BY <3>1, <3>2, <3>3
    <3>6. QED
      BY <3>4, <3>5, Zenon DEF yes
  <2>11. Edited1
    BY <1>11, <1>12, <2>7, <2>14
  <2>12. Kept1
    BY <1>3, <2>5 DEF Kept1
  <2>13. QED
    BY <2>10, <2>11, <2>12
<1>14. CASE ~gesture.open
  <2>1. done' = Push(done, inv) /\ gesture' = gesture
    BY <1>3, <1>14
  <2>2. from = project
    BY <1>9, <1>10, <1>14, NothingRecorded DEF GestureFrom
  <2>3. gesture'.changes = <<>> /\ gesture'.open = FALSE
    BY <1>9, <1>14, <2>1
  <2>4. Undoes(q, <<>>, q) /\ Revert(q, <<>>).project = q
    BY <1>6, NothingRecorded
  <2>5. /\ IsSeq(Push(done, inv)) /\ \E d : Behind(d, Push(done, inv), q)
        /\ GraphsBehind(Push(done, inv), q) = Snapshots!Remember(GraphsBehind(done, project), project)
    BY <1>4, <1>8, <1>9, <2>2, PushedIs
  <2>6. Kept(project', done', undone', gesture')
    BY <1>3, <1>6, <1>9, <2>1, <2>3, <2>4, <2>5, NoneIs, NothingBehind DEF Kept
  <2>7. PastGraphs' = Snapshots!Remember(PastGraphs, project)
    BY <1>3, <1>10, <2>1, <2>2, <2>3, <2>4, <2>5 DEF PastGraphs, GestureFrom
  <2>8. QED
    BY <1>3, <1>11, <1>12, <1>14, <2>3, <2>6, <2>7 DEF Kept1, Snapshots!Edit
<1>15. QED
  BY <1>9, <1>13, <1>14

\* An edit that does not evaluate is taken back, as if it had never been
\* (edit.rs: commit).
LEMMA RollBackHolds ==
    ASSUME HistoryInv, NEW chs, Tidy(project, chs), RollBack(ApplyAll(project, chs))
    PROVE  Kept1 /\ UNCHANGED Snapshots!vars
<1> DEFINE result == ApplyAll(project, chs)
<1>1. AppliedTo(result, project, chs, Len(chs))
  BY TidyIsOrderly, ApplyIs
<1>2. project' = Revert(result.project, result.inverses).project /\ UNCHANGED <<done, undone, gesture, evaluates>>
  BY DEF RollBack
<1> HIDE DEF result
<1>3. project' = project
  BY <1>1, <1>2, RevertLeads DEF AppliedTo
<1>4. Kept1
  BY <1>2, <1>3 DEF HistoryInv, Kept1
<1>5. GestureFrom' = GestureFrom
  BY <1>2, <1>3 DEF GestureFrom
<1>6. PastGraphs' = PastGraphs /\ FutureGraphs' = FutureGraphs
  BY <1>2, <1>3, <1>5 DEF PastGraphs, FutureGraphs
<1>7. QED
  BY <1>2, <1>3, <1>4, <1>5, <1>6 DEF Snapshots!vars

\* A gesture begins with the graph there is, and ends as one entry, or none
\* (edit.rs: begin_gesture, end_gesture).
LEMMA GestureHolds ==
    ASSUME HistoryInv, BeginGesture \/ EndGesture
    PROVE  Kept1 /\ (Snapshots!Begin \/ Snapshots!End)
<1>1. /\ done' = Settled /\ project' = project /\ undone' = undone /\ evaluates' = evaluates
      /\ \/ gesture' = [open |-> TRUE, changes |-> <<>>]
         \/ gesture' = [open |-> FALSE, changes |-> <<>>]
  BY DEF BeginGesture, EndGesture, NoGesture
<1>2. Kept(project, done, undone, gesture)
  BY DEF HistoryInv
<1>3. /\ IsSeq(Settled) /\ \E c : Behind(c, Settled, project)
      /\ GraphsBehind(Settled, project) = Snapshots!Settled
  BY <1>2, SettledIs
<1>4. /\ gesture' = [open |-> gesture'.open, changes |-> <<>>] /\ gesture'.open \in BOOLEAN
      /\ gesture'.changes = <<>>
  <2>1. CASE gesture' = [open |-> TRUE, changes |-> <<>>]
    BY <2>1
  <2>2. CASE gesture' = [open |-> FALSE, changes |-> <<>>]
    BY <2>2
  <2>3. QED
    BY <1>1, <2>1, <2>2
<1>5. Undoes(project, <<>>, project) /\ Revert(project, <<>>).project = project
  BY <1>2, NothingRecorded DEF Kept
<1>6. Kept(project', done', undone', gesture')
  BY <1>1, <1>2, <1>3, <1>4, <1>5 DEF Kept
<1>7. GestureFrom' = project
  BY <1>1, <1>4, <1>5 DEF GestureFrom
<1>8. PastGraphs' = Snapshots!Settled /\ FutureGraphs' = FutureGraphs
  BY <1>1, <1>3, <1>7 DEF PastGraphs, FutureGraphs
<1>9. Kept1
  BY <1>1, <1>6 DEF HistoryInv, Kept1
<1>10. CASE gesture' = [open |-> TRUE, changes |-> <<>>]
  <2>1. Snapshots!Begin
    BY <1>1, <1>7, <1>8, <1>10 DEF Snapshots!Begin
  <2>2. QED
    BY <1>9, <2>1
<1>11. CASE gesture' = [open |-> FALSE, changes |-> <<>>]
  <2>1. Snapshots!End
    BY <1>1, <1>7, <1>8, <1>11 DEF Snapshots!End, Snapshots!Closed
  <2>2. QED
    BY <1>9, <2>1
<1>12. QED
  BY <1>1, <1>10, <1>11

\* A list that is not empty has an entry.
LEMMA NotEmpty ==
    ASSUME NEW s, IsSeq(s), s # <<>>
    PROVE  Len(s) \in Nat /\ Len(s) > 0
<1>1. Len(s) \in Nat
  BY SeqIs
<1>2. Len(s) # 0
  BY NoneIs, SameSeq
<1>3. QED
  BY <1>1, <1>2

\* Undo goes back to the graph before the last entry, and redo would come back
\* (edit.rs: undo).
LEMMA UndoHolds ==
    ASSUME HistoryInv, Undo
    PROVE  Kept1 /\ Snapshots!Undo
<1> DEFINE s == Settled
           L == Len(s)
           U == Len(undone)
           result == Revert(project, Last(s))
           q == result.project
           new == result.forward
<1>1. /\ s # <<>> /\ project' = q /\ undone' = Append(undone, new) /\ evaluates' = Evaluates(q)
      /\ done' = Front(s) /\ gesture' = [open |-> FALSE, changes |-> <<>>]
  BY DEF Undo, NoGesture
<1>2. Kept(project, done, undone, gesture)
  BY DEF HistoryInv
<1>3. /\ IsSeq(s) /\ \E c : Behind(c, s, project)
      /\ GraphsBehind(s, project) = Snapshots!Settled
  BY <1>2, SettledIs
<1> HIDE DEF s
<1>4. PICK c : Behind(c, s, project)
  BY <1>3
<1>5. PICK f : Ahead(f, undone, project)
  BY <1>2 DEF Kept
<1>6. IsSeq(undone) /\ U \in Nat
  BY <1>2, SeqIs DEF Kept
<1>7. L \in Nat /\ L > 0 /\ L \in 1..L
  <2>1. L \in Nat /\ L > 0
    BY <1>1, <1>3, NotEmpty
  <2>2. QED
    BY <2>1
<1>8. /\ IsSeq(Front(s)) /\ Len(Front(s)) = L - 1 /\ Last(s) = s[L]
      /\ \A i \in 1..L - 1 : Front(s)[i] = s[i]
  BY <1>3, <1>7, FrontIs
<1>9. c[L + 1] = project /\ Undoes(project, s[L], c[L]) /\ \A i \in 1..L : Undoes(c[i + 1], s[i], c[i])
  BY <1>4, <1>7 DEF Behind
<1>10. q = c[L] /\ Leading(c[L], new, project)
  BY <1>8, <1>9, RevertLeads
<1> HIDE DEF q, new, L, U
<1>11. Wf(q)
  BY <1>9, <1>10 DEF Undoes, Backs
<1>12. Behind(c, Front(s), q)
  <2>1. L - 1 + 1 = L /\ \A i \in 1..L - 1 : i \in 1..L
    BY <1>7
  <2>2. QED
    BY <1>8, <1>9, <1>10, <2>1 DEF Behind
<1> DEFINE a == Append(undone, new)
           e == [i \in 1..U + 2 |-> IF i = U + 2 THEN q ELSE f[i]]
<1>13. IsSeq(a) /\ Len(a) = U + 1 /\ a[U + 1] = new /\ \A i \in 1..U : a[i] = undone[i]
  BY <1>6, AppendedIs DEF U
<1>14. e[U + 2] = q /\ \A i \in 1..U + 1 : e[i] = f[i]
  BY <1>6
<1>15. f[U + 1] = project /\ \A i \in 1..U : Leading(f[i + 1], undone[i], f[i])
  BY <1>5 DEF Ahead, U
<1> HIDE DEF a, e
<1>16. Ahead(e, a, q)
  <2>1. ASSUME NEW i \in 1..U + 1 PROVE Leading(e[i + 1], a[i], e[i])
    <3>1. CASE i = U + 1
      <4>1. i + 1 = U + 2
        BY <1>6, <3>1
      <4>2. QED
        BY <1>10, <1>13, <1>14, <1>15, <3>1, <4>1
    <3>2. CASE i # U + 1
      <4>1. i \in 1..U /\ i + 1 \in 1..U + 1
        BY <1>6, <3>2
      <4>2. QED
        BY <1>13, <1>14, <1>15, <4>1
    <3>3. QED
      BY <3>1, <3>2
  <2>2. U + 1 + 1 = U + 2
    BY <1>6
  <2>3. QED
    BY <1>13, <1>14, <2>1, <2>2 DEF Ahead
<1>17. Undoes(q, <<>>, q) /\ Revert(q, <<>>).project = q
  BY <1>11, NothingRecorded
<1>18. gesture'.changes = <<>> /\ gesture'.open = FALSE
  BY <1>1
<1>19. Kept(project', done', undone', gesture')
  BY <1>1, <1>8, <1>11, <1>12, <1>13, <1>16, <1>17, <1>18 DEF Kept, a
<1>20. Kept1
  BY <1>1, <1>19 DEF Kept1
<1>21. GestureFrom' = q
  BY <1>1, <1>17, <1>18 DEF GestureFrom
<1>22. FutureGraphs' = Append(FutureGraphs, project)
  <2> DEFINE G == [i \in 1..U |-> f[i]]
             H == [i \in 1..U + 1 |-> e[i]]
  <2>1. FutureGraphs = G
    BY <1>5, <1>6, AheadIs DEF FutureGraphs, U
  <2>2. FutureGraphs' = H
    <3>1. undone' = a /\ project' = q
      BY <1>1 DEF a
    <3>2. GraphsAhead(a, q) = H
      BY <1>13, <1>16, AheadIs
    <3>3. QED
      BY <3>1, <3>2 DEF FutureGraphs
  <2>3. IsSeq(G) /\ Len(G) = U /\ IsSeq(H) /\ Len(H) = U + 1
    BY <1>6, GraphsAre
  <2>4. (\A i \in 1..U : G[i] = f[i]) /\ (\A i \in 1..U + 1 : H[i] = e[i])
    OBVIOUS
  <2> HIDE DEF G, H
  <2>5. /\ IsSeq(Append(G, project)) /\ Len(Append(G, project)) = U + 1
        /\ Append(G, project)[U + 1] = project /\ \A i \in 1..U : Append(G, project)[i] = G[i]
    BY <2>3, AppendedIs
  <2>6. \A i \in 1..U + 1 : H[i] = Append(G, project)[i]
    <3>1. SUFFICES ASSUME NEW i \in 1..U + 1 PROVE H[i] = Append(G, project)[i]
      OBVIOUS
    <3>2. CASE i = U + 1
      BY <1>14, <1>15, <2>4, <2>5, <3>2
    <3>3. CASE i # U + 1
      <4>1. i \in 1..U
        BY <1>6, <3>3
      <4>2. QED
        BY <1>14, <2>4, <2>5, <4>1
    <3>4. QED
      BY <3>2, <3>3
  <2>7. H = Append(G, project)
    BY <2>3, <2>5, <2>6, SameSeq
  <2>8. QED
    BY <2>1, <2>2, <2>7
<1>23. Append(PastGraphs', q) = Snapshots!Settled /\ Snapshots!Settled # <<>>
  <2> DEFINE G == [i \in 1..L - 1 |-> c[i]]
             H == [i \in 1..L |-> c[i]]
  <2>1. PastGraphs' = G
    BY <1>1, <1>8, <1>12, <1>21, BehindIs DEF PastGraphs
  <2>2. Snapshots!Settled = H
    BY <1>3, <1>4, BehindIs DEF L
  <2>3. L - 1 \in Nat
    BY <1>7
  <2>4. IsSeq(G) /\ Len(G) = L - 1 /\ IsSeq(H) /\ Len(H) = L
    BY <1>7, <2>3, GraphsAre
  <2>5. (\A i \in 1..L - 1 : G[i] = c[i]) /\ (\A i \in 1..L : H[i] = c[i])
    OBVIOUS
  <2> HIDE DEF G, H
  <2>6. /\ IsSeq(Append(G, q)) /\ Len(Append(G, q)) = L - 1 + 1
        /\ Append(G, q)[L - 1 + 1] = q /\ \A i \in 1..L - 1 : Append(G, q)[i] = G[i]
    BY <2>4, AppendedIs
  <2>7. L - 1 + 1 = L
    BY <1>7
  <2>8. \A i \in 1..L : H[i] = Append(G, q)[i]
    <3>1. SUFFICES ASSUME NEW i \in 1..L PROVE H[i] = Append(G, q)[i]
      OBVIOUS
    <3>2. CASE i = L
      BY <1>7, <1>10, <2>5, <2>6, <2>7, <3>2
    <3>3. CASE i # L
      <4>1. i \in 1..L - 1
        BY <1>7, <3>3
      <4>2. QED
        BY <2>5, <2>6, <4>1
    <3>4. QED
      BY <3>2, <3>3
  <2>9. H = Append(G, q)
    BY <2>4, <2>6, <2>7, <2>8, SameSeq
  <2>10. H # <<>>
    BY <1>7, <2>4, NoneIs
  <2>11. QED
    BY <2>1, <2>2, <2>9, <2>10
<1>24. Snapshots!Undo
  BY <1>1, <1>18, <1>22, <1>23 DEF Snapshots!Undo, Snapshots!Closed
<1>25. QED
  BY <1>20, <1>24

\* Redo comes forth to the graph that was undone, and undo would go back
\* (edit.rs: redo).
LEMMA RedoHolds ==
    ASSUME HistoryInv, Redo
    PROVE  Kept1 /\ Snapshots!Redo
<1> DEFINE s == Settled
           U == Len(undone)
           result == ApplyAll(project, Last(undone))
           q == result.project
           inv == result.inverses
<1>1. /\ undone # <<>> /\ undone' = Front(undone) /\ gesture' = [open |-> FALSE, changes |-> <<>>]
      /\ result.ok => project' = q /\ done' = Push(s, inv) /\ evaluates' = Evaluates(q)
  BY DEF Redo, NoGesture
<1>2. Kept(project, done, undone, gesture)
  BY DEF HistoryInv
<1>3. /\ IsSeq(s) /\ \E c : Behind(c, s, project)
      /\ GraphsBehind(s, project) = Snapshots!Settled
  BY <1>2, SettledIs
<1> HIDE DEF s
<1>4. PICK c : Behind(c, s, project)
  BY <1>3
<1>5. PICK f : Ahead(f, undone, project)
  BY <1>2 DEF Kept
<1>6. IsSeq(undone)
  BY <1>2 DEF Kept
<1>7. U \in Nat /\ U > 0 /\ U \in 1..U
  <2>1. U \in Nat /\ U > 0
    BY <1>1, <1>6, NotEmpty
  <2>2. QED
    BY <2>1
<1>8. /\ IsSeq(Front(undone)) /\ Len(Front(undone)) = U - 1 /\ Last(undone) = undone[U]
      /\ \A i \in 1..U - 1 : Front(undone)[i] = undone[i]
  BY <1>6, <1>7, FrontIs
<1>9. /\ f[U + 1] = project /\ Leading(project, undone[U], f[U])
      /\ \A i \in 1..U : Leading(f[i + 1], undone[i], f[i])
  BY <1>5, <1>7 DEF Ahead
<1>10. result.ok /\ q = f[U] /\ Undoes(f[U], inv, project)
  BY <1>8, <1>9, ApplyLeads
<1>11. project' = q /\ done' = Push(s, inv) /\ evaluates' = Evaluates(q) /\ Undoes(q, inv, project)
  BY <1>1, <1>10
<1> HIDE DEF q, inv, result, U
<1>12. Wf(q)
  BY <1>11 DEF Undoes, Backs
<1>13. Ahead(f, Front(undone), q)
  <2>1. U - 1 + 1 = U /\ \A i \in 1..U - 1 : i \in 1..U
    BY <1>7
  <2>2. QED
    BY <1>8, <1>9, <1>10, <2>1 DEF Ahead
<1>14. /\ IsSeq(Push(s, inv)) /\ \E d : Behind(d, Push(s, inv), q)
       /\ GraphsBehind(Push(s, inv), q) = Snapshots!Remember(GraphsBehind(s, project), project)
  BY <1>3, <1>4, <1>11, PushedIs
<1>15. Undoes(q, <<>>, q) /\ Revert(q, <<>>).project = q
  BY <1>12, NothingRecorded
<1>16. gesture'.changes = <<>> /\ gesture'.open = FALSE
  BY <1>1
<1>17. Kept(project', done', undone', gesture')
  BY <1>1, <1>8, <1>11, <1>12, <1>13, <1>14, <1>15, <1>16 DEF Kept
<1>18. Kept1
  BY <1>11, <1>17 DEF Kept1
<1>19. GestureFrom' = q
  BY <1>11, <1>15, <1>16 DEF GestureFrom
<1>20. PastGraphs' = Snapshots!Remember(Snapshots!Settled, project)
  BY <1>3, <1>11, <1>14, <1>19 DEF PastGraphs
<1>21. FutureGraphs = Append(FutureGraphs', q) /\ FutureGraphs # <<>>
  <2> DEFINE G == [i \in 1..U - 1 |-> f[i]]
             H == [i \in 1..U |-> f[i]]
  <2>1. FutureGraphs' = G
    BY <1>1, <1>8, <1>11, <1>13, AheadIs DEF FutureGraphs
  <2>2. FutureGraphs = H
    BY <1>5, <1>6, AheadIs DEF FutureGraphs, U
  <2>3. U - 1 \in Nat
    BY <1>7
  <2>4. IsSeq(G) /\ Len(G) = U - 1 /\ IsSeq(H) /\ Len(H) = U
    BY <1>7, <2>3, GraphsAre
  <2>5. (\A i \in 1..U - 1 : G[i] = f[i]) /\ (\A i \in 1..U : H[i] = f[i])
    OBVIOUS
  <2> HIDE DEF G, H
  <2>6. /\ IsSeq(Append(G, q)) /\ Len(Append(G, q)) = U - 1 + 1
        /\ Append(G, q)[U - 1 + 1] = q /\ \A i \in 1..U - 1 : Append(G, q)[i] = G[i]
    BY <2>4, AppendedIs
  <2>7. U - 1 + 1 = U
    BY <1>7
  <2>8. \A i \in 1..U : H[i] = Append(G, q)[i]
    <3>1. SUFFICES ASSUME NEW i \in 1..U PROVE H[i] = Append(G, q)[i]
      OBVIOUS
    <3>2. CASE i = U
      BY <1>7, <1>10, <2>5, <2>6, <2>7, <3>2
    <3>3. CASE i # U
      <4>1. i \in 1..U - 1
        BY <1>7, <3>3
      <4>2. QED
        BY <2>5, <2>6, <4>1
    <3>4. QED
      BY <3>2, <3>3
  <2>9. H = Append(G, q)
    BY <2>4, <2>6, <2>7, <2>8, SameSeq
  <2>10. H # <<>>
    BY <1>7, <2>4, NoneIs
  <2>11. QED
    BY <2>1, <2>2, <2>9, <2>10
<1>22. Snapshots!Redo
  BY <1>11, <1>16, <1>20, <1>21 DEF Snapshots!Redo, Snapshots!Closed
<1>23. QED
  BY <1>18, <1>22

\* Every step keeps the invariant, and is a step of the snapshots or none.
LEMMA StepHolds ==
    ASSUME HistoryInv, [Next]_vars
    PROVE  HistoryInv' /\ [Snapshots!Next]_(Snapshots!vars)
<1>1. HistoryInv' <=> Kept1
  BY DEF HistoryInv, Kept1
<1>2. CASE AnyEdit
  <2>1. PICK edit, chs : Changed(edit, chs)
    BY <1>2, EditsChange DEF HistoryInv, Kept
  <2>2. CASE Commit(edit, ApplyAll(project, chs))
    BY <1>1, <2>1, <2>2, CommitHolds DEF Changed, Snapshots!Next
  <2>3. CASE RollBack(ApplyAll(project, chs))
    BY <1>1, <2>1, <2>3, RollBackHolds DEF Changed
  <2>4. QED
    BY <2>1, <2>2, <2>3 DEF Changed
<1>3. CASE BeginGesture \/ EndGesture
  BY <1>1, <1>3, GestureHolds DEF Snapshots!Next
<1>4. CASE Undo
  BY <1>1, <1>4, UndoHolds DEF Snapshots!Next
<1>5. CASE Redo
  BY <1>1, <1>5, RedoHolds DEF Snapshots!Next
<1>6. CASE UNCHANGED vars
  <2>1. UNCHANGED <<project, done, undone, gesture, evaluates>>
    BY <1>6 DEF vars
  <2>2. GestureFrom' = GestureFrom
    BY <2>1 DEF GestureFrom
  <2>3. PastGraphs' = PastGraphs /\ FutureGraphs' = FutureGraphs
    BY <2>1, <2>2 DEF PastGraphs, FutureGraphs
  <2>4. UNCHANGED Snapshots!vars
    BY <2>1, <2>2, <2>3 DEF Snapshots!vars
  <2>5. Kept1
    BY <2>1 DEF HistoryInv, Kept1
  <2>6. QED
    BY <1>1, <2>4, <2>5
<1>7. QED
  BY <1>2, <1>3, <1>4, <1>5, <1>6 DEF Next

\* The history implements the snapshots: for any projects with no id twice, any
\* edits and any depth, entries that hold only inverses of changes undo and redo
\* exactly as whole copies of the graph would, and what is taken back was
\* never there (edit.rs: Document, commit, coalesce, undo, redo).
THEOREM HistoryImplementsSnapshots == Spec => ImplementsSnapshots
<1>1. Init => HistoryInv /\ Snapshots!Init
  BY InitHolds
<1>2. HistoryInv /\ [Next]_vars => HistoryInv' /\ [Snapshots!Next]_(Snapshots!vars)
  BY StepHolds
<1>3. QED
  BY <1>1, <1>2, PTL DEF Spec, ImplementsSnapshots, Snapshots!Spec
=============================================================================
