----------------------------- MODULE ParameterSets -----------------------------
(***************************************************************************)
(* Parameter sets as bytes and bits: export/sps.rs, and the writing half   *)
(* of export/crop_window.rs.                                               *)
(*                                                                         *)
(* A unit is a header and a payload in which two zero bytes are never      *)
(* followed by a small one: a 3 is put between them, and taken out again   *)
(* by who reads it.  A packet is its units after startcodes, or each after *)
(* its length.  A field is read at a bit, and says where the next begins.  *)
(***************************************************************************)
EXTENDS Integers, Sequences, SequencesExt

CONSTANTS
    ByteBits,   \* the bits of a byte (8)
    UeZeros     \* the longest run of zeros a number may begin with (31)

ASSUME BytesAssumption == ByteBits \in Nat \ {0, 1} /\ UeZeros \in Nat

Zeros(n) == [i \in 1..n |-> 0]
NumberOf(digits, base) == FoldLeft(LAMBDA n, d : base * n + d, 0, digits)
Digits(n, base, width) == [i \in 1..width |-> (n \div base ^ (width - i)) % base]

\* bit_at, BitWriter::bit
BitsOf(bytes) == FlattenSeq([i \in DOMAIN bytes |-> Digits(bytes[i], 2, ByteBits)])
BytesOf(bits) ==
    LET all == bits \o Zeros((-Len(bits)) % ByteBits)
    IN [i \in 1..(Len(all) \div ByteBits) |->
            NumberOf(SubSeq(all, (i - 1) * ByteBits + 1, i * ByteBits), 2)]

-----------------------------------------------------------------------------
(* Emulation prevention                                                      *)

\* Mutant: only a byte that would end a startcode is kept apart.
EscapedEnds(payload) ==
    FoldLeft(LAMBDA e, b :
        IF e.zeros >= 2 /\ b = 1 THEN [out |-> e.out \o <<3, b>>, zeros |-> 0]
        ELSE [out |-> Append(e.out, b), zeros |-> IF b = 0 THEN e.zeros + 1 ELSE 0],
        [out |-> <<>>, zeros |-> 0], payload).out

\* escape
Escaped(payload) ==
    FoldLeft(LAMBDA e, b :
        LET apart == e.zeros >= 2 /\ b <= 3
        IN [out |-> IF apart THEN e.out \o <<3, b>> ELSE Append(e.out, b),
            zeros |-> IF b # 0 THEN 0 ELSE IF apart THEN 1 ELSE e.zeros + 1],
        [out |-> <<>>, zeros |-> 0], payload).out

\* Bits::new
Unescaped(payload) ==
    FoldLeft(LAMBDA e, b :
        IF e.zeros >= 2 /\ b = 3 THEN [e EXCEPT !.zeros = 0]
        ELSE [out |-> Append(e.out, b), zeros |-> IF b = 0 THEN e.zeros + 1 ELSE 0],
        [out |-> <<>>, zeros |-> 0], payload).out

-----------------------------------------------------------------------------
(* Fields.  What is read is [ok, value, at]: whether it was all there, what  *)
(* it says and how many bits were read.                                      *)

NotThere == [ok |-> FALSE, value |-> 0, at |-> 0]

\* Bits::bits and skip
Fixed(bits, at, n) ==
    IF at + n > Len(bits) THEN NotThere
    ELSE [ok |-> TRUE, value |-> NumberOf(SubSeq(bits, at + 1, at + n), 2), at |-> at + n]

\* Bits::ue
Ue(bits, at) ==
    LET ones == {i \in (at + 1)..Len(bits) : bits[i] = 1}
        zeros == (CHOOSE i \in ones : \A j \in ones : i <= j) - at - 1
        end == at + 2 * zeros + 1
    IN IF ones = {} \/ zeros > UeZeros \/ end > Len(bits) THEN NotThere
       ELSE [ok |-> TRUE, value |-> 2 ^ zeros - 1 + NumberOf(SubSeq(bits, end - zeros + 1, end), 2),
             at |-> end]

\* Bits::se
Se(bits, at) ==
    LET code == Ue(bits, at)
    IN [code EXCEPT !.value = IF @ % 2 = 1 THEN (@ + 1) \div 2 ELSE -(@ \div 2)]

\* BitWriter::ue
UeBits(n) ==
    LET length == CHOOSE k \in 1..32 : 2 ^ (k - 1) <= n + 1 /\ n + 1 < 2 ^ k
    IN Zeros(length - 1) \o Digits(n + 1, 2, length)

-----------------------------------------------------------------------------
(* Units                                                                     *)

\* annex_b_units: each from after its startcode up to the zeros before the
\* next one's
StartsIn(bytes) == {i \in 4..(Len(bytes) + 1) : SubSeq(bytes, i - 3, i - 1) = <<0, 0, 1>>}
UnitFrom(bytes, start) ==
    LET later == {j \in StartsIn(bytes) : j > start}
        next == CHOOSE j \in later : \A k \in later : j <= k
        kept == {i \in start..(next - 4) : bytes[i] # 0}
        last == CHOOSE i \in kept : \A k \in kept : k <= i
    IN IF later = {} THEN SubSeq(bytes, start, Len(bytes))
       ELSE IF kept = {} THEN <<>> ELSE SubSeq(bytes, start, last)
AnnexBUnits(bytes) ==
    [i \in DOMAIN SetToSortSeq(StartsIn(bytes), <) |-> UnitFrom(bytes, SetToSortSeq(StartsIn(bytes), <)[i])]

\* Units after four-byte startcodes
AnnexB(units) == FlattenSeq([i \in DOMAIN units |-> <<0, 0, 0, 1>> \o units[i]])
===============================================================================
