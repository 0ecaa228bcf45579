---------------------------- MODULE VarLenCoder ----------------------------
(***************************************************************************)
(* The variable-length integers of Bitcoin Core's binary ASMap, as in      *)
(* asmap-codec/src/coder.rs.  A value belongs to the first class with room *)
(* for it; the class is written in unary, then the offset in the class, the*)
(* most significant bit first.  A stream is a sequence of bits and pos the *)
(* number of bits already read.                                            *)
(***************************************************************************)
EXTENDS Integers, FiniteSets, SequencesExt

CONSTANT MATCH_CLASSES   \* classes of the match coder (8)

ASSUME MatchAssumption == MATCH_CLASSES \in Nat \ {0}

(* 1 << b and v >> b.  The provers know nothing of 2^b but for numerals. *)
Room(b) ==
    LET room[k \in 0 .. b] == IF k = 0 THEN 1 ELSE 2 * room[k - 1] IN room[b]

ShiftRight(v, b) ==
    LET rest[k \in 0 .. b] == IF k = 0 THEN v ELSE rest[k - 1] \div 2 IN rest[b]

(* VarLenCoder::new; starts[k] is the first offset of class k. *)
VarLenCoder(minval, clsbits) ==
    [minval  |-> minval,
     clsbits |-> clsbits,
     starts  |-> FoldLeft(LAMBDA starts, b : Append(starts, Last(starts) + Room(b)),
                          <<0>>, clsbits)]

CODER_INS == VarLenCoder(0, <<0, 0, 1>>)
CODER_ASN == VarLenCoder(1, [k \in 1 .. 10 |-> k + 14])
CODER_MATCH == VarLenCoder(2, [k \in 1 .. MATCH_CLASSES |-> k])
CODER_JUMP == VarLenCoder(17, [k \in 1 .. 26 |-> k + 4])

Classes(c) == Len(c.clsbits)

MaxVal(c) == c.minval + c.starts[Classes(c) + 1] - 1

CanEncode(c, val) == val \in c.minval .. MaxVal(c)

(* The classes that are too small or too early for the value. *)
Skipped(c, val) == Cardinality({k \in 1 .. Classes(c) : val - c.minval >= c.starts[k + 1]})

(* The last class needs no stop bit. *)
StopBits(c, ones) == IF ones + 1 < Classes(c) THEN 1 ELSE 0

(***************************************************************************)
(* The size is also asked for values that encode would refuse: above the   *)
(* last class a value costs one bit more than the last class does.         *)
(***************************************************************************)
EncodeSize(c, val) ==
    LET ones == Skipped(c, val)
        last == IF ones < Classes(c) THEN ones + 1 ELSE ones
    IN  ones + StopBits(c, ones) + c.clsbits[last]

Ones(n) == [i \in 1 .. n |-> 1]
Zeros(n) == [i \in 1 .. n |-> 0]

(* Only for values that CanEncode: encode asserts it. *)
Encode(c, val) ==
    LET ones == Skipped(c, val)
        bits == c.clsbits[ones + 1]
        offset == val - c.minval - c.starts[ones + 1]
    IN  Ones(ones) \o Zeros(StopBits(c, ones))
          \o [i \in 1 .. bits |-> ShiftRight(offset, bits - i) % 2]

(* The number that the bits of an offset are, the most significant first. *)
ValueOf(bits) == FoldLeft(LAMBDA v, b : 2 * v + b, 0, bits)

Nothing == [val |-> -1, pos |-> -1]

(* Mutant: what is missing at the end of the stream reads as 0. *)
DecodePastEnd(c, stream, pos) ==
    LET Flag(j) == IF j <= Len(stream) THEN stream[j] ELSE 0
        ones == CHOOSE k \in 0 .. Classes(c) - 1 :
                    /\ \A j \in 1 .. k : Flag(pos + j) = 1
                    /\ k = Classes(c) - 1 \/ Flag(pos + k + 1) = 0
        start == pos + ones + StopBits(c, ones)
        end == start + c.clsbits[ones + 1]
        bits == [i \in 1 .. end - start |-> Flag(start + i)]
    IN  [val |-> c.minval + c.starts[ones + 1] + ValueOf(bits), pos |-> end]

(***************************************************************************)
(* Nothing when the stream ends within the value: a flag that is missing   *)
(* reads as 0 here, which leaves the end of the value behind the stream's. *)
(***************************************************************************)
Decode(c, stream, pos) ==
    LET Flag(j) == IF pos + j <= Len(stream) THEN stream[pos + j] ELSE 0
        ones == CHOOSE k \in 0 .. Classes(c) - 1 :
                    /\ \A j \in 1 .. k : Flag(j) = 1
                    /\ k = Classes(c) - 1 \/ Flag(k + 1) = 0
        start == pos + ones + StopBits(c, ones)
        end == start + c.clsbits[ones + 1]
    IN  IF end > Len(stream) THEN Nothing
        ELSE [val |-> c.minval + c.starts[ones + 1] + ValueOf(SubSeq(stream, start + 1, end)),
              pos |-> end]

=============================================================================
