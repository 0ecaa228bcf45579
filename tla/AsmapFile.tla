----------------------------- MODULE AsmapFile -----------------------------
(***************************************************************************)
(* encode and load_file on an ASMap that was built up (AsmapUpdates): the  *)
(* binary file of the map, whole and cut off.                              *)
(***************************************************************************)
EXTENDS AsmapCodec, AsmapBinary

(* The codec's ASNs are what its coder has classes for. *)
ASSUME CodecAsnAssumption == ASN_MIN = CODER_ASN.minval /\ ASN_MAX = MaxVal(CODER_ASN)

(***************************************************************************)
(* The sizes that the encoder plans with are the sizes it writes: a jump   *)
(* is read as the length of the left half, and no value is out of its      *)
(* coder's range, so that encoding panics only on an ASN above the codec's *)
(* and on a left half that is longer than a jump can be (256 MB).          *)
(***************************************************************************)
PlannedSizesAreWritten ==
    \A fill \in BOOLEAN : \A root \in {ToBinnode(map, fill)} :
        LET tooLarge == \E a \in Address : assigned[a] > ASN_MAX
            tooFar == \E i \in DOMAIN root : root[i].ins = "Jump" /\ root[i].val > MaxVal(CODER_JUMP)
        IN  /\ CannotEncode(map, fill) <=> tooLarge \/ tooFar
            /\ ~CannotEncode(map, fill) => Len(EncodeNode(root)) = Size(root)

(***************************************************************************)
(* Decoding gives back the map that was encoded, and of a filled encoding  *)
(* one that agrees wherever an address was assigned.                       *)
(***************************************************************************)
BinaryRoundTrip ==
    \A fill \in BOOLEAN : ~CannotEncode(map, fill) =>
        \A file \in {ToBinary(map, fill)} : \A back \in {FromBinary(file)} :
            IF fill
            THEN /\ back # NoMap /\ Extends(back, map)
                 /\ \A a \in Address : assigned[a] # 0 => Lookup(back, a) = assigned[a]
            ELSE back = map

(***************************************************************************)
(* A file that was cut off at a byte, by a full disk or a broken download, *)
(* is never loaded as a map that assigns an address, however it is read.   *)
(***************************************************************************)
CutFileAssignsNothing ==
    \A fill \in BOOLEAN : ~CannotEncode(map, fill) =>
        \A file \in {ToBinary(map, fill)} :
        \A cut \in {SubSeq(file, 1, 8 * n) : n \in 0 .. Len(file) \div 8 - 1} :
            LoadFile(cut) \in {Loaded(EmptyMap), Refused("ambiguous"), Refused("unrecognized")}

(***************************************************************************)
(* What encode writes, decode reads: the file of a map that can be encoded *)
(* loads as that map.                                                      *)
(***************************************************************************)
EncodeThenDecode ==
    ~CannotEncode(map, FALSE) =>
        \A file \in {ToBinary(map, FALSE)} : LoadFile(file) = Loaded(map)

=============================================================================
