---------------------------- MODULE AsmapBinary ----------------------------
(***************************************************************************)
(* Bitcoin Core's binary ASMap: BinNode of asmap-codec/src/coder.rs, the   *)
(* binary halves of trie.rs, and load_file of io.rs.                       *)
(*                                                                         *)
(* A file is the sequence of its bits, each byte from its lowest bit up, as*)
(* the code packs and unpacks it; a byte is eight bits of it.              *)
(***************************************************************************)
EXTENDS AsmapEntries, VarLenCoder

(* Instruction; End is never written. *)
InsValue == [Return |-> 0, Jump |-> 1, Match |-> 2, Default |-> 3]

InsSize(ins) == EncodeSize(CODER_INS, InsValue[ins])

(***************************************************************************)
(* A BinNode is the list of its instructions in the order of the file, each*)
(* with the size of the node that it begins; End is the empty list.  The   *)
(* number of a jump is the size of its left half.                          *)
(***************************************************************************)
Node(ins, val, size, subs) == <<[ins |-> ins, val |-> val, size |-> size]>> \o subs

Begins(node, ins) == node # << >> /\ node[1].ins \in ins

Size(node) == IF node = << >> THEN 0 ELSE node[1].size

EndNode == << >>

LeafNode(asn) ==
    Node("Return", asn, InsSize("Return") + EncodeSize(CODER_ASN, asn), << >>)

MatchNode(val, sub) ==
    Node("Match", val, InsSize("Match") + EncodeSize(CODER_MATCH, val) + Size(sub), sub)

DefaultNode(asn, sub) ==
    IF sub = EndNode THEN LeafNode(asn)
    ELSE IF Begins(sub, {"Return", "Default"}) THEN sub
    ELSE Node("Default", asn, InsSize("Default") + EncodeSize(CODER_ASN, asn) + Size(sub), sub)

(* The bits of a match are below the highest 1 of its number. *)
MatchedBits(val) == Cardinality({k \in 1 .. val : Room(k) <= val})

TopBit(val) == Room(MatchedBits(val))

(* The largest match one more bit can be put in front of (0xff). *)
MergeMax == Room(MATCH_CLASSES) - 1

(* Mutant: one more bit than the coder has classes for. *)
MatchBitUnbounded(bit, sub) ==
    IF Begins(sub, {"Match"}) /\ sub[1].val <= 2 * MergeMax + 1
    THEN MatchNode(sub[1].val + (bit + 1) * TopBit(sub[1].val), Tail(sub))
    ELSE MatchNode(2 + bit, sub)

(***************************************************************************)
(* A half of the space that says nothing: the way into the other half is a *)
(* bit to match, in front of the bits that sub already matches.            *)
(***************************************************************************)
MatchBit(bit, sub) ==
    IF Begins(sub, {"Match"}) /\ sub[1].val <= MergeMax
    THEN MatchNode(sub[1].val + (bit + 1) * TopBit(sub[1].val), Tail(sub))
    ELSE MatchNode(2 + bit, sub)

BranchNode(left, right) ==
    IF left = EndNode /\ right = EndNode THEN EndNode
    ELSE IF left = EndNode THEN MatchBit(1, right)
    ELSE IF right = EndNode THEN MatchBit(0, left)
    ELSE Node("Jump", Size(left),
              InsSize("Jump") + EncodeSize(CODER_JUMP, Size(left)) + Size(left) + Size(right),
              left \o right)

BinContexts(node, fill) ==
    LET contexts[path \in Path] ==
            LET at == NodeAt(node, path)
            IN  IF IsLeaf(at)
                THEN LeafContexts(at[1], fill, EndNode, LeafNode(at[1]))
                ELSE BranchContexts(contexts[Append(path, 0)], contexts[Append(path, 1)], fill,
                                    BranchNode, DefaultNode, Size)
    IN  contexts[<< >>]

ToBinnode(node, fill) == AtRoot(BinContexts(node, fill), EndNode)

---------------------------------------------------------------------------

OperandCoder(ins) ==
    CASE ins = "Jump" -> CODER_JUMP
      [] ins = "Match" -> CODER_MATCH
      [] OTHER -> CODER_ASN

(* The coder's assertion, at every instruction. *)
Encodable(node) == \A i \in DOMAIN node : CanEncode(OperandCoder(node[i].ins), node[i].val)

Written(instruction) ==
    Encode(CODER_INS, InsValue[instruction.ins])
      \o Encode(OperandCoder(instruction.ins), instruction.val)

EncodeNode(node) == FlattenSeq([i \in DOMAIN node |-> Written(node[i])])

Padding(n) == (8 - (n % 8)) % 8

(* A map with nothing in it is a file of no bytes. *)
ToBinary(node, fill) ==
    LET bits == EncodeNode(ToBinnode(node, fill)) IN bits \o Zeros(Padding(Len(bits)))

(* to_binary panics in the coder instead. *)
CannotEncode(node, fill) == ~Encodable(ToBinnode(node, fill))

NoNode == [node |-> EndNode, pos |-> -1]

InsName(val) == CHOOSE name \in DOMAIN InsValue : InsValue[name] = val

(***************************************************************************)
(* What an instruction makes of the nodes behind it; nothing if the left   *)
(* half is not as long as its jump says.                                   *)
(***************************************************************************)
Assembled(ins, operand, first, second) ==
    IF ins = "Return" THEN [node |-> LeafNode(operand.val), pos |-> operand.pos]
    ELSE IF first = NoNode THEN NoNode
    ELSE IF ins = "Match" THEN [node |-> MatchNode(operand.val, first.node), pos |-> first.pos]
    ELSE IF ins = "Default" THEN [node |-> DefaultNode(operand.val, first.node), pos |-> first.pos]
    ELSE IF first.pos = operand.pos + operand.val /\ second # NoNode
         THEN [node |-> BranchNode(first.node, second.node), pos |-> second.pos]
         ELSE NoNode

(* The nodes that start after pos bits, or NoNode if the stream ends within. *)
Decoded(bits) ==
    LET at[pos \in 0 .. Len(bits)] ==
            LET ins == Decode(CODER_INS, bits, pos)
                operand == Decode(OperandCoder(InsName(ins.val)), bits, ins.pos)
                first == at[operand.pos]
            IN  IF ins = Nothing \/ operand = Nothing THEN NoNode
                ELSE Assembled(InsName(ins.val), operand, first, at[first.pos])
    IN  at

(* Mutant: what a match does not reach is unassigned, whatever the default. *)
HalfOfUnassigned(bit, sub, default) ==
    IF bit = 1 THEN Branch(Leaf(0), sub) ELSE Branch(sub, Leaf(0))

HalfOf(bit, sub, default) ==
    IF bit = 1 THEN Branch(Leaf(default), sub) ELSE Branch(sub, Leaf(default))

(* The bits of a match, the lowest first, each put around the tree so far. *)
AroundMatch(val, sub, default) ==
    LET around[k \in 0 .. MatchedBits(val)] ==
            IF k = 0 THEN sub ELSE HalfOf(ShiftRight(val, k - 1) % 2, around[k - 1], default)
    IN  around[MatchedBits(val)]

(***************************************************************************)
(* The trie of the node that begins at an instruction, for the default that*)
(* it is in, and the instruction behind the node; behind the last there is *)
(* nothing.  Only the root can be End: no stream holds one.                *)
(***************************************************************************)
Walk(node) ==
    LET walk[i \in 1 .. Len(node) + 1] ==
            [default \in Nat |->
                LET ins == node[i].ins
                    first == walk[i + 1][default]
                    second == walk[first.next][default]
                IN  IF i > Len(node) THEN [trie |-> Leaf(0), next |-> i]
                    ELSE IF ins = "Return" THEN [trie |-> Leaf(node[i].val), next |-> i + 1]
                    ELSE IF ins = "Default" THEN walk[i + 1][node[i].val]
                    ELSE IF ins = "Match"
                         THEN [trie |-> AroundMatch(node[i].val, first.trie, default), next |-> first.next]
                    ELSE [trie |-> Branch(first.trie, second.trie), next |-> second.next]]
    IN  walk

TrieOfNode(node, default) == Walk(node)[1][default].trie

NoMap == << >>

(* The root takes all the bits but the last byte's padding, which is zero. *)
IsPadding(bits) == Len(bits) <= 7 /\ \A i \in DOMAIN bits : bits[i] = 0

MapOfRoot(root, bits) ==
    IF root # NoNode /\ IsPadding(SubSeq(bits, root.pos + 1, Len(bits)))
    THEN TrieOfNode(root.node, 0)
    ELSE NoMap

FromBinary(bits) == IF bits = << >> THEN EmptyMap ELSE MapOfRoot(Decoded(bits)[0], bits)

---------------------------------------------------------------------------

Byte(bits, i) == LET b(k) == bits[8 * i + k + 1] * 2^k
                 IN  b(0) + b(1) + b(2) + b(3) + b(4) + b(5) + b(6) + b(7)

Bytes(bits) == Tabulated([i \in 1 .. Len(bits) \div 8 |-> Byte(bits, i - 1)])

LineFeed == 10
NumberSign == 35
Blank == (9 .. 13) \cup {32}

(***************************************************************************)
(* The text in the file has no entries: every line is blank up to its end  *)
(* or its comment.  Only ASCII counts as text here; UTF-8 above it, which  *)
(* is text to the code as well, is left out.                               *)
(***************************************************************************)
ReadsAsComments(bytes) ==
    /\ \A i \in DOMAIN bytes : bytes[i] < 128
    /\ \A i \in DOMAIN bytes : bytes[i] \notin Blank =>
          \E j \in 1 .. i : /\ bytes[j] = NumberSign
                            /\ \A k \in j .. i : bytes[k] # LineFeed

(***************************************************************************)
(* load_file on a file in which no line is an entry.  A file that reads    *)
(* both ways is refused, unless it has no bytes.                           *)
(***************************************************************************)
Loaded(map) == [verdict |-> "ok", map |-> map]
Refused(verdict) == [verdict |-> verdict, map |-> NoMap]

LoadedAs(text, map, bits) ==
    IF text /\ map # NoMap /\ bits # << >> THEN Refused("ambiguous")
    ELSE IF text THEN Loaded(EmptyMap)
    ELSE IF map # NoMap THEN Loaded(map)
    ELSE Refused("unrecognized")

LoadFile(bits) == LoadedAs(ReadsAsComments(Bytes(bits)), FromBinary(bits), bits)

=============================================================================
