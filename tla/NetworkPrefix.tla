--------------------------- MODULE NetworkPrefix ---------------------------
(***************************************************************************)
(* Network prefixes as claims write them, as votes are keyed by them and   *)
(* as the ASMap trie addresses them: canonical_consensus_prefix in         *)
(* bitcoin-asmap-quorum/src/lib.rs and ip_to_bits in asmap-codec/src/net.rs*)
(*                                                                         *)
(* The code has 128-bit IPv6 addresses, 32-bit IPv4 addresses and the      *)
(* 96-bit range ::ffff:0:0/96 that IPv4 is mapped under.  The widths and   *)
(* the range are parameters here; an address is the function from bit      *)
(* positions (1 is the most significant) to bits.                          *)
(***************************************************************************)
EXTENDS Naturals

CONSTANTS
    V4Bits,       \* width of an IPv4 address (32)
    MappedBits,   \* IPV4_MAPPED_PREFIX_BITS (96)
    MappedRange   \* the bits of IPV4_MAPPED_RANGE above its boundary

Bit == {0, 1}

ASSUME WidthAssumption == V4Bits \in Nat /\ MappedBits \in Nat \ {0}

ASSUME MappedRangeAssumption == MappedRange \in [1 .. MappedBits -> Bit]

V6Bits == MappedBits + V4Bits

(***************************************************************************)
(* The texts that parse as ADDR/LEN.  Host bits below LEN may be set: the  *)
(* strict check of the codec is not used on claims.                        *)
(***************************************************************************)
Network ==
    [fam : {"v4"}, addr : [1 .. V4Bits -> Bit], len : 0 .. V4Bits]
      \cup [fam : {"v6"}, addr : [1 .. V6Bits -> Bit], len : 0 .. V6Bits]

(***************************************************************************)
(* The canonical spelling: host bits masked away, so only the first len    *)
(* bits are left to tell two prefixes of one family apart.                 *)
(***************************************************************************)
PrefixOf(fam, width) ==
    UNION {[fam : {fam}, len : {n}, bits : [1 .. n -> Bit]] : n \in 0 .. width}

Prefix == PrefixOf("v4", V4Bits) \cup PrefixOf("v6", V6Bits)

CanonicalPrefix(net) ==
    [fam |-> net.fam, len |-> net.len, bits |-> [i \in 1 .. net.len |-> net.addr[i]]]

(***************************************************************************)
(* The trie path of a prefix.  An IPv4 prefix is routed through the mapped *)
(* range.                                                                  *)
(***************************************************************************)
IpToBits(p) ==
    IF p.fam = "v6"
    THEN p.bits
    ELSE [i \in 1 .. MappedBits + p.len |->
              IF i <= MappedBits THEN MappedRange[i] ELSE p.bits[i - MappedBits]]

(* Mutants: the check on one side of the range's length only. *)
TouchesFromAbove(p) ==
    /\ p.fam = "v6" /\ p.len < MappedBits
    /\ \A i \in 1 .. p.len : p.bits[i] = MappedRange[i]

TouchesFromInside(p) ==
    /\ p.fam = "v6" /\ p.len >= MappedBits
    /\ \A i \in 1 .. MappedBits : p.bits[i] = MappedRange[i]

(***************************************************************************)
(* An IPv6 prefix that contains the mapped range or lies inside it: the    *)
(* two agree on every bit position that both have.                         *)
(***************************************************************************)
TouchesMappedRange(p) ==
    /\ p.fam = "v6"
    /\ \A i \in 1 .. MappedBits : i <= p.len => p.bits[i] = MappedRange[i]

(* Neither a default route nor a word about the IPv4 space in IPv6 syntax. *)
ClearPrefix(p) == p \in Prefix /\ p.len # 0 /\ ~TouchesMappedRange(p)

=============================================================================
