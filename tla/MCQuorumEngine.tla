--------------------------- MODULE MCQuorumEngine --------------------------
(***************************************************************************)
(* Constants for checking QuorumEngine: 4-bit IPv6 addresses, 2-bit IPv4   *)
(* addresses mapped under 01/2, ASNs 1 and 2.                              *)
(***************************************************************************)
EXTENDS QuorumEngine, TLC

CONSTANTS p1, p2, p3, overlong, rubbish

MCPeers == {p1, p2, p3}
MCMappedRange == <<0, 1>>

V4(a, n) == [fam |-> "v4", addr |-> a, len |-> n]
V6(a, n) == [fam |-> "v6", addr |-> a, len |-> n]
Entry(net, asn) == [ip_prefix |-> net, asn |-> asn]

Low == V4(<<0, 0>>, 1)           \* canonical
LowHostBits == V4(<<0, 1>>, 1)   \* the same network with a host bit set
High == V4(<<1, 0>>, 1)
LowAsV6 == V6(<<0, 1, 0, 0>>, 3) \* the trie path of Low in IPv6 notation
CoverAll == V6(<<0, 0, 0, 0>>, 1)\* contains all of IPv4
Far == V6(<<1, 0, 0, 0>>, 1)

GoodEntries ==
    {<<Entry(Low, 1)>>, <<Entry(Low, 2), Entry(Far, 1)>>,
     <<Entry(LowHostBits, 1), Entry(Low, 1), Entry(High, 2)>>}

BadEntries ==
    {<<Entry(Low, 0)>>, <<Entry(Low, 1), Entry(High, 3)>>, <<Entry(rubbish, 1)>>,
     <<Entry(V4(<<0, 0>>, 0), 1)>>, <<Entry(Low, 1), Entry(LowAsV6, 2)>>,
     <<Entry(CoverAll, 1)>>, <<Entry(LowHostBits, 1), Entry(Low, 2)>>}

Honest(e, s, es) ==
    [epoch |-> e, sender_id |-> s, claim_hash |-> ClaimHash(e, s, es), entries |-> es]

GoodClaims(epochs) == {Honest(e, s, es) : e \in epochs, s \in PeerId, es \in GoodEntries}

BadClaims(epochs) ==
    {Honest(e, s, es) : e \in epochs, s \in PeerId, es \in BadEntries}
      \cup {[Honest(e, s, <<Entry(Low, 1)>>) EXCEPT !.entries = <<Entry(Low, 2)>>] :
                e \in epochs, s \in PeerId}
      \cup {[Honest(0, s, <<Entry(Low, 1)>>) EXCEPT !.claim_hash = MalformedHash] :
                s \in PeerId}
      \cup {Honest(0, s, << >>) : s \in PeerId}
      \cup {Honest(0, s, [i \in 1 .. 4 |-> Entry(Low, 1)]) : s \in PeerId}
      \cup {Honest(0, overlong, <<Entry(Low, 1)>>)}

RoundClaims == GoodClaims({0, 1}) \cup BadClaims({0})

EpochClaims ==
    {Honest(e, s, <<Entry(Low, a)>>) : e \in Epoch, s \in PeerId, a \in {1, 2, 3}}

Symmetry == Permutations(PeerId)

=============================================================================
