--------------------------- MODULE MCOfflineReplay -------------------------
(***************************************************************************)
(* Every claims file of up to three claims from three senders, one more    *)
(* than the sender cap, over epochs 0 to 3 with a skew of 1 and an         *)
(* absolute maximum of 2: good claims that agree and disagree, in more     *)
(* than one spelling, and one of each way to be bad that matters to a run. *)
(***************************************************************************)
EXTENDS OfflineReplay

CONSTANTS p1, p2, p3, unparsable

MCPeers == {p1, p2, p3}
MCMappedRange == <<0, 1>>

V4(a, n) == [fam |-> "v4", addr |-> a, len |-> n]
V6(a, n) == [fam |-> "v6", addr |-> a, len |-> n]
Entry(net, asn) == [ip_prefix |-> net, asn |-> asn]

Low == V4(<<0, 0>>, 1)
LowHostBits == V4(<<0, 1>>, 1)
LowAsV6 == V6(<<0, 1, 0, 0>>, 3)
Far == V6(<<1, 0, 0, 0>>, 1)

Honest(e, s, es) ==
    [epoch |-> e, sender_id |-> s, claim_hash |-> ClaimHash(e, s, es), entries |-> es]

MCClaims ==
    {Honest(e, s, es) : e \in {0, 1}, s \in {p1, p2},
        es \in {<<Entry(Low, 1), Entry(Far, 1)>>, <<Entry(LowHostBits, 1)>>}}
      \cup {Honest(1, s, <<Entry(Low, 1), Entry(LowAsV6, 2)>>) : s \in {p1, p2}}
      \cup {Honest(2, s, <<Entry(Far, 2)>>) : s \in {p1, p2}}
      \cup {Honest(3, p1, <<Entry(Far, 2)>>)}
      \cup {Honest(1, p3, <<Entry(Low, 2)>>)}
      \cup {[Honest(1, p2, <<Entry(Low, 1)>>) EXCEPT !.entries = <<Entry(Low, 2)>>]}
      \cup {Honest(1, unparsable, <<Entry(Low, 1)>>)}

MCFiles == UNION {[1 .. n -> MCClaims] : n \in 0 .. 3}

(* No files, the pair of an earlier run, and one torn by an earlier failure:
   the map of later claims beside a report that a run may come to fit again. *)
Published(asn) == <<[ip_prefix |-> CanonicalPrefix(Low), asn |-> asn, votes |-> 2]>>
EarlierReport ==
    [epoch |-> 0, participants |-> {p1, p3}, accepted_claims |-> 2,
     rejected_claims |-> [r \in Reason |-> 0], entries |-> Published(1)]
MCEarlierFiles ==
    {[map |-> NoFile, report |-> NoFile]}
      \cup {[map |-> MapOf(Published(asn)), report |-> EarlierReport] : asn \in {1, 2}}

=============================================================================
