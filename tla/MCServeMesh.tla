---------------------------- MODULE MCServeMesh ----------------------------
(***************************************************************************)
(* Two serve nodes and a collect node, all linked, or one of each, whose   *)
(* maps give one network to AS 1 or AS 2.                                  *)
(***************************************************************************)
EXTENDS ServeMesh, TLC

CONSTANTS s1, s2, c3

MCNode == {s1, s2, c3}
MCPeerId == MCNode \X (0 .. MaxStarts)
MCMappedRange == <<0>>

FullMesh == {<<m, n>> \in MCNode \X MCNode : m # n}

Net == [fam |-> "v4", addr |-> <<0>>, len |-> 1]
Saying(a) == <<[ip_prefix |-> Net, asn |-> a]>>
MCSnapshot == {Saying(1), Saying(2)}

(* The collect node may refresh at once; AS 2 for both is AS 1 for both. *)
MCStartMaps ==
    {f \in [MCNode -> MCSnapshot] :
        f[c3] = Saying(1) /\ (f[s1] = Saying(1) \/ f[s2] = Saying(1))}

(* A serve node and a collect node. *)
MCPair == {s1, c3}
MCPairPeerId == MCPair \X (0 .. MaxStarts)
PairMesh == {<<s1, c3>>, <<c3, s1>>}
MCPairMaps == {[n \in MCPair |-> Saying(1)]}

Symmetry == Permutations({s1, s2})

=============================================================================
