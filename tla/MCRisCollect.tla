---------------------------- MODULE MCRisCollect ---------------------------
(***************************************************************************)
(* Two nodes that collect and, ranked between them, one that serves; three *)
(* collectors, whose tables agree, diverge, disagree on the origin, prepend*)
(* and spell prefixes with host bits, on 3-bit IPv6 and 1-bit IPv4         *)
(* addresses.                                                              *)
(***************************************************************************)
EXTENDS RisCollect

MCMappedRange == <<0, 1>>

V6(addr, len) == [fam |-> "v6", addr |-> addr, len |-> len]
V4(addr, len) == [fam |-> "v4", addr |-> addr, len |-> len]

Route(asns) == [type |-> AS_PATH, segments |-> << <<AS_SEQUENCE, asns>> >>]
Set(asns) == [type |-> AS_PATH, segments |-> << <<AS_SET, asns>> >>]
Confed(asns) == [type |-> AS_PATH, segments |-> << <<3, asns>> >>]
Aggregate(asns, set) ==
    [type |-> AS_PATH, segments |-> << <<AS_SEQUENCE, asns>>, <<AS_SET, set>> >>]
NextHop == [type |-> 3, segments |-> << >>]

Record(net, entries) == [net |-> net, entries |-> entries]

MCDump == <<
    << Record(V6(<<1, 0, 0>>, 1), << <<NextHop, Route(<<1, 3, 4>>)>> >>),
       Record(V6(<<1, 1, 0>>, 2), << <<Route(<<1, 3>>)>>, <<Route(<<2, 2, 3>>), NextHop>> >>),
       Record(V4(<<0>>, 1), << <<Aggregate(<<1, 2, 3>>, <<4, 5>>)>> >>),
       Record(V6(<<0, 0, 1>>, 3), << <<Route(<<1, 2>>)>>, <<Route(<<1, 2>>), Route(<<3>>)>> >>) >>,
    << Record(V6(<<1, 0, 1>>, 1), << <<Route(<<2, 3, 4, 4>>)>>, <<Confed(<<9>>)>> >>),
       Record(V6(<<1, 1, 0>>, 2), << <<Route(<<2, 4>>)>> >>),
       Record(V4(<<0>>, 1), << <<Route(<<5, 2, 2, 3>>)>>, <<NextHop>>, << >> >>),
       Record(V6(<<0, 0, 1>>, 3), << <<Route(<<5, 2, 1, 2>>)>>, <<Route(<< >>)>> >>) >>,
    << Record(V6(<<1, 1, 1>>, 1), << <<Set(<<7, 8>>), Route(<<5, 4>>)>> >>),
       Record(V6(<<1, 1, 1>>, 2), << <<Route(<<5, 1, 3>>)>> >>),
       Record(V4(<<0>>, 1), << <<Set(<<2, 3>>)>> >>),
       Record(V6(<<0, 0, 1>>, 3), << <<Route(<<2>>)>> >>) >> >>

(* EveryNth is the filter of assigned_collectors: idx % n == first. *)
ASSUME EveryNthIsTheFilter ==
    \A len \in 0 .. 7, n \in 1 .. 4 : \A first \in 0 .. n - 1 :
        LET list == [i \in 1 .. len |-> i]
        IN  EveryNth(list, first, n) = SelectSeq(list, LAMBDA i : (i - 1) % n = first)

MCLists == {<<2>>, <<2, 3, 1>>, <<3, 3>>}

MCAllCollectors == <<1, 2, 3>>

=============================================================================
