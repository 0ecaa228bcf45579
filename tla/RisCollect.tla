----------------------------- MODULE RisCollect ----------------------------
(***************************************************************************)
(* The maps the nodes of a `collect` network claim: what RisBottleneck     *)
(* makes of the tables CollectorShares has each of them read.              *)
(***************************************************************************)
EXTENDS RisBottleneck, CollectorShares

ASSUME DumpAssumption == \A c \in Range(AllCollectors) : Dump[c] \in Seq(RibRecord)

Records(targets, extent) ==
    FlattenSeq([i \in DOMAIN targets |-> SubSeq(Dump[targets[i]], 1, extent[i])])

WholeRecords(targets) == FlattenSeq([i \in DOMAIN targets |-> Dump[targets[i]]])

(* The paths p has read. *)
Rib(p) == MrtHm(Records(reading[p].targets, reading[p].extent))

---------------------------------------------------------------------------

(* The bottleneck, from what it is for: of the paths to one origin, the AS
   farthest from it that every one of them goes through from there on. *)
ToOrigin(paths, origin) == {Reverse(path) : path \in {q \in Range(paths) : Last(q) = origin}}

ElectedOrigin(paths) ==
    LET shortest == {i \in DOMAIN paths : \A j \in DOMAIN paths : Len(paths[i]) <= Len(paths[j])}
    IN  Last(paths[Min(shortest)])

BottleneckOf(paths) == Last(LongestCommonPrefix(ToOrigin(paths, ElectedOrigin(paths))))

Bottlenecks(rib) == {<<IpToBits(keyed[1]), BottleneckOf(keyed[2])>> : keyed \in rib}

(***************************************************************************)
(* A node's map gives every address the bottleneck of the paths to the     *)
(* longest prefix it read for it, whatever the tables repeat, prepend,     *)
(* spell with host bits or are cut off from.  The origin is that of the    *)
(* first shortest path: a prefix with two origins depends on the order of  *)
(* reading, one with a single origin does not.                             *)
(***************************************************************************)
ClaimFollowsLongestPrefix ==
    \A p \in Running \cap Collecting :
    \A rib \in {Rib(p)} : \A map \in {ToAsmap(rib)}, bottlenecks \in {Bottlenecks(rib)} :
        \A address \in Address :
        \A covering \in {{b \in bottlenecks : Covers(b[1], address)}} :
            IF covering = {} THEN Lookup(map, address) = 0
            ELSE \E b \in covering :
                    /\ \A other \in covering : Len(other[1]) <= Len(b[1])
                    /\ Lookup(map, address) = b[2]

(***************************************************************************)
(* A table cut short can only move a bottleneck away from the origin, never*)
(* past the one the whole tables have: what was read is still true of every*)
(* address that has an assignment.  For prefixes of a single origin.       *)
(***************************************************************************)
CutTablesStayUpstream ==
    \A p \in Running \cap Collecting :
    \A some \in Rib(p), every \in MrtHm(WholeRecords(reading[p].targets)) :
        /\ some[1] = every[1]
        /\ \A i, j \in DOMAIN every[2] : Last(every[2][i]) = Last(every[2][j])
        => IsPrefix(CommonSuffix(every[2]), CommonSuffix(some[2]))

IsReadWhole(c) ==
    \E p \in Running \cap Collecting : \E i \in DOMAIN reading[p].targets :
        reading[p].targets[i] = c /\ reading[p].extent[i] = Len(Dump[c])

(* A peer that runs `serve` has a rank and so a share, which it never reads. *)
IsServersShare(c) ==
    \E p \in Running \ Collecting :
        c \in Range(AssignedCollectors(collectors, p, Running \ {p}))

(***************************************************************************)
(* Whoever starts, stops or is missed by mdns for a while: as long as a    *)
(* node is left that collects, every collector is in the end read whole by *)
(* one, but for the shares of peers that only serve.                       *)
(***************************************************************************)
EveryCollectorIsRead ==
    <>[](Running \cap Collecting # {} =>
            \A c \in Range(collectors) : IsReadWhole(c) \/ IsServersShare(c))

=============================================================================
