--------------------------- MODULE RisBottleneck ---------------------------
(***************************************************************************)
(* From the routing tables of RIS collectors to an ASMap: AsPathParser and *)
(* FindBottleneck in bitcoin-asmap-quorum/src/lib.rs.                      *)
(*                                                                         *)
(* The tables are read from their records: the bytes of a dump are left    *)
(* out, and with them an AS_PATH attribute of length zero, whose parser    *)
(* would read on into the next attribute.                                  *)
(***************************************************************************)
EXTENDS AsmapTrie

AS_PATH == 2
AS_SET == 1
AS_SEQUENCE == 2

(* Of an AS_PATH: a kind and the ASNs. *)
Segment == Nat \X Seq(Nat)

Attribute ==
    {a \in [type : Nat, segments : Seq(Segment)] : a.type = AS_PATH => a.segments # << >>}

(* A RIB record; an entry is the sequence of its attributes. *)
RibRecord == [net : Network, entries : Seq(Seq(Attribute))]

(***************************************************************************)
(* The paths an attribute adds: none for another attribute or an AS_SET,   *)
(* and the empty path, which spoils the entry, for a kind it does not know.*)
(* Only the first segment is read; the rest of the attribute is skipped.   *)
(***************************************************************************)
ParseAttribute(attribute) ==
    IF attribute.type # AS_PATH \/ attribute.segments[1][1] = AS_SET THEN << >>
    ELSE IF attribute.segments[1][1] = AS_SEQUENCE THEN <<attribute.segments[1][2]>>
    ELSE << << >> >>

(* as_path.dedup(): prepended hops count once. *)
Dedup(path) ==
    LET kept[i \in 0 .. Len(path)] ==
            IF i = 0 THEN << >>
            ELSE IF i > 1 /\ path[i] = path[i - 1] THEN kept[i - 1]
            ELSE Append(kept[i - 1], path[i])
    IN  kept[Len(path)]

(* The paths of an entry: the one path it has, or none if it has an error. *)
ParseEntry(entry) ==
    LET paths == FlattenSeq([i \in DOMAIN entry |-> ParseAttribute(entry[i])])
    IN  IF Len(paths) = 1 /\ paths[1] # << >> THEN <<Dedup(paths[1])>> ELSE << >>

(* RoutingPrefix::canonicalized; format_ip has padded the address. *)
RoutingPrefix(net) == CanonicalPrefix(net)

PathsTo(prefix, records) ==
    FlattenSeq([i \in DOMAIN records |->
        IF RoutingPrefix(records[i].net) = prefix
        THEN FlattenSeq([j \in DOMAIN records[i].entries |-> ParseEntry(records[i].entries[j])])
        ELSE << >>])

(* mrt_hm after these records: <<prefix, paths in reading order>>. *)
MrtHm(records) ==
    {keyed \in {<<p, PathsTo(p, records)>> :
                    p \in {RoutingPrefix(records[i].net) : i \in DOMAIN records}} :
        keyed[2] # << >>}

(* Mutant: the paths are compared in the order they were read. *)
InReadingOrder(paths) == paths

(* sort_by_key(len). *)
ShortestFirst(paths) ==
    LET order == SortByKey([i \in DOMAIN paths |-> Len(paths[i])])
    IN  [k \in DOMAIN paths |-> paths[order[k]]]

(* Mutant: a path to another origin is compared from its second hop on. *)
SharedAcrossOrigins(common, path) ==
    LET Differing == {i \in 2 .. Min({Len(common), Len(path)}) : path[i] # common[i]}
    IN  IF Differing = {} THEN common ELSE SubSeq(common, 1, Min(Differing) - 1)

(* What a further path leaves of the common suffix, both from the origin. *)
Shared(common, path) ==
    LET Differing == {i \in 2 .. Min({Len(common), Len(path)}) : path[i] # common[i]}
    IN  IF path[1] # common[1] \/ Differing = {} THEN common
        ELSE SubSeq(common, 1, Min(Differing) - 1)

(* From the origin outwards; its last AS is the bottleneck. *)
CommonSuffix(paths) ==
    LET sorted == ShortestFirst(paths)
        common[k \in 1 .. Len(sorted)] ==
            IF k = 1 THEN Reverse(sorted[1]) ELSE Shared(common[k - 1], Reverse(sorted[k]))
    IN  common[Len(sorted)]

PrefixAsn(mrt_hm) == {<<IpToBits(keyed[1]), Last(CommonSuffix(keyed[2]))>> : keyed \in mrt_hm}

(* The prefixes of the tables have distinct trie paths, so the order in which
   prefix_asn is walked makes no difference. *)
ToAsmap(mrt_hm) == UpdateMulti(EmptyMap, SetToSeq(PrefixAsn(mrt_hm)))

=============================================================================
