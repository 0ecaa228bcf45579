----------------------------- MODULE AsmapCodec ----------------------------
(***************************************************************************)
(* What the program does with an ASMap it has built up (AsmapUpdates):     *)
(* decode into a text file; diff and diff_addrs; the claim that serve,     *)
(* collect and import make of it, and Gate 6 on that claim.                *)
(***************************************************************************)
EXTENDS AsmapUpdates, AsmapEntries, VarLenCoder, EntryGate

CONSTANT OtherMaps   \* the maps it is compared with

(* Any maps that were built up from some entries. *)
ASSUME OtherMapsAssumption ==
    \A m \in OtherMaps :
        /\ m = TrieOf([a \in Address |-> Lookup(m, a)])
        /\ \A a \in Address : Lookup(m, a) \in Nat

---------------------------------------------------------------------------
(* Networks and claims of a map. *)

(* Mutant: an IPv4 path is written in IPv6 notation. *)
BitsToNetworkV6(path) ==
    [fam |-> "v6", addr |-> path \o Zeros(V6Bits - Len(path)), len |-> Len(path)]

(* The text of a path, with the address filled up with zeros. *)
BitsToNetwork(path) ==
    IF Len(path) >= MappedBits /\ SubSeq(path, 1, MappedBits) = MappedRange
    THEN [fam  |-> "v4",
          addr |-> SubSeq(path, MappedBits + 1, Len(path)) \o Zeros(V6Bits - Len(path)),
          len  |-> Len(path) - MappedBits]
    ELSE [fam |-> "v6", addr |-> path \o Zeros(V6Bits - Len(path)), len |-> Len(path)]

(* parse_network_prefix, which refuses host bits, and the path it yields. *)
IsCanonical(net) == \A i \in net.len + 1 .. Len(net.addr) : net.addr[i] = 0

PathOf(net) == IpToBits(CanonicalPrefix(net))

(* save_text, read back by load_file. *)
WrittenLines(m, fill, overlapping) ==
    LET entries == ToEntries(m, fill, overlapping)
    IN  [i \in DOMAIN entries |-> <<BitsToNetwork(entries[i][1]), entries[i][2]>>]

ParsedLines(lines) == [i \in DOMAIN lines |-> <<PathOf(lines[i][1]), lines[i][2]>>]

(* asmap_to_claim. *)
ClaimEntries(m) ==
    LET entries == ToEntries(m, FALSE, FALSE)
    IN  [i \in DOMAIN entries |->
            [ip_prefix |-> BitsToNetwork(entries[i][1]), asn |-> entries[i][2]]]

(* What finalize makes of a round in which these votes win: a hash map's
   order is any order. *)
MapOfVotes(votes) ==
    LET List(vote, list) == Append(list, <<IpToBits(vote[1]), vote[2]>>)
    IN  UpdateMulti(EmptyMap, FoldSet(List, << >>, votes))

---------------------------------------------------------------------------
(* diff and diff_addrs. *)

U128Max == Room(V6Bits) - 1

(* 1 << 128 does not fit and is taken as u128::MAX. *)
NetworkAddressCount(net) ==
    IF net.fam = "v4" THEN Room(V4Bits - net.len)
    ELSE IF net.len = 0 THEN U128Max ELSE Room(V6Bits - net.len)

(* The addresses counted as changed for one family, before any overflow. *)
ChangedCount(old, new, ignore_unassigned, fam) ==
    FoldLeft(LAMBDA sum, d :
                 IF BitsToNetwork(d[1]).fam # fam \/ (ignore_unassigned /\ d[2] = 0)
                 THEN sum ELSE sum + NetworkAddressCount(BitsToNetwork(d[1])),
             0, Diff(old, new))

LookupOr0(m, addr) == LET asn == Lookup(m, addr) IN IF asn = NoAsn THEN 0 ELSE asn

(* The groups of diff_addrs: from a pair of ASNs to the addresses that moved. *)
Reassignments(old, new, addrs) ==
    LET pair == [a \in addrs |-> <<LookupOr0(old, a), LookupOr0(new, a)>>]
    IN  [p \in {q \in Range(pair) : q[1] # q[2]} |-> {a \in addrs : pair[a] = p}]

---------------------------------------------------------------------------

(***************************************************************************)
(* decode writes canonical lines that never say AS0 and that read back as  *)
(* the same map, or with fill as one that extends it.                      *)
(***************************************************************************)
TextRoundTrip ==
    \A fill, overlapping \in BOOLEAN :
        \A lines \in {WrittenLines(map, fill, overlapping)} :
        \A back \in {UpdateMulti(EmptyMap, ParsedLines(lines))} :
            /\ \A i \in DOMAIN lines : lines[i][2] # 0 /\ IsCanonical(lines[i][1])
            /\ IF fill
               THEN \A a \in Address : assigned[a] # 0 => Lookup(back, a) = assigned[a]
               ELSE back = map

(***************************************************************************)
(* The fewest lines for a subtree of a map, by the ASN that an enclosing   *)
(* line gives it: none where it has that ASN, and more than any map needs  *)
(* to say AS0 there; a line of its own over the whole, or none.            *)
(***************************************************************************)
FewestAtLeaf(asn, asns, fill) ==
    [ctx \in asns |-> IF asn = ctx \/ (fill /\ asn = 0) THEN 0
                      ELSE IF asn = 0 THEN Room(V6Bits) ELSE 1]

FewestAtBranch(left, right, asns) ==
    [ctx \in asns |-> Min({left[ctx] + right[ctx]}
                            \cup {1 + left[c] + right[c] : c \in asns \ {0, ctx}})]

FewestLines(m, asns, fill) ==
    LET fewest[path \in Path] ==
            LET at == NodeAt(m, path)
            IN  IF IsLeaf(at) THEN FewestAtLeaf(at[1], asns, fill)
                ELSE Tabulated(FewestAtBranch(fewest[Append(path, 0)], fewest[Append(path, 1)], asns))
    IN  fewest[<< >>][0]

(***************************************************************************)
(* The overlapping lines are the fewest there are: no other choice of lines*)
(* and of the lines they are nested in describes the map, or with fill one *)
(* that extends it, in less.                                               *)
(***************************************************************************)
MinimalEntriesAreFewest ==
    \A fill \in BOOLEAN :
        Len(EntriesMinimal(map, fill)) = FewestLines(map, Range(assigned) \cup {0}, fill)

(***************************************************************************)
(* A node's claim about its own map passes Gate 6 unless all of IPv4 has   *)
(* one AS, which makes the claim a default route or a word about IPv4 in   *)
(* IPv6 notation, or an ASN is not one of the codec's.  If the claim alone *)
(* decides the round, the consensus map is the node's map.                 *)
(***************************************************************************)
OwnClaimPassesGateSix ==
    \A claim \in {ClaimEntries(map)} :
    LET uniformIpv4 == \E asn \in {assigned[a] : a \in Address} \ {0} :
                          \A a \in Address : Covers(MappedRange, a) => assigned[a] = asn
        outOfRange == \E a \in Address : assigned[a] # 0 /\ assigned[a] \notin Asn
    IN  /\ EntriesViolation(claim) = Ok <=> ~uniformIpv4 /\ ~outOfRange
        /\ EntriesViolation(claim) = Ok => MapOfVotes(VoteKeys(claim)) = map

(***************************************************************************)
(* The lines of diff are a patch from each map to the other, and its totals*)
(* are the numbers of addresses whose ASN changed, so that no line says too*)
(* much and no two overlap; except that a change of the root counts one too*)
(* few, and that the u128 total for IPv6 overflows when all the space      *)
(* changes in several pieces.  diff_addrs finds the same addresses.        *)
(***************************************************************************)
DiffIsExact ==
    \A other \in OtherMaps :
        LET diff == Diff(other, map)
            patch(column) == [i \in DOMAIN diff |-> <<diff[i][1], diff[i][column]>>]
            groups == Reassignments(other, map, Address)
            changed == {a \in Address : Lookup(other, a) # assigned[a]}
            Total(ignore) == ChangedCount(other, map, ignore, "v4")
                               + ChangedCount(other, map, ignore, "v6")
            root == \E i \in DOMAIN diff : diff[i][1] = << >>
        IN  /\ UpdateMulti(other, patch(3)) = map /\ UpdateMulti(map, patch(2)) = other
            /\ Total(FALSE) = IF root THEN U128Max ELSE Cardinality(changed)
            /\ ~root => Total(TRUE) = Cardinality({a \in changed : Lookup(other, a) # 0})
            /\ ChangedCount(other, map, FALSE, "v6") > U128Max => changed = Address
            /\ UNION Range(groups) = changed
            /\ \A p \in DOMAIN groups :
                  \A a \in groups[p] : p = <<Lookup(other, a), assigned[a]>>

=============================================================================
