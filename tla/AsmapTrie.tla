----------------------------- MODULE AsmapTrie -----------------------------
(***************************************************************************)
(* The prefix trie of an ASMap, asmap-codec/src/trie.rs: assignments and   *)
(* lookups, and what they are for.  A leaf is <<asn>> and a branch <<left, *)
(* right>>; a path is a sequence of bits, 0 to the left; ASN 0 is unassign-*)
(* ed; an entry is <<path, asn>>.                                          *)
(***************************************************************************)
EXTENDS NetworkPrefix, Integers, SequencesExt

Address == [1 .. V6Bits -> Bit]

Path == UNION {[1 .. n -> Bit] : n \in 0 .. V6Bits}

Leaf(asn) == <<asn>>

IsLeaf(node) == Len(node) = 1

(* TrieNode::branch: two equal leaves are one leaf. *)
Branch(left, right) == IF left = right /\ IsLeaf(left) THEN left ELSE <<left, right>>

(* Below a leaf every address has the leaf's ASN. *)
Child(node, bit) == IF IsLeaf(node) THEN node ELSE node[bit + 1]

EmptyMap == Leaf(0)

(* The nodes on a path, by the number of its bits that lead to them. *)
Along(node, path) ==
    LET at[k \in 0 .. Len(path)] == IF k = 0 THEN node ELSE Child(at[k - 1], path[k])
    IN  at

NodeAt(node, path) == Along(node, path)[Len(path)]

(***************************************************************************)
(* What an update puts in the place of those nodes: a leaf at the end, and *)
(* on the way back each node with its new half.                            *)
(***************************************************************************)
Updated(node, path, asn) ==
    LET at == Along(node, path)
        new[k \in 0 .. Len(path)] ==
            IF k = Len(path) THEN Leaf(asn)
            ELSE IF path[k + 1] = 0 THEN Branch(new[k + 1], Child(at[k], 1))
            ELSE Branch(Child(at[k], 0), new[k + 1])
    IN  new

Update(node, path, asn) == Updated(node, path, asn)[0]

(* Mutant: the entries are applied as they stand in the file. *)
UpdateMultiUnsorted(node, entries) ==
    FoldLeft(LAMBDA m, e : Update(m, e[1], e[2]), node, entries)

(* slice::sort_by_key, which is stable: the indices in their new order. *)
SortByKey(keys) ==
    LET Before(i, j) == keys[i] < keys[j] \/ (keys[i] = keys[j] /\ i < j)
        Rank(i) == Cardinality({j \in DOMAIN keys : Before(j, i)})
    IN  [k \in DOMAIN keys |-> CHOOSE i \in DOMAIN keys : Rank(i) = k - 1]

(* Shortest prefix first. *)
UpdateMulti(node, entries) ==
    LET order == SortByKey([i \in DOMAIN entries |-> Len(entries[i][1])])
        after[k \in 0 .. Len(entries)] ==
            IF k = 0 THEN node
            ELSE Update(after[k - 1], entries[order[k]][1], entries[order[k]][2])
    IN  after[Len(entries)]

NoAsn == -1

(* NoAsn when the path ends above the leaves. *)
Lookup(node, path) ==
    LET end == NodeAt(node, path) IN IF IsLeaf(end) THEN end[1] ELSE NoAsn

---------------------------------------------------------------------------
(* The reference: functions from addresses to ASNs.                        *)

Covers(path, addr) == SubSeq(addr, 1, Len(path)) = path

(* The longest of the entries over addr, of equally long ones the last; or
   what asns has where there is none. *)
AssignedBy(entries, asns, addr) ==
    LET over == {i \in DOMAIN entries : Covers(entries[i][1], addr)}
        Wins(i) == \A j \in over : \/ Len(entries[j][1]) < Len(entries[i][1])
                                   \/ Len(entries[j][1]) = Len(entries[i][1]) /\ j <= i
    IN  IF over = {} THEN asns[addr] ELSE entries[CHOOSE i \in over : Wins(i)][2]

(* The trie without mergeable leaves in which an address has its ASN. *)
TrieOf(asns) ==
    LET below[path \in Path] ==
            IF Len(path) = V6Bits THEN Leaf(asns[path])
            ELSE Branch(below[Append(path, 0)], below[Append(path, 1)])
    IN  below[<< >>]

=============================================================================
