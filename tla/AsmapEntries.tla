---------------------------- MODULE AsmapEntries ---------------------------
(***************************************************************************)
(* What is read off an ASMap, asmap-codec/src/trie.rs: whether it extends  *)
(* another, the difference of two, and the two lists of entries that a map *)
(* is written as.                                                          *)
(***************************************************************************)
EXTENDS AsmapTrie

(* The walks follow the paths down to the leaves; Path has all that a map on
   addresses can have. *)
Extends(actual, req) ==
    LET holds[path \in Path] ==
            LET a == NodeAt(actual, path)
                r == NodeAt(req, path)
            IN  \/ r = Leaf(0)
                \/ IsLeaf(r) /\ IsLeaf(a) /\ a = r
                \/ ~(IsLeaf(r) /\ IsLeaf(a)) /\ \A bit \in Bit : holds[Append(path, bit)]
    IN  holds[<< >>]

(* Mutant: the path is not taken back before the right half. *)
DiffStalePath(old, new) ==
    LET from[path \in Path] ==
            LET a == NodeAt(old, path)
                b == NodeAt(new, path)
                stale == [i \in 1 .. Len(path) |-> 0]
            IN  IF IsLeaf(a) /\ IsLeaf(b)
                THEN IF a = b THEN << >> ELSE << <<stale, a[1], b[1]>> >>
                ELSE from[Append(path, 0)] \o from[Append(path, 1)]
    IN  from[<< >>]

(* The stretches whose ASN differs, as <<path, old ASN, new ASN>>. *)
Diff(old, new) ==
    LET from[path \in Path] ==
            LET a == NodeAt(old, path)
                b == NodeAt(new, path)
            IN  IF IsLeaf(a) /\ IsLeaf(b)
                THEN IF a = b THEN << >> ELSE << <<path, a[1], b[1]>> >>
                ELSE from[Append(path, 0)] \o from[Append(path, 1)]
    IN  from[<< >>]

(* All the entries of a list have one ASN, and it has several. *)
OneAsn(entries) == Len(entries) > 1 /\ \A i \in DOMAIN entries : entries[i][2] = entries[1][2]

LeafEntries(path, asn) == IF asn = 0 THEN << >> ELSE << <<path, asn>> >>

(* Mutant: subtrees of one ASN are widened without fill, too. *)
EntriesFlatWiden(node, fill) ==
    LET flat[path \in Path] ==
            LET at == NodeAt(node, path)
                halves == flat[Append(path, 0)] \o flat[Append(path, 1)]
            IN  IF IsLeaf(at) THEN LeafEntries(path, at[1])
                ELSE IF OneAsn(halves) THEN << <<path, halves[1][2]>> >> ELSE halves
    IN  flat[<< >>]

(***************************************************************************)
(* One entry a leaf.  With fill, a subtree whose entries all have one ASN  *)
(* becomes a single entry, over what is unassigned in it, too.             *)
(***************************************************************************)
EntriesFlat(node, fill) ==
    LET flat[path \in Path] ==
            LET at == NodeAt(node, path)
                halves == flat[Append(path, 0)] \o flat[Append(path, 1)]
            IN  IF IsLeaf(at) THEN LeafEntries(path, at[1])
                ELSE IF fill /\ OneAsn(halves) THEN << <<path, halves[1][2]>> >> ELSE halves
    IN  flat[<< >>]

---------------------------------------------------------------------------
(***************************************************************************)
(* The search that to_entries_minimal and to_binnode share.  An encoding of*)
(* a subtree is valid in a context: the ASN that whatever encloses the     *)
(* subtree gives it, or NoAsn when it stands alone.  `hole` says that the  *)
(* subtree has unassigned space that no enclosing default may claim.       *)
(***************************************************************************)

(* Mutant: the first candidate is taken. *)
FirstCandidate(candidates, sizes) == candidates[1]

Smallest(candidates, sizes) ==
    candidates[CHOOSE i \in DOMAIN candidates :
                  /\ \A j \in DOMAIN candidates : sizes[i] <= sizes[j]
                  /\ \A j \in 1 .. i - 1 : sizes[i] < sizes[j]]

(* f itself, which TLC evaluates here once instead of at every application. *)
Tabulated(f) == CHOOSE g \in {f} : g = f

(* The members of a set of numbers, in ascending order. *)
Ascending(numbers) ==
    LET listed == SetToSeq(numbers)
        order == SortByKey(listed)
    IN  [k \in DOMAIN listed |-> listed[order[k]]]

(* A leaf: nothing to say in its own context. *)
LeafContexts(asn, fill, nothing, alone) ==
    IF asn = 0
    THEN [enc |-> [c \in {IF fill THEN NoAsn ELSE 0} |-> nothing], hole |-> TRUE]
    ELSE [enc |-> [c \in {asn, NoAsn} |-> IF c = asn THEN nothing ELSE alone], hole |-> FALSE]

(***************************************************************************)
(* A context is worth keeping if it is shorter than standing alone; above a*)
(* hole only context 0 is possible.                                        *)
(***************************************************************************)
Keep(enc, sizes, hole) ==
    Tabulated([c \in {c \in DOMAIN enc :
                      \/ c = NoAsn
                      \/ /\ hole => c = 0
                         /\ NoAsn \in DOMAIN enc => sizes[c] < sizes[NoAsn]} |-> enc[c]])

(* The earliest of the smallest candidates. *)
Best(candidates, Size(_)) ==
    Smallest(candidates, Tabulated([i \in DOMAIN candidates |-> Size(candidates[i])]))

(* Both halves in the context, or one of them standing alone in it. *)
PairsIn(left, right, c, Join(_, _)) ==
    LET Pair(l, r) == IF l \in DOMAIN left /\ r \in DOMAIN right
                      THEN <<Join(left[l], right[r])>> ELSE << >>
    IN  Pair(c, c) \o Pair(NoAsn, c) \o Pair(c, NoAsn)

(* The best that the halves make in each context. *)
Joined(left, right, Join(_, _), Size(_)) ==
    LET pairs == Tabulated([c \in DOMAIN left \cup DOMAIN right |->
                               PairsIn(left, right, c, Join)])
    IN  Tabulated([c \in {c \in DOMAIN pairs : pairs[c] # << >>} |-> Best(pairs[c], Size)])

(***************************************************************************)
(* Standing alone: as it is or, where nothing is a hole, with one default  *)
(* over the whole subtree that the encoding in its context corrects.       *)
(***************************************************************************)
WithDefaults(joined, hole, Cover(_, _), Size(_)) ==
    LET asns == Ascending(DOMAIN joined \ {NoAsn})
        covers == IF hole THEN << >> ELSE [i \in DOMAIN asns |-> Cover(asns[i], joined[asns[i]])]
        alone == (IF NoAsn \in DOMAIN joined THEN <<joined[NoAsn]>> ELSE << >>) \o covers
    IN  IF alone = << >> THEN joined
        ELSE Tabulated([c \in {NoAsn} \cup DOMAIN joined |->
                           IF c = NoAsn THEN Best(alone, Size) ELSE joined[c]])

BranchContexts(left, right, fill, Join(_, _), Cover(_, _), Size(_)) ==
    LET hole == ~fill /\ (left.hole \/ right.hole)
        joined == Joined(left.enc, right.enc, Join, Size)
        enc == WithDefaults(joined, hole, Cover, Size)
        sizes == Tabulated([c \in DOMAIN enc |-> Size(enc[c])])
    IN  [enc |-> Keep(enc, sizes, hole), hole |-> hole]

(* The root stands in context 0: what nothing claims is unassigned. *)
AtRoot(contexts, none) ==
    IF 0 \in DOMAIN contexts.enc THEN contexts.enc[0]
    ELSE IF NoAsn \in DOMAIN contexts.enc THEN contexts.enc[NoAsn] ELSE none

EntryContexts(node, fill) ==
    LET contexts[path \in Path] ==
            LET at == NodeAt(node, path)
            IN  IF IsLeaf(at)
                THEN LeafContexts(at[1], fill, << >>, << <<path, at[1]>> >>)
                ELSE BranchContexts(contexts[Append(path, 0)], contexts[Append(path, 1)], fill,
                                    LAMBDA l, r : l \o r,
                                    LAMBDA asn, fixups : << <<path, asn>> >> \o fixups,
                                    Len)
    IN  contexts[<< >>]

(* Entries that may overlap, for a reader that applies the shortest first. *)
EntriesMinimal(node, fill) == AtRoot(EntryContexts(node, fill), << >>)

ToEntries(node, fill, overlapping) ==
    IF overlapping THEN EntriesMinimal(node, fill) ELSE EntriesFlat(node, fill)

=============================================================================
