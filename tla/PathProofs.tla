----------------------------- MODULE PathProofs ----------------------------
(***************************************************************************)
(* Trie paths, for addresses of every width: which prefixes share one, that*)
(* the vote keys of a claim that passes Gate 6 do not, and what a trie     *)
(* holds along one.                                                        *)
(***************************************************************************)
EXTENDS EntryGate, AsmapTrie, FiniteSetTheorems, WellFoundedInduction, SequenceTheorems, TLAPS

(***************************************************************************)
(* A non-empty set of naturals has a least element: what the verdict of    *)
(* the first bad entry rests on.                                           *)
(***************************************************************************)
LEMMA LeastElement ==
    ASSUME NEW T \in SUBSET Nat, T # {}
    PROVE  \E x \in T : \A y \in T : x <= y
<1> DEFINE R == OpToRel(<, Nat)
<1>1. \E x \in T : \A y \in T : ~ (<<y, x>> \in R)
  <2> HIDE DEF R
  <2>1. IsWellFoundedOn(R, Nat)
    BY NatLessThanWellFounded DEF R
  <2> QED BY <2>1, WFMin, Zenon
<1>2. \A x, y \in Nat : y < x => <<y, x>> \in R
  BY DEF OpToRel
<1> HIDE DEF R
<1>3. PICK x \in T : \A y \in T : ~ (<<y, x>> \in R)
  BY <1>1
<1>4. ASSUME NEW y \in T PROVE x <= y
  <2>1. ~ (y < x)
    BY <1>2, <1>3, Zenon
  <2> QED BY <2>1
<1> QED BY <1>4

(***************************************************************************)
(* Induction over an interval, with a set in the place of the predicate.   *)
(***************************************************************************)
LEMMA IntervalInduction ==
    ASSUME NEW n \in Nat, NEW S, 0 \in S, \A i \in 1 .. n : i - 1 \in S => i \in S
    PROVE  \A i \in 0 .. n : i \in S
<1> DEFINE T == {i \in 0 .. n : i \notin S}
<1> SUFFICES ASSUME T # {} PROVE FALSE
  OBVIOUS
<1>1. T \in SUBSET Nat
  OBVIOUS
<1>2. PICK x \in T : \A y \in T : x <= y
  BY <1>1, LeastElement
<1>3. x \in 1 .. n /\ x \notin S
  BY <1>2
<1>4. x - 1 \in T
  BY <1>3
<1> QED BY <1>2, <1>3, <1>4

---------------------------------------------------------------------------
(* Recursion over an interval.                                             *)

(* f starts at base and takes the steps. *)
Unfolds(f, n, base, step) ==
    f[0] = base /\ \A i \in 1 .. n : f[i] = step[i][f[i - 1]]

(***************************************************************************)
(* A recursion over an interval whose steps stay in a set has a function   *)
(* that satisfies it: what the LET functions of the models rest on.        *)
(***************************************************************************)
LEMMA IntervalRecursion ==
    ASSUME NEW V, NEW n \in Nat, NEW base \in V, NEW step \in [1 .. n -> [V -> V]]
    PROVE  \E f \in [0 .. n -> V] : Unfolds(f, n, base, step)
<1> DEFINE Good(f, m) ==
              /\ f \in [0 .. m -> V]
              /\ f[0] = base /\ \A i \in 1 .. m : f[i] = step[i][f[i - 1]]
           S == {m \in 0 .. n : \E f \in [0 .. m -> V] : Good(f, m)}
<1>1. 0 \in S
  <2> DEFINE f == [i \in 0 .. 0 |-> base]
  <2>1. Good(f, 0) /\ f \in [0 .. 0 -> V] /\ 0 \in 0 .. n
    OBVIOUS
  <2> HIDE DEF Good, f
  <2> QED BY <2>1
<1>2. ASSUME NEW m \in 1 .. n, m - 1 \in S PROVE m \in S
  <2>1. PICK f \in [0 .. m - 1 -> V] : Good(f, m - 1)
    BY <1>2
  <2> DEFINE g == [i \in 0 .. m |-> IF i = m THEN step[m][f[m - 1]] ELSE f[i]]
  <2>2. f[m - 1] \in V /\ step[m][f[m - 1]] \in V
    <3>1. f[m - 1] \in V
      BY <2>1
    <3> QED BY <3>1
  <2>3. g \in [0 .. m -> V]
    BY <2>1, <2>2
  <2>4. \A i \in 0 .. m - 1 : g[i] = f[i]
    OBVIOUS
  <2>5. g[m] = step[m][f[m - 1]]
    OBVIOUS
  <2> HIDE DEF g
  <2>6. g[0] = base
    BY <2>1, <2>4
  <2>7. ASSUME NEW i \in 1 .. m PROVE g[i] = step[i][g[i - 1]]
    <3>1. CASE i = m
      <4>1. m - 1 \in 0 .. m - 1
        OBVIOUS
      <4>2. g[m - 1] = f[m - 1]
        BY <2>4, <4>1
      <4> QED BY <2>5, <3>1, <4>2
    <3>2. CASE i # m
      <4>1. i \in 1 .. m - 1 /\ i \in 0 .. m - 1 /\ i - 1 \in 0 .. m - 1
        BY <3>2
      <4>2. g[i] = f[i] /\ g[i - 1] = f[i - 1] /\ f[i] = step[i][f[i - 1]]
        BY <2>1, <2>4, <4>1
      <4> QED BY <4>2
    <3> QED BY <3>1, <3>2
  <2>8. Good(g, m)
    BY <2>3, <2>6, <2>7
  <2> HIDE DEF Good
  <2> QED BY <2>3, <2>8
<1> HIDE DEF S
<1>3. \A m \in 0 .. n : m \in S
  BY <1>1, <1>2, IntervalInduction
<1> QED BY <1>3 DEF S, Unfolds

---------------------------------------------------------------------------
(* Folds from the left.                                                    *)

(* The last index of an interval, and of any set of indices. *)
LEMMA LastOfInterval ==
    ASSUME NEW i \in Nat \ {0}
    PROVE  Max(1 .. i) = i /\ (1 .. i) \ {i} = 1 .. i - 1 /\ 1 .. i # {}
<1>1. i \in 1 .. i /\ \A y \in 1 .. i : i >= y
  OBVIOUS
<1>2. \A x \in 1 .. i : (\A y \in 1 .. i : x >= y) => x = i
  OBVIOUS
<1>3. Max(1 .. i) = i
  BY <1>1, <1>2 DEF Max
<1> QED BY <1>1, <1>3

LEMMA MaxOfSome ==
    ASSUME NEW n \in Nat, NEW s \in SUBSET (1 .. n), s # {}
    PROVE  Max(s) \in s /\ \A y \in s : Max(s) >= y
<1> DEFINE T == {n - x : x \in s}
<1>1. T \in SUBSET Nat /\ T # {}
  <2>1. \A x \in s : x \in Nat /\ n - x \in Nat
    OBVIOUS
  <2> QED BY <2>1
<1>2. PICK t \in T : \A u \in T : t <= u
  BY <1>1, LeastElement
<1>3. PICK x \in s : t = n - x
  BY <1>2
<1>4. ASSUME NEW y \in s PROVE x >= y
  <2>1. n - y \in T /\ x \in 1 .. n /\ y \in 1 .. n
    OBVIOUS
  <2> HIDE DEF T
  <2>2. n - x <= n - y
    BY <1>2, <1>3, <2>1
  <2> QED BY <2>1, <2>2
<1> HIDE DEF T
<1> QED BY <1>4 DEF Max

(* f folds the steps over every set of indices, the last index last. *)
FoldsOver(f, n, base, step) ==
    \A s \in SUBSET (1 .. n) :
       f[s] = IF s = {} THEN base ELSE step[Max(s)][f[s \ {Max(s)}]]

(***************************************************************************)
(* A fold recurs over the sets of indices; it is one over an interval.     *)
(***************************************************************************)
LEMMA FoldRecursion ==
    ASSUME NEW V, NEW n \in Nat, NEW base \in V, NEW step \in [1 .. n -> [V -> V]]
    PROVE  \E f \in [SUBSET (1 .. n) -> V] : FoldsOver(f, n, base, step)
<1> DEFINE Good(f, m) ==
              \A s \in SUBSET (1 .. m) :
                 f[s] = IF s = {} THEN base ELSE step[Max(s)][f[s \ {Max(s)}]]
           S == {m \in 0 .. n : \E f \in [SUBSET (1 .. m) -> V] : Good(f, m)}
<1>1. 0 \in S
  <2> DEFINE f == [s \in SUBSET (1 .. 0) |-> base]
  <2>1. \A s \in SUBSET (1 .. 0) : s = {} /\ f[s] = base
    OBVIOUS
  <2>2. Good(f, 0)
    BY <2>1
  <2>3. f \in [SUBSET (1 .. 0) -> V] /\ 0 \in 0 .. n
    OBVIOUS
  <2> HIDE DEF Good, f
  <2> QED BY <2>2, <2>3
<1>2. ASSUME NEW m \in 1 .. n, m - 1 \in S PROVE m \in S
  <2>1. PICK f \in [SUBSET (1 .. m - 1) -> V] : Good(f, m - 1)
    BY <1>2
  <2> DEFINE g == [s \in SUBSET (1 .. m) |->
                      IF m \in s THEN step[m][f[s \ {m}]] ELSE f[s]]
  <2>2. ASSUME NEW s \in SUBSET (1 .. m), m \in s
        PROVE  s \ {m} \in SUBSET (1 .. m - 1) /\ Max(s) = m
    <3>1. m \in s /\ \A y \in s : m >= y
      BY <2>2
    <3>2. \A x \in s : (\A y \in s : x >= y) => x = m
      BY <2>2
    <3>3. Max(s) = m
      BY <3>1, <3>2 DEF Max
    <3> QED BY <3>3
  <2>3. ASSUME NEW s \in SUBSET (1 .. m), m \notin s PROVE s \in SUBSET (1 .. m - 1)
    BY <2>3
  <2>4. ASSUME NEW s \in SUBSET (1 .. m) PROVE g[s] \in V
    <3>1. CASE m \in s
      <4>1. f[s \ {m}] \in V
        BY <2>1, <2>2, <3>1
      <4> QED BY <3>1, <4>1
    <3>2. CASE m \notin s
      BY <2>1, <2>3, <3>2
    <3> QED BY <3>1, <3>2
  <2>5. g \in [SUBSET (1 .. m) -> V]
    BY <2>4
  <2>6. ASSUME NEW s \in SUBSET (1 .. m)
        PROVE  g[s] = IF m \in s THEN step[m][f[s \ {m}]] ELSE f[s]
    OBVIOUS
  <2> HIDE DEF g
  <2>7. ASSUME NEW s \in SUBSET (1 .. m - 1) PROVE s \in SUBSET (1 .. m) /\ g[s] = f[s]
    <3>1. s \in SUBSET (1 .. m) /\ m \notin s
      OBVIOUS
    <3> QED BY <2>6, <3>1
  <2>8. ASSUME NEW s \in SUBSET (1 .. m)
        PROVE  g[s] = IF s = {} THEN base ELSE step[Max(s)][g[s \ {Max(s)}]]
    <3>1. CASE m \in s
      <4>1. s # {} /\ Max(s) = m /\ s \ {m} \in SUBSET (1 .. m - 1)
        BY <2>2, <3>1
      <4>2. g[s \ {m}] = f[s \ {m}]
        BY <2>7, <4>1
      <4> QED BY <2>6, <3>1, <4>1, <4>2
    <3>2. CASE m \notin s
      <4>1. s \in SUBSET (1 .. m - 1)
        BY <2>3, <3>2
      <4>2. g[s] = f[s] /\ f[s] = IF s = {} THEN base ELSE step[Max(s)][f[s \ {Max(s)}]]
        BY <2>1, <2>7, <4>1
      <4>3. s \ {Max(s)} \in SUBSET (1 .. m - 1)
        BY <4>1
      <4>4. g[s \ {Max(s)}] = f[s \ {Max(s)}]
        BY <2>7, <4>3
      <4> QED BY <4>2, <4>4
    <3> QED BY <3>1, <3>2
  <2>9. Good(g, m)
    BY <2>8
  <2> HIDE DEF Good
  <2> QED BY <2>5, <2>9
<1> HIDE DEF S
<1>3. \A m \in 0 .. n : m \in S
  BY <1>1, <1>2, IntervalInduction
<1>4. n \in S
  BY <1>3
<1> QED BY <1>4 DEF S, FoldsOver

---------------------------------------------------------------------------
(* Prefixes and trie paths.                                                *)

(***************************************************************************)
(* Masking the host bits of a text that parses gives a canonical prefix.   *)
(***************************************************************************)
LEMMA CanonicalPrefixType ==
    ASSUME NEW net \in Network
    PROVE  CanonicalPrefix(net) \in Prefix /\ CanonicalPrefix(net).len = net.len
<1> USE WidthAssumption
<1>1. CASE net.fam = "v4"
  <2>1. net.len \in 0 .. V4Bits /\ net.addr \in [1 .. V4Bits -> Bit]
    BY <1>1 DEF Network
  <2>2. [i \in 1 .. net.len |-> net.addr[i]] \in [1 .. net.len -> Bit]
    BY <2>1
  <2> QED BY <1>1, <2>1, <2>2 DEF Prefix, PrefixOf, CanonicalPrefix
<1>2. CASE net.fam = "v6"
  <2>1. net.len \in 0 .. V6Bits /\ net.addr \in [1 .. V6Bits -> Bit]
    BY <1>2 DEF Network
  <2>2. [i \in 1 .. net.len |-> net.addr[i]] \in [1 .. net.len -> Bit]
    BY <2>1 DEF V6Bits
  <2> QED BY <1>2, <2>1, <2>2 DEF Prefix, PrefixOf, CanonicalPrefix
<1> QED BY <1>1, <1>2 DEF Network

(***************************************************************************)
(* Two prefixes Gate 6 lets through with one trie path are one prefix:     *)
(* there is no second spelling of a network left to vote with.             *)
(***************************************************************************)
LEMMA ClearPathsInjective ==
    ASSUME NEW p, NEW q, ClearPrefix(p), ClearPrefix(q), IpToBits(p) = IpToBits(q)
    PROVE  p = q
<1> USE WidthAssumption, MappedRangeAssumption
<1>1. /\ p = [fam |-> p.fam, len |-> p.len, bits |-> p.bits]
      /\ p.fam \in {"v4", "v6"} /\ p.len \in Nat /\ p.bits \in [1 .. p.len -> Bit]
  BY DEF ClearPrefix, Prefix, PrefixOf, V6Bits
<1>2. /\ q = [fam |-> q.fam, len |-> q.len, bits |-> q.bits]
      /\ q.fam \in {"v4", "v6"} /\ q.len \in Nat /\ q.bits \in [1 .. q.len -> Bit]
  BY DEF ClearPrefix, Prefix, PrefixOf, V6Bits
<1>3. CASE p.fam = "v6" /\ q.fam = "v6"
  <2>1. p.bits = q.bits
    BY <1>3 DEF IpToBits
  <2>2. 1 .. p.len = 1 .. q.len
    BY <1>1, <1>2, <2>1
  <2>3. p.len = q.len
    BY <1>1, <1>2, <2>2
  <2> QED BY <1>1, <1>2, <1>3, <2>1, <2>3
<1>4. CASE p.fam = "v4" /\ q.fam = "v4"
  <2>1. /\ DOMAIN IpToBits(p) = 1 .. MappedBits + p.len
        /\ DOMAIN IpToBits(q) = 1 .. MappedBits + q.len
    BY <1>4 DEF IpToBits
  <2>2. p.len = q.len
    BY <1>1, <1>2, <2>1
  <2>3. ASSUME NEW i \in 1 .. p.len PROVE p.bits[i] = q.bits[i]
    <3>1. MappedBits + i \in 1 .. MappedBits + p.len /\ ~(MappedBits + i <= MappedBits)
      BY <1>1
    <3>2. IpToBits(p)[MappedBits + i] = p.bits[MappedBits + i - MappedBits]
      BY <1>4, <3>1 DEF IpToBits
    <3>3. IpToBits(q)[MappedBits + i] = q.bits[MappedBits + i - MappedBits]
      BY <1>4, <2>2, <3>1 DEF IpToBits
    <3> QED BY <1>1, <3>2, <3>3
  <2>4. p.bits = q.bits
    BY <1>1, <1>2, <2>2, <2>3
  <2> QED BY <1>1, <1>2, <1>4, <2>2, <2>4
<1>5. ASSUME NEW a, NEW b, ClearPrefix(a), ClearPrefix(b), IpToBits(a) = IpToBits(b),
             a.fam = "v6", b.fam = "v4"
      PROVE  FALSE
  <2>1. a.len \in Nat /\ b.len \in Nat /\ a.bits \in [1 .. a.len -> Bit]
    BY <1>5 DEF ClearPrefix, Prefix, PrefixOf, V6Bits
  <2>2. a.bits = [i \in 1 .. MappedBits + b.len |->
                    IF i <= MappedBits THEN MappedRange[i] ELSE b.bits[i - MappedBits]]
    BY <1>5 DEF IpToBits
  <2>3. ASSUME NEW i \in 1 .. MappedBits PROVE a.bits[i] = MappedRange[i]
    BY <2>1, <2>2
  <2>4. TouchesMappedRange(a)
    BY <1>5, <2>3 DEF TouchesMappedRange
  <2> QED BY <1>5, <2>4 DEF ClearPrefix
<1> QED BY <1>1, <1>2, <1>3, <1>4, <1>5

---------------------------------------------------------------------------
(* The verdict on a claim's entries.                                       *)

(***************************************************************************)
(* If the verdict on the entries is Ok then every entry is: the first bad  *)
(* one would have decided the verdict.                                     *)
(***************************************************************************)
LEMMA VerdictOkMeansEveryEntryOk ==
    ASSUME NEW entries, IsEntryList(entries), EntriesViolation(entries) = Ok
    PROVE  \A i \in DOMAIN entries : ViolationAt(entries, i) = Ok
<1> DEFINE bad == {i \in DOMAIN entries : ViolationAt(entries, i) # Ok}
           first == CHOOSE i \in DOMAIN entries :
                       /\ ViolationAt(entries, i) # Ok
                       /\ \A j \in 1 .. i - 1 : ViolationAt(entries, j) = Ok
<1> SUFFICES ASSUME bad # {} PROVE FALSE
  OBVIOUS
<1>1. bad \in SUBSET Nat
  BY DEF IsEntryList
<1>2. PICK i \in bad : \A j \in bad : i <= j
  BY <1>1, LeastElement
<1>3. \A j \in 1 .. i - 1 : ViolationAt(entries, j) = Ok
  BY <1>1, <1>2 DEF IsEntryList
<1>4. first \in DOMAIN entries /\ ViolationAt(entries, first) # Ok
  BY <1>2, <1>3
<1>5. EntriesViolation(entries) = ViolationAt(entries, first)
  BY <1>2 DEF EntriesViolation
<1> QED BY <1>4, <1>5

(***************************************************************************)
(* Every verdict but Ok is one of the documented reasons.                  *)
(***************************************************************************)
EntryReason ==
    {"unassigned_asn", "asn_out_of_range", "invalid_prefix", "default_route_prefix",
     "ipv4_mapped_prefix", "conflicting_entry"}

(***************************************************************************)
(* The verdict on a list of entries is Ok or one of the six documented     *)
(* reasons.                                                                *)
(***************************************************************************)
LEMMA VerdictType ==
    ASSUME NEW entries
    PROVE  EntriesViolation(entries) \in EntryReason \cup {Ok}
BY DEF EntriesViolation, ViolationAt, EntryViolation, EntryReason

(***************************************************************************)
(* An entry that is Ok on its own yields a key on a clear prefix.          *)
(***************************************************************************)
LEMMA OkEntryKey ==
    ASSUME NEW e, EntryViolation(e) = Ok
    PROVE  Key(e) \in VoteKey /\ ClearPrefix(Key(e)[1])
<1>1. /\ e.asn \in Asn
      /\ e.ip_prefix \in Network
      /\ e.ip_prefix.len # 0
      /\ ~TouchesMappedRange(CanonicalPrefix(e.ip_prefix))
  BY DEF EntryViolation, Ok
<1>2. CanonicalPrefix(e.ip_prefix) \in Prefix /\ CanonicalPrefix(e.ip_prefix).len # 0
  BY <1>1, CanonicalPrefixType
<1> QED BY <1>1, <1>2 DEF Key, VoteKey, ClearPrefix

(***************************************************************************)
(* A claim that passes Gate 6 makes one assertion per stretch of address   *)
(* space: its vote keys are on clear prefixes, and two of them that share  *)
(* a trie path are the same key.  (validated_vote_keys, the ipv4_mapped    *)
(* and the conflicting_entry checks together.)                             *)
(***************************************************************************)
THEOREM VoteKeysDistinct ==
    ASSUME NEW entries, IsEntryList(entries), EntriesViolation(entries) = Ok
    PROVE  /\ VoteKeys(entries) \subseteq {k \in VoteKey : ClearPrefix(k[1])}
           /\ \A j, k \in VoteKeys(entries) : IpToBits(j[1]) = IpToBits(k[1]) => j = k
<1>1. \A i \in DOMAIN entries :
         EntryViolation(entries[i]) = Ok /\ ~ConflictsWithEarlier(entries, i)
  BY VerdictOkMeansEveryEntryOk DEF ViolationAt, Ok
<1>2. VoteKeys(entries) \subseteq {k \in VoteKey : ClearPrefix(k[1])}
  BY <1>1, OkEntryKey DEF VoteKeys
<1>3. ASSUME NEW m \in DOMAIN entries, NEW n \in DOMAIN entries, m < n,
             CanonicalPrefix(entries[m].ip_prefix) = CanonicalPrefix(entries[n].ip_prefix)
      PROVE  Key(entries[m]) = Key(entries[n])
  <2>1. m \in 1 .. n - 1
    BY <1>3 DEF IsEntryList
  <2>2. entries[m].asn = entries[n].asn
    BY <1>1, <1>3, <2>1 DEF ConflictsWithEarlier
  <2> QED BY <1>3, <2>2 DEF Key
<1>4. ASSUME NEW j \in VoteKeys(entries), NEW k \in VoteKeys(entries),
             IpToBits(j[1]) = IpToBits(k[1])
      PROVE  j = k
  <2>1. PICK m \in DOMAIN entries : j = Key(entries[m])
    BY DEF VoteKeys
  <2>2. PICK n \in DOMAIN entries : k = Key(entries[n])
    BY DEF VoteKeys
  <2>3. j[1] = k[1]
    BY <1>2, <1>4, ClearPathsInjective
  <2>4. CanonicalPrefix(entries[m].ip_prefix) = CanonicalPrefix(entries[n].ip_prefix)
    BY <2>1, <2>2, <2>3 DEF Key
  <2>5. m < n \/ n < m \/ m = n
    BY DEF IsEntryList
  <2> QED BY <1>3, <2>1, <2>2, <2>4, <2>5
<1> QED BY <1>2, <1>4

---------------------------------------------------------------------------
(* Paths and the addresses under them.                                     *)

(* The first k bits of a path. *)
Upto(path, k) == SubSeq(path, 1, k)

LEMMA WidthIsNat == V6Bits \in Nat
BY WidthAssumption DEF V6Bits

(***************************************************************************)
(* Paths are bit sequences no longer than an address.                      *)
(***************************************************************************)
LEMMA PathType ==
    ASSUME NEW p \in Path
    PROVE  /\ p \in Seq(Bit) /\ Len(p) \in Nat /\ Len(p) <= V6Bits
           /\ p \in [1 .. Len(p) -> Bit]
<1>1. PICK n \in 0 .. V6Bits : p \in [1 .. n -> Bit]
  BY DEF Path
<1>2. n \in Nat /\ n <= V6Bits
  BY <1>1, WidthIsNat
<1>3. p \in Seq(Bit) /\ Len(p) = n
  BY <1>1, <1>2
<1> QED BY <1>1, <1>2, <1>3

LEMMA PathIntro ==
    ASSUME NEW p \in Seq(Bit), Len(p) <= V6Bits
    PROVE  p \in Path
<1>1. Len(p) \in 0 .. V6Bits /\ p \in [1 .. Len(p) -> Bit]
  BY WidthIsNat
<1> QED BY <1>1 DEF Path

(***************************************************************************)
(* A path that is no address yet goes on to the left and to the right.     *)
(***************************************************************************)
LEMMA PathAppend ==
    ASSUME NEW p \in Path, Len(p) < V6Bits, NEW b \in Bit
    PROVE  /\ Append(p, b) \in Path
           /\ Len(Append(p, b)) = Len(p) + 1
           /\ \A i \in 1 .. Len(p) : Append(p, b)[i] = p[i]
           /\ Append(p, b)[Len(p) + 1] = b
<1>1. p \in Seq(Bit) /\ Len(p) \in Nat
  BY PathType
<1>2. Append(p, b) \in Seq(Bit) /\ Len(Append(p, b)) = Len(p) + 1
  BY <1>1
<1>3. Len(p) + 1 <= V6Bits
  BY <1>1, WidthIsNat
<1>4. Append(p, b) \in Path
  BY <1>2, <1>3, PathIntro
<1> QED BY <1>1, <1>2, <1>4

LEMMA EmptyPath == << >> \in Path /\ Len(<< >>) = 0
<1>1. << >> \in Seq(Bit) /\ Len(<< >>) = 0
  OBVIOUS
<1>2. Len(<< >>) <= V6Bits
  BY <1>1, WidthIsNat
<1>3. << >> \in Path
  BY <1>1, <1>2, PathIntro, Zenon
<1> QED BY <1>1, <1>3

(***************************************************************************)
(* The beginnings of a path grow by one bit at a time.                     *)
(***************************************************************************)
LEMMA UptoGrows ==
    ASSUME NEW p \in Path
    PROVE  /\ Upto(p, 0) = << >>
           /\ Upto(p, Len(p)) = p
           /\ \A k \in 0 .. Len(p) : Upto(p, k) \in Path /\ Len(Upto(p, k)) = k
           /\ \A k \in 0 .. Len(p) : \A i \in 1 .. k : Upto(p, k)[i] = p[i]
           /\ \A k \in 1 .. Len(p) : Upto(p, k) = Append(Upto(p, k - 1), p[k])
<1>1. p \in Seq(Bit) /\ Len(p) \in Nat /\ Len(p) <= V6Bits
  BY PathType
<1>2. \A k \in 0 .. Len(p) :
        /\ Upto(p, k) \in Seq(Bit) /\ Len(Upto(p, k)) = k
        /\ \A i \in 1 .. k : Upto(p, k)[i] = p[i]
  BY <1>1 DEF Upto
<1>3. \A k \in 0 .. Len(p) : Upto(p, k) \in Path
  BY <1>1, <1>2, WidthIsNat, PathIntro
<1>4. Upto(p, 0) = << >>
  BY <1>1, <1>2
<1>5. Upto(p, Len(p)) = p
  BY <1>1, <1>2, SeqEqual
<1>6. ASSUME NEW k \in 1 .. Len(p)
      PROVE  Upto(p, k) = Append(Upto(p, k - 1), p[k])
  <2>1. k - 1 \in 0 .. Len(p) /\ k \in 0 .. Len(p) /\ p[k] \in Bit
    BY <1>1
  <2> DEFINE q == Append(Upto(p, k - 1), p[k])
  <2>2. /\ q \in Seq(Bit) /\ Len(q) = k
        /\ \A i \in 1 .. k : q[i] = p[i]
    BY <1>2, <2>1
  <2> HIDE DEF q
  <2>3. Upto(p, k) = q
    BY <1>2, <2>1, <2>2, SeqEqual
  <2> QED BY <2>3 DEF q
<1> QED BY <1>2, <1>3, <1>4, <1>5, <1>6

(***************************************************************************)
(* A path covers the addresses that have its bits.                         *)
(***************************************************************************)
LEMMA CoversIsPointwise ==
    ASSUME NEW p \in Path, NEW a \in Address
    PROVE  Covers(p, a) <=> \A i \in 1 .. Len(p) : a[i] = p[i]
<1>1. /\ p \in Seq(Bit) /\ Len(p) \in Nat /\ Len(p) <= V6Bits
      /\ a \in Seq(Bit) /\ Len(a) = V6Bits
  BY PathType, WidthIsNat DEF Address
<1>2. /\ SubSeq(a, 1, Len(p)) \in Seq(Bit)
      /\ Len(SubSeq(a, 1, Len(p))) = Len(p)
      /\ \A i \in 1 .. Len(p) : SubSeq(a, 1, Len(p))[i] = a[i]
  BY <1>1
<1>3. ASSUME \A i \in 1 .. Len(p) : a[i] = p[i] PROVE SubSeq(a, 1, Len(p)) = p
  BY <1>1, <1>2, <1>3, SeqEqual
<1> QED BY <1>2, <1>3 DEF Covers

(***************************************************************************)
(* The addresses under a path are those of its two halves; an address is   *)
(* the only one under itself.                                              *)
(***************************************************************************)
LEMMA CoversHalf ==
    ASSUME NEW p \in Path, Len(p) # V6Bits, NEW b \in Bit, NEW a \in Address
    PROVE  Covers(Append(p, b), a) <=> Covers(p, a) /\ a[Len(p) + 1] = b
<1>1. Len(p) \in Nat /\ Len(p) < V6Bits
  BY PathType, WidthIsNat
<1> DEFINE q == Append(p, b)
<1>2. /\ q \in Path /\ Len(q) = Len(p) + 1
      /\ \A i \in 1 .. Len(p) : q[i] = p[i]
      /\ q[Len(p) + 1] = b
  BY <1>1, PathAppend
<1>3. Covers(q, a) <=> \A i \in 1 .. Len(p) + 1 : a[i] = q[i]
  BY <1>2, CoversIsPointwise
<1>4. Covers(p, a) <=> \A i \in 1 .. Len(p) : a[i] = p[i]
  BY CoversIsPointwise
<1> HIDE DEF q
<1>5. (\A i \in 1 .. Len(p) + 1 : a[i] = q[i])
        <=> (\A i \in 1 .. Len(p) : a[i] = p[i]) /\ a[Len(p) + 1] = b
  BY <1>1, <1>2
<1> QED BY <1>3, <1>4, <1>5 DEF q

LEMMA CoversSelf ==
    ASSUME NEW p \in Path, Len(p) = V6Bits
    PROVE  /\ p \in Address /\ Covers(p, p)
           /\ \A a \in Address : Covers(p, a) => a = p
<1>1. p \in [1 .. V6Bits -> Bit]
  BY PathType
<1>2. p \in Address
  BY <1>1 DEF Address
<1>3. Covers(p, p)
  BY <1>2, CoversIsPointwise
<1>4. ASSUME NEW a \in Address, Covers(p, a) PROVE a = p
  <2>1. \A i \in 1 .. V6Bits : a[i] = p[i]
    BY <1>4, CoversIsPointwise
  <2>2. a \in [1 .. V6Bits -> Bit]
    BY DEF Address
  <2> QED BY <1>1, <2>1, <2>2
<1> QED BY <1>2, <1>3, <1>4

---------------------------------------------------------------------------
(* The canonical trie.                                                     *)

(***************************************************************************)
(* The canonical tries below all paths: TrieOf is the one below the root.  *)
(***************************************************************************)
IsBelow(asns, paths, below) ==
    below = [path \in paths |->
                IF Len(path) = V6Bits THEN Leaf(asns[path])
                ELSE Branch(below[Append(path, 0)], below[Append(path, 1)])]

Below(asns) == CHOOSE below : IsBelow(asns, Path, below)

(* The paths at most m bits shorter than an address. *)
Deep(m) == {p \in Path : Len(p) >= V6Bits - m}

(***************************************************************************)
(* The recursion by which TrieOf is defined ends, since a path grows.      *)
(***************************************************************************)
LEMMA BelowIsDefined ==
    ASSUME NEW asns
    PROVE  IsBelow(asns, Path, Below(asns))
<1> DEFINE S == {m \in 0 .. V6Bits : \E below : IsBelow(asns, Deep(m), below)}
<1>1. 0 \in S
  <2> DEFINE below == [path \in Deep(0) |-> Leaf(asns[path])]
  <2>1. \A p \in Deep(0) : Len(p) = V6Bits
    BY WidthIsNat, PathType DEF Deep
  <2>2. IsBelow(asns, Deep(0), below)
    BY <2>1 DEF IsBelow
  <2> HIDE DEF below
  <2> QED BY <2>2, WidthIsNat
<1>2. ASSUME NEW m \in 1 .. V6Bits, m - 1 \in S PROVE m \in S
  <2>1. PICK old : IsBelow(asns, Deep(m - 1), old)
    BY <1>2
  <2> DEFINE new == [path \in Deep(m) |->
                        IF Len(path) = V6Bits THEN Leaf(asns[path])
                        ELSE Branch(old[Append(path, 0)], old[Append(path, 1)])]
  <2>2. Deep(m - 1) \subseteq Deep(m)
    BY WidthIsNat, PathType DEF Deep
  <2>3. \A p \in Deep(m - 1) : new[p] = old[p]
    BY <2>1, <2>2 DEF IsBelow
  <2>4. ASSUME NEW p \in Deep(m), Len(p) # V6Bits, NEW b \in Bit
        PROVE  Append(p, b) \in Deep(m - 1)
    <3>1. p \in Path /\ Len(p) \in Nat /\ Len(p) < V6Bits /\ Len(p) >= V6Bits - m
      BY <2>4, WidthIsNat, PathType DEF Deep
    <3>2. Append(p, b) \in Path /\ Len(Append(p, b)) = Len(p) + 1
      BY <3>1, PathAppend
    <3> QED BY <3>1, <3>2, WidthIsNat DEF Deep
  <2>5. ASSUME NEW p \in Deep(m), Len(p) # V6Bits
        PROVE  /\ new[Append(p, 0)] = old[Append(p, 0)]
               /\ new[Append(p, 1)] = old[Append(p, 1)]
    <3>1. Append(p, 0) \in Deep(m - 1) /\ Append(p, 1) \in Deep(m - 1)
      BY <2>4, <2>5 DEF Bit
    <3> HIDE DEF new
    <3> QED BY <2>3, <3>1
  <2>6. IsBelow(asns, Deep(m), new)
    <3> DEFINE again == [path \in Deep(m) |->
                            IF Len(path) = V6Bits THEN Leaf(asns[path])
                            ELSE Branch(new[Append(path, 0)], new[Append(path, 1)])]
    <3>1. ASSUME NEW p \in Deep(m) PROVE new[p] = again[p]
      <4>1. CASE Len(p) = V6Bits
        BY <4>1
      <4>2. CASE Len(p) # V6Bits
        <5>1. new[p] = Branch(old[Append(p, 0)], old[Append(p, 1)])
          BY <4>2
        <5>2. again[p] = Branch(new[Append(p, 0)], new[Append(p, 1)])
          BY <4>2
        <5> HIDE DEF new, again
        <5> QED BY <2>5, <4>2, <5>1, <5>2
      <4> QED BY <4>1, <4>2
    <3>2. new = again
      <4>1. DOMAIN new = DOMAIN again
        OBVIOUS
      <4> QED BY <3>1, <4>1
    <3> HIDE DEF new
    <3> QED BY <3>2 DEF IsBelow
  <2> HIDE DEF new
  <2> QED BY <2>6
<1> HIDE DEF S
<1>3. V6Bits \in S
  BY <1>1, <1>2, WidthIsNat, IntervalInduction
<1>4. Deep(V6Bits) = Path
  BY WidthIsNat, PathType DEF Deep
<1>5. \E below : IsBelow(asns, Path, below)
  BY <1>3, <1>4 DEF S
<1> QED BY <1>5, Zenon DEF Below

LEMMA TrieIsBelow == \A asns : TrieOf(asns) = Below(asns)[<< >>]
BY DEF TrieOf, Below, IsBelow

LEMMA BelowEquation ==
    ASSUME NEW asns, NEW p \in Path
    PROVE  /\ Len(p) = V6Bits => Below(asns)[p] = Leaf(asns[p])
           /\ Len(p) # V6Bits =>
                 Below(asns)[p] = Branch(Below(asns)[Append(p, 0)], Below(asns)[Append(p, 1)])
<1>1. IsBelow(asns, Path, Below(asns))
  BY BelowIsDefined
<1> QED BY <1>1 DEF IsBelow

(***************************************************************************)
(* Induction from the addresses up to the root.                            *)
(***************************************************************************)
LEMMA PathInduction ==
    ASSUME NEW S,
           \A p \in Path : Len(p) = V6Bits => p \in S,
           \A p \in Path : Len(p) # V6Bits /\ Append(p, 0) \in S /\ Append(p, 1) \in S => p \in S
    PROVE  \A p \in Path : p \in S
<1> DEFINE Done == {m \in 0 .. V6Bits : \A p \in Deep(m) : p \in S}
<1>1. 0 \in Done
  BY WidthIsNat, PathType DEF Deep
<1>2. ASSUME NEW m \in 1 .. V6Bits, m - 1 \in Done, NEW p \in Deep(m) PROVE p \in S
  <2>1. p \in Path /\ Len(p) \in Nat /\ Len(p) <= V6Bits /\ Len(p) >= V6Bits - m
    BY PathType DEF Deep
  <2>2. ASSUME Len(p) # V6Bits, NEW b \in Bit PROVE Append(p, b) \in S
    <3>1. Append(p, b) \in Path /\ Len(Append(p, b)) = Len(p) + 1
      BY <2>1, <2>2, WidthIsNat, PathAppend
    <3>2. Append(p, b) \in Deep(m - 1)
      BY <2>1, <3>1, WidthIsNat DEF Deep
    <3> QED BY <1>2, <3>2
  <2>3. Len(p) # V6Bits => Append(p, 0) \in S /\ Append(p, 1) \in S
    BY <2>2 DEF Bit
  <2> QED BY <2>1, <2>3
<1>3. \A m \in 1 .. V6Bits : m - 1 \in Done => m \in Done
  BY <1>2
<1> HIDE DEF Done
<1>4. V6Bits \in Done
  BY <1>1, <1>3, WidthIsNat, IntervalInduction
<1> QED BY <1>4, WidthIsNat, PathType DEF Deep, Done

(***************************************************************************)
(* Whether a branch was merged or not, its halves are the tries below.     *)
(***************************************************************************)
LEMMA ChildBelow ==
    ASSUME NEW asns, NEW p \in Path, Len(p) # V6Bits, NEW b \in Bit
    PROVE  Child(Below(asns)[p], b) = Below(asns)[Append(p, b)]
<1> DEFINE left == Below(asns)[Append(p, 0)]
           right == Below(asns)[Append(p, 1)]
<1>1. Below(asns)[p] = Branch(left, right)
  BY BelowEquation
<1> HIDE DEF left, right
<1>2. ~IsLeaf(<<left, right>>) /\ <<left, right>>[1] = left /\ <<left, right>>[2] = right
  BY DEF IsLeaf
<1>3. Child(Branch(left, right), 0) = left /\ Child(Branch(left, right), 1) = right
  <2>1. CASE left = right /\ IsLeaf(left)
    BY <2>1 DEF Branch, Child
  <2>2. CASE ~(left = right /\ IsLeaf(left))
    BY <1>2, <2>2 DEF Branch, Child
  <2> QED BY <2>1, <2>2
<1> QED BY <1>1, <1>3 DEF Bit, left, right

(***************************************************************************)
(* The trie below a path depends on the addresses under the path alone.    *)
(***************************************************************************)
LEMMA BelowIsLocal ==
    ASSUME NEW f, NEW g, NEW p \in Path,
           \A a \in Address : Covers(p, a) => f[a] = g[a]
    PROVE  Below(f)[p] = Below(g)[p]
<1> DEFINE Agree(q) == \A a \in Address : Covers(q, a) => f[a] = g[a]
           S == {q \in Path : Agree(q) => Below(f)[q] = Below(g)[q]}
<1>1. ASSUME NEW q \in Path, Len(q) = V6Bits PROVE q \in S
  <2>1. Agree(q) => f[q] = g[q]
    BY <1>1, CoversSelf
  <2> QED BY <1>1, <2>1, BelowEquation
<1>2. ASSUME NEW q \in Path, Len(q) # V6Bits, Append(q, 0) \in S, Append(q, 1) \in S
      PROVE  q \in S
  <2>1. Agree(q) => Agree(Append(q, 0)) /\ Agree(Append(q, 1))
    BY <1>2, CoversHalf DEF Bit
  <2> HIDE DEF Agree
  <2> QED BY <1>2, <2>1, BelowEquation
<1> HIDE DEF S
<1>3. p \in S
  BY <1>1, <1>2, PathInduction
<1> QED BY <1>3 DEF S

(***************************************************************************)
(* Where all addresses have one ASN, the canonical trie is a leaf.         *)
(***************************************************************************)
LEMMA UniformIsLeaf ==
    ASSUME NEW f, NEW asn, NEW p \in Path,
           \A a \in Address : Covers(p, a) => f[a] = asn
    PROVE  Below(f)[p] = Leaf(asn)
<1> DEFINE Uniform(q) == \A a \in Address : Covers(q, a) => f[a] = asn
           S == {q \in Path : Uniform(q) => Below(f)[q] = Leaf(asn)}
<1>1. ASSUME NEW q \in Path, Len(q) = V6Bits PROVE q \in S
  <2>1. Uniform(q) => f[q] = asn
    BY <1>1, CoversSelf
  <2> QED BY <1>1, <2>1, BelowEquation
<1>2. ASSUME NEW q \in Path, Len(q) # V6Bits, Append(q, 0) \in S, Append(q, 1) \in S
      PROVE  q \in S
  <2>1. Uniform(q) => Uniform(Append(q, 0)) /\ Uniform(Append(q, 1))
    BY <1>2, CoversHalf DEF Bit
  <2>2. Branch(Leaf(asn), Leaf(asn)) = Leaf(asn)
    BY DEF Branch, Leaf, IsLeaf
  <2> HIDE DEF Uniform
  <2> QED BY <1>2, <2>1, <2>2, BelowEquation
<1> HIDE DEF S
<1>3. p \in S
  BY <1>1, <1>2, PathInduction
<1> QED BY <1>3 DEF S

---------------------------------------------------------------------------
(* Walking down a map and updating it.                                     *)

(***************************************************************************)
(* The nodes on a path are the canonical tries below its beginnings.       *)
(***************************************************************************)
LEMMA AlongIsBelow ==
    ASSUME NEW f, NEW path \in Path
    PROVE  \A k \in 0 .. Len(path) : Along(TrieOf(f), path)[k] = Below(f)[Upto(path, k)]
<1> DEFINE n == Len(path)
           root == TrieOf(f)
           Is(at) == at = [k \in 0 .. n |-> IF k = 0 THEN root ELSE Child(at[k - 1], path[k])]
           at == CHOOSE at : Is(at)
           down == [k \in 0 .. n |-> Below(f)[Upto(path, k)]]
<1>1. n \in Nat /\ n <= V6Bits /\ path \in [1 .. n -> Bit]
  BY PathType
<1>2. Along(root, path) = at
  BY DEF Along
<1>3. down[0] = root
  BY <1>1, UptoGrows, TrieIsBelow
<1>4. ASSUME NEW k \in 1 .. n PROVE down[k] = Child(down[k - 1], path[k])
  <2> DEFINE q == Upto(path, k - 1)
  <2>1. k \in 0 .. n /\ k - 1 \in 0 .. n /\ path[k] \in Bit /\ k - 1 # V6Bits
    BY <1>1, WidthIsNat
  <2>2. q \in Path /\ Len(q) # V6Bits
    BY <2>1, UptoGrows
  <2>3. Upto(path, k) = Append(q, path[k])
    BY UptoGrows
  <2> HIDE DEF q
  <2>4. Child(Below(f)[q], path[k]) = Below(f)[Upto(path, k)]
    BY <2>1, <2>2, <2>3, ChildBelow
  <2> QED BY <2>1, <2>4 DEF q
<1>5. Is(down)
  <2> DEFINE again == [k \in 0 .. n |-> IF k = 0 THEN root ELSE Child(down[k - 1], path[k])]
  <2>1. \A k \in 0 .. n : down[k] = again[k]
    <3> HIDE DEF down, root
    <3> QED BY <1>1, <1>3, <1>4
  <2>2. down = again
    BY <2>1
  <2> QED BY <2>2
<1> HIDE DEF at, down, root
<1>6. Is(at)
  BY <1>5, Zenon DEF at
<1> DEFINE S == {k \in 0 .. n : at[k] = down[k]}
<1>7. 0 \in S
  BY <1>1, <1>3, <1>6
<1>8. ASSUME NEW k \in 1 .. n, k - 1 \in S PROVE k \in S
  BY <1>1, <1>4, <1>6, <1>8
<1> HIDE DEF S, n
<1>9. \A k \in 0 .. n : k \in S
  BY <1>1, <1>7, <1>8, IntervalInduction
<1> QED BY <1>2, <1>9 DEF S, down, n, root

(* The addresses under path have the ASN now. *)
Put(f, path, asn) == [a \in Address |-> IF Covers(path, a) THEN asn ELSE f[a]]

(***************************************************************************)
(* The half that the path does not enter stays as it was.                  *)
(***************************************************************************)
LEMMA OtherHalfStays ==
    ASSUME NEW f, NEW path \in Path, NEW asn, NEW k \in 0 .. Len(path) - 1,
           NEW b \in Bit, b # path[k + 1]
    PROVE  Below(Put(f, path, asn))[Append(Upto(path, k), b)]
             = Child(Below(f)[Upto(path, k)], b)
<1> DEFINE q == Upto(path, k)
           g == Put(f, path, asn)
<1>1. Len(path) \in Nat /\ Len(path) <= V6Bits /\ V6Bits \in Nat
  BY PathType, WidthIsNat
<1>2. k \in 0 .. Len(path) /\ k < V6Bits /\ k + 1 \in 1 .. Len(path)
  BY <1>1
<1>3. q \in Path /\ Len(q) = k
  BY <1>2, UptoGrows
<1>4. Append(q, b) \in Path
  BY <1>2, <1>3, PathAppend
<1>5. ASSUME NEW a \in Address, Covers(Append(q, b), a) PROVE g[a] = f[a]
  <2>1. a[k + 1] = b
    BY <1>2, <1>3, <1>5, CoversHalf
  <2>2. ~Covers(path, a)
    BY <1>2, <2>1, CoversIsPointwise
  <2> QED BY <2>2 DEF Put
<1> HIDE DEF q, g
<1>6. Below(g)[Append(q, b)] = Below(f)[Append(q, b)]
  BY <1>4, <1>5, BelowIsLocal
<1>7. Child(Below(f)[q], b) = Below(f)[Append(q, b)]
  BY <1>2, <1>3, ChildBelow
<1> QED BY <1>6, <1>7 DEF q, g

(***************************************************************************)
(* An update of a canonical trie is the canonical trie of the update.      *)
(***************************************************************************)
LEMMA UpdateIsCanonical ==
    ASSUME NEW f, NEW path \in Path, NEW asn
    PROVE  Update(TrieOf(f), path, asn) = TrieOf(Put(f, path, asn))
<1> DEFINE n == Len(path)
           g == Put(f, path, asn)
           at == Along(TrieOf(f), path)
           Is(new) == new = [k \in 0 .. n |->
                                IF k = n THEN Leaf(asn)
                                ELSE IF path[k + 1] = 0 THEN Branch(new[k + 1], Child(at[k], 1))
                                ELSE Branch(Child(at[k], 0), new[k + 1])]
           new == CHOOSE new : Is(new)
           goal == [k \in 0 .. n |-> Below(g)[Upto(path, k)]]
<1>1. n \in Nat /\ n <= V6Bits /\ V6Bits \in Nat /\ path \in [1 .. n -> Bit]
  BY PathType, WidthIsNat
<1>2. Update(TrieOf(f), path, asn) = new[0]
  BY DEF Update, Updated
<1>3. goal[n] = Leaf(asn)
  <2>1. Upto(path, n) = path
    BY UptoGrows
  <2>2. Below(g)[path] = Leaf(asn)
    <3>1. \A a \in Address : Covers(path, a) => g[a] = asn
      BY DEF Put
    <3> HIDE DEF g
    <3> QED BY <3>1, UniformIsLeaf
  <2> QED BY <1>1, <2>1, <2>2
<1>4. ASSUME NEW k \in 0 .. n - 1
      PROVE  goal[k] = IF path[k + 1] = 0 THEN Branch(goal[k + 1], Child(at[k], 1))
                       ELSE Branch(Child(at[k], 0), goal[k + 1])
  <2> DEFINE q == Upto(path, k)
  <2>1. k \in 0 .. n /\ k + 1 \in 0 .. n /\ k + 1 \in 1 .. n /\ k # V6Bits /\ path[k + 1] \in Bit
    BY <1>1
  <2>2. q \in Path /\ Len(q) # V6Bits
    BY <2>1, UptoGrows
  <2>3. Append(q, path[k + 1]) = Upto(path, k + 1)
    <3>1. Upto(path, k + 1) = Append(Upto(path, (k + 1) - 1), path[k + 1])
      BY <2>1, UptoGrows
    <3>2. (k + 1) - 1 = k
      BY <2>1
    <3> QED BY <3>1, <3>2
  <2>4. at[k] = Below(f)[q]
    BY <2>1, AlongIsBelow
  <2>5. ASSUME NEW b \in Bit, b # path[k + 1]
        PROVE  Below(g)[Append(q, b)] = Child(at[k], b)
    BY <2>4, <2>5, OtherHalfStays
  <2>6. Below(g)[q] = Branch(Below(g)[Append(q, 0)], Below(g)[Append(q, 1)])
    BY <2>2, BelowEquation
  <2>7. goal[k] = Below(g)[q] /\ goal[k + 1] = Below(g)[Upto(path, k + 1)]
    BY <2>1
  <2> HIDE DEF q, g, at, goal, n
  <2>8. CASE path[k + 1] = 0
    <3>1. Below(g)[Append(q, 1)] = Child(at[k], 1)
      BY <2>5, <2>8 DEF Bit
    <3> QED BY <2>3, <2>6, <2>7, <2>8, <3>1
  <2>9. CASE path[k + 1] = 1
    <3>1. Below(g)[Append(q, 0)] = Child(at[k], 0)
      BY <2>5, <2>9 DEF Bit
    <3> QED BY <2>3, <2>6, <2>7, <2>9, <3>1
  <2> QED BY <2>1, <2>8, <2>9 DEF Bit
<1>5. Is(goal)
  <2> DEFINE again == [k \in 0 .. n |->
                          IF k = n THEN Leaf(asn)
                          ELSE IF path[k + 1] = 0 THEN Branch(goal[k + 1], Child(at[k], 1))
                          ELSE Branch(Child(at[k], 0), goal[k + 1])]
  <2>1. ASSUME NEW k \in 0 .. n PROVE goal[k] = again[k]
    <3> HIDE DEF goal, at, n
    <3>1. CASE k = n
      BY <1>3, <3>1
    <3>2. CASE k # n
      <4>1. k \in 0 .. n - 1
        BY <1>1, <3>2
      <4> QED BY <1>4, <3>2, <4>1
    <3> QED BY <3>1, <3>2
  <2>2. goal = again
    BY <2>1
  <2> QED BY <2>2
<1> HIDE DEF new, goal, at, g, n
<1>6. Is(new)
  BY <1>5, Zenon DEF new
<1> DEFINE S == {j \in 0 .. n : new[n - j] = goal[n - j]}
<1>7. 0 \in S
  BY <1>1, <1>3, <1>6
<1>8. ASSUME NEW j \in 1 .. n, j - 1 \in S PROVE j \in S
  <2> DEFINE k == n - j
  <2>1. k \in 0 .. n - 1 /\ k \in 0 .. n /\ k # n /\ k + 1 = n - (j - 1)
    BY <1>1
  <2>2. new[k + 1] = goal[k + 1]
    BY <1>8, <2>1
  <2> HIDE DEF k
  <2>3. new[k] = goal[k]
    BY <1>4, <1>6, <2>1, <2>2
  <2> QED BY <1>1, <2>3 DEF k
<1> HIDE DEF S
<1>9. n \in S
  BY SMTT(30), <1>1, <1>7, <1>8, IntervalInduction
<1>10. new[0] = goal[0]
  BY <1>1, <1>9 DEF S
<1>11. goal[0] = TrieOf(g)
  BY <1>1, UptoGrows, TrieIsBelow DEF goal
<1> QED BY <1>2, <1>10, <1>11 DEF g

---------------------------------------------------------------------------
(* The stable sort.                                                        *)

(* The order it sorts in, and an index's place there. *)
Ahead(keys, i, j) == keys[i] < keys[j] \/ (keys[i] = keys[j] /\ i < j)

Place(keys, i) == Cardinality({j \in DOMAIN keys : Ahead(keys, j, i)})

(***************************************************************************)
(* An index has a place, below the number of the keys; places are in the   *)
(* order of the keys, so that two indices have two places.                 *)
(***************************************************************************)
LEMMA PlaceBound ==
    ASSUME NEW keys \in Seq(Nat), NEW i \in DOMAIN keys
    PROVE  Place(keys, i) \in 0 .. Len(keys) - 1
<1> DEFINE all == 1 .. Len(keys)
           before == {j \in all : Ahead(keys, j, i)}
<1>1. Len(keys) \in Nat /\ DOMAIN keys = all
  OBVIOUS
<1>2. IsFiniteSet(all) /\ Cardinality(all) = Len(keys)
  <2>1. 1 \in Int /\ Len(keys) \in Int /\ (1 > Len(keys) => Len(keys) = 0)
    BY <1>1
  <2>2. /\ IsFiniteSet(1 .. Len(keys))
        /\ Cardinality(1 .. Len(keys)) = IF 1 > Len(keys) THEN 0 ELSE Len(keys) - 1 + 1
    BY <2>1, FS_Interval, Zenon
  <2> QED BY <1>1, <2>2
<1>3. before \subseteq all /\ i \in all /\ i \notin before
  BY <1>1 DEF Ahead
<1>4. Cardinality(before) \in Nat /\ Cardinality(before) < Cardinality(all)
  <2> HIDE DEF before, all
  <2> QED BY <1>2, <1>3, FS_Subset, FS_CardinalityType
<1> QED BY <1>1, <1>2, <1>4 DEF Place

LEMMA PlacesInOrder ==
    ASSUME NEW keys \in Seq(Nat), NEW i \in DOMAIN keys, NEW j \in DOMAIN keys,
           Ahead(keys, i, j)
    PROVE  Place(keys, i) < Place(keys, j)
<1> DEFINE all == 1 .. Len(keys)
           beforeI == {k \in all : Ahead(keys, k, i)}
           beforeJ == {k \in all : Ahead(keys, k, j)}
<1>1. Len(keys) \in Nat /\ DOMAIN keys = all /\ IsFiniteSet(all)
  BY FS_Interval
<1>2. \A k \in all : keys[k] \in Nat /\ k \in Nat
  BY <1>1
<1>3. i \in beforeJ /\ i \notin beforeI
  BY <1>1, <1>2 DEF Ahead
<1>4. beforeI \subseteq beforeJ
  <2>1. ASSUME NEW k \in all, Ahead(keys, k, i) PROVE Ahead(keys, k, j)
    <3>1. i \in all /\ j \in all
      BY <1>1
    <3> HIDE DEF all
    <3> QED BY <1>2, <2>1, <3>1 DEF Ahead
  <2> QED BY <2>1
<1>5. beforeJ \subseteq all
  OBVIOUS
<1>6. Cardinality(beforeI) \in Nat /\ Cardinality(beforeJ) \in Nat
      /\ Cardinality(beforeI) < Cardinality(beforeJ)
  <2> HIDE DEF beforeI, beforeJ, all
  <2> QED BY <1>1, <1>3, <1>4, <1>5, FS_Subset, FS_CardinalityType
<1> QED BY <1>1, <1>6 DEF Place

(***************************************************************************)
(* sort_by_key keeps every index, and puts an index behind another only    *)
(* where its key is larger, or equal and the index later.                  *)
(***************************************************************************)
LEMMA SortIsStable ==
    ASSUME NEW keys \in Seq(Nat)
    PROVE  /\ SortByKey(keys) \in [1 .. Len(keys) -> 1 .. Len(keys)]
           /\ \A i \in 1 .. Len(keys) : \E k \in 1 .. Len(keys) : SortByKey(keys)[k] = i
           /\ \A j, k \in 1 .. Len(keys) :
                 j < k => Ahead(keys, SortByKey(keys)[j], SortByKey(keys)[k])
<1> DEFINE n == Len(keys)
           sorted == SortByKey(keys)
           places == [i \in 1 .. n |-> Place(keys, i)]
<1>1. n \in Nat /\ DOMAIN keys = 1 .. n
  OBVIOUS
<1>2. sorted = [k \in 1 .. n |-> CHOOSE i \in 1 .. n : Place(keys, i) = k - 1]
  BY <1>1 DEF SortByKey, Place, Ahead
<1>3. \A i \in 1 .. n : keys[i] \in Nat
  BY <1>1
<1>4. \A i \in 1 .. n : Place(keys, i) \in 0 .. n - 1
  BY <1>1, PlaceBound
<1> HIDE DEF n, sorted
<1>5. \A i, j \in 1 .. n : i = j \/ Ahead(keys, i, j) \/ Ahead(keys, j, i)
  BY <1>1, <1>3 DEF Ahead
<1>6. \A i, j \in 1 .. n : Ahead(keys, i, j) => Place(keys, i) < Place(keys, j)
  BY <1>1, PlacesInOrder
<1>7. \A i, j \in 1 .. n : Place(keys, i) = Place(keys, j) => i = j
  <2> TAKE i, j \in 1 .. n
  <2> HAVE Place(keys, i) = Place(keys, j)
  <2>1. Place(keys, i) \in Int /\ Place(keys, j) \in Int
    BY <1>4
  <2>2. ~ (Place(keys, i) < Place(keys, j)) /\ ~ (Place(keys, j) < Place(keys, i))
    BY <2>1
  <2> QED BY <1>5, <1>6, <2>2
<1>8. places \in Injection(1 .. n, 0 .. n - 1)
  BY <1>4, <1>7 DEF Injection, IsInjective
<1>9. /\ IsFiniteSet(1 .. n) /\ Cardinality(1 .. n) = n
      /\ IsFiniteSet(0 .. n - 1) /\ Cardinality(0 .. n - 1) = n
  BY <1>1, FS_Interval
<1>10. places \in Surjection(1 .. n, 0 .. n - 1)
  BY <1>8, <1>9, FS_Injection
<1>11. \A k \in 1 .. n : sorted[k] \in 1 .. n /\ Place(keys, sorted[k]) = k - 1
  <2> TAKE k \in 1 .. n
  <2>1. k - 1 \in 0 .. n - 1
    BY <1>1
  <2>2. PICK i \in 1 .. n : places[i] = k - 1
    BY <1>10, <2>1 DEF Surjection
  <2>3. Place(keys, i) = k - 1
    BY <2>2
  <2> QED BY <1>2, <2>3
<1>12. \A i \in 1 .. n : \E k \in 1 .. n : sorted[k] = i
  <2> TAKE i \in 1 .. n
  <2>1. Place(keys, i) \in 0 .. n - 1
    BY <1>4
  <2>2. Place(keys, i) + 1 \in 1 .. n /\ (Place(keys, i) + 1) - 1 = Place(keys, i)
    BY <1>1, <2>1
  <2>3. Place(keys, sorted[Place(keys, i) + 1]) = Place(keys, i)
    BY <1>11, <2>2
  <2> QED BY <1>7, <1>11, <2>2, <2>3
<1>13. \A j, k \in 1 .. n : j < k => Ahead(keys, sorted[j], sorted[k])
  <2> TAKE j, k \in 1 .. n
  <2> HAVE j < k
  <2>1. Place(keys, sorted[j]) = j - 1 /\ Place(keys, sorted[k]) = k - 1
    BY <1>11
  <2>2. ~ (k - 1 < j - 1) /\ j - 1 # k - 1
    BY <1>1
  <2>3. sorted[j] \in 1 .. n /\ sorted[k] \in 1 .. n
    BY <1>11
  <2>4. ~ Ahead(keys, sorted[k], sorted[j])
    BY <1>6, <2>1, <2>2, <2>3
  <2>5. sorted[j] # sorted[k]
    BY <2>1, <2>2
  <2> QED BY <1>5, <2>3, <2>4, <2>5
<1>14. sorted \in [1 .. n -> 1 .. n]
  BY <1>2, <1>11
<1> QED BY <1>12, <1>13, <1>14 DEF n, sorted

---------------------------------------------------------------------------
(* Lists of entries.                                                       *)

(* Entry i is applied before entry j: it is shorter, or earlier in the list. *)
Before(entries, i, j) ==
    \/ Len(entries[i][1]) < Len(entries[j][1])
    \/ Len(entries[i][1]) = Len(entries[j][1]) /\ i < j

(* The entry of a list that is applied last. *)
LastOf(entries, over) ==
    CHOOSE i \in over :
        \A j \in over : \/ Len(entries[j][1]) < Len(entries[i][1])
                        \/ Len(entries[j][1]) = Len(entries[i][1]) /\ j <= i

(* AssignedBy, of the entries among the given ones. *)
AssignedAmong(entries, among, f, addr) ==
    LET over == {i \in among : Covers(entries[i][1], addr)}
    IN  IF over = {} THEN f[addr] ELSE entries[LastOf(entries, over)][2]

(* What addresses have once the given entries have been applied to f. *)
After(f, entries, among) == [a \in Address |-> AssignedAmong(entries, among, f, a)]

LEMMA EntryType ==
    ASSUME NEW entries \in Seq(Path \X Nat), NEW i \in DOMAIN entries
    PROVE  /\ entries[i][1] \in Path /\ Len(entries[i][1]) \in Nat
           /\ Len(entries[i][1]) <= V6Bits /\ entries[i][2] \in Nat /\ i \in Nat
<1>1. entries[i] \in Path \X Nat /\ i \in Nat
  OBVIOUS
<1> QED BY <1>1, PathType

(***************************************************************************)
(* An entry applied after all others decides about what it covers, and     *)
(* nothing else: it is the longest there, or the last of the longest.      *)
(***************************************************************************)
LEMMA LastEntryWins ==
    ASSUME NEW f, NEW entries \in Seq(Path \X Nat), NEW among \in SUBSET DOMAIN entries,
           NEW j \in DOMAIN entries, \A i \in among : Before(entries, i, j)
    PROVE  Put(After(f, entries, among), entries[j][1], entries[j][2])
             = After(f, entries, among \cup {j})
<1> DEFINE over(a) == {i \in among : Covers(entries[i][1], a)}
           more(a) == {i \in among \cup {j} : Covers(entries[i][1], a)}
           Wins(S, i) == \A k \in S : \/ Len(entries[k][1]) < Len(entries[i][1])
                                      \/ Len(entries[k][1]) = Len(entries[i][1]) /\ k <= i
<1>1. \A i \in DOMAIN entries : Len(entries[i][1]) \in Nat /\ i \in Nat
  BY EntryType
<1>2. ASSUME NEW a \in Address, Covers(entries[j][1], a)
      PROVE  AssignedAmong(entries, among \cup {j}, f, a) = entries[j][2]
  <2>1. j \in more(a) /\ more(a) \subseteq DOMAIN entries
    BY <1>2
  <2>2. \A i \in more(a) : i = j \/ Before(entries, i, j)
    OBVIOUS
  <2>3. Wins(more(a), j)
    BY <1>1, <2>1, <2>2 DEF Before
  <2>4. ASSUME NEW i \in more(a), Wins(more(a), i) PROVE i = j
    <3>1. \/ Len(entries[j][1]) < Len(entries[i][1])
          \/ Len(entries[j][1]) = Len(entries[i][1]) /\ j <= i
      BY <2>1, <2>4
    <3>2. i \in DOMAIN entries /\ j \in DOMAIN entries
      BY <2>1
    <3>3. i = j \/ Before(entries, i, j)
      BY <2>2
    <3> HIDE DEF more, Wins
    <3> QED BY <1>1, <3>1, <3>2, <3>3 DEF Before
  <2>5. LastOf(entries, more(a)) = CHOOSE i \in more(a) : Wins(more(a), i)
    BY DEF LastOf
  <2> HIDE DEF Wins
  <2>6. LastOf(entries, more(a)) = j
    <3> HIDE DEF more
    <3> QED BY <2>1, <2>3, <2>4, <2>5
  <2> QED BY <2>1, <2>6 DEF AssignedAmong
<1>3. ASSUME NEW a \in Address, ~Covers(entries[j][1], a)
      PROVE  AssignedAmong(entries, among \cup {j}, f, a) = AssignedAmong(entries, among, f, a)
  <2>1. more(a) = over(a)
    BY <1>3
  <2> QED BY <2>1 DEF AssignedAmong
<1> QED BY <1>2, <1>3 DEF Put, After

(***************************************************************************)
(* update_multi: the canonical trie of a map becomes that of what the      *)
(* longest, and of equally long ones the last, of the entries assign.      *)
(***************************************************************************)
LEMMA UpdateMultiIsCanonical ==
    ASSUME NEW f, f = [a \in Address |-> f[a]], NEW entries \in Seq(Path \X Nat)
    PROVE  UpdateMulti(TrieOf(f), entries) = TrieOf(After(f, entries, DOMAIN entries))
<1> DEFINE len == Len(entries)
           keys == [i \in DOMAIN entries |-> Len(entries[i][1])]
           order == SortByKey(keys)
           node == TrieOf(f)
           sooner(k) == {order[j] : j \in 1 .. k}
           Step(m, k) == Update(m, entries[order[k]][1], entries[order[k]][2])
           Is(after) == after = [k \in 0 .. len |->
                            IF k = 0 THEN node
                            ELSE Update(after[k - 1], entries[order[k]][1], entries[order[k]][2])]
           after == CHOOSE after : Is(after)
           goal == [k \in 0 .. len |-> TrieOf(After(f, entries, sooner(k)))]
<1>1. len \in Nat /\ DOMAIN entries = 1 .. len
  OBVIOUS
<1>2. UpdateMulti(node, entries) = after[len]
  BY DEF UpdateMulti
<1>3. keys \in Seq(Nat) /\ Len(keys) = len /\ DOMAIN keys = 1 .. len
  <2>1. \A i \in 1 .. len : Len(entries[i][1]) \in Nat
    BY <1>1, EntryType
  <2> QED BY <1>1, <2>1
<1>4. /\ order \in [1 .. len -> 1 .. len]
      /\ \A i \in 1 .. len : \E k \in 1 .. len : order[k] = i
      /\ \A j, k \in 1 .. len : j < k => Ahead(keys, order[j], order[k])
  <2> HIDE DEF keys
  <2> QED BY <1>3, SortIsStable
<1>5. \A i, j \in 1 .. len : Ahead(keys, i, j) => Before(entries, i, j)
  BY <1>1 DEF Ahead, Before
<1> HIDE DEF len, keys, order
<1>6. goal[0] = node
  <2>1. sooner(0) = {}
    OBVIOUS
  <2>2. After(f, entries, {}) = f
    BY DEF After, AssignedAmong
  <2>3. goal[0] = TrieOf(After(f, entries, sooner(0)))
    BY <1>1
  <2> HIDE DEF goal, sooner
  <2> QED BY <2>1, <2>2, <2>3
<1>7. ASSUME NEW k \in 1 .. len PROVE goal[k] = Step(goal[k - 1], k)
  <2>1. k - 1 \in 0 .. len /\ k \in 0 .. len /\ order[k] \in DOMAIN entries
    <3>1. k \in 1 .. len
      OBVIOUS
    <3>2. order[k] \in 1 .. len
      BY ONLY <1>4, <3>1
    <3>3. k - 1 \in 0 .. len /\ k \in 0 .. len
      BY ONLY <1>1, <3>1
    <3> QED BY ONLY <1>1, <3>2, <3>3
  <2>2. entries[order[k]][1] \in Path
    BY <2>1, EntryType
  <2>3. sooner(k) = sooner(k - 1) \cup {order[k]}
    <3>1. 1 .. k = (1 .. k - 1) \cup {k}
      BY <1>1
    <3> QED BY <3>1
  <2>4. sooner(k - 1) \in SUBSET DOMAIN entries
    <3>1. \A j \in 1 .. k - 1 : j \in 1 .. len
      BY <1>1
    <3>2. \A j \in 1 .. k - 1 : order[j] \in 1 .. len
      BY ONLY <1>4, <3>1
    <3>3. sooner(k - 1) \subseteq 1 .. len
      BY <3>2
    <3> HIDE DEF sooner
    <3> QED BY ONLY <1>1, <3>3
  <2>5. \A i \in sooner(k - 1) : Before(entries, i, order[k])
    <3>1. ASSUME NEW j \in 1 .. k - 1 PROVE Before(entries, order[j], order[k])
      <4>1. j \in 1 .. len /\ j < k
        BY <1>1
      <4> QED BY <1>4, <1>5, <4>1
    <3> QED BY <3>1
  <2>6. Put(After(f, entries, sooner(k - 1)), entries[order[k]][1], entries[order[k]][2])
          = After(f, entries, sooner(k))
    <3> DEFINE earlier == sooner(k - 1)
               last == order[k]
    <3> HIDE DEF earlier, last
    <3>1. earlier \in SUBSET DOMAIN entries /\ last \in DOMAIN entries
          /\ \A i \in earlier : Before(entries, i, last)
      BY <2>1, <2>4, <2>5 DEF earlier, last
    <3>2. Put(After(f, entries, earlier), entries[last][1], entries[last][2])
            = After(f, entries, earlier \cup {last})
      BY ONLY <3>1, entries \in Seq(Path \X Nat), LastEntryWins
    <3> HIDE DEF sooner
    <3> QED BY <2>3, <3>2 DEF earlier, last
  <2>7. Update(goal[k - 1], entries[order[k]][1], entries[order[k]][2]) = goal[k]
    <3> HIDE DEF sooner
    <3> QED BY <2>1, <2>2, <2>6, UpdateIsCanonical
  <2> QED BY <2>7
<1>8. Is(goal)
  <2> DEFINE again == [k \in 0 .. len |->
                          IF k = 0 THEN node
                          ELSE Update(goal[k - 1], entries[order[k]][1], entries[order[k]][2])]
  <2>1. ASSUME NEW k \in 0 .. len PROVE goal[k] = again[k]
    <3> HIDE DEF goal, node
    <3>1. CASE k = 0
      BY <1>6, <3>1
    <3>2. CASE k # 0
      <4>1. k \in 1 .. len
        BY <1>1, <3>2
      <4> QED BY <1>7, <3>2, <4>1
    <3> QED BY <3>1, <3>2
  <2>2. goal = again
    BY <2>1
  <2> QED BY <2>2
<1> HIDE DEF after, goal, node
<1>9. Is(after)
  BY <1>8, Zenon DEF after
<1> DEFINE S == {k \in 0 .. len : after[k] = goal[k]}
<1>10. 0 \in S
  BY <1>1, <1>6, <1>9
<1>11. ASSUME NEW k \in 1 .. len, k - 1 \in S PROVE k \in S
  <2>1. k \in 0 .. len /\ k # 0
    BY <1>1
  <2>2. after[k] = Step(after[k - 1], k)
    BY <1>9, <2>1
  <2> QED BY <1>7, <1>11, <2>1, <2>2
<1> HIDE DEF S
<1>12. \A k \in 0 .. len : k \in S
  BY <1>1, <1>10, <1>11, IntervalInduction
<1>13. sooner(len) = DOMAIN entries
  BY <1>1, <1>4
<1>14. goal[len] = TrieOf(After(f, entries, DOMAIN entries))
  <2>1. goal[len] = TrieOf(After(f, entries, sooner(len)))
    BY <1>1 DEF goal
  <2> HIDE DEF sooner
  <2> QED BY <1>13, <2>1
<1> QED BY <1>1, <1>2, <1>12, <1>14 DEF S, node

---------------------------------------------------------------------------
(* The map.                                                                *)

(***************************************************************************)
(* A lookup of an address in a canonical trie finds the address's ASN.     *)
(***************************************************************************)
LEMMA LookupOfTrie ==
    ASSUME NEW f, NEW a \in Address
    PROVE  Lookup(TrieOf(f), a) = f[a]
<1>1. a \in Seq(Bit) /\ Len(a) = V6Bits
  BY WidthIsNat DEF Address
<1>2. a \in Path
  BY <1>1, WidthIsNat, PathIntro
<1>3. Along(TrieOf(f), a)[Len(a)] = Below(f)[a]
  BY <1>1, <1>2, WidthIsNat, AlongIsBelow, UptoGrows
<1>4. Below(f)[a] = Leaf(f[a])
  BY <1>1, <1>2, BelowEquation
<1>5. IsLeaf(Leaf(f[a])) /\ Leaf(f[a])[1] = f[a]
  BY DEF IsLeaf, Leaf
<1> QED BY <1>3, <1>4, <1>5 DEF Lookup, NodeAt

(***************************************************************************)
(* Maps are equal exactly when they assign every address the same ASN: the *)
(* comparison of tries with == in verify is one of contents.               *)
(***************************************************************************)
THEOREM EqualityIsOfContents ==
    \A f, g \in [Address -> Nat] :
        TrieOf(f) = TrieOf(g) <=> \A a \in Address : f[a] = g[a]
<1> SUFFICES ASSUME NEW f \in [Address -> Nat], NEW g \in [Address -> Nat]
             PROVE  TrieOf(f) = TrieOf(g) <=> \A a \in Address : f[a] = g[a]
  OBVIOUS
<1>1. ASSUME TrieOf(f) = TrieOf(g), NEW a \in Address PROVE f[a] = g[a]
  BY <1>1, LookupOfTrie
<1>2. ASSUME \A a \in Address : f[a] = g[a] PROVE TrieOf(f) = TrieOf(g)
  BY <1>2
<1> QED BY <1>1, <1>2

---------------------------------------------------------------------------
(* f has its ends, and elsewhere what its values below the halves make. *)
RecursOver(f, paths, stop, ends, step) ==
    \A p \in paths :
       f[p] = IF p \in stop THEN ends[p] ELSE step[p][<<f[Append(p, 0)], f[Append(p, 1)]>>]

(***************************************************************************)
(* A recursion down the paths, which stops at an address if not before, has*)
(* a function that satisfies it.                                           *)
(***************************************************************************)
LEMMA PathRecursion ==
    ASSUME NEW V, NEW stop \in SUBSET Path, \A p \in Path : Len(p) = V6Bits => p \in stop,
           NEW ends \in [Path -> V], NEW step \in [Path -> [V \X V -> V]]
    PROVE  \E f \in [Path -> V] : RecursOver(f, Path, stop, ends, step)
<1> DEFINE S == {m \in 0 .. V6Bits :
                    \E f \in [Deep(m) -> V] : RecursOver(f, Deep(m), stop, ends, step)}
<1>1. 0 \in S
  <2> DEFINE f == [p \in Deep(0) |-> ends[p]]
  <2>1. Deep(0) \subseteq stop /\ Deep(0) \subseteq Path
    BY WidthIsNat, PathType DEF Deep
  <2>2. f \in [Deep(0) -> V] /\ RecursOver(f, Deep(0), stop, ends, step)
    BY <2>1 DEF RecursOver
  <2> HIDE DEF f
  <2> QED BY <2>2, WidthIsNat
<1>2. ASSUME NEW m \in 1 .. V6Bits, m - 1 \in S PROVE m \in S
  <2>1. PICK old \in [Deep(m - 1) -> V] : RecursOver(old, Deep(m - 1), stop, ends, step)
    BY <1>2
  <2> DEFINE new == [p \in Deep(m) |->
                        IF p \in stop THEN ends[p]
                        ELSE step[p][<<old[Append(p, 0)], old[Append(p, 1)]>>]]
  <2>2. Deep(m - 1) \subseteq Deep(m) /\ Deep(m) \subseteq Path
    BY WidthIsNat, PathType DEF Deep
  <2>3. \A p \in Deep(m - 1) : new[p] = old[p]
    BY <2>1, <2>2 DEF RecursOver
  <2>4. ASSUME NEW p \in Deep(m), p \notin stop, NEW b \in Bit
        PROVE  Append(p, b) \in Deep(m - 1)
    <3>1. p \in Path /\ Len(p) \in Nat /\ Len(p) < V6Bits /\ Len(p) >= V6Bits - m
      BY <2>2, <2>4, WidthIsNat, PathType DEF Deep
    <3>2. Append(p, b) \in Path /\ Len(Append(p, b)) = Len(p) + 1
      BY <3>1, PathAppend
    <3> QED BY <3>1, <3>2, WidthIsNat DEF Deep
  <2>5. \A p \in Deep(m) : new[p] = IF p \in stop THEN ends[p]
                                    ELSE step[p][<<old[Append(p, 0)], old[Append(p, 1)]>>]
    OBVIOUS
  <2>6. DOMAIN new = Deep(m) /\ new = [p \in Deep(m) |-> new[p]]
    OBVIOUS
  <2> HIDE DEF new
  <2>7. ASSUME NEW p \in Deep(m)
        PROVE  /\ new[p] \in V
               /\ new[p] = IF p \in stop THEN ends[p]
                           ELSE step[p][<<new[Append(p, 0)], new[Append(p, 1)]>>]
    <3>1. CASE p \in stop
      BY <2>2, <2>5, <3>1
    <3>2. CASE p \notin stop
      <4>1. Append(p, 0) \in Deep(m - 1) /\ Append(p, 1) \in Deep(m - 1) /\ p \in Path
        BY <2>2, <2>4, <3>2 DEF Bit
      <4>2. old[Append(p, 0)] \in V /\ old[Append(p, 1)] \in V
        BY <2>1, <4>1
      <4>3. new[Append(p, 0)] = old[Append(p, 0)] /\ new[Append(p, 1)] = old[Append(p, 1)]
        BY <2>3, <4>1
      <4>4. step[p] \in [V \X V -> V] /\ <<old[Append(p, 0)], old[Append(p, 1)]>> \in V \X V
        BY <4>1, <4>2
      <4>5. step[p][<<old[Append(p, 0)], old[Append(p, 1)]>>] \in V
        BY ONLY <4>4
      <4> QED BY <2>5, <3>2, <4>3, <4>5
    <3> QED BY <3>1, <3>2
  <2>8. new \in [Deep(m) -> V]
    BY <2>6, <2>7
  <2>9. RecursOver(new, Deep(m), stop, ends, step)
    BY <2>7 DEF RecursOver
  <2> QED BY <2>8, <2>9
<1> HIDE DEF S
<1>3. \A m \in 0 .. V6Bits : m \in S
  BY ONLY <1>1, <1>2, WidthIsNat, IntervalInduction
<1>4. Deep(V6Bits) = Path /\ V6Bits \in 0 .. V6Bits
  BY WidthIsNat, PathType DEF Deep
<1> QED BY <1>3, <1>4 DEF S

(***************************************************************************)
(* The node on a path in a canonical trie is the trie below the path.      *)
(***************************************************************************)
LEMMA NodeIsBelow ==
    ASSUME NEW f, NEW p \in Path
    PROVE  NodeAt(TrieOf(f), p) = Below(f)[p]
<1>1. Len(p) \in 0 .. Len(p) /\ Upto(p, Len(p)) = p
  BY PathType, UptoGrows
<1> QED BY <1>1, AlongIsBelow DEF NodeAt

(***************************************************************************)
(* A leaf of the canonical trie stands where all addresses have its ASN.   *)
(***************************************************************************)
LEMMA LeafIsUniform ==
    ASSUME NEW f, NEW p \in Path, IsLeaf(Below(f)[p]), NEW a \in Address, Covers(p, a)
    PROVE  Below(f)[p] = Leaf(f[a]) /\ Below(f)[p][1] = f[a]
<1> DEFINE S == {q \in Path : IsLeaf(Below(f)[q]) =>
                   \A b \in Address : Covers(q, b) => Below(f)[q] = Leaf(f[b])}
<1>1. ASSUME NEW q \in Path, Len(q) = V6Bits PROVE q \in S
  <2>1. \A b \in Address : Covers(q, b) => b = q
    BY <1>1, CoversSelf
  <2> QED BY <1>1, <2>1, BelowEquation
<1>2. ASSUME NEW q \in Path, Len(q) # V6Bits, Append(q, 0) \in S, Append(q, 1) \in S
      PROVE  q \in S
  <2>1. SUFFICES ASSUME IsLeaf(Below(f)[q]), NEW b \in Address, Covers(q, b)
                 PROVE  Below(f)[q] = Leaf(f[b])
    BY <1>2
  <2>2. /\ Child(Below(f)[q], 0) = Below(f)[Append(q, 0)]
        /\ Child(Below(f)[q], 1) = Below(f)[Append(q, 1)]
    BY <1>2, ChildBelow DEF Bit
  <2>3. Below(f)[q] = Below(f)[Append(q, 0)] /\ Below(f)[q] = Below(f)[Append(q, 1)]
    BY <2>1, <2>2 DEF Child
  <2>4. b[Len(q) + 1] \in Bit
    <3>1. Len(q) + 1 \in 1 .. V6Bits
      BY <1>2, PathType, WidthIsNat
    <3> QED BY <3>1 DEF Address
  <2>5. Covers(Append(q, 0), b) \/ Covers(Append(q, 1), b)
    BY <1>2, <2>1, <2>4, CoversHalf DEF Bit
  <2> QED BY <1>2, <2>1, <2>3, <2>5
<1> HIDE DEF S
<1>3. p \in S
  BY <1>1, <1>2, PathInduction
<1>4. Below(f)[p] = Leaf(f[a])
  BY <1>3 DEF S
<1> QED BY <1>4 DEF Leaf

(* Every path covers an address. *)
LEMMA CoversSome ==
    ASSUME NEW p \in Path
    PROVE  \E a \in Address : Covers(p, a)
<1> DEFINE S == {q \in Path : \E a \in Address : Covers(q, a)}
<1>1. ASSUME NEW q \in Path, Len(q) = V6Bits PROVE q \in S
  BY <1>1, CoversSelf
<1>2. ASSUME NEW q \in Path, Len(q) # V6Bits, Append(q, 0) \in S, Append(q, 1) \in S
      PROVE  q \in S
  BY <1>2, CoversHalf DEF Bit
<1> HIDE DEF S
<1>3. p \in S
  BY <1>1, <1>2, PathInduction
<1> QED BY <1>3 DEF S

(* An address is a path. *)
LEMMA AddressIsPath ==
    ASSUME NEW a \in Address
    PROVE  a \in Path /\ Len(a) = V6Bits /\ Covers(a, a)
<1>1. a \in Seq(Bit) /\ Len(a) = V6Bits
  BY WidthIsNat DEF Address
<1>2. a \in Path
  BY <1>1, WidthIsNat, PathIntro
<1> QED BY <1>1, <1>2, CoversSelf

(* The trie ends in leaves at the addresses. *)
LEMMA AddressIsLeaf ==
    ASSUME NEW f, NEW p \in Path
    PROVE  Len(p) = V6Bits => IsLeaf(Below(f)[p])
<1>1. IsLeaf(Leaf(f[p]))
  BY DEF IsLeaf, Leaf
<1> QED BY <1>1, BelowEquation

(* q begins with p. *)
Within(q, p) == Len(p) <= Len(q) /\ \A i \in 1 .. Len(p) : q[i] = p[i]

(* Every path begins with itself. *)
LEMMA WithinSelf == ASSUME NEW p \in Path PROVE Within(p, p)
BY PathType DEF Within

(***************************************************************************)
(* What begins with a half of a path is longer than the path, and begins   *)
(* with it.                                                                *)
(***************************************************************************)
LEMMA WithinHalf ==
    ASSUME NEW p \in Path, Len(p) # V6Bits, NEW b \in Bit, NEW q \in Path, Within(q, Append(p, b))
    PROVE  Within(q, p) /\ Len(q) > Len(p) /\ q[Len(p) + 1] = b
<1>1. /\ Append(p, b) \in Path /\ Len(Append(p, b)) = Len(p) + 1
      /\ \A i \in 1 .. Len(p) : Append(p, b)[i] = p[i]
      /\ Append(p, b)[Len(p) + 1] = b
  BY PathAppend, PathType, WidthIsNat
<1>2. Len(p) \in Nat /\ Len(q) \in Nat
  BY PathType
<1> QED BY <1>1, <1>2 DEF Within

(* What is covered by a longer path is covered by what it begins with. *)
LEMMA WithinCovers ==
    ASSUME NEW p \in Path, NEW q \in Path, Within(q, p), NEW a \in Address, Covers(q, a)
    PROVE  Covers(p, a)
<1>1. Len(p) \in Nat /\ Len(q) \in Nat
  BY PathType
<1>2. \A i \in 1 .. Len(q) : a[i] = q[i]
  BY CoversIsPointwise
<1>3. \A i \in 1 .. Len(p) : a[i] = p[i]
  BY <1>1, <1>2 DEF Within
<1> QED BY <1>3, CoversIsPointwise

(* What is in two lists one after the other. *)
LEMMA RangeOfBoth ==
    ASSUME NEW S, NEW l \in Seq(S), NEW r \in Seq(S)
    PROVE  /\ l \o r \in Seq(S) /\ Range(l) \subseteq S
           /\ Range(l \o r) = Range(l) \cup Range(r)
           /\ Len(l \o r) = Len(l) + Len(r)
<1>1. /\ l \o r \in Seq(S) /\ Len(l) \in Nat /\ Len(r) \in Nat
      /\ Len(l \o r) = Len(l) + Len(r)
      /\ DOMAIN l = 1 .. Len(l) /\ DOMAIN r = 1 .. Len(r)
      /\ DOMAIN (l \o r) = 1 .. Len(l) + Len(r)
  OBVIOUS
<1>2. \A i \in 1 .. Len(l) : (l \o r)[i] = l[i] /\ i \in 1 .. Len(l) + Len(r)
  BY <1>1
<1>3. \A i \in 1 .. Len(r) : (l \o r)[Len(l) + i] = r[i] /\ Len(l) + i \in 1 .. Len(l) + Len(r)
  BY <1>1
<1>4. \A i \in 1 .. Len(l) + Len(r) : i \in 1 .. Len(l) \/ i - Len(l) \in 1 .. Len(r)
  BY <1>1
<1>5. \A i \in 1 .. Len(l) + Len(r) :
         (l \o r)[i] \in Range(l) \cup Range(r)
  <2> TAKE i \in 1 .. Len(l) + Len(r)
  <2>1. CASE i \in 1 .. Len(l)
    BY <1>1, <1>2, <2>1 DEF Range
  <2>2. CASE i - Len(l) \in 1 .. Len(r)
    <3>1. Len(l) + (i - Len(l)) = i
      BY <1>1
    <3> QED BY <1>1, <1>3, <2>2, <3>1 DEF Range
  <2> QED BY <1>4, <2>1, <2>2
<1>6. Range(l) \subseteq S
  BY DEF Range
<1>7. \A x \in Range(l) : x \in Range(l \o r)
  BY <1>1, <1>2 DEF Range
<1>8. \A x \in Range(r) : x \in Range(l \o r)
  BY <1>1, <1>3 DEF Range
<1>9. \A x \in Range(l \o r) : x \in Range(l) \cup Range(r)
  BY <1>1, <1>5 DEF Range
<1> QED BY <1>1, <1>6, <1>7, <1>8, <1>9

(* What is in a list of one element, and of none. *)
LEMMA RangeOfOne == \A x : Range(<<x>>) = {x} /\ Range(<< >>) = {}
BY DEF Range

(* No address is under both. *)
Apart(p, q) == \A a \in Address : ~ (Covers(p, a) /\ Covers(q, a))

(* The halves of a path share its addresses out between them. *)
LEMMA HalvesOfPath ==
    ASSUME NEW p \in Path, Len(p) # V6Bits
    PROVE  /\ Append(p, 0) \in Path /\ Append(p, 1) \in Path
           /\ \A a \in Address : Covers(p, a) <=> Covers(Append(p, 0), a) \/ Covers(Append(p, 1), a)
           /\ Apart(Append(p, 0), Append(p, 1))
<1>1. Append(p, 0) \in Path /\ Append(p, 1) \in Path
  BY PathAppend, PathType, WidthIsNat DEF Bit
<1>2. \A a \in Address : a[Len(p) + 1] \in Bit
  <2>1. Len(p) + 1 \in 1 .. V6Bits
    BY PathType, WidthIsNat
  <2> QED BY <2>1 DEF Address
<1>3. \A a \in Address : /\ Covers(Append(p, 0), a) <=> Covers(p, a) /\ a[Len(p) + 1] = 0
                         /\ Covers(Append(p, 1), a) <=> Covers(p, a) /\ a[Len(p) + 1] = 1
  BY CoversHalf DEF Bit
<1> QED BY <1>1, <1>2, <1>3 DEF Apart, Bit

(* The member that a fold over a set takes first. *)
Some(s) == CHOOSE x \in s : TRUE

(* Induction over the subsets of a finite set. *)
LEMMA SubsetInduction ==
    ASSUME NEW S, IsFiniteSet(S), NEW T, {} \in T,
           \A s \in SUBSET S : s # {} /\ s \ {Some(s)} \in T => s \in T
    PROVE  \A s \in SUBSET S : s \in T
<1> DEFINE n == Cardinality(S)
           Done == {m \in 0 .. n : \A s \in SUBSET S : Cardinality(s) <= m => s \in T}
<1>1. n \in Nat
  BY FS_CardinalityType
<1>2. \A s \in SUBSET S : IsFiniteSet(s) /\ Cardinality(s) \in Nat /\ Cardinality(s) <= n
  BY FS_Subset, FS_CardinalityType
<1>3. 0 \in Done
  <2>1. \A s \in SUBSET S : Cardinality(s) <= 0 => s = {}
    BY <1>2, FS_EmptySet
  <2> QED BY <1>1, <2>1
<1>4. ASSUME NEW m \in 1 .. n, m - 1 \in Done PROVE m \in Done
  <2>1. ASSUME NEW s \in SUBSET S, Cardinality(s) <= m PROVE s \in T
    <3>1. CASE s = {}
      BY <3>1
    <3>2. CASE s # {}
      <4>1. Some(s) \in s
        BY <3>2 DEF Some
      <4>2. Cardinality(s \ {Some(s)}) = Cardinality(s) - 1
        BY <1>2, <4>1, FS_RemoveElement
      <4>3. s \ {Some(s)} \in SUBSET S /\ Cardinality(s \ {Some(s)}) <= m - 1
        BY <1>2, <2>1, <4>2
      <4>4. s \ {Some(s)} \in T
        BY <1>4, <4>3
      <4> QED BY <3>2, <4>4
    <3> QED BY <3>1, <3>2
  <2> QED BY <1>1, <2>1
<1> HIDE DEF Done
<1>5. \A m \in 0 .. n : m \in Done
  BY ONLY <1>1, <1>3, <1>4, IntervalInduction
<1>6. n \in Done
  BY <1>1, <1>5
<1> QED BY <1>2, <1>6 DEF Done

(* f folds the steps over every set. *)
FoldsSets(f, sets, base, step) ==
    \A s \in sets : f[s] = IF s = {} THEN base ELSE step[Some(s)][f[s \ {Some(s)}]]

(***************************************************************************)
(* A fold over a finite set has a function that satisfies it.              *)
(***************************************************************************)
LEMMA SetRecursion ==
    ASSUME NEW S, IsFiniteSet(S), NEW V, NEW base \in V, NEW step \in [S -> [V -> V]]
    PROVE  \E f \in [SUBSET S -> V] : FoldsSets(f, SUBSET S, base, step)
<1> DEFINE n == Cardinality(S)
           Small(m) == {s \in SUBSET S : Cardinality(s) <= m}
           Done == {m \in 0 .. n : \E f \in [Small(m) -> V] : FoldsSets(f, Small(m), base, step)}
<1>1. n \in Nat
  BY FS_CardinalityType
<1>2. \A s \in SUBSET S : IsFiniteSet(s) /\ Cardinality(s) \in Nat /\ Cardinality(s) <= n
  BY FS_Subset, FS_CardinalityType
<1>3. 0 \in Done
  <2> DEFINE f == [s \in Small(0) |-> base]
  <2>1. \A s \in Small(0) : s = {}
    BY <1>2, FS_EmptySet
  <2>2. FoldsSets(f, Small(0), base, step) /\ f \in [Small(0) -> V]
    BY <2>1 DEF FoldsSets
  <2> HIDE DEF f, Small
  <2> QED BY <1>1, <2>2
<1>4. ASSUME NEW m \in 1 .. n, m - 1 \in Done PROVE m \in Done
  <2>1. PICK old \in [Small(m - 1) -> V] : FoldsSets(old, Small(m - 1), base, step)
    BY <1>4
  <2> DEFINE Step(s) == IF s = {} THEN base ELSE step[Some(s)][old[s \ {Some(s)}]]
             new == [s \in Small(m) |-> Step(s)]
  <2>2. Small(m - 1) \subseteq Small(m) /\ \A s \in Small(m) : s \in SUBSET S
    BY <1>2
  <2>3. ASSUME NEW s \in Small(m), s # {}
        PROVE  Some(s) \in S /\ s \ {Some(s)} \in Small(m - 1)
    <3>1. Some(s) \in s
      BY <2>3 DEF Some
    <3>2. Cardinality(s \ {Some(s)}) = Cardinality(s) - 1
      BY <1>2, <3>1, FS_RemoveElement
    <3> QED BY <1>2, <3>1, <3>2
  <2> HIDE DEF Small
  <2>4. \A s \in Small(m - 1) : new[s] = old[s]
    BY <2>1, <2>2 DEF FoldsSets
  <2>5. ASSUME NEW s \in Small(m) PROVE new[s] \in V
    <3>1. CASE s = {}
      BY <3>1
    <3>2. CASE s # {}
      <4>1. Some(s) \in S /\ old[s \ {Some(s)}] \in V
        BY <2>1, <2>3, <3>2
      <4>2. step[Some(s)][old[s \ {Some(s)}]] \in V
        BY <4>1
      <4> QED BY <3>2, <4>2
    <3> QED BY <3>1, <3>2
  <2>6. new \in [Small(m) -> V] /\ \A s \in Small(m) : new[s] = Step(s)
    BY <2>5
  <2> HIDE DEF new
  <2>7. FoldsSets(new, Small(m), base, step)
    BY <2>3, <2>4, <2>6 DEF FoldsSets
  <2> QED BY <2>6, <2>7
<1> HIDE DEF Done
<1>5. \A m \in 0 .. n : m \in Done
  BY ONLY <1>1, <1>3, <1>4, IntervalInduction
<1>6. n \in Done
  BY <1>1, <1>5
<1>7. Small(n) = SUBSET S
  BY <1>2
<1> HIDE DEF Small
<1> QED BY <1>6, <1>7 DEF Done

(* The least of some numbers. *)
LEMMA MinOfSome ==
    ASSUME NEW s \in SUBSET Nat, s # {}
    PROVE  Min(s) \in s /\ \A y \in s : Min(s) <= y
<1>1. PICK x \in s : \A y \in s : x <= y
  BY LeastElement
<1>2. \E y \in s : \A z \in s : y <= z
  BY <1>1
<1> QED BY <1>2 DEF Min

---------------------------------------------------------------------------
(* What a list of entries tells of an address. *)

(* The entries over an address. *)
Over(entries, a) == {e \in Range(entries) : Covers(e[1], a)}

(***************************************************************************)
(* The entries give an address that had bg the ASN: whichever of the       *)
(* longest over it is taken.                                               *)
(***************************************************************************)
Tells(entries, a, bg, asn) ==
    IF Over(entries, a) = {} THEN asn = bg
    ELSE \A e \in Over(entries, a) :
            (\A d \in Over(entries, a) : Len(d[1]) <= Len(e[1])) => e[2] = asn

(***************************************************************************)
(* Of some entries of a list there is one that is applied last.            *)
(***************************************************************************)
LEMMA WinnerExists ==
    ASSUME NEW entries \in Seq(Path \X Nat), NEW over \in SUBSET DOMAIN entries, over # {}
    PROVE  \E i \in over : \A j \in over :
              \/ Len(entries[j][1]) < Len(entries[i][1])
              \/ Len(entries[j][1]) = Len(entries[i][1]) /\ j <= i
<1>1. \A i \in DOMAIN entries : Len(entries[i][1]) \in Nat /\ Len(entries[i][1]) <= V6Bits /\ i \in Nat
  BY EntryType
<1> DEFINE gaps == {V6Bits - Len(entries[i][1]) : i \in over}
<1>2. gaps \in SUBSET Nat /\ gaps # {}
  <2>1. \A i \in over : V6Bits - Len(entries[i][1]) \in Nat
    BY <1>1, WidthIsNat
  <2> QED BY <2>1
<1>3. PICK g \in gaps : \A h \in gaps : g <= h
  BY <1>2, LeastElement
<1> DEFINE longest == {i \in over : V6Bits - Len(entries[i][1]) = g}
<1>4. longest # {} /\ longest \in SUBSET (1 .. Len(entries)) /\ Len(entries) \in Nat
  BY <1>3
<1>5. Max(longest) \in longest /\ \A j \in longest : Max(longest) >= j
  <2> HIDE DEF longest
  <2> QED BY <1>4, MaxOfSome
<1> DEFINE m == Max(longest)
<1> HIDE DEF m
<1>6. m \in over /\ V6Bits - Len(entries[m][1]) = g /\ \A j \in longest : m >= j
  BY <1>5 DEF m
<1>7. ASSUME NEW j \in over
      PROVE  \/ Len(entries[j][1]) < Len(entries[m][1])
             \/ Len(entries[j][1]) = Len(entries[m][1]) /\ j <= m
  <2>1. g <= V6Bits - Len(entries[j][1])
    BY <1>3
  <2>2. V6Bits - Len(entries[j][1]) = g => j \in longest
    OBVIOUS
  <2>3. j \in Nat /\ m \in Nat /\ Len(entries[j][1]) \in Nat /\ Len(entries[m][1]) \in Nat
    BY <1>1, <1>6
  <2> HIDE DEF longest, gaps
  <2>4. V6Bits - Len(entries[j][1]) = g => j <= m
    BY <1>6, <2>2, <2>3
  <2> DEFINE lj == Len(entries[j][1])
             lm == Len(entries[m][1])
  <2>5. /\ lj \in Nat /\ lm \in Nat /\ V6Bits \in Nat
        /\ V6Bits - lm = g /\ g <= V6Bits - lj /\ (V6Bits - lj = g => j <= m)
    BY <1>6, <2>1, <2>3, <2>4, WidthIsNat
  <2> HIDE DEF lj, lm
  <2>6. lj < lm \/ (lj = lm /\ j <= m)
    BY ONLY <2>5
  <2> QED BY <2>6 DEF lj, lm
<1> QED BY <1>6, <1>7

(* What entries tell of an address is what they assign to it. *)
LEMMA TellsIsAssigned ==
    ASSUME NEW entries \in Seq(Path \X Nat), NEW g, NEW a \in Address, NEW asn,
           Tells(entries, a, g[a], asn)
    PROVE  AssignedBy(entries, g, a) = asn
<1> DEFINE over == {i \in DOMAIN entries : Covers(entries[i][1], a)}
           Wins(i) == \A j \in over : \/ Len(entries[j][1]) < Len(entries[i][1])
                                      \/ Len(entries[j][1]) = Len(entries[i][1]) /\ j <= i
           winner == CHOOSE i \in over : Wins(i)
<1>1. Over(entries, a) = {entries[i] : i \in over}
  BY DEF Over, Range
<1>2. CASE over = {}
  <2>1. Over(entries, a) = {}
    BY <1>1, <1>2
  <2> QED BY <1>2, <2>1 DEF Tells, AssignedBy
<1>3. CASE over # {}
  <2>1. \E i \in over : Wins(i)
    BY <1>3, WinnerExists
  <2>2. winner \in over /\ Wins(winner)
    BY <2>1
  <2>3. AssignedBy(entries, g, a) = entries[winner][2]
    BY <1>3 DEF AssignedBy
  <2>4. \A i \in DOMAIN entries : Len(entries[i][1]) \in Nat
    BY EntryType
  <2> HIDE DEF winner
  <2>5. ASSUME NEW d \in Over(entries, a) PROVE Len(d[1]) <= Len(entries[winner][1])
    <3>1. PICK j \in over : d = entries[j]
      BY <1>1
    <3>2. Len(entries[j][1]) \in Nat /\ Len(entries[winner][1]) \in Nat
      BY <2>2, <2>4
    <3>3. Len(entries[j][1]) < Len(entries[winner][1]) \/ Len(entries[j][1]) = Len(entries[winner][1])
      BY <2>2
    <3> QED BY <3>1, <3>2, <3>3
  <2>6. entries[winner] \in Over(entries, a) /\ Over(entries, a) # {}
    BY <1>1, <2>2
  <2> QED BY <2>3, <2>5, <2>6 DEF Tells
<1> QED BY <1>2, <1>3

(* The map of which every address is unassigned. *)
LEMMA EmptyIsTrie == EmptyMap = TrieOf([a \in Address |-> 0])
<1> DEFINE f == [a \in Address |-> 0]
<1>1. Below(f)[<< >>] = Leaf(0)
  BY EmptyPath, UniformIsLeaf
<1> QED BY <1>1, TrieIsBelow DEF EmptyMap

(***************************************************************************)
(* update_multi with entries that give every address of a map an ASN.      *)
(***************************************************************************)
LEMMA UpdateTells ==
    ASSUME NEW g \in [Address -> Nat], NEW h \in [Address -> Nat], NEW entries \in Seq(Path \X Nat),
           \A a \in Address : Tells(entries, a, g[a], h[a])
    PROVE  UpdateMulti(TrieOf(g), entries) = TrieOf(h)
<1>1. UpdateMulti(TrieOf(g), entries) = TrieOf(After(g, entries, DOMAIN entries))
  BY UpdateMultiIsCanonical
<1>2. \A a \in Address : AssignedAmong(entries, DOMAIN entries, g, a) = AssignedBy(entries, g, a)
  BY DEF AssignedAmong, AssignedBy, LastOf
<1>3. \A a \in Address : AssignedBy(entries, g, a) = h[a]
  BY TellsIsAssigned
<1>4. After(g, entries, DOMAIN entries) = h
  BY <1>2, <1>3 DEF After
<1> QED BY <1>1, <1>4

(* The same for one address, of which the entries tell something. *)
LEMMA LookupAfterUpdate ==
    ASSUME NEW g \in [Address -> Nat], NEW entries \in Seq(Path \X Nat), NEW a \in Address, NEW asn,
           Tells(entries, a, g[a], asn)
    PROVE  Lookup(UpdateMulti(TrieOf(g), entries), a) = asn
<1>1. UpdateMulti(TrieOf(g), entries) = TrieOf(After(g, entries, DOMAIN entries))
  BY UpdateMultiIsCanonical
<1>2. AssignedAmong(entries, DOMAIN entries, g, a) = AssignedBy(entries, g, a)
  BY DEF AssignedAmong, AssignedBy, LastOf
<1>3. After(g, entries, DOMAIN entries)[a] = asn
  BY <1>2, TellsIsAssigned DEF After
<1> QED BY <1>1, <1>3, LookupOfTrie

(* Assigning entries leaves the ASNs numbers. *)
LEMMA AssignedIsNat ==
    ASSUME NEW f \in [Address -> Nat], NEW entries \in Seq(Path \X Nat)
    PROVE  [a \in Address |-> AssignedBy(entries, f, a)] \in [Address -> Nat]
<1> SUFFICES ASSUME NEW a \in Address
             PROVE  AssignedBy(entries, f, a) \in Nat
  OBVIOUS
<1> DEFINE over == {i \in DOMAIN entries : Covers(entries[i][1], a)}
           Wins(i) == \A j \in over : \/ Len(entries[j][1]) < Len(entries[i][1])
                                      \/ Len(entries[j][1]) = Len(entries[i][1]) /\ j <= i
<1>1. CASE over = {}
  BY <1>1 DEF AssignedBy
<1>2. CASE over # {}
  <2>1. \E i \in over : Wins(i)
    BY <1>2, WinnerExists
  <2>2. (CHOOSE i \in over : Wins(i)) \in DOMAIN entries
    BY <2>1
  <2>3. AssignedBy(entries, f, a) = entries[CHOOSE i \in over : Wins(i)][2]
    BY <1>2 DEF AssignedBy
  <2> HIDE DEF over, Wins
  <2> QED BY <2>2, <2>3, EntryType
<1> QED BY <1>1, <1>2

=============================================================================
